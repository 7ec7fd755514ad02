------------------------------ MODULE PluginHost ------------------------------
(***************************************************************************)
(* The dynamic-secret broker: a plugin process that issues, renews and     *)
(* revokes secrets, and the durable service that records every invocation  *)
(* before the plugin is entered and every lease before its secret is       *)
(* returned.  One call runs at a time; the plugin process runs beside it   *)
(* and outlives a host that is killed.                                     *)
(*                                                                         *)
(* A secret is the generation it was produced for.  Owner, scope and       *)
(* request bytes never change along a lease and are left out.              *)
(*                                                                         *)
(* External: the plugin (what it did is `effects'), the operator's         *)
(* readback of it, and the durable service, whose put and delete commit,   *)
(* are refused, or end unknown and fence it until it is reopened.          *)
(***************************************************************************)
EXTENDS Integers, FiniteSets

CONSTANTS None,           \* model value: no intent, call, process or previous lease
          LeaseIds,
          Operations,     \* what the manifest declares: issue and revoke at least
          Ttls,
          Reuse,          \* whether callers may send a request id again
          MaxTime, MaxCalls, MaxGeneration \* bounds

VARIABLES installed,      \* whether the installed executables have the enrolled digests
          now,
          host,           \* PluginHostState, or "down" when the process is not running
          leases,         \* the broker's leases
          pending,        \* the intent of the outstanding invocation
          call,           \* the call in progress and the step it is at
          process,        \* the plugin process
          disk,           \* [leases, intents, requests] of the durable service
          store,          \* "open" or "fenced"
          calls,          \* number of request ids used
          effects,        \* what the plugin has done: set of <<lease, operation, generation>>
          released        \* [LeaseIds -> generation of the last secret returned, or 0]

pluginVars == <<installed, now, host, leases, pending, call, process, disk, store, calls, effects, released>>

Put(f, k, v) == [x \in DOMAIN f \cup {k} |-> IF x = k THEN v ELSE f[x]]
Drop(f, k) == [x \in DOMAIN f \ {k} |-> f[x]]
NoMap == [x \in {} |-> x]

------------------------------------------------------------------------------
(* The durable service as the broker uses it *)

\* storage_request_id: the lease is not part of it.
StorageRequestId(context, phase, intent) == <<context, phase, intent.operation, intent.generation>>

\* One put or delete.  A request seen before is a duplicate when it asks for the
\* same, and a conflict when it does not; neither changes anything.
Mutations(request, fingerprint, changed) ==
    LET asis == [ok |-> FALSE, disk |-> disk, store |-> store]
        committed == [changed EXCEPT !.requests = @ \cup {<<request, fingerprint>>}]
    IN IF store = "fenced" THEN {asis}
       ELSE IF \E r \in disk.requests : r[1] = request
            THEN {[asis EXCEPT !.ok = <<request, fingerprint>> \in disk.requests]}
            ELSE {asis, [ok |-> TRUE, disk |-> committed, store |-> "open"]}
                 \cup {[ok |-> FALSE, disk |-> d, store |-> "fenced"] : d \in {disk, committed}}

StateTag == [active |-> 1, revoked |-> 2, expired |-> 3, reconcile |-> 4]
OperationTag == [read |-> 1, write |-> 2, issue |-> 3, renew |-> 4, revoke |-> 5]
TagOf(tags, n) == CHOOSE name \in DOMAIN tags : tags[name] = n

\* The records as they are stored; a missing previous lease is the empty string.
EncodeLease(v) ==
    <<"HBDL", StateTag[v.state], v.issued, v.expires, v.renewable, v.generation, v.digest>>
DecodeLease(b) ==
    [state |-> TagOf(StateTag, b[2]), issued |-> b[3], expires |-> b[4], renewable |-> b[5],
     generation |-> b[6], digest |-> b[7]]
EncodeIntent(i) ==
    <<"HBDI", i.lease, OperationTag[i.operation], i.generation, i.issued, i.expires, i.renewable,
      IF i.previous = None THEN <<>> ELSE EncodeLease(i.previous)>>
DecodeIntent(b) ==
    [lease |-> b[2], operation |-> TagOf(OperationTag, b[3]), generation |-> b[4], issued |-> b[5],
     expires |-> b[6], renewable |-> b[7], previous |-> IF b[8] = <<>> THEN None ELSE DecodeLease(b[8])]

StoredLease(l) == DecodeLease(disk.leases[l])
StoredIntent(l) == DecodeIntent(disk.intents[l])

PublishIntent(context, intent) ==
    Mutations(StorageRequestId(context, "intent", intent), <<"put intent", intent.lease, EncodeIntent(intent)>>,
              [disk EXCEPT !.intents = Put(@, intent.lease, EncodeIntent(intent))])
PublishLease(context, view, intent) ==
    Mutations(StorageRequestId(context, "lease", intent), <<"put lease", intent.lease, EncodeLease(view)>>,
              [disk EXCEPT !.leases = Put(@, intent.lease, EncodeLease(view))])
DeleteLease(context, intent) ==
    Mutations(StorageRequestId(context, "drop-lease", intent), <<"delete lease", intent.lease>>,
              [disk EXCEPT !.leases = Drop(@, intent.lease)])
ClearIntent(context, intent) ==
    Mutations(StorageRequestId(context, "clear", intent), <<"delete intent", intent.lease>>,
              [disk EXCEPT !.intents = Drop(@, intent.lease)])

\* validate_lease_view, and what decode_intent requires.
LeaseDecodes(view) == view.generation > 0 /\ view.digest > 0 /\ view.expires > view.issued
IntentDecodes(i) ==
    /\ i.operation \in {"issue", "renew", "revoke"} /\ i.generation > 0 /\ i.expires > i.issued
    /\ (i.operation = "issue") = (i.previous = None)
    /\ i.previous # None => /\ LeaseDecodes(i.previous)
                            /\ i.previous.issued = i.issued /\ i.previous.renewable = i.renewable
                            /\ i.previous.generation + 1 = i.generation
Reopenable ==
    /\ \A l \in DOMAIN disk.leases : LeaseDecodes(StoredLease(l)) /\ StoredLease(l).state # "reconcile"
    /\ Cardinality(DOMAIN disk.intents) <= 1
    /\ \A l \in DOMAIN disk.intents : StoredIntent(l).lease = l /\ IntentDecodes(StoredIntent(l))

------------------------------------------------------------------------------
(* Calls *)

EnsureReady == pending = None /\ host = "active"

\* view: an active lease past its time turns expired, in memory only.
Viewed(l) ==
    IF leases[l].state = "active" /\ now >= leases[l].expires
    THEN [leases[l] EXCEPT !.state = "expired", !.generation = @ + 1] ELSE leases[l]

View(l) ==
    /\ host # "down" /\ call = None /\ l \in DOMAIN leases
    /\ Viewed(l).generation <= MaxGeneration
    /\ leases' = [leases EXCEPT ![l] = Viewed(l)]
    /\ UNCHANGED <<installed, now, host, pending, call, process, disk, store, calls, effects, released>>

Intent(l, op, previous, expires, issued, renewable) ==
    [lease |-> l, operation |-> op, previous |-> previous, issued |-> issued, expires |-> expires,
     renewable |-> renewable, generation |-> IF previous = None THEN 1 ELSE previous.generation + 1]

\* The intent is durable before the call goes on; a put that failed ends the call.
\* `allowed' is whether the request and its environment pass the manifest's checks.
Publish(context, intent, seen, allowed) ==
    \E o \in PublishIntent(context, intent) :
        /\ disk' = o.disk /\ store' = o.store
        /\ pending' = IF o.ok THEN intent ELSE pending
        /\ call' = IF o.ok THEN [at |-> "invoke", context |-> context, intent |-> intent, allowed |-> allowed,
                                 resolved |-> None]
                   ELSE None
        /\ leases' = seen
        /\ calls' = IF context > calls THEN context ELSE calls
        /\ UNCHANGED <<installed, now, host, process, effects, released>>

Contexts == IF Reuse THEN 1..(calls + 1) \cap 1..MaxCalls ELSE {calls + 1} \cap 1..MaxCalls

Issue(l) ==
    /\ call = None /\ EnsureReady /\ l \notin DOMAIN leases
    /\ \E context \in Contexts, ttl \in Ttls, renewable, allowed \in BOOLEAN :
           Publish(context, Intent(l, "issue", None, now + ttl, now, renewable), leases, allowed)

\* A lease that cannot be renewed is refused by the broker before anything is written.
Renew(l) ==
    /\ call = None /\ EnsureReady /\ l \in DOMAIN leases
    /\ LET previous == Viewed(l) IN
       /\ previous.state = "active" /\ previous.renewable /\ previous.generation < MaxGeneration
       /\ \E context \in Contexts, ttl \in Ttls, allowed \in BOOLEAN :
              Publish(context, Intent(l, "renew", previous, now + ttl, previous.issued, TRUE),
                      [leases EXCEPT ![l] = previous], allowed)

Revoke(l) ==
    /\ call = None /\ EnsureReady /\ l \in DOMAIN leases
    /\ leases[l].state = "active" /\ leases[l].generation < MaxGeneration
    /\ \E context \in Contexts, allowed \in BOOLEAN :
           Publish(context, Intent(l, "revoke", leases[l], leases[l].expires, leases[l].issued,
                                   leases[l].renewable), leases, allowed)

------------------------------------------------------------------------------
(* The plugin process *)

\* The manifest and the environment of the request.
Permitted(c) == c.allowed /\ c.intent.operation \in Operations

\* Executables::open: both files are read once, compared with their enrolled digests and sealed.
ExecutablesOpen == installed

\* encode_request under the manifest's bound: the frame the process is given.
Spawned(intent) == [of |-> intent, written |-> FALSE, output |-> "none", exit |-> "no"]

\* PluginHost::invoke: refused by the manifest, failed before the process exists, or
\* entered.  A refusal leaves the intent outstanding and the host active.
Invoke ==
    /\ call # None /\ call.at = "invoke"
    /\ \/ /\ ~Permitted(call)
          /\ call' = None /\ UNCHANGED process
       \/ /\ Permitted(call)
          /\ call' = [call EXCEPT !.at = "before-entry"] /\ UNCHANGED process
       \/ /\ Permitted(call) /\ ExecutablesOpen
          /\ process' = Spawned(call.intent)
          /\ call' = [call EXCEPT !.at = "poll"]
    /\ UNCHANGED <<installed, now, host, leases, pending, disk, store, calls, effects, released>>

Done(p) == <<p.of.lease, p.of.operation, p.of.generation>> \in effects

PluginActs ==
    /\ process # None /\ process.written /\ ~Done(process) /\ process.exit = "no"
    /\ effects' = effects \cup {<<process.of.lease, process.of.operation, process.of.generation>>}
    /\ UNCHANGED <<installed, now, host, leases, pending, call, process, disk, store, calls, released>>

\* A well-formed answer means the operation was done.
PluginAnswers ==
    /\ process # None /\ process.output = "none" /\ process.exit = "no"
    /\ \E o \in {"good", "malformed"} :
           (o = "good" => Done(process)) /\ process' = [process EXCEPT !.output = o]
    /\ UNCHANGED <<installed, now, host, leases, pending, call, disk, store, calls, effects, released>>

PluginExits ==
    /\ process # None /\ process.exit = "no"
    /\ \E e \in {"zero", "failed"} : process' = [process EXCEPT !.exit = e]
    /\ UNCHANGED <<installed, now, host, leases, pending, call, disk, store, calls, effects, released>>

\* A host that was killed leaves its plugin running until it ends by itself.
OrphanEnds ==
    /\ process # None /\ call = None
    /\ process' = None
    /\ UNCHANGED <<installed, now, host, leases, pending, call, disk, store, calls, effects, released>>

\* fence: the host and the lease wait for reconciliation.
Fenced(l) == IF l \in DOMAIN leases THEN [leases EXCEPT ![l].state = "reconcile"] ELSE leases

\* What the lease becomes when the plugin answered.
Issued(intent) ==
    [state |-> "active", issued |-> intent.issued, expires |-> intent.expires,
     renewable |-> intent.renewable, generation |-> 1, digest |-> 1]
Renewed(intent) ==
    [intent.previous EXCEPT !.expires = intent.expires, !.generation = intent.generation,
                            !.digest = intent.generation]
Withdrawn(intent) == [intent.previous EXCEPT !.state = "revoked", !.generation = intent.generation]
Answered(intent) ==
    CASE intent.operation = "issue" -> Issued(intent)
      [] intent.operation = "renew" -> Renewed(intent)
      [] OTHER -> Withdrawn(intent)

\* Mutant: a process that did not answer is taken for one that was never entered.
OutcomeUnknownForgotten ==
    /\ call' = [call EXCEPT !.at = "before-entry"]
    /\ UNCHANGED <<host, leases>>

OutcomeUnknown ==
    /\ call' = None
    /\ host' = "reconcile"
    /\ leases' = Fenced(call.intent.lease)

\* decode_response: a complete frame within the bound.
DecodesResponse == process.output = "good"

\* One turn of the loop: the deadline, the request, the output, the exit status.
\* Dropping the guard kills the process when the loop is left.
Poll ==
    /\ call # None /\ call.at = "poll"
    /\ \/ OutcomeUnknown /\ process' = None
       \/ /\ ~process.written /\ process.exit = "no"
          /\ process' = [process EXCEPT !.written = TRUE]
          /\ UNCHANGED <<call, host, leases>>
       \/ /\ process.written /\ process.exit = "zero" /\ DecodesResponse
          /\ leases' = Put(leases, call.intent.lease, Answered(call.intent))
          /\ call' = [call EXCEPT !.at = "publish"]
          /\ process' = None /\ UNCHANGED host
    /\ UNCHANGED <<installed, now, pending, disk, store, calls, effects, released>>

------------------------------------------------------------------------------
(* The end of a call *)

PublishAnswer ==
    /\ call # None /\ call.at = "publish"
    /\ \E o \in PublishLease(call.context, Answered(call.intent), call.intent) :
           /\ disk' = o.disk /\ store' = o.store
           /\ call' = IF o.ok THEN [call EXCEPT !.at = "clear"] ELSE None
           /\ host' = IF o.ok THEN host ELSE "reconcile"
           /\ leases' = IF o.ok THEN leases ELSE Fenced(call.intent.lease)
    /\ UNCHANGED <<installed, now, pending, process, calls, effects, released>>

\* The secret is returned once the intent is gone.
ClearAnswered ==
    /\ call # None /\ call.at = "clear"
    /\ \E o \in ClearIntent(call.context, call.intent) :
           /\ disk' = o.disk /\ store' = o.store /\ call' = None
           /\ pending' = IF o.ok THEN None ELSE pending
           /\ host' = IF o.ok THEN host ELSE "reconcile"
           /\ leases' = IF o.ok THEN leases ELSE Fenced(call.intent.lease)
           /\ released' = IF o.ok THEN [released EXCEPT ![call.intent.lease] = call.intent.generation]
                          ELSE released
    /\ UNCHANGED <<installed, now, process, calls, effects>>

ClearAfterBeforeEntry ==
    /\ call # None /\ call.at = "before-entry"
    /\ \E o \in ClearIntent(call.context, call.intent) :
           /\ disk' = o.disk /\ store' = o.store /\ call' = None
           /\ pending' = IF o.ok THEN None ELSE pending
           /\ host' = IF o.ok THEN host ELSE "reconcile"
           /\ leases' = IF o.ok THEN leases ELSE Fenced(call.intent.lease)
    /\ UNCHANGED <<installed, now, process, calls, effects, released>>

------------------------------------------------------------------------------
(* Reconciliation and restart *)

\* validate_completed_resolution.
ValidCompletion(intent, lease) ==
    /\ lease.issued = intent.issued /\ lease.expires = intent.expires
    /\ lease.renewable = intent.renewable /\ lease.generation = intent.generation
    /\ intent.operation \in {"issue", "renew"} => lease.state = "active"
    /\ intent.operation = "revoke" =>
           lease.state = "revoked" /\ intent.previous # None /\ lease.digest = intent.previous.digest

\* What an operator may hand in as the completed lease, the right one among it.
Completions(intent) ==
    {[Answered(intent) EXCEPT !.state = s, !.generation = g] :
        s \in {"active", "revoked"}, g \in {intent.generation - 1, intent.generation}}

\* The readback is authoritative: the process is gone, and completion is claimed only
\* of what was done.
Reconcile ==
    /\ host # "down" /\ call = None /\ pending # None /\ process = None /\ ExecutablesOpen
    /\ \E context \in Contexts :
       \E resolved \in IF <<pending.lease, pending.operation, pending.generation>> \in effects
                       THEN {l \in Completions(pending) : ValidCompletion(pending, l)}
                       ELSE {pending.previous} :
       \E o \in IF resolved = None THEN DeleteLease(context, pending)
                ELSE PublishLease(context, resolved, pending) :
           /\ disk' = o.disk /\ store' = o.store
           /\ call' = IF o.ok THEN [at |-> "resolve", context |-> context, intent |-> pending,
                                    allowed |-> TRUE, resolved |-> resolved]
                      ELSE None
           /\ calls' = IF context > calls THEN context ELSE calls
    /\ UNCHANGED <<installed, now, host, leases, pending, process, effects, released>>

\* Activation comes after both writes.
Resolve ==
    /\ call # None /\ call.at = "resolve"
    /\ \E o \in ClearIntent(call.context, call.intent) :
           /\ disk' = o.disk /\ store' = o.store /\ call' = None
           /\ IF o.ok
              THEN /\ pending' = None /\ host' = "active"
                   /\ leases' = IF call.resolved = None THEN Drop(leases, call.intent.lease)
                                ELSE Put(leases, call.intent.lease, call.resolved)
              ELSE UNCHANGED <<pending, host, leases>>
    /\ UNCHANGED <<installed, now, process, calls, effects, released>>

Crash ==
    /\ host # "down"
    /\ host' = "down" /\ leases' = NoMap /\ pending' = None /\ call' = None
    /\ UNCHANGED <<installed, now, process, disk, store, calls, effects, released>>

\* reopen, behind an admission of the executables; an intent found fences the host and its lease.
Reopen ==
    /\ host = "down" /\ ExecutablesOpen /\ Reopenable
    /\ store' = "open"
    /\ pending' = IF disk.intents = NoMap THEN None
                  ELSE StoredIntent(CHOOSE l \in DOMAIN disk.intents : TRUE)
    /\ host' = IF pending' = None THEN "active" ELSE "reconcile"
    /\ leases' = [l \in DOMAIN disk.leases |->
                      IF l \in DOMAIN disk.intents THEN [StoredLease(l) EXCEPT !.state = "reconcile"]
                      ELSE StoredLease(l)]
    /\ UNCHANGED <<installed, now, call, process, disk, calls, effects, released>>

Tick ==
    /\ now < MaxTime /\ call = None
    /\ now' = now + 1
    /\ UNCHANGED <<installed, host, leases, pending, call, process, disk, store, calls, effects, released>>

\* An administrator replaces an executable, or puts the enrolled one back.
Reinstall ==
    /\ call = None
    /\ installed' = ~installed
    /\ UNCHANGED <<now, host, leases, pending, call, process, disk, store, calls, effects, released>>

PluginInit ==
    /\ installed = TRUE /\ now = 0 /\ host = "active" /\ leases = NoMap /\ pending = None
    /\ call = None /\ process = None /\ store = "open" /\ calls = 0 /\ effects = {}
    /\ disk = [leases |-> NoMap, intents |-> NoMap, requests |-> {}]
    /\ released = [l \in LeaseIds |-> 0]

PluginNext ==
    \/ \E l \in LeaseIds : View(l) \/ Issue(l) \/ Renew(l) \/ Revoke(l)
    \/ Invoke \/ PluginActs \/ PluginAnswers \/ PluginExits \/ OrphanEnds \/ Poll
    \/ PublishAnswer \/ ClearAnswered \/ ClearAfterBeforeEntry
    \/ Reconcile \/ Resolve \/ Crash \/ Reopen \/ Tick \/ Reinstall

PluginSpec == PluginInit /\ [][PluginNext]_pluginVars

------------------------------------------------------------------------------
(* Properties *)

\* What the plugin did is never forgotten: whatever was killed or failed in between, it is
\* in a durable lease or still has its durable intent, and a secret that was returned has a
\* durable lease of its generation or a later one.
EffectsAccounted ==
    /\ \A e \in effects :
          \/ e[1] \in DOMAIN disk.leases /\ StoredLease(e[1]).generation >= e[3]
          \/ e[1] \in DOMAIN disk.intents /\ StoredIntent(e[1]).operation = e[2]
                                          /\ StoredIntent(e[1]).generation = e[3]
    /\ \A l \in LeaseIds : released[l] > 0 =>
          l \in DOMAIN disk.leases /\ StoredLease(l).generation >= released[l]

\* The broker can always be reopened, and one that is open and idle agrees with its store:
\* nothing is outstanding that it does not know of, and its leases are the stored ones but
\* for expiry.
BrokerAgrees ==
    /\ Reopenable
    /\ (host = "active" /\ pending = None /\ call = None /\ store = "open") =>
          /\ disk.intents = NoMap
          /\ DOMAIN leases = DOMAIN disk.leases
          /\ \A l \in DOMAIN leases : leases[l] = StoredLease(l) \/ leases[l].state = "expired"

\* A plugin is not entered before its intent is durable.
EnteredBehindIntent ==
    \A e \in effects : (process # None /\ <<process.of.lease, process.of.operation, process.of.generation>> = e)
        => e[1] \in DOMAIN disk.intents
==============================================================================
