------------------------------- MODULE Contracts -------------------------------
(***************************************************************************)
(* The contract crates: small state machines that agents, HA code, backup  *)
(* jobs, plugin and key catalogues, assertion verifiers, Raft adapters and *)
(* the compatibility matrix are built on.  They do not interact; a         *)
(* behaviour exercises one of them, chosen at the start.                   *)
(*                                                                         *)
(* External: the server that an agent authenticates to (its live tokens    *)
(* are `live'), the operator who reconciles an agent, the signers of       *)
(* assertions, and time.                                                   *)
(***************************************************************************)
EXTENDS Integers, Sequences, FiniteSets, FiniteSetsExt, Functions

CONSTANTS Nobody,                 \* model value: no leader, time, reference or receipt
          Contract,               \* the contracts exercised
          Nodes, Local,           \* cluster members, and the node that holds the HaState
          Assertions,             \* [issuer, nonce, issued, expires]
          ReplayCapacity, Skew, MaxTtl,
          Surfaces, Minimum,      \* surfaces of the catalog and their minimum observations
          InitialBackoff, MaximumBackoff,
          MaxTick, MaxSteps       \* bounds

VARIABLES contract, tick, steps,
          session, live,          \* AgentSession, and the expiries of the server's live tokens
          writer, fences,         \* HaState, and every fence granted
          backup, source,         \* BackupCoordinator, and what its caller last said
          plugin, revoked,        \* PluginDescriptor, and whether it was ever revoked
          kmsKey, retired,        \* KeyRecord, and whether its destruction was ever scheduled
          observed, verified,     \* the replay cache, and the assertions verified, in order
          cursor, applied,        \* ApplyCursor, and the positions taken in, in order
          matrix, claims          \* the observations, and the observations of each claim admitted

replayVars == <<observed, verified>>
contractVars == <<contract, tick, steps, session, live, writer, fences, backup, source, plugin, revoked,
                  kmsKey, retired, observed, verified, cursor, applied, matrix, claims>>

Least(a, b) == IF a < b THEN a ELSE b

------------------------------------------------------------------------------
(* AgentSession.  An attempt that fails before entry issues nothing; one whose *)
(* outcome is unknown may have issued, renewed or revoked.                     *)

Unexpired == {t \in live : t > tick}

Start ==
    /\ session.state = "Stopped"
    /\ session' = [session EXCEPT !.state = "Authenticating"] /\ UNCHANGED live

Activated(ttl) ==
    [session EXCEPT !.state = "Authenticated", !.attempts = 0, !.retryAt = Nobody, !.deadline = tick + ttl,
                    !.generation = @ + 1, !.reference = FALSE]

AuthenticationSucceeded(ttl) ==
    /\ session.state = "Authenticating"
    /\ session' = Activated(ttl) /\ live' = live \cup {tick + ttl}

AuthenticationFailedBeforeEntry ==
    LET attempts == session.attempts + 1
        delay == Least(InitialBackoff * 2^(attempts - 1), MaximumBackoff)
    IN /\ session.state = "Authenticating"
       /\ session' = [session EXCEPT !.state = "Backoff", !.attempts = attempts, !.retryAt = tick + delay]
       /\ UNCHANGED live

RetryAuthentication ==
    /\ session.state = "Backoff" /\ session.retryAt # Nobody /\ tick >= session.retryAt
    /\ session' = [session EXCEPT !.state = "Authenticating", !.retryAt = Nobody] /\ UNCHANGED live

BeginRenewal ==
    /\ session.state = "Authenticated" /\ session.deadline # Nobody
    /\ session' = [session EXCEPT !.state = IF tick >= session.deadline THEN "FailedClosed" ELSE "Renewing"]
    /\ UNCHANGED live

RenewalSucceeded(ttl) ==
    /\ session.state = "Renewing" /\ Unexpired # {}
    /\ session' = Activated(ttl) /\ live' = {tick + ttl}

BeginRevocation ==
    /\ session.state = "Authenticated"
    /\ session' = [session EXCEPT !.state = "Revoking"] /\ UNCHANGED live

RevocationSucceeded ==
    /\ session.state = "Revoking"
    /\ session' = [session EXCEPT !.state = "Stopped", !.retryAt = Nobody, !.deadline = Nobody] /\ live' = {}

\* Mutant: an attempt of unknown outcome is retried like one that never entered.
MarkOutcomeUnknownRetried ==
    /\ session.state \in {"Authenticating", "Renewing", "Revoking"}
    /\ session' = [session EXCEPT !.state = "Backoff", !.retryAt = tick, !.reference = TRUE]

MarkOutcomeUnknown ==
    /\ session.state \in {"Authenticating", "Renewing", "Revoking"}
    /\ session' = [session EXCEPT !.state = "FailedClosed", !.retryAt = Nobody, !.reference = TRUE]

OutcomeUnknownAfterEntry ==
    /\ MarkOutcomeUnknown
    /\ live' \in {live, CASE session.state = "Authenticating" -> live \cup {tick + 1}
                          [] session.state = "Renewing" -> {tick + 1}
                          [] session.state = "Revoking" -> {}}

\* The operator reports what the server has: no token, or the one it honours.
Reconcile ==
    /\ session.state = "FailedClosed" /\ session.reference
    /\ \/ /\ Unexpired = {}
          /\ session' = [session EXCEPT !.state = "Stopped", !.deadline = Nobody, !.attempts = 0,
                                         !.reference = FALSE]
       \/ \E deadline \in Unexpired, generation \in {session.generation, session.generation + 1} :
             session' = [session EXCEPT !.state = "Authenticated", !.deadline = deadline,
                                        !.generation = generation, !.attempts = 0, !.reference = FALSE]
    /\ UNCHANGED live

AgentStep ==
    /\ \/ Start \/ AuthenticationFailedBeforeEntry \/ RetryAuthentication \/ BeginRenewal \/ BeginRevocation
       \/ RevocationSucceeded \/ OutcomeUnknownAfterEntry \/ Reconcile
       \/ \E ttl \in 1..2 : AuthenticationSucceeded(ttl) \/ RenewalSucceeded(ttl)
    /\ UNCHANGED <<writer, fences, backup, source, plugin, revoked, kmsKey, retired, observed, verified, cursor,
                   applied, matrix, claims>>

\* An agent has at most one token that the server still honours, and none while it
\* authenticates, waits to, or is stopped.
OneToken ==
    /\ Cardinality(Unexpired) <= 1
    /\ session.state \in {"Stopped", "Backoff", "Authenticating"} => Unexpired = {}

------------------------------------------------------------------------------
(* HaState: the role, term and membership one node believes in.  `fences' is   *)
(* every WriterFence that a leadership grant gave out, with the number of the  *)
(* change that granted it.                                                     *)

NewHaState ==
    [role |-> "Follower", term |-> 0, leader |-> Nobody, voters |-> Nodes, learners |-> {},
     generation |-> 0, changes |-> 0]

Fence(state) == [term |-> state.term, leader |-> state.leader, generation |-> state.generation]

ObserveHigherTerm(term) ==
    /\ term > writer.term
    /\ writer' = [writer EXCEPT !.term = term, !.role = "Follower", !.leader = Nobody,
                                !.generation = @ + 1, !.changes = @ + 1]
    /\ UNCHANGED fences

GrantLeadership(leader, term) ==
    /\ term # 0 /\ term >= writer.term /\ leader \in writer.voters
    /\ writer' = [writer EXCEPT !.term = term, !.leader = leader, !.generation = @ + 1, !.changes = @ + 1,
                                !.role = IF leader = Local THEN "Leader" ELSE "Follower"]
    /\ fences' = fences \cup {[fence |-> Fence(writer'), at |-> writer'.changes]}

ValidateWriter(fence) ==
    /\ writer.role = "Leader" /\ fence.term = writer.term /\ fence.generation = writer.generation
    /\ writer.leader = fence.leader /\ fence.leader = Local

AddLearner(node) ==
    /\ node \notin writer.voters \cup writer.learners
    /\ writer' = [writer EXCEPT !.learners = @ \cup {node}, !.generation = @ + 1, !.changes = @ + 1]
    /\ UNCHANGED fences

Promote(node) ==
    /\ node \in writer.learners
    /\ writer' = [writer EXCEPT !.learners = @ \ {node}, !.voters = @ \cup {node},
                                !.generation = @ + 1, !.changes = @ + 1]
    /\ UNCHANGED fences

RemoveVoter(node) ==
    /\ Cardinality(writer.voters) # 1 /\ node \in writer.voters
    /\ writer' = [writer EXCEPT !.voters = @ \ {node}, !.generation = @ + 1, !.changes = @ + 1,
                                !.role = IF node = Local THEN "Removed" ELSE @,
                                !.leader = IF @ = node THEN Nobody ELSE @]
    /\ UNCHANGED fences

WriterStep ==
    /\ \E node \in Nodes, term \in writer.term..(writer.term + 1) :
          ObserveHigherTerm(term) \/ GrantLeadership(node, term) \/ AddLearner(node) \/ Promote(node)
          \/ RemoveVoter(node)
    /\ UNCHANGED <<session, live, backup, source, plugin, revoked, kmsKey, retired, observed, verified, cursor,
                   applied, matrix, claims>>

\* A fence validates only for the voter that holds it and only while nothing changed since
\* the grant that gave it out: no term, no other grant, no membership.
FenceIsLast ==
    \A f \in fences : ValidateWriter(f.fence) => f.at = writer.changes /\ Local \in writer.voters

------------------------------------------------------------------------------
(* BackupCoordinator.  Its caller names the generation and computes the digest *)
(* of what is sealed and of what is verified; 0 is the digest it refuses.      *)

NewBackup == [state |-> "Idle", generation |-> 0, inProgress |-> Nobody, startedAt |-> Nobody, receipt |-> Nobody]

Begin(generation) ==
    /\ backup.state \in {"Idle", "Verified", "Failed"}
    /\ backup' = [backup EXCEPT !.state = "Snapshotting", !.inProgress = generation, !.startedAt = tick,
                                !.receipt = Nobody]
    /\ source' = [generation |-> generation, at |-> tick, sealed |-> 0, verified |-> 0]

Seal(digest) ==
    /\ backup.state = "Snapshotting" /\ digest # 0
    /\ backup' = [backup EXCEPT !.state = "Sealed", !.generation = @ + 1,
                                !.receipt = [generation |-> backup.inProgress, at |-> backup.startedAt,
                                             digest |-> digest]]
    /\ source' = [source EXCEPT !.sealed = digest]

Verify(digest) ==
    /\ backup.state = "Sealed"
    /\ backup' = [backup EXCEPT !.state = IF backup.receipt.digest # digest THEN "Failed" ELSE "Verified"]
    /\ source' = [source EXCEPT !.verified = digest]

Fail ==
    /\ backup.state = "Snapshotting"
    /\ backup' = [backup EXCEPT !.state = "Failed"] /\ UNCHANGED source

BackupStep ==
    /\ \/ \E generation \in 1..2 : Begin(generation)
       \/ \E digest \in 0..2 : Seal(digest) \/ Verify(digest)
       \/ Fail
    /\ UNCHANGED <<session, live, writer, fences, plugin, revoked, kmsKey, retired, observed, verified, cursor,
                   applied, matrix, claims>>

\* The receipt of a sealed or verified backup is of the generation it was last begun for,
\* of the time it was begun at and of the digest it was sealed with; a verified one was
\* read back with that digest since; a backup in progress has no receipt.
ReceiptOfLast ==
    /\ backup.state \in {"Sealed", "Verified"} =>
          backup.receipt = [generation |-> source.generation, at |-> source.at, digest |-> source.sealed]
    /\ backup.state = "Verified" => source.verified = source.sealed /\ source.sealed # 0
    /\ backup.state \in {"Idle", "Snapshotting"} => backup.receipt = Nobody

------------------------------------------------------------------------------
(* PluginRegistry, of one plugin.                                              *)

Register ==
    /\ plugin = Nobody
    /\ plugin' = [status |-> "Registered", generation |-> 1] /\ UNCHANGED revoked

Enable ==
    /\ plugin # Nobody /\ plugin.status \in {"Registered", "Disabled"}
    /\ plugin' = [status |-> "Enabled", generation |-> plugin.generation + 1] /\ UNCHANGED revoked

Disable ==
    /\ plugin # Nobody /\ plugin.status = "Enabled"
    /\ plugin' = [status |-> "Disabled", generation |-> plugin.generation + 1] /\ UNCHANGED revoked

Revoke ==
    /\ plugin # Nobody /\ plugin.status # "Revoked"
    /\ plugin' = [status |-> "Revoked", generation |-> plugin.generation + 1]
    /\ revoked' = TRUE

PluginStep ==
    /\ Register \/ Enable \/ Disable \/ Revoke
    /\ UNCHANGED <<session, live, writer, fences, backup, source, kmsKey, retired, observed, verified, cursor,
                   applied, matrix, claims>>

------------------------------------------------------------------------------
(* KeyCatalog, of one key with the one capability "sign" at version 1.         *)

RegisterKey ==
    /\ kmsKey = Nobody
    /\ kmsKey' = [state |-> "Enabled", version |-> 1, notBefore |-> Nobody, generation |-> 1]
    /\ UNCHANGED retired

RequireOperation(version, capability) ==
    /\ kmsKey # Nobody /\ kmsKey.version = version /\ kmsKey.state = "Enabled" /\ capability = "sign"

DisableKey ==
    /\ kmsKey # Nobody /\ kmsKey.state = "Enabled"
    /\ kmsKey' = [kmsKey EXCEPT !.state = "Disabled", !.generation = @ + 1] /\ UNCHANGED retired

EnableKey ==
    /\ kmsKey # Nobody /\ kmsKey.state = "Disabled"
    /\ kmsKey' = [kmsKey EXCEPT !.state = "Enabled", !.generation = @ + 1] /\ UNCHANGED retired

ScheduleDestruction(notBefore) ==
    /\ notBefore > tick
    /\ kmsKey # Nobody /\ kmsKey.state \in {"Enabled", "Disabled"}
    /\ kmsKey' = [kmsKey EXCEPT !.state = "PendingDestruction", !.notBefore = notBefore, !.generation = @ + 1]
    /\ retired' = notBefore

DestroyKey ==
    /\ kmsKey # Nobody /\ kmsKey.state = "PendingDestruction" /\ tick >= kmsKey.notBefore
    /\ kmsKey' = [kmsKey EXCEPT !.state = "Destroyed", !.notBefore = Nobody, !.generation = @ + 1]
    /\ UNCHANGED retired

KeyStep ==
    /\ \/ RegisterKey \/ DisableKey \/ EnableKey \/ DestroyKey
       \/ \E notBefore \in 0..(MaxTick + 1) : ScheduleDestruction(notBefore)
    /\ UNCHANGED <<session, live, writer, fences, backup, source, plugin, revoked, observed, verified, cursor,
                   applied, matrix, claims>>

\* A revoked plugin, and a key whose destruction was scheduled, never serve again, and the
\* key is destroyed no earlier than was scheduled.
RetiredForGood ==
    /\ revoked => plugin.status = "Revoked"
    /\ retired # Nobody =>
          /\ ~RequireOperation(1, "sign")
          /\ kmsKey.state = "Destroyed" => tick >= retired

------------------------------------------------------------------------------
(* verify_bound_assertion and the replay cache.  Every assertion of            *)
(* `Assertions' is well formed, of the required issuer, audience and key, and  *)
(* signed; `bound' says whether it is presented with the request it binds.     *)

Key(a) == <<a.issuer, a.nonce>>

InTime(a) ==
    /\ a.expires > a.issued /\ a.expires - a.issued <= MaxTtl
    /\ a.issued <= tick + Skew /\ tick < a.expires

Retained == {k \in DOMAIN observed : observed[k] > tick}

CheckAndRecord(a) ==
    /\ a.expires > tick /\ Key(a) \notin Retained
    /\ Cardinality(Retained) < ReplayCapacity
    /\ observed' = [k \in Retained \cup {Key(a)} |-> IF k = Key(a) THEN a.expires ELSE observed[k]]

\* A replay, or a saturated cache, drops the expired entries and is refused.
ReplayRefused(a) ==
    /\ InTime(a) /\ (Key(a) \in Retained \/ Cardinality(Retained) >= ReplayCapacity)
    /\ observed' = Restrict(observed, Retained)
    /\ UNCHANGED verified

VerifyBoundAssertion(a) ==
    /\ InTime(a)
    /\ CheckAndRecord(a)
    /\ verified' = Append(verified, a)

AssertionStep ==
    /\ \E a \in Assertions : VerifyBoundAssertion(a) \/ ReplayRefused(a)
    /\ UNCHANGED <<session, live, writer, fences, backup, source, plugin, revoked, kmsKey, retired, cursor,
                   applied, matrix, claims>>

\* No assertion is verified twice, whatever expires and however full the cache is.
AssertionOnce == IsInjective(verified)

------------------------------------------------------------------------------
(* ApplyCursor and SnapshotMeta.  A state machine takes in entries, and        *)
(* snapshots that stand for all entries up to theirs.                          *)

ValidateNext(position) ==
    /\ position.term # 0 /\ position.index # 0
    /\ cursor = Nobody => position.index = 1
    /\ cursor # Nobody => position.term >= cursor.term /\ position.index = cursor.index + 1

ApplyNext(position) ==
    /\ ValidateNext(position)
    /\ cursor' = position /\ applied' = Append(applied, [at |-> position, snapshot |-> FALSE])

ValidateSnapshot(position) ==
    /\ position.term # 0 /\ position.index # 0
    /\ cursor # Nobody => position.index >= cursor.index

InstallSnapshot(position) ==
    /\ ValidateSnapshot(position)
    /\ cursor' = position /\ applied' = Append(applied, [at |-> position, snapshot |-> TRUE])

CursorStep ==
    /\ \E position \in [term : 0..2, index : 0..4] : ApplyNext(position) \/ InstallSnapshot(position)
    /\ UNCHANGED <<session, live, writer, fences, backup, source, plugin, revoked, kmsKey, retired, observed,
                   verified, matrix, claims>>

\* An entry is taken in once, after every entry below it and after no snapshot that stands
\* for it; a snapshot never takes back an entry.  Terms never fall from entry to entry; a
\* snapshot is checked by its index only, and may bring a lower term than the log had.
AppliedInOrder ==
    /\ \A i, j \in DOMAIN applied : i < j =>
          /\ applied[i].at.index <= applied[j].at.index
          /\ ~applied[j].snapshot => applied[i].at.index < applied[j].at.index
          /\ (\A k \in i..j : ~applied[k].snapshot) => applied[i].at.term <= applied[j].at.term
    /\ \A j \in DOMAIN applied : ~applied[j].snapshot =>
          \A index \in 1..applied[j].at.index : \E i \in 1..j :
              applied[i].at.index = index \/ (applied[i].snapshot /\ applied[i].at.index > index)

------------------------------------------------------------------------------
(* CompatibilityMatrix: observations of surfaces, each matching its oracle or  *)
(* not, named by the order they arrive in.                                     *)

AddObservation(surface, result) ==
    /\ surface \in DOMAIN Minimum
    /\ matrix' = Append(matrix, [surface |-> surface, result |-> result]) /\ UNCHANGED claims

Counted(surface) == {i \in DOMAIN matrix : matrix[i].surface = surface}

Coverage ==
    [missing |-> {s \in DOMAIN Minimum : Cardinality(Counted(s)) < Minimum[s]},
     mismatched |-> {i \in DOMAIN matrix : matrix[i].result # "Match"}]

Admit(evidence) ==
    /\ evidence.independent /\ evidence.inventory
    /\ Coverage.mismatched = {} /\ Coverage.missing = {}
    /\ claims' = claims \cup {matrix} /\ UNCHANGED matrix

MatrixStep ==
    /\ \/ \E surface \in Surfaces, result \in {"Match", "ResponseMismatch", "SideEffectMismatch", "MissingActual"} :
             AddObservation(surface, result)
       \/ \E evidence \in [independent : BOOLEAN, inventory : BOOLEAN] : Admit(evidence)
    /\ UNCHANGED <<session, live, writer, fences, backup, source, plugin, revoked, kmsKey, retired, observed,
                   verified, cursor, applied>>

\* Whatever was admitted was seen to match on every surface of the catalog.
ClaimsCovered ==
    \A claim \in claims : \A surface \in DOMAIN Minimum :
        Cardinality({i \in DOMAIN claim : claim[i] = [surface |-> surface, result |-> "Match"]}) >= Minimum[surface]

------------------------------------------------------------------------------
ContractInit ==
    /\ contract \in Contract /\ tick = 0 /\ steps = 0
    /\ session = [state |-> "Stopped", attempts |-> 0, retryAt |-> Nobody, deadline |-> Nobody,
                  generation |-> 0, reference |-> FALSE]
    /\ live = {}
    /\ writer = NewHaState /\ fences = {}
    /\ backup = NewBackup /\ source = Nobody
    /\ plugin = Nobody /\ revoked = FALSE
    /\ kmsKey = Nobody /\ retired = Nobody
    /\ observed = <<>> /\ verified = <<>>
    /\ cursor = Nobody /\ applied = <<>>
    /\ matrix = <<>> /\ claims = {}

Pass ==
    /\ tick < MaxTick /\ contract \in {"agent", "backup", "keys", "assertions"}
    /\ tick' = tick + 1
    /\ UNCHANGED <<contract, steps, session, live, writer, fences, backup, source, plugin, revoked, kmsKey,
                   retired, observed, verified, cursor, applied, matrix, claims>>

Used ==
    /\ steps < MaxSteps /\ steps' = steps + 1
    /\ \/ contract = "agent" /\ AgentStep
       \/ contract = "writer" /\ WriterStep
       \/ contract = "backup" /\ BackupStep
       \/ contract = "plugins" /\ PluginStep
       \/ contract = "keys" /\ KeyStep
       \/ contract = "assertions" /\ AssertionStep
       \/ contract = "cursor" /\ CursorStep
       \/ contract = "matrix" /\ MatrixStep
    /\ UNCHANGED <<contract, tick>>

ContractNext == Pass \/ Used

ContractSpec == ContractInit /\ [][ContractNext]_contractVars

\* Every contract holds what its users build on: one live token per agent, a fence that dies
\* with the next change of term, grant or membership, receipts of the last backup begun,
\* retirement for good, no assertion verified twice, a log applied in order and once, and
\* claims admitted on full coverage only (agent mark_outcome_unknown_after_entry, HaState
\* validate_writer, BackupCoordinator, PluginRegistry, KeyCatalog, check_and_record,
\* validate_next, admit).
ContractsHold ==
    /\ OneToken
    /\ FenceIsLast
    /\ ReceiptOfLast
    /\ RetiredForGood
    /\ AssertionOnce
    /\ AppliedInOrder
    /\ ClaimsCovered

==============================================================================
