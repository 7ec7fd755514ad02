----------------------------- MODULE ServiceCore -----------------------------
(***************************************************************************)
(* The in-process composition of identities, policies, tokens, namespaces, *)
(* mounts and the versioned KV store behind one request handler, with the  *)
(* registry that admits each commit once and the reconciliation records of *)
(* commits whose confirmation failed; and the lease store.                 *)
(*                                                                         *)
(* One caller at a time (the handler takes the core exclusively), nothing  *)
(* is persisted.  Paths are sequences of segments.  Reads and lists change *)
(* nothing and are left out, as is telemetry.                              *)
(***************************************************************************)
EXTENDS Integers, Sequences, FiniteSets, SequencesExt

CONSTANTS None,             \* model value
          Focus,            \* which of the stores are administered in a behaviour
          Entities, Groups, Policies, Tokens, Leases, Mounts, Namespaces, Root,
          Paths,            \* resource paths
          RequestIds,       \* the ids of requests in each focus
          Values,
          Capacity,         \* of the request registry
          MaxVersions,      \* versions kept by the KV store
          Ttls, MaxTime,
          MaxSequence       \* bound on the recovery references of each focus

VARIABLES focus, now,
          entities,         \* id -> [policies, groups, disabled]
          aliases,          \* alias -> entity
          groups,           \* id -> policies
          policies,         \* id -> set of rules [prefix, capabilities]
          tokens,           \* id -> [entity, policies, expires, renewable, revoked]
          namespaces,       \* id -> [parent, path, active]
          mounts,           \* id -> [namespace, path, backend, enabled]
          kv,               \* engine path -> history of versions
          registry,         \* [unresolved, resolved]: keys, with their binding while unresolved
          recovery,         \* recovery reference -> key
          sequence,         \* next_recovery_sequence
          records,          \* recovery reference -> [request, resolution]
          applied,          \* set of <<key, n>>: the n-th commit of the request
          leases            \* id -> [scope, expires, renewable, state]

coreVars == <<focus, now, entities, aliases, groups, policies, tokens, namespaces, mounts, kv,
              registry, recovery, sequence, records, applied, leases>>

With(f, k, v) == [x \in DOMAIN f \cup {k} |-> IF x = k THEN v ELSE f[x]]
Except(f, k) == [x \in DOMAIN f \ {k} |-> f[x]]
Nothing == [x \in {} |-> x]

\* CanonicalPath.
MatchesPrefix(path, prefix) == IsPrefix(prefix, path)
RelativeTo(path, prefix) == SubSeq(path, Len(prefix) + 1, Len(path))

------------------------------------------------------------------------------
(* Identities and policies *)

CreateEntity(e) ==
    /\ e \notin DOMAIN entities
    /\ entities' = With(entities, e, [policies |-> {}, groups |-> {}, disabled |-> FALSE])
    /\ UNCHANGED <<aliases, groups, policies>>
CreateGroup(g, ps) ==
    /\ g \notin DOMAIN groups
    /\ groups' = With(groups, g, ps) /\ UNCHANGED <<entities, aliases, policies>>
AddAlias(e, a) ==
    /\ a \notin DOMAIN aliases /\ e \in DOMAIN entities
    /\ aliases' = With(aliases, a, e) /\ UNCHANGED <<entities, groups, policies>>
AttachPolicy(e, p) ==
    /\ e \in DOMAIN entities
    /\ entities' = [entities EXCEPT ![e].policies = @ \cup {p}] /\ UNCHANGED <<aliases, groups, policies>>
AddEntityToGroup(e, g) ==
    /\ e \in DOMAIN entities /\ g \in DOMAIN groups
    /\ entities' = [entities EXCEPT ![e].groups = @ \cup {g}] /\ UNCHANGED <<aliases, groups, policies>>
SetDisabled(e, d) ==
    /\ e \in DOMAIN entities
    /\ entities' = [entities EXCEPT ![e].disabled = d] /\ UNCHANGED <<aliases, groups, policies>>

EffectivePolicyIds(e) == entities[e].policies \cup UNION {groups[g] : g \in entities[e].groups}

Permits(rule, capability, path) ==
    /\ MatchesPrefix(path, rule.prefix)
    /\ capability \in rule.capabilities \/ "sudo" \in rule.capabilities
Authorize(ids, capability, path) ==
    \E p \in ids \cap DOMAIN policies : \E rule \in policies[p] : Permits(rule, capability, path)

Rules == {[prefix |-> <<>>, capabilities |-> {"sudo"}], [prefix |-> <<"n">>, capabilities |-> {"update"}]}

InsertPolicy(p) ==
    /\ p \notin DOMAIN policies
    /\ \E rule \in Rules : policies' = With(policies, p, {rule})
    /\ UNCHANGED <<entities, aliases, groups>>
RemovePolicy(p) ==
    /\ p \in DOMAIN policies
    /\ policies' = Except(policies, p) /\ UNCHANGED <<entities, aliases, groups>>

AdministerIdentity ==
    /\ focus = "identity"
    /\ \/ \E e \in Entities : \/ CreateEntity(e) \/ AddAlias(e, e)
                              \/ \E d \in BOOLEAN : SetDisabled(e, d)
                              \/ \E p \in Policies : AttachPolicy(e, p)
                              \/ \E g \in Groups : AddEntityToGroup(e, g)
       \/ \E g \in Groups : CreateGroup(g, Policies)
       \/ \E p \in Policies : InsertPolicy(p) \/ RemovePolicy(p)
    /\ UNCHANGED <<focus, now, tokens, namespaces, mounts, kv, registry, recovery, sequence, records, applied, leases>>

------------------------------------------------------------------------------
(* Tokens *)

TokenValid(t) == t \in DOMAIN tokens /\ ~tokens[t].revoked /\ now < tokens[t].expires

IssueToken(t, e, ttl, renewable) ==
    /\ t \notin DOMAIN tokens
    /\ tokens' = With(tokens, t, [entity |-> e, policies |-> {}, expires |-> now + ttl,
                                  renewable |-> renewable, revoked |-> FALSE])

\* Mutant: an expired token can be renewed.
RenewTokenLate(t, ttl) ==
    /\ t \in DOMAIN tokens /\ ~tokens[t].revoked /\ tokens[t].renewable
    /\ tokens' = [tokens EXCEPT ![t].expires = now + ttl]

RenewToken(t, ttl) ==
    /\ TokenValid(t) /\ tokens[t].renewable
    /\ tokens' = [tokens EXCEPT ![t].expires = now + ttl]

RevokeToken(t) ==
    /\ t \in DOMAIN tokens /\ ~tokens[t].revoked
    /\ tokens' = [tokens EXCEPT ![t].revoked = TRUE]

RevokeEntity(e) ==
    tokens' = [t \in DOMAIN tokens |->
                   IF tokens[t].entity = e THEN [tokens[t] EXCEPT !.revoked = TRUE] ELSE tokens[t]]

AdministerTokens ==
    /\ focus = "tokens"
    /\ \/ \E t \in Tokens, ttl \in Ttls :
              \/ RenewToken(t, ttl)
              \/ \E e \in Entities, renewable \in BOOLEAN : IssueToken(t, e, ttl, renewable)
       \/ \E t \in Tokens : RevokeToken(t)
       \/ \E e \in Entities : RevokeEntity(e)
    /\ UNCHANGED <<focus, now, entities, aliases, groups, policies, namespaces, mounts, kv,
                   registry, recovery, sequence, records, applied, leases>>

------------------------------------------------------------------------------
(* Namespaces and mounts *)

CreateNamespace(n, parent) ==
    /\ n \notin DOMAIN namespaces /\ parent \in DOMAIN namespaces /\ namespaces[parent].active
    /\ LET path == Append(namespaces[parent].path, n) IN
       /\ \A o \in DOMAIN namespaces : namespaces[o].path # path
       /\ namespaces' = With(namespaces, n, [parent |-> parent, path |-> path, active |-> TRUE])
    /\ UNCHANGED mounts
DisableNamespace(n) ==
    /\ n \in DOMAIN namespaces /\ namespaces[n].parent # None /\ namespaces[n].active
    /\ namespaces' = [namespaces EXCEPT ![n].active = FALSE] /\ UNCHANGED mounts

\* qualify; a namespace below a disabled one is not disabled with it.
Qualify(n, path) == namespaces[n].path \o path

PathFree(n, path) == ~\E m \in DOMAIN mounts : mounts[m].namespace = n /\ mounts[m].path = path

Mount(m, n, path, backend) ==
    /\ m \notin DOMAIN mounts /\ PathFree(n, path)
    /\ mounts' = With(mounts, m, [namespace |-> n, path |-> path, backend |-> backend, enabled |-> TRUE])
    /\ UNCHANGED namespaces
SetEnabled(m) ==
    /\ m \in DOMAIN mounts
    /\ mounts' = [mounts EXCEPT ![m].enabled = ~@] /\ UNCHANGED namespaces
Unmount(m) ==
    /\ m \in DOMAIN mounts
    /\ mounts' = Except(mounts, m) /\ UNCHANGED namespaces

\* The enabled mounts of the namespace above the path, and the longest of them.
Candidates(n, path) ==
    {m \in DOMAIN mounts : mounts[m].enabled /\ mounts[m].namespace = n /\ MatchesPrefix(path, mounts[m].path)}
Longest(n, path) ==
    {m \in Candidates(n, path) : \A o \in Candidates(n, path) : Len(mounts[o].path) <= Len(mounts[m].path)}

\* engine_path.
EnginePath(n, m, path) == <<n, m>> \o RelativeTo(path, mounts[m].path)

AdministerRoutes ==
    /\ focus = "routes"
    /\ \/ \E n \in Namespaces : DisableNamespace(n) \/ \E parent \in Namespaces : CreateNamespace(n, parent)
       \/ \E m \in Mounts : \/ SetEnabled(m) \/ Unmount(m)
                            \/ \E n \in DOMAIN namespaces, path \in Paths, b \in {"kv", "plugin"} : Mount(m, n, path, b)
    /\ UNCHANGED <<focus, now, entities, aliases, groups, policies, tokens, kv, registry, recovery,
                   sequence, records, applied, leases>>

------------------------------------------------------------------------------
(* The KV store *)

History(path) == IF path \in DOMAIN kv THEN kv[path] ELSE <<>>
CurrentVersion(path) == IF History(path) = <<>> THEN 0 ELSE Last(History(path)).version

\* What the operation leaves, or None when it fails.
Written(path, value, cas) ==
    IF cas # None /\ cas # CurrentVersion(path) THEN None
    ELSE LET longer == Append(History(path), [version |-> CurrentVersion(path) + 1, deleted |-> FALSE, value |-> value])
         IN SubSeq(longer, IF Len(longer) > MaxVersions THEN Len(longer) - MaxVersions + 1 ELSE 1, Len(longer))
DeletedLatest(path) ==
    IF History(path) = <<>> \/ (History(path) # <<>> /\ Last(History(path)).deleted) THEN None
    ELSE [History(path) EXCEPT ![Len(History(path))].deleted = TRUE]

------------------------------------------------------------------------------
(* The request registry and the handler *)

Retained == Cardinality(DOMAIN registry.unresolved) + Cardinality(registry.resolved)

\* begin: known requests and requests beyond the capacity are refused.
MayBegin(key) ==
    /\ key \notin registry.resolved /\ key \notin DOMAIN registry.unresolved
    /\ Retained < Capacity

Commits(key) == Cardinality({a \in applied : a[1] = key})

\* Mutant: a request whose confirmation failed is forgotten, as if it had failed.
MarkUnresolvedAborts(key, binding) == registry

MarkUnresolved(key, binding) == [registry EXCEPT !.unresolved = With(@, key, binding)]
MarkResolved(key) == [registry EXCEPT !.resolved = @ \cup {key}]

Capability(op) == IF op.kind = "write" THEN "update" ELSE "delete"

\* handle, for the two operations that commit.  The reference is allocated before the store
\* is entered; an operation that fails there leaves only the allocation behind.
Handle(t, n, path, id, op) ==
    /\ TokenValid(t)
    /\ tokens[t].entity \in DOMAIN entities /\ ~entities[tokens[t].entity].disabled
    /\ n \in DOMAIN namespaces /\ namespaces[n].active
    /\ Authorize(EffectivePolicyIds(tokens[t].entity) \cup tokens[t].policies, Capability(op), Qualify(n, path))
    /\ Candidates(n, path) # {} /\ sequence < MaxSequence[focus]
    /\ \E m \in Longest(n, path) :
       LET key == <<tokens[t].entity, n, id>>
           target == EnginePath(n, m, path)
           after == IF op.kind = "write" THEN Written(target, op.value, op.cas) ELSE DeletedLatest(target)
           reference == sequence + 1
       IN /\ mounts[m].backend = "kv" /\ MayBegin(key)
          /\ sequence' = reference
          /\ \/ /\ after = None
                /\ UNCHANGED <<kv, registry, recovery, records, applied>>
             \/ /\ after # None
                /\ kv' = With(kv, target, after)
                /\ applied' = applied \cup {<<key, Commits(key) + 1>>}
                /\ \/ /\ registry' = MarkResolved(key) /\ UNCHANGED <<recovery, records>>
                   \/ /\ registry' = MarkUnresolved(key, <<path, op>>)
                      /\ recovery' = With(recovery, reference, key)
                      /\ records' = With(records, reference, [request |-> id, resolution |-> None])
    /\ UNCHANGED <<focus, now, entities, aliases, groups, policies, tokens, namespaces, mounts, leases>>

\* resolve_unknown.
ResolveUnknown(reference, resolution) ==
    /\ reference \in DOMAIN recovery /\ records[reference].resolution = None
    /\ records' = [records EXCEPT ![reference].resolution = resolution]
    /\ registry' = [unresolved |-> Except(registry.unresolved, recovery[reference]),
                    resolved |-> registry.resolved \cup {recovery[reference]}]
    /\ recovery' = Except(recovery, reference)
    /\ UNCHANGED <<focus, now, entities, aliases, groups, policies, tokens, namespaces, mounts, kv, sequence, applied, leases>>

\* OutcomeRecord::action.
OperatorAction(record) == IF record.resolution # None THEN "do-not-retry" ELSE "readback"

------------------------------------------------------------------------------
(* Leases *)

Expire(l) == IF l.state = "active" /\ now >= l.expires THEN [l EXCEPT !.state = "expired"] ELSE l

IssueLease(l, scope, ttl, renewable) ==
    /\ l \notin DOMAIN leases
    /\ leases' = With(leases, l, [scope |-> scope, expires |-> now + ttl, renewable |-> renewable, state |-> "active"])
ValidateLease(l) == l \in DOMAIN leases /\ leases' = [leases EXCEPT ![l] = Expire(@)]
RenewLease(l, ttl) ==
    /\ l \in DOMAIN leases /\ leases[l].state # "revoked"
    /\ IF Expire(leases[l]).state = "expired" THEN leases' = [leases EXCEPT ![l] = Expire(@)]
       ELSE leases[l].renewable /\ leases' = [leases EXCEPT ![l].expires = now + ttl]
RevokeLease(l) ==
    /\ l \in DOMAIN leases /\ leases[l].state = "active"
    /\ leases' = [leases EXCEPT ![l].state = "revoked"]
RevokePrefix(prefix) ==
    leases' = [l \in DOMAIN leases |->
                   IF leases[l].state = "active" /\ MatchesPrefix(leases[l].scope, prefix)
                   THEN [leases[l] EXCEPT !.state = "revoked"] ELSE leases[l]]

AdministerLeases ==
    /\ focus = "leases"
    /\ \/ \E l \in Leases : \/ ValidateLease(l) \/ RevokeLease(l)
                            \/ \E ttl \in Ttls : \/ RenewLease(l, ttl)
                                                 \/ \E s \in Paths, r \in BOOLEAN : IssueLease(l, s, ttl, r)
       \/ \E prefix \in Paths : RevokePrefix(prefix)
    /\ UNCHANGED <<focus, now, entities, aliases, groups, policies, tokens, namespaces, mounts, kv, registry,
                   recovery, sequence, records, applied>>

------------------------------------------------------------------------------
(* Ticks are monotonic *)
Advance ==
    /\ now < MaxTime /\ focus \in {"tokens", "leases"}
    /\ now' = now + 1
    /\ UNCHANGED <<focus, entities, aliases, groups, policies, tokens, namespaces, mounts, kv, registry,
                   recovery, sequence, records, applied, leases>>

\* A core set up by its owner: every entity may do everything through its own token in
\* every namespace, and one KV mount serves each.
CoreInit ==
    /\ focus \in Focus /\ now = 0
    /\ entities = IF focus = "identity" THEN Nothing
                  ELSE [e \in Entities |-> [policies |-> Policies, groups |-> {}, disabled |-> FALSE]]
    /\ aliases = Nothing /\ groups = Nothing
    /\ policies = IF focus = "identity" THEN Nothing
                  ELSE [p \in Policies |-> {[prefix |-> <<>>, capabilities |-> {"sudo"}]}]
    /\ tokens = IF focus = "tokens" THEN Nothing
                ELSE [e \in Entities |-> [entity |-> e, policies |-> {}, expires |-> MaxTime + 1,
                                          renewable |-> FALSE, revoked |-> FALSE]]
    /\ namespaces = [n \in {Root} |-> [parent |-> None, path |-> <<>>, active |-> TRUE]]
    /\ mounts = IF focus = "routes" THEN Nothing
                ELSE [m \in {"m"} |-> [namespace |-> Root, path |-> <<>>, backend |-> "kv", enabled |-> TRUE]]
    /\ kv = Nothing /\ registry = [unresolved |-> Nothing, resolved |-> {}]
    /\ recovery = Nothing /\ sequence = 0 /\ records = Nothing /\ applied = {} /\ leases = Nothing

Writes == {[kind |-> "write", value |-> v, cas |-> c] : v \in Values, c \in {None, 0, 1}} \cup {[kind |-> "delete"]}

CoreNext ==
    \/ AdministerIdentity \/ AdministerTokens \/ AdministerRoutes \/ AdministerLeases \/ Advance
    \/ \E t \in DOMAIN tokens, n \in DOMAIN namespaces, path \in Paths, id \in RequestIds[focus], op \in Writes :
           Handle(t, n, path, id, op)
    \/ \E reference \in DOMAIN recovery, r \in {"committed", "not-committed", "compensated"} :
           ResolveUnknown(reference, r)

CoreSpec == CoreInit /\ [][CoreNext]_coreVars

------------------------------------------------------------------------------
(* Properties *)

\* A request commits at most once, whatever was answered.  Every commit is retained; the
\* unconfirmed ones are those an operator can still resolve, each under one reference
\* whose record asks for readback; nothing is retained beyond the capacity.
RequestsAccounted ==
    /\ \A a \in applied : a[2] = 1
    /\ {a[1] : a \in applied} = registry.resolved \cup DOMAIN registry.unresolved
    /\ registry.resolved \cap DOMAIN registry.unresolved = {}
    /\ Range(recovery) = DOMAIN registry.unresolved /\ IsInjective(recovery)
    /\ \A r \in DOMAIN records : (r \in DOMAIN recovery) = (OperatorAction(records[r]) = "readback")
    /\ Retained <= Capacity

\* A request has one route at most, and it reaches only the namespace and mount it names:
\* mounts of a namespace never share a path, also disabled ones that may come back.
RoutedAlone ==
    \A n \in DOMAIN namespaces, path \in Paths :
        /\ Cardinality(Longest(n, path)) <= 1
        /\ \A m \in Longest(n, path) : mounts[m].path \o RelativeTo(path, mounts[m].path) = path
        /\ \A o \in DOMAIN namespaces \ {n} : namespaces[o].path # namespaces[n].path

\* A token or lease that stopped being valid never becomes valid again.
StaysInvalid ==
    /\ \A t \in DOMAIN tokens : ~TokenValid(t) => ~TokenValid(t)'
    /\ \A l \in DOMAIN leases : Expire(leases[l]).state # "active" => (Expire(leases[l]).state # "active")'
==============================================================================
