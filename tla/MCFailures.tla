----------------------------- MODULE MCFailures ------------------------------
(***************************************************************************)
(* The durable state of a server that fails: writes through the replicated *)
(* log of two nodes, and the seal with its key ceremonies. A behaviour     *)
(* exercises one of them, which `part' names; the other does not start.    *)
(***************************************************************************)
EXTENDS HaService, TLC

CONSTANTS Unused, Shares, Threshold, MaxKeys, MaxStray, MaxVersion, Verification, n1, n2,
          x, y

VARIABLES part, disk, synced, store, running, seal, unseal_shares, served, rekey,
          in_doubt, held, unproven, torn, acknowledged, warned, cancelled, backup, keys,
          stray, steps, failures

SE == INSTANCE SealLifecycle WITH Faults <- {"refused", "unsynced", "died", "kill",
               "power", "store"}, MaxFaults <- 2, up <- running, state <- served,
               recovery_required <- in_doubt, acked <- acknowledged, faults <- failures

-----------------------------------------------------------------------------
\* Writes that never bring an earlier state back.
Growing == {[id |-> 1, add |-> {x}, remove |-> {}], [id |-> 2, add |-> {y}, remove |-> {}]}

ASSUME HaAssumption /\ SE!SealAssumption

-----------------------------------------------------------------------------
sealVars == <<disk, synced, store, running, seal, unseal_shares, served, rekey,
              in_doubt, held, unproven, torn, acknowledged, warned, cancelled, backup,
              keys, stray, steps, failures>>
allVars == <<part, vars, sealVars>>

\* The seal, where a behaviour leaves it alone.
NoSeal ==
    /\ disk = Unused /\ synced = Unused /\ store = Unused /\ running = Unused
    /\ seal = Unused /\ unseal_shares = Unused /\ served = Unused /\ rekey = Unused
    /\ in_doubt = Unused /\ held = Unused /\ unproven = Unused /\ torn = Unused
    /\ acknowledged = Unused /\ warned = Unused /\ cancelled = Unused
    /\ backup = Unused /\ keys = Unused /\ stray = Unused /\ steps = Unused
    /\ failures = Unused

\* The two nodes have the same part in everything: n1 is the one that leads first.
MCInit ==
    /\ Init /\ leader = n1
    /\ \/ part = "writes" /\ NoSeal
       \/ part = "seal" /\ SE!Init

MCNext ==
    \/ part = "writes" /\ Next /\ UNCHANGED <<part, sealVars>>
    \/ part = "seal" /\ SE!Next /\ UNCHANGED <<part, vars>>

MCSpec ==
    /\ MCInit /\ [][MCNext]_allVars
    \* The process is started again, and the operators go on submitting the shares they hold
    \* and repeating an initialization whose response they did not get.
    /\ WF_allVars(part = "seal" /\ SE!Start /\ UNCHANGED <<part, vars>>)
    /\ WF_allVars(part = "seal" /\ SE!RecoverInitialization /\ UNCHANGED <<part, vars>>)
    /\ WF_allVars(part = "seal" /\ SE!UnsealLegacy /\ UNCHANGED <<part, vars>>)
    /\ \A s \in SE!AllShares :
          WF_allVars(part = "seal" /\ seal # None /\ s.key = seal.key /\ SE!Unseal(s)
                     /\ UNCHANGED <<part, vars>>)

-----------------------------------------------------------------------------
\* A node at rest that is ready to serve has the state it serves in its store, that state is
\* one of the log, and while the outcome of a put is unknown it dispatches nothing
\* (service.rs, commit, and ha.rs, sync_from_ha).
NodesReconciled == TypeOK /\ Reconciled /\ LocalFollowsCommitted /\ FencedServesNothing

\* Whatever fails and whenever the power goes, somebody holds the shares of the seal on disk
\* or can still recover them, and who got them without a warning can rely on the directory
\* (service.rs, initialize, recover_initialization and verify_rekey_share).
SealHeld == part = "seal" => SE!SealHeld /\ SE!PublishedForGood

\* A restart finds files that fit each other, a cancelled candidate never becomes the seal, an
\* acknowledged initialization never comes back, and what is served is what the store holds
\* (service.rs, load_pending_rekey, cancel_rekey, ack_initialization and commit).
RestartSucceeds ==
    part = "seal" => /\ SE!TypeOK /\ SE!RestartSucceeds /\ SE!CancelledNeverActive
                     /\ SE!AcknowledgedGone /\ SE!ServesStore

\* Mistaken shares, restarts and failures only delay the unseal of a server whose shares are
\* submitted (service.rs, collect_seal_key and unseal).
EventuallyUnsealed == <>[](part = "seal" => SE!UnsealedIfHeld)
=============================================================================
