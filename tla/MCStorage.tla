------------------------------ MODULE MCStorage ------------------------------
(***************************************************************************)
(* The stores that share no state with the running server's: the journaled *)
(* core on its generation store, the migration journal, the stores and the *)
(* cluster handle of the Raft runtime, the peer service, the key ring and  *)
(* recovery with its anchor. A behaviour exercises one of them, which      *)
(* `part' names; the others rest in their initial state, or are not there. *)
(***************************************************************************)
EXTENDS Migration, RaftNode, RaftCluster, PeerService, Recovery, TLC

CONSTANTS op1, op2, Unused, Ops, Torn, Trouble, MaxGenerations, MaxNotes, Epochs, NoEpoch, MaxEvents

VARIABLES part, trouble, coreDisk, kept, engine, ledger, coreCall, told, coreFaults, notes,
          events, ring, writeState, retired

JC == INSTANCE JournaledCore WITH MaxRecords <- 10, MaxFaults <- 2, disk <- coreDisk, call <-
               coreCall, faults <- coreFaults
KR == INSTANCE KeyRing

OperationSymmetry == Permutations(CopyOps)

ASSUME PeerAssumption /\ ClusterAssumption /\ RaftAssumption /\ MigrationAssumption

-----------------------------------------------------------------------------
coreVars == <<trouble, coreDisk, kept, engine, ledger, coreCall, told, coreFaults, notes>>
keysVars == <<events, ring, writeState, retired>>
allVars == <<part, coreVars, migrationVars, raftVars, clusterVars, peerVars, keysVars,
             recoveryVars>>

\* The parts that a behaviour leaves alone.
NoCore ==
    /\ trouble = Unused /\ coreDisk = Unused /\ kept = Unused /\ engine = Unused
    /\ ledger = Unused /\ coreCall = Unused /\ told = Unused /\ coreFaults = Unused
    /\ notes = Unused

NoKeys ==
    /\ events = Unused /\ ring = Unused /\ writeState = Unused /\ retired = Unused

MigrationRests == MigrationInit /\ hazard = "process" /\ deps = [o \in Objects |-> {}]
NodeRests == RaftInit /\ unrest = "process"
PeersRest == PeerInit /\ peerFault = "process" /\ leaderView.leader = CHOOSE p \in Peers : TRUE

MCInit ==
    /\ part \in {"core", "keys", "migration", "node", "cluster", "peers", "recovery"}
    /\ IF part = "core" THEN JC!JCInit ELSE NoCore
    /\ IF part = "keys" THEN KR!RingInit ELSE NoKeys
    /\ IF part = "migration" THEN MigrationInit ELSE MigrationRests
    /\ IF part = "node" THEN RaftInit ELSE NodeRests
    /\ IF part = "peers" THEN PeerInit ELSE PeersRest
    /\ ClusterInit /\ RecoveryInit

MCNext ==
    \/ part = "core" /\ JC!JCNext /\ UNCHANGED <<part, migrationVars, raftVars,
          clusterVars, peerVars, keysVars, recoveryVars>>
    \/ part = "migration" /\ MigrationNext /\ UNCHANGED <<part, coreVars, raftVars,
          clusterVars, peerVars, keysVars, recoveryVars>>
    \/ part = "node" /\ RaftNext /\ UNCHANGED <<part, coreVars, migrationVars,
          clusterVars, peerVars, keysVars, recoveryVars>>
    \/ part = "cluster" /\ ClusterNext /\ UNCHANGED <<part, coreVars, migrationVars,
          raftVars, peerVars, keysVars, recoveryVars>>
    \/ part = "peers" /\ PeerNext /\ UNCHANGED <<part, coreVars, migrationVars,
          raftVars, clusterVars, keysVars, recoveryVars>>
    \/ part = "keys" /\ KR!RingNext /\ UNCHANGED <<part, coreVars, migrationVars,
          raftVars, clusterVars, peerVars, recoveryVars>>
    \/ part = "recovery" /\ RecoveryNext /\ UNCHANGED <<part, coreVars,
          migrationVars, raftVars, clusterVars, peerVars, keysVars>>

MCSpec == MCInit /\ [][MCNext]_allVars

-----------------------------------------------------------------------------
\* The ledger of the journaled core tells what the store holds: an operation it calls
\* committed is in the published state, one it calls aborted never will be, what a caller
\* was told stays true, and an intent that is left open can be decided, after kills and
\* failed steps or after losses of power. Not after both: a CURRENT that was renamed and
\* not synchronised is confirmed by recover_commit after a kill, without a sync, and lost
\* with the power (journaled-core, operation-ledger, single-node-store).
LedgerTellsStore == part = "core" => JC!LedgerTellsStore /\ JC!ToldStaysTrue /\ JC!IntentDecidable

\* The key ring is what its journal says, and writes only while the journal's outcome is
\* known (key-lifecycle).
RingFollowsJournal == part = "keys" => KR!RingFollowsJournal
=============================================================================
