----------------------------- MODULE PeerService -----------------------------
(***************************************************************************)
(* The service layer of a cluster (ha-service): HaService::execute, which  *)
(* routes an operation to the leader and remembers the answers, the peer   *)
(* frames that are sealed with a sequence number and admitted once, and    *)
(* the file that keeps those numbers.  Frames are lost, repeated and       *)
(* reordered; a process is killed or the power lost between the rename     *)
(* and the directory sync of the file; leadership moves between the view   *)
(* and the execution.  Operations and frames share no state, so a          *)
(* behaviour is about the one ("views") or the other.                      *)
(*                                                                         *)
(* External: the consensus driver and the forwarding client (traits) and   *)
(* the operator who removes the writer.lock a killed process leaves.       *)
(***************************************************************************)
EXTENDS Integers, FiniteSets, Functions

CONSTANTS None,          \* model value
          Peers,         \* the nodes
          OpIds, Payloads, \* operations clients send
          CompletedLimit, \* completed_limit
          PeerFaults,    \* the kinds of fault a behaviour may meet
          MaxSequence, MaxRuns, MaxViews, MaxFaults \* bounds

VARIABLES peerFault,     \* which faults this behaviour meets
          stateFile, stateKept, \* peer-sequences.state, and what survives a loss of power
          sequences,     \* node -> its open PersistentPeerSequences
          saving,        \* node -> its persist under way
          lockFile,      \* node -> whether writer.lock is there
          frames,        \* frames on the wire
          issued, admitted, \* numbers given to frames, and frames accepted: ghosts
          leaderView,    \* what leader_view returns
          completed, active, \* node -> remembered answers, and its call in progress
          runs, answers, \* executions by the driver, and answers given: ghosts
          faults

peerVars == <<peerFault, stateFile, stateKept, sequences, saving, lockFile, frames, issued,
              admitted, leaderView, completed, active, runs, answers, faults>>

\* The numbers a node keeps, a persist under way, and what the constants must be for these
\* to differ from None.
Numbers == [incoming : [Peers -> Nat], outgoing : [Peers -> Nat]]
Saves == [at : {"rename", "sync"}, old : Numbers, new : Numbers,
          then : [to : {"seal", "admit"}, peer : Peers, sequence : 1..MaxSequence]]
PeerAssumption == MaxSequence \in Nat /\ None \notin Numbers /\ None \notin Saves

NoSequences == [incoming |-> [p \in Peers |-> 0], outgoing |-> [p \in Peers |-> 0]]
Executing == <<leaderView, completed, active, runs, answers>>
Sequencing == <<stateFile, stateKept, sequences, saving, lockFile, frames, issued, admitted>>

-----------------------------------------------------------------------------
(* PersistentPeerSequences. *)

\* Without a file the numbers start at zero.
OpenSequences(n) ==
    /\ peerFault # "views" /\ sequences[n] = None /\ ~lockFile[n]
    /\ lockFile' = [lockFile EXCEPT ![n] = TRUE]
    /\ sequences' = [sequences EXCEPT ![n] = IF stateFile[n] = None THEN NoSequences ELSE stateFile[n]]
    /\ UNCHANGED <<peerFault, stateFile, stateKept, saving, frames, issued, admitted, faults>>
    /\ UNCHANGED Executing

\* Drop removes the lock; a kill does not.
CloseSequences(n) ==
    /\ sequences[n] # None /\ saving[n] = None
    /\ sequences' = [sequences EXCEPT ![n] = None] /\ lockFile' = [lockFile EXCEPT ![n] = FALSE]
    /\ UNCHANGED <<peerFault, stateFile, stateKept, saving, frames, issued, admitted, faults>>
    /\ UNCHANGED Executing

Idle(n) == sequences[n] # None /\ saving[n] = None

\* The new numbers are in memory while they are written.
Persist(n, new, then) ==
    saving' = [saving EXCEPT ![n] = [at |-> "rename", old |-> sequences[n], new |-> new, then |-> then]]

\* Mutant: a number is given out before it is written.
NextOutgoingUnsaved(n, p) ==
    /\ Idle(n) /\ p # n /\ sequences[n].outgoing[p] < MaxSequence
    /\ LET next == sequences[n].outgoing[p] + 1
       IN  /\ sequences' = [sequences EXCEPT ![n].outgoing[p] = next]
           /\ issued' = [issued EXCEPT ![<<n, p, next>>] = @ + 1]
           /\ frames' = frames \cup {[sender |-> n, receiver |-> p, sequence |-> next]}
    /\ UNCHANGED <<peerFault, stateFile, stateKept, saving, lockFile, admitted, faults>>
    /\ UNCHANGED Executing

NextOutgoing(n, p) ==
    /\ Idle(n) /\ p # n /\ sequences[n].outgoing[p] < MaxSequence
    /\ LET next == sequences[n].outgoing[p] + 1
       IN  Persist(n, [sequences[n] EXCEPT !.outgoing[p] = next], [to |-> "seal", peer |-> p, sequence |-> next])
    /\ UNCHANGED <<peerFault, stateFile, stateKept, sequences, lockFile, frames, issued, admitted, faults>>
    /\ UNCHANGED Executing

\* seal and verify: a frame passes at the receiver it was sealed for.
Verified(n, f) == f.receiver = n

AdmitPeerEnvelope(n, f) ==
    /\ Idle(n) /\ Verified(n, f) /\ f.sequence > sequences[n].incoming[f.sender]
    /\ Persist(n, [sequences[n] EXCEPT !.incoming[f.sender] = f.sequence],
               [to |-> "admit", peer |-> f.sender, sequence |-> f.sequence])
    /\ UNCHANGED <<peerFault, stateFile, stateKept, sequences, lockFile, frames, issued, admitted, faults>>
    /\ UNCHANGED Executing

RenameState(n) ==
    /\ saving[n] # None /\ saving[n].at = "rename"
    /\ stateFile' = [stateFile EXCEPT ![n] = saving[n].new]
    /\ stateKept' = IF peerFault = "process" THEN stateFile' ELSE stateKept
    /\ saving' = [saving EXCEPT ![n].at = "sync"]
    /\ UNCHANGED <<peerFault, sequences, lockFile, frames, issued, admitted, faults>>
    /\ UNCHANGED Executing

\* persist returned: the number is used for a frame, or the frame is handled.
SyncState(n) ==
    /\ saving[n] # None /\ saving[n].at = "sync"
    /\ stateKept' = [stateKept EXCEPT ![n] = stateFile[n]]
    /\ sequences' = [sequences EXCEPT ![n] = saving[n].new] /\ saving' = [saving EXCEPT ![n] = None]
    /\ LET d == saving[n].then
       IN  IF d.to = "seal"
           THEN /\ issued' = [issued EXCEPT ![<<n, d.peer, d.sequence>>] = @ + 1]
                /\ frames' = frames \cup {[sender |-> n, receiver |-> d.peer, sequence |-> d.sequence]}
                /\ UNCHANGED admitted
           ELSE /\ admitted' = [admitted EXCEPT ![<<d.peer, n, d.sequence>>] = @ + 1]
                /\ UNCHANGED <<issued, frames>>
    /\ UNCHANGED <<peerFault, stateFile, lockFile, faults>> /\ UNCHANGED Executing

\* A write that fails before or after its rename: memory keeps the old numbers.
PersistFails(n) ==
    /\ saving[n] # None /\ faults < MaxFaults
    /\ saving' = [saving EXCEPT ![n] = None] /\ faults' = faults + 1
    /\ UNCHANGED <<peerFault, stateFile, stateKept, sequences, lockFile, frames, issued, admitted>>
    /\ UNCHANGED Executing

KillPeer(n) ==
    /\ peerFault = "views" \/ sequences[n] # None
    /\ faults < MaxFaults
    /\ sequences' = [sequences EXCEPT ![n] = None] /\ saving' = [saving EXCEPT ![n] = None]
    /\ faults' = faults + 1
    /\ LET left == IF peerFault = "power" THEN {stateKept[n], stateFile[n]} ELSE {stateFile[n]}
       IN  \E s \in left : stateFile' = [stateFile EXCEPT ![n] = s]
    /\ stateKept' = stateFile'
    /\ completed' = [completed EXCEPT ![n] = [o \in {} |-> None]] /\ active' = [active EXCEPT ![n] = None]
    /\ answers' = {a \in answers : a.node # n}
    /\ UNCHANGED <<peerFault, lockFile, frames, issued, admitted, leaderView, runs>>

RemoveLock(n) ==
    /\ sequences[n] = None /\ lockFile[n]
    /\ lockFile' = [lockFile EXCEPT ![n] = FALSE]
    /\ UNCHANGED <<peerFault, stateFile, stateKept, sequences, saving, frames, issued, admitted, faults>>
    /\ UNCHANGED Executing

-----------------------------------------------------------------------------
(* HaService::execute.  An answer carries the term and the index of its      *)
(* execution.                                                                *)

ViewChanges(n) ==
    /\ peerFault = "views" /\ leaderView.term < MaxViews
    /\ leaderView' = [leader |-> n, term |-> leaderView.term + 1, commit |-> leaderView.commit,
                      quorum |-> ~leaderView.quorum \/ n # leaderView.leader]
    /\ UNCHANGED <<peerFault, completed, active, runs, answers, faults>> /\ UNCHANGED Sequencing

Digest(op, payload) == <<op, payload>>

\* The answer is known, the identifier is in use for something else, or the
\* view has a leader with a quorum.
Execute(n, op, payload) ==
    /\ peerFault = "views" /\ active[n] = None
    /\ IF op \in DOMAIN completed[n]
       THEN /\ completed[n][op].digest = Digest(op, payload)
            /\ answers' = answers \cup {[node |-> n, op |-> op, payload |-> payload, result |-> completed[n][op].result]}
            /\ UNCHANGED active
       ELSE /\ leaderView.quorum
            /\ active' = [active EXCEPT ![n] = [op |-> op, payload |-> payload, view |-> leaderView]]
            /\ UNCHANGED answers
    /\ UNCHANGED <<peerFault, leaderView, completed, runs, faults>> /\ UNCHANGED Sequencing

\* The driver, here or at the leader, executes in the term of its own time.
Executed(n) ==
    /\ active[n] # None /\ runs < MaxRuns
    /\ LET c      == active[n]
           result == [term |-> leaderView.term, index |-> leaderView.commit + 1, value |-> c.payload]
       IN  /\ leaderView' = [leaderView EXCEPT !.commit = @ + 1]
           /\ active' = [active EXCEPT ![n] = None] /\ runs' = runs + 1
           /\ IF /\ result.term = c.view.term /\ result.index >= c.view.commit
                 /\ Cardinality(DOMAIN completed[n]) < CompletedLimit
              THEN /\ completed' = [completed EXCEPT ![n] =
                        [o \in DOMAIN @ \cup {c.op} |->
                           IF o = c.op THEN [digest |-> Digest(c.op, c.payload), result |-> result] ELSE @[o]]]
                   /\ answers' = answers \cup {[node |-> n, op |-> c.op, payload |-> c.payload, result |-> result]}
              ELSE UNCHANGED <<completed, answers>>
    /\ UNCHANGED <<peerFault, faults>> /\ UNCHANGED Sequencing

ExecuteFails(n) ==
    /\ active[n] # None /\ active' = [active EXCEPT ![n] = None]
    /\ UNCHANGED <<peerFault, leaderView, completed, runs, answers, faults>> /\ UNCHANGED Sequencing

-----------------------------------------------------------------------------
NumberedBy == {i \in Peers \X Peers \X (1..MaxSequence) : i[1] # i[2]}

PeerInit ==
    /\ peerFault \in PeerFaults
    /\ stateFile = [n \in Peers |-> None] /\ stateKept = stateFile
    /\ sequences = [n \in Peers |-> None] /\ saving = sequences /\ lockFile = [n \in Peers |-> FALSE]
    /\ frames = {} /\ issued = [i \in NumberedBy |-> 0] /\ admitted = issued
    /\ leaderView \in [leader : Peers, term : {1}, commit : {0}, quorum : {TRUE}]
    /\ completed = [n \in Peers |-> [o \in {} |-> None]] /\ active = [n \in Peers |-> None]
    /\ runs = 0 /\ answers = {} /\ faults = 0

PeerNext ==
    \/ \E n \in Peers :
         \/ OpenSequences(n) \/ CloseSequences(n) \/ RenameState(n) \/ SyncState(n)
         \/ PersistFails(n) \/ KillPeer(n) \/ RemoveLock(n)
         \/ \E p \in Peers : NextOutgoing(n, p)
         \/ \E f \in frames : AdmitPeerEnvelope(n, f)
         \/ ViewChanges(n) \/ Executed(n) \/ ExecuteFails(n)
         \/ \E op \in OpIds, payload \in Payloads : Execute(n, op, payload)

PeerSpec == PeerInit /\ [][PeerNext]_peerVars

-----------------------------------------------------------------------------
\* Across failed writes, kills and losses of power no number is given to two
\* frames, and no frame is handled twice.
FramesOnce == \A i \in NumberedBy : issued[i] <= 1 /\ admitted[i] <= 1

\* Until it is restarted, a node gives one answer to an operation identifier, for
\* one payload, however often it is asked and whoever leads.  This says nothing of
\* how often the driver executed it: an answer that is refused as stale or for want
\* of room comes after the execution and is not remembered.
AnsweredOnce == \A a, b \in answers : a.node = b.node /\ a.op = b.op => a = b

\* No number is given to two peer frames and no frame is admitted twice, whatever write
\* fails and wherever the process or the power goes; and a running node never answers one
\* operation in two ways (ha-service, PersistentPeerSequences and HaService::execute).
OnceEach == FramesOnce /\ AnsweredOnce
=============================================================================
