----------------------------- MODULE RaftCluster -----------------------------
(***************************************************************************)
(* RaftRuntime and DurableCluster: the bootstrap of three voters by one    *)
(* membership change after the other, and the calls that replicate an      *)
(* envelope, read the index or wait for a snapshot through whichever node  *)
(* leads, each with a bounded number of attempts.                          *)
(*                                                                         *)
(* OpenRaft is external: entries that a leader accepts enter the committed *)
(* log, nodes apply them in order, leadership moves, every node has its    *)
(* own idea of the leader.  A call on a leader that loses its place is     *)
(* answered with ForwardToLeader whether or not its entry is committed     *)
(* later; a call may also fail fatally or run out of time.                 *)
(***************************************************************************)
EXTENDS Integers, Sequences, FiniteSets

CONSTANTS Callers,       \* concurrent callers of the runtime
          MaxAttempts,   \* LEADER_RETRY_ATTEMPTS
          MaxElections,  \* bound: changes of leadership
          MaxLog         \* bound: length of the committed log

VARIABLES boot,          \* the stage of bootstrap_three_voters
          started,       \* nodes opened and registered
          clog,          \* the committed log
          applied,       \* node -> entries it has applied
          built,         \* node -> last entry in its snapshot
          leader, view,  \* who leads, and whom each node takes for the leader
          call,          \* caller -> its call of the runtime
          elections

clusterVars == <<boot, started, clog, applied, built, leader, view, call, elections>>

Ids == 1..3
NoCall == [op |-> "none"]
Joining(n) == [kind |-> "learner", node |-> n]
Promoting == [kind |-> "voters"]
Members(l) == {1} \cup {l[i].node : i \in {j \in DOMAIN l : l[j].kind = "learner"}}
VotersOf(l) == IF \E i \in DOMAIN l : l[i].kind = "voters" THEN Ids ELSE {1}
Operation == "boot"      \* the bootstrap's own membership call
ClusterAssumption == Operation \notin Callers

\* consensus_leader: all the nodes that name a leader name the same, a started one.
ConsensusLeader(n) == n \in started /\ {view[m] : m \in started} \ {0} = {n}

\* retry_leader: the hint, or a fresh consensus, or the node tried before.
RetryLeader(fallback, hinted) ==
    IF hinted \in started \ {fallback} THEN {hinted}
    ELSE {fallback} \cup {n \in started : ConsensusLeader(n)}

-----------------------------------------------------------------------------
(* Calls: an attempt at a candidate is answered Ok, with ForwardToLeader,    *)
(* with an error that is tried again, or with one that ends the call.        *)

Calling(op, what, n) == [op |-> op, what |-> what, at |-> n, tries |-> 1, index |-> 0]

Again(c, n) == IF c.tries < MaxAttempts THEN [c EXCEPT !.at = n, !.tries = @ + 1]
               ELSE [c EXCEPT !.op = "failed"]

Hint(n) == view[n]

\* The candidate leads and the entry is committed.
Accepted(w) ==
    LET c == call[w]
    IN  /\ c.op = "write" /\ c.at = leader /\ c.at \in started /\ Len(clog) < MaxLog
        /\ clog' = Append(clog, c.what)
        /\ call' = [call EXCEPT ![w] = [c EXCEPT !.op = "wait", !.index = Len(clog) + 1]]
        /\ UNCHANGED <<boot, started, applied, built, leader, view, elections>>

\* The candidate does not lead, or led and lost its place with the entry under way.
Forwarded(w) ==
    LET c == call[w]
    IN  /\ c.op \in {"write", "read"} /\ c.at # leader
        /\ \/ UNCHANGED clog
           \/ c.op = "write" /\ elections > 0 /\ Len(clog) < MaxLog /\ clog' = Append(clog, c.what)
        /\ \E n \in RetryLeader(c.at, Hint(c.at)) : call' = [call EXCEPT ![w] = Again(c, n)]
        /\ UNCHANGED <<boot, started, applied, built, leader, view, elections>>

\* The candidate takes itself for the leader and finds no quorum, or a membership change
\* under way: tried again without a hint.  The bootstrap is not tried again.
Refused(w) ==
    LET c == call[w]
    IN  /\ w # Operation /\ c.op \in {"write", "read"} /\ Hint(c.at) = c.at
        /\ \E n \in RetryLeader(c.at, 0) : call' = [call EXCEPT ![w] = Again(c, n)]
        /\ UNCHANGED <<boot, started, clog, applied, built, leader, view, elections>>

\* A fatal error, or the time a membership change may take is up: no retry.
GaveUp(w) ==
    /\ call[w].op \in {"write", "wait", "read", "snapshot"}
    /\ call' = [call EXCEPT ![w].op = "failed"]
    /\ boot' = IF w = Operation THEN "unknown" ELSE boot
    /\ UNCHANGED <<started, clog, applied, built, leader, view, elections>>

-----------------------------------------------------------------------------
(* RaftRuntime. *)

Served == boot = "done"
CallerFree(w) == w \in Callers /\ call[w].op \in {"none", "failed", "receipt", "indexed", "covered"}

Replicate(w, n) ==
    /\ Served /\ CallerFree(w) /\ ConsensusLeader(n)
    /\ call' = [call EXCEPT ![w] = Calling("write", [kind |-> "envelope", by |-> w], n)]
    /\ UNCHANGED <<boot, started, clog, applied, built, leader, view, elections>>

\* Mutant: the receipt is given when the leader has applied the entry.
WaitAllAppliedByLeader(w) ==
    /\ call[w].op = "wait" /\ w # Operation /\ applied[leader] >= call[w].index
    /\ call' = [call EXCEPT ![w].op = "receipt"]
    /\ UNCHANGED <<boot, started, clog, applied, built, leader, view, elections>>

\* wait_all_applied, then the receipt with the entry's index.
WaitAllApplied(w) ==
    /\ call[w].op = "wait" /\ w # Operation
    /\ \A n \in started : applied[n] >= call[w].index
    /\ call' = [call EXCEPT ![w].op = "receipt"]
    /\ UNCHANGED <<boot, started, clog, applied, built, leader, view, elections>>

EnsureLinearizable(w, n) ==
    /\ Served /\ CallerFree(w) /\ ConsensusLeader(n)
    /\ call' = [call EXCEPT ![w] = Calling("read", Len(clog), n)]
    /\ UNCHANGED <<boot, started, clog, applied, built, leader, view, elections>>

\* read_index: the leader confirms its place and has applied what was committed.
ReadIndex(w) ==
    /\ call[w].op = "read" /\ call[w].at = leader /\ applied[leader] = Len(clog)
    /\ call' = [call EXCEPT ![w].op = "indexed", ![w].index = Len(clog)]
    /\ UNCHANGED <<boot, started, clog, applied, built, leader, view, elections>>

TriggerSnapshot(w, n, minimum) ==
    /\ Served /\ CallerFree(w) /\ ConsensusLeader(n)
    /\ call' = [call EXCEPT ![w] = Calling("snapshot", minimum, n)]
    /\ UNCHANGED <<boot, started, clog, applied, built, leader, view, elections>>

\* The candidate builds a snapshot; the call returns when it reaches the minimum.
SnapshotBuilt(w) ==
    LET c == call[w]
    IN  /\ c.op = "snapshot"
        /\ built' = [built EXCEPT ![c.at] = applied[c.at]]
        /\ IF applied[c.at] >= c.what
           THEN call' = [call EXCEPT ![w].op = "covered", ![w].index = applied[c.at]]
           ELSE \E n \in RetryLeader(c.at, 0) : call' = [call EXCEPT ![w] = Again(c, n)]
        /\ UNCHANGED <<boot, started, clog, applied, leader, view, elections>>

\* shutdown takes the cluster; reopen starts the three nodes again.
Shutdown ==
    /\ Served /\ \A w \in Callers : CallerFree(w)
    /\ boot' = "down" /\ started' = {} /\ view' = [n \in Ids |-> 0]
    /\ UNCHANGED <<clog, applied, built, leader, call, elections>>

ReopenThreeVoters ==
    /\ boot = "down"
    /\ IF started = Ids
       THEN (\E n \in Ids : ConsensusLeader(n)) /\ boot' = "done" /\ UNCHANGED started
       ELSE started' = started \cup {Cardinality(started) + 1} /\ UNCHANGED boot
    /\ UNCHANGED <<clog, applied, built, leader, view, call, elections>>

-----------------------------------------------------------------------------
(* bootstrap_three_voters. *)

StartNode ==
    /\ boot = "new" \/ (boot = "joined" /\ started # Ids)
    /\ LET id == Cardinality(started) + 1
       IN  started' = started \cup {id}
    /\ boot' = IF boot = "new" THEN "joined" ELSE "joining"
    /\ IF boot = "new" THEN leader' = 1 /\ view' = [view EXCEPT ![1] = 1] ELSE UNCHANGED <<leader, view>>
    /\ UNCHANGED <<clog, applied, built, call, elections>>

\* The next membership change, asked of the consensus leader.
BootstrapMembership(n) ==
    /\ ConsensusLeader(n) /\ call[Operation] = NoCall
    /\ \/ /\ boot = "joining"
          /\ call' = [call EXCEPT ![Operation] = Calling("write", Joining(Cardinality(started)), n)]
       \/ /\ boot = "joined" /\ started = Ids
          /\ call' = [call EXCEPT ![Operation] = Calling("write", Promoting, n)]
    /\ UNCHANGED <<boot, started, clog, applied, built, leader, view, elections>>

\* A membership change is answered when it is applied by the leader, and the
\* last one when every node knows the three voters.
BootstrapAnswered ==
    /\ call[Operation].op = "wait"
    /\ applied[leader] >= call[Operation].index
    /\ call[Operation].what = Promoting => \A n \in Ids : VotersOf(SubSeq(clog, 1, applied[n])) = Ids
    /\ call' = [call EXCEPT ![Operation] = NoCall]
    /\ boot' = IF call[Operation].what = Promoting THEN "done" ELSE "joined"
    /\ UNCHANGED <<started, clog, applied, built, leader, view, elections>>

\* Every attempt was forwarded.
BootstrapFailed ==
    /\ call[Operation].op = "failed" /\ boot \in {"joining", "joined"}
    /\ boot' = "failed"
    /\ UNCHANGED <<started, clog, applied, built, leader, view, call, elections>>

-----------------------------------------------------------------------------
(* OpenRaft. *)

ApplyNext(n) ==
    /\ n \in started \cap Members(clog) /\ applied[n] < Len(clog)
    /\ applied' = [applied EXCEPT ![n] = @ + 1]
    /\ UNCHANGED <<boot, started, clog, built, leader, view, call, elections>>

Elect(n) ==
    /\ n \in started \cap VotersOf(clog) /\ n # leader /\ elections < MaxElections
    /\ leader' = n /\ view' = [view EXCEPT ![n] = n] /\ elections' = elections + 1
    /\ UNCHANGED <<boot, started, clog, applied, built, call>>

Learn(n) ==
    /\ n \in started /\ leader \in started /\ view' = [view EXCEPT ![n] = leader] /\ view' # view
    /\ UNCHANGED <<boot, started, clog, applied, built, leader, call, elections>>

-----------------------------------------------------------------------------
ClusterInit ==
    /\ boot = "new" /\ started = {} /\ clog = <<>> /\ elections = 0 /\ leader = 0
    /\ applied = [n \in Ids |-> 0] /\ built = [n \in Ids |-> 0] /\ view = [n \in Ids |-> 0]
    /\ call = [w \in Callers \cup {Operation} |-> NoCall]

ClusterNext ==
    \/ StartNode \/ BootstrapAnswered \/ BootstrapFailed \/ Shutdown \/ ReopenThreeVoters
    \/ \E n \in Ids : BootstrapMembership(n) \/ ApplyNext(n) \/ Elect(n) \/ Learn(n)
    \/ \E w \in Callers \cup {Operation} : Accepted(w) \/ Forwarded(w) \/ Refused(w) \/ GaveUp(w)
    \/ \E w \in Callers : \/ WaitAllApplied(w) \/ ReadIndex(w) \/ SnapshotBuilt(w)
                          \/ \E n \in Ids : \/ Replicate(w, n) \/ EnsureLinearizable(w, n)
                                            \/ TriggerSnapshot(w, n, Len(clog))

ClusterSpec == ClusterInit /\ [][ClusterNext]_clusterVars

-----------------------------------------------------------------------------
\* What a call of the runtime returns is true of the cluster: a receipt names an
\* entry that is the caller's envelope and that every node has applied; a read
\* index is behind nothing committed when it was asked for; a snapshot covers
\* its minimum on some node; and a bootstrap that returned has made three nodes,
\* each of which knows the three voters.
AnswersTrue ==
    /\ Served => \A n \in Ids : VotersOf(SubSeq(clog, 1, applied[n])) = Ids
    /\ \A w \in Callers :
         /\ call[w].op = "receipt" => /\ clog[call[w].index] = call[w].what
                                      /\ \A n \in Ids : applied[n] >= call[w].index
         /\ call[w].op \in {"indexed", "covered"} => call[w].index >= call[w].what
         /\ call[w].op = "covered" => \E n \in Ids : built[n] >= call[w].what
=============================================================================
