---------------------------- MODULE ClusterProofs ----------------------------
(***************************************************************************)
(* Proofs about the parts of a cluster beside the log of a node: the       *)
(* rollback anchor and the restore (Recovery), the handle of a Raft        *)
(* cluster (RaftCluster), and the peer frames and operation identifiers of *)
(* the RPC service (PeerService).                                          *)
(***************************************************************************)
EXTENDS Recovery, RaftCluster, PeerService, FiniteSetTheorems, TLAPS

-----------------------------------------------------------------------------
(***************************************************************************)
(* The rollback anchor only moves forward and a restore publishes what is  *)
(* anchored, for any coordinators, states, payloads and bounds.            *)
(*                                                                         *)
(* A step of compare_and_swap is judged by what its coordinator read some  *)
(* steps ago.  Advancing says that a read checkpoint with the anchored     *)
(* revision is the anchored checkpoint: revisions only grow, and each one  *)
(* is anchored once.  Restoring says that from the fence to the            *)
(* publication the archive is the one of the anchored checkpoint.          *)
(***************************************************************************)

Disks == [generation : Nat, state : States \cup {Absent}, records : Seq(RecordPayloads), epoch : Nat]

Observed(o) == /\ o.generation \in Nat /\ o.epoch \in Nat /\ Position(o) \in Nat

RecoveryTypes ==
    /\ disk \in Disks /\ (copy # Absent => copy \in Disks)
    /\ anchor.revision \in Nat
    /\ anchor # NoCheckpoint => anchor.revision > 0 /\ Observed(anchor.observation)
    /\ advancing = [c \in Coordinators |-> advancing[c]]

\* What a coordinator proposes is ahead of what it read, and that is the anchored
\* checkpoint unless the anchor has moved on.
Advancing ==
    \A c \in Coordinators : advancing[c].at = "swap" =>
        LET read == advancing[c].read
            next == advancing[c].next
        IN  /\ read.revision \in Nat /\ read.revision <= anchor.revision
            /\ read.revision = anchor.revision => read = anchor
            /\ next = NextCheckpoint(read, next.observation) /\ Observed(next.observation)
            /\ read # NoCheckpoint =>
                  CompareObservation(read.observation, next.observation) = "advance"

\* The image of one checkpoint: the state its observation names, and its records.
Whole(i) == /\ i.observation = i.checkpoint.observation
            /\ i.state = i.observation.digest
            /\ Len(i.records) = Position(i.observation)

Restoring ==
    /\ archive # Absent => Whole(archive.image)
    /\ restoring \in {"verified", "fenced", "staged"} => archive # Absent
    /\ restoring \in {"fenced", "staged"} => fence /\ anchor = archive.image.checkpoint
    /\ restoring = "staged" => target = [at |-> "staged", image |-> archive.image]

RecoveryInv == RecoveryTypes /\ Advancing /\ Restoring

-----------------------------------------------------------------------------
\* What compare_observation calls an advance is not older in any respect.
LEMMA AdvanceIsAhead ==
    ASSUME NEW a, NEW o, Observed(a), Observed(o), CompareObservation(a, o) = "advance"
    PROVE  o.generation >= a.generation /\ Position(o) >= Position(a) /\ o.epoch >= a.epoch
BY DEF Observed, CompareObservation

LEMMA DiskObserved ==
    ASSUME NEW d \in Disks
    PROVE  Observed(Observe(d)) /\ Observe(d).digest = d.state /\ Position(Observe(d)) = Len(d.records)
BY DEF Disks, Observed, Observe, Position, JournalTail

LEMMA AllReplayed ==
    ASSUME NEW d \in Disks
    PROVE  Len(ReplayedRecords(d)) = Len(d.records)
BY DEF Disks, ReplayedRecords

LEMMA NextIsCheckpoint ==
    ASSUME NEW c, NEW o, c.revision \in Nat
    PROVE  LET n == NextCheckpoint(c, o)
           IN  n.revision = c.revision + 1 /\ n.observation = o /\ n # NoCheckpoint
<1>1. c = NoCheckpoint => c.revision = 0
  BY DEF NoCheckpoint
<1>2. NextCheckpoint(c, o).revision = c.revision + 1 /\ NextCheckpoint(c, o).observation = o
  BY <1>1 DEF NextCheckpoint, CheckedNext
<1> QED BY <1>2 DEF NoCheckpoint

LEMMA RecoveryInitial == RecoveryInit => RecoveryInv
<1> SUFFICES ASSUME RecoveryInit PROVE RecoveryInv
  BY Zenon
<1>1. RecoveryTypes
  BY DEF RecoveryInit, RecoveryTypes, NoDisk, Disks, NoCheckpoint
<1>2. Advancing /\ Restoring
  BY Zenon DEF RecoveryInit, Advancing, Restoring, NotAdvancing
<1> QED BY Zenon, <1>1, <1>2 DEF RecoveryInv

\* The steps that leave the anchor and the coordinators alone.
LEMMA DiskSteps ==
    ASSUME RecoveryInv, Change \/ CopyDisk \/ PutDiskBack
    PROVE  RecoveryInv'
<1>1. UNCHANGED <<anchor, advancing, archive, restoring, fence, target>>
  BY Zenon DEF Change, CopyDisk, PutDiskBack
<1>2. disk' \in Disks
  <2>1. CASE Change
    <3>0. disk \in Disks
      BY Zenon DEF RecoveryInv, RecoveryTypes
    <3>1. ASSUME NEW v \in States, disk' = [disk EXCEPT !.generation = @ + 1, !.state = v]
          PROVE  disk' \in Disks
      <4>1. disk' = [generation |-> disk.generation + 1, state |-> v, records |-> disk.records,
                     epoch |-> disk.epoch]
        BY Zenon, <3>1, <3>0 DEF Disks
      <4> QED BY <4>1, <3>0 DEF Disks
    <3>2. ASSUME NEW v \in RecordPayloads, disk' = [disk EXCEPT !.records = Append(@, v)]
          PROVE  disk' \in Disks
      <4>1. Append(disk.records, v) \in Seq(RecordPayloads)
        BY <3>0 DEF Disks
      <4> QED BY Zenon, <4>1, <3>0, <3>2 DEF Disks
    <3>3. ASSUME disk' = [disk EXCEPT !.epoch = @ + 1] PROVE disk' \in Disks
      BY <3>0, <3>3 DEF Disks
    <3> QED BY Zenon, <2>1, <3>1, <3>2, <3>3 DEF Change
  <2>2. CASE CopyDisk \/ PutDiskBack
    BY Zenon, <2>2 DEF CopyDisk, PutDiskBack, RecoveryInv, RecoveryTypes
  <2> QED BY Zenon, <2>1, <2>2
<1>3. copy' # Absent => copy' \in Disks
  BY Zenon DEF Change, CopyDisk, PutDiskBack, RecoveryInv, RecoveryTypes
<1> QED BY Zenon, <1>1, <1>2, <1>3 DEF RecoveryInv, RecoveryTypes, Advancing, Restoring

LEMMA BeginKeeps ==
    ASSUME RecoveryInv, NEW c \in Coordinators, BeginAdvance(c)
    PROVE  RecoveryInv'
<1> DEFINE o == Observe(disk)
           mine == [at |-> "swap", read |-> anchor, next |-> NextCheckpoint(anchor, o)]
<1>1. /\ advancing' = [advancing EXCEPT ![c] = mine]
      /\ UNCHANGED <<disk, copy, anchor, archive, restoring, fence, target>>
      /\ Classify(o) \in {"unanchored", "advance"}
  BY Zenon DEF BeginAdvance
<1>2. Observed(o)
  BY Zenon, DiskObserved DEF RecoveryInv, RecoveryTypes
<1>3. RecoveryTypes' /\ Restoring'
  BY Zenon, <1>1 DEF RecoveryInv, RecoveryTypes, Restoring
<1>4. /\ mine.next = NextCheckpoint(anchor, mine.next.observation) /\ mine.next.observation = o
      /\ anchor # NoCheckpoint => CompareObservation(anchor.observation, o) = "advance"
  <2>1. mine.next.observation = o
    BY Zenon, NextIsCheckpoint DEF RecoveryInv, RecoveryTypes
  <2>2. anchor # NoCheckpoint => CompareObservation(anchor.observation, o) = "advance"
    <3>1. CompareObservation(anchor.observation, o) # "unanchored"
      BY Zenon DEF CompareObservation
    <3> QED BY Zenon, <1>1, <3>1 DEF Classify
  <2> QED BY Zenon, <2>1, <2>2
<1>5. Advancing'
  <2> SUFFICES ASSUME NEW d \in Coordinators, advancing'[d].at = "swap"
               PROVE  LET read == advancing'[d].read
                          next == advancing'[d].next
                      IN  /\ read.revision \in Nat /\ read.revision <= anchor.revision
                          /\ read.revision = anchor.revision => read = anchor
                          /\ next = NextCheckpoint(read, next.observation) /\ Observed(next.observation)
                          /\ read # NoCheckpoint =>
                                CompareObservation(read.observation, next.observation) = "advance"
    BY Zenon, <1>1 DEF Advancing
  <2>1. CASE d = c
    <3>1. advancing'[d] = mine
      BY Zenon, <1>1, <2>1 DEF RecoveryInv, RecoveryTypes
    <3>2. advancing'[d].read = anchor /\ advancing'[d].next = NextCheckpoint(anchor, o)
      BY <3>1
    <3> QED BY <3>2, <1>2, <1>4 DEF RecoveryInv, RecoveryTypes
  <2>2. CASE d # c
    <3>1. advancing'[d] = advancing[d]
      BY Zenon, <1>1, <2>2 DEF RecoveryInv, RecoveryTypes
    <3> QED BY Zenon, <3>1 DEF RecoveryInv, Advancing
  <2> QED BY Zenon, <2>1, <2>2
<1> QED BY Zenon, <1>3, <1>5 DEF RecoveryInv

LEMMA SwapKeeps ==
    ASSUME RecoveryInv, NEW c \in Coordinators, CompareAndSwap(c)
    PROVE  RecoveryInv' /\ AnchorForward
<1> DEFINE read == advancing[c].read
           next == advancing[c].next
           moves == anchor.revision = read.revision
<1>1. /\ advancing[c].at = "swap" /\ ~fence
      /\ anchor' = IF moves THEN next ELSE anchor
      /\ advancing' = [advancing EXCEPT ![c] = NotAdvancing]
      /\ UNCHANGED <<disk, copy, archive, restoring, fence, target>>
  BY Zenon DEF CompareAndSwap
<1>2. /\ read.revision \in Nat
      /\ moves => read = anchor
      /\ next = NextCheckpoint(read, next.observation) /\ Observed(next.observation)
      /\ read # NoCheckpoint => CompareObservation(read.observation, next.observation) = "advance"
  BY Zenon, <1>1 DEF RecoveryInv, Advancing
<1>3. next.revision = read.revision + 1 /\ next # NoCheckpoint
  <2>1. next = NextCheckpoint(read, next.observation) /\ read.revision \in Nat
    BY Zenon, <1>2
  <2> HIDE DEF next, read
  <2> QED BY Zenon, <2>1, NextIsCheckpoint
<1>4. RecoveryTypes'
  <2>1. anchor'.revision \in Nat /\ anchor'.revision >= anchor.revision
    BY <1>1, <1>2, <1>3 DEF RecoveryInv, RecoveryTypes
  <2>2. anchor' # NoCheckpoint => anchor'.revision > 0 /\ Observed(anchor'.observation)
    BY <1>1, <1>2, <1>3 DEF RecoveryInv, RecoveryTypes
  <2>3. advancing' = [d \in Coordinators |-> advancing'[d]]
    BY Zenon, <1>1 DEF RecoveryInv, RecoveryTypes
  <2> QED BY Zenon, <1>1, <2>1, <2>2, <2>3 DEF RecoveryInv, RecoveryTypes
<1>5. Advancing'
  <2> SUFFICES ASSUME NEW d \in Coordinators, advancing'[d].at = "swap"
               PROVE  /\ advancing'[d] = advancing[d] /\ advancing[d].at = "swap"
                      /\ advancing[d].read.revision <= anchor'.revision
                      /\ advancing[d].read.revision = anchor'.revision => advancing[d].read = anchor'
    BY Zenon DEF RecoveryInv, Advancing
  <2>1. d # c /\ advancing'[d] = advancing[d]
    BY Zenon, <1>1 DEF RecoveryInv, RecoveryTypes, NotAdvancing
  <2>2. /\ advancing[d].read.revision \in Nat /\ advancing[d].read.revision <= anchor.revision
        /\ advancing[d].read.revision = anchor.revision => advancing[d].read = anchor
    BY Zenon, <2>1 DEF RecoveryInv, Advancing
  <2>3. CASE moves
    <3>1. anchor'.revision = anchor.revision + 1
      BY Zenon, <1>1, <1>3, <2>3
    <3> QED BY <2>1, <2>2, <3>1 DEF RecoveryInv, RecoveryTypes
  <2>4. CASE ~moves
    BY Zenon, <1>1, <2>1, <2>2, <2>4
  <2> QED BY Zenon, <2>3, <2>4
<1>6. Restoring'
  BY Zenon, <1>1 DEF RecoveryInv, Restoring
<1>7. AnchorForward
  <2>1. CASE moves
    <3>1. anchor' = NextCheckpoint(anchor, anchor'.observation)
      <4>1. anchor' = next /\ read = anchor /\ next = NextCheckpoint(read, next.observation)
        BY Zenon, <1>1, <1>2, <2>1
      <4> HIDE DEF next, read
      <4> QED BY Zenon, <4>1
    <3>2. ASSUME anchor # NoCheckpoint
          PROVE  /\ anchor'.observation.generation >= anchor.observation.generation
                 /\ Position(anchor'.observation) >= Position(anchor.observation)
                 /\ anchor'.observation.epoch >= anchor.observation.epoch
      <4>1. Observed(anchor.observation) /\ read = anchor /\ anchor' = next
        BY Zenon, <1>1, <1>2, <2>1, <3>2 DEF RecoveryInv, RecoveryTypes
      <4> QED BY Zenon, <1>2, <3>2, <4>1, AdvanceIsAhead
    <3> QED BY Zenon, <3>1, <3>2 DEF AnchorForward
  <2>2. CASE ~moves
    BY Zenon, <1>1, <2>2 DEF AnchorForward
  <2> QED BY Zenon, <2>1, <2>2
<1> QED BY Zenon, <1>4, <1>5, <1>6, <1>7 DEF RecoveryInv

LEMMA CaptureKeeps ==
    ASSUME RecoveryInv, Capture
    PROVE  RecoveryInv'
<1> DEFINE image == [observation |-> Observe(disk), checkpoint |-> anchor, state |-> disk.state,
                     records |-> ReplayedRecords(disk)]
<1>1. /\ ValidImage(image) /\ archive' = [image |-> image, tag |-> ArchiveTag(image)]
      /\ restoring = "idle"
      /\ UNCHANGED <<disk, copy, anchor, advancing, restoring, fence, target>>
  BY Zenon DEF Capture
<1>2. Whole(image)
  <2>1. disk \in Disks
    BY Zenon DEF RecoveryInv, RecoveryTypes
  <2>2. image.checkpoint.observation = image.observation
    BY Zenon, <1>1 DEF ValidImage
  <2> QED BY Zenon, <2>1, <2>2, DiskObserved, AllReplayed DEF Whole
<1>3. archive'.image = image
  BY Zenon, <1>1
<1> QED BY Zenon, <1>1, <1>2, <1>3 DEF RecoveryInv, RecoveryTypes, Advancing, Restoring

LEMMA RestoreKeeps ==
    ASSUME RecoveryInv, VerifyCurrent \/ WithCurrentFence \/ StageIfEmpty \/ Publish
    PROVE  RecoveryInv'
<1>1. UNCHANGED <<disk, copy, anchor, advancing, archive>>
  BY Zenon DEF VerifyCurrent, WithCurrentFence, StageIfEmpty, Publish
<1>2. RecoveryTypes' /\ Advancing'
  BY Zenon, <1>1 DEF RecoveryInv, RecoveryTypes, Advancing
<1>3. Restoring'
  BY Zenon, <1>1 DEF VerifyCurrent, WithCurrentFence, StageIfEmpty, Publish, RecoveryInv, Restoring
<1> QED BY Zenon, <1>2, <1>3 DEF RecoveryInv

LEMMA RecoveryInductive ==
    ASSUME RecoveryInv, [RecoveryNext]_recoveryVars
    PROVE  RecoveryInv'
<1>1. CASE UNCHANGED recoveryVars
  BY Zenon, <1>1 DEF recoveryVars, RecoveryInv, RecoveryTypes, Advancing, Restoring
<1> QED BY Zenon, <1>1, DiskSteps, BeginKeeps, SwapKeeps, CaptureKeeps, RestoreKeeps DEF RecoveryNext

\* Only compare_and_swap moves the anchor, and only the end of a restore publishes.
LEMMA StepsForward ==
    ASSUME RecoveryInv, [RecoveryNext]_recoveryVars
    PROVE  AnchorForward /\ PublishedCurrent
<1>1. CASE Publish
  <2>1. /\ restoring = "staged" /\ UNCHANGED anchor
        /\ target' = [target EXCEPT !.at = "published"] \/ target' = [at |-> "empty"]
    BY Zenon, <1>1 DEF Publish
  <2>2. /\ target = [at |-> "staged", image |-> archive.image] /\ Whole(archive.image)
        /\ anchor = archive.image.checkpoint
    BY Zenon, <2>1 DEF RecoveryInv, Restoring
  <2>3. target'.at = "published" => target'.image = archive.image
    BY <2>1, <2>2
  <2> QED BY Zenon, <2>1, <2>2, <2>3 DEF AnchorForward, PublishedCurrent, Whole
<1>2. CASE StageIfEmpty
  <2>1. UNCHANGED anchor /\ (target' = target \/ target' = [at |-> "staged", image |-> archive.image])
    BY Zenon, <1>2 DEF StageIfEmpty
  <2> QED BY <2>1 DEF AnchorForward, PublishedCurrent
<1>3. ASSUME NEW c \in Coordinators, CompareAndSwap(c) PROVE AnchorForward /\ PublishedCurrent
  BY Zenon, <1>3, SwapKeeps DEF CompareAndSwap, PublishedCurrent
<1>4. CASE Change \/ CopyDisk \/ PutDiskBack \/ Capture \/ VerifyCurrent \/ WithCurrentFence
           \/ UNCHANGED recoveryVars \/ \E c \in Coordinators : BeginAdvance(c)
  BY Zenon, <1>4 DEF Change, CopyDisk, PutDiskBack, Capture, VerifyCurrent, WithCurrentFence, BeginAdvance,
              recoveryVars, AnchorForward, PublishedCurrent
<1> QED BY Zenon, <1>1, <1>2, <1>3, <1>4 DEF RecoveryNext

\* Whatever the coordinators interleave and whatever disk is put back, the anchor moves by one
\* linked revision at a time and never to anything older, and what a restore publishes is the
\* whole image of the checkpoint anchored at that moment (rollback-anchor, advance and
\* compare_observation; recovery-core, capture and restore).
THEOREM AnchorOnlyForward == RecoverySpec => AnchorMovesForward
<1>1. RecoveryInv /\ [RecoveryNext]_recoveryVars => RecoveryInv'
  BY Zenon, RecoveryInductive
<1>2. RecoveryInv /\ [RecoveryNext]_recoveryVars => [AnchorForward /\ PublishedCurrent]_recoveryVars
  BY Zenon, StepsForward
<1> QED BY <1>1, <1>2, RecoveryInitial, PTL DEF RecoverySpec, AnchorMovesForward

-----------------------------------------------------------------------------
(***************************************************************************)
(* What the handle of a Raft cluster answers is true of the cluster, for   *)
(* any callers and any number of attempts, elections and entries.          *)
(*                                                                         *)
(* AnswersTrue is not inductive: a receipt says that every node has        *)
(* applied the entry, and the handle asks the nodes it has started.  The   *)
(* invariant adds how a bootstrap leads there: the voters are promoted     *)
(* only when all three nodes run, a caller is served only behind that, and *)
(* a shutdown waits for the callers.                                       *)
(***************************************************************************)

Entries == [kind : {"learner"}, node : Nat] \cup [kind : {"voters"}]
           \cup [kind : {"envelope"}, by : Callers]

Kinds == {"write", "wait", "receipt", "read", "indexed", "snapshot", "covered", "failed"}
Subjects == Nat \cup Entries
Calls == [op : Kinds, what : Subjects, at : Ids, tries : Nat, index : Nat]
Owners == Callers \cup {Operation}

ClusterTypes ==
    /\ started \in {1..k : k \in 0..3}
    /\ clog \in Seq(Entries)
    /\ applied \in [Ids -> Nat] /\ built \in [Ids -> Nat]
    /\ \A n \in Ids : built[n] <= applied[n] /\ applied[n] <= Len(clog)
    /\ call \in [Owners -> Calls \cup {NoCall}]

\* Some entry that a node has applied made the three nodes voters.
KnowsVoters(n) == \E i \in 1..applied[n] : clog[i].kind = "voters"

Bootstrapped ==
    /\ boot = "new" => started = {}
    /\ boot = "done" => started = Ids
    /\ boot \in {"done", "down"} => call[Operation] = NoCall /\ \A n \in Ids : KnowsVoters(n)
    /\ call[Operation].op # "none" /\ call[Operation].what = Promoting => started = Ids

\* A caller that waits for an answer is served.
Busy(c) == c.op \in {"write", "wait", "read", "snapshot"}
CallersServed == \A w \in Callers : Busy(call[w]) => boot = "done"

\* What a call of each kind has reached.
CallTrue(c) ==
    /\ c.op = "write" => c.what \in Entries
    /\ c.op \in {"wait", "receipt"} => c.index \in 1..Len(clog) /\ clog[c.index] = c.what
    /\ c.op = "receipt" => \A n \in Ids : applied[n] >= c.index
    /\ c.op \in {"read", "snapshot", "indexed", "covered"} => c.what \in Nat
    /\ c.op = "read" => c.what <= Len(clog)
    /\ c.op \in {"indexed", "covered"} => c.index >= c.what
    /\ c.op = "covered" => \E n \in Ids : built[n] >= c.what

CallsTrue == \A w \in Owners : CallTrue(call[w])

ClusterInv == ClusterTypes /\ Bootstrapped /\ CallersServed /\ CallsTrue

-----------------------------------------------------------------------------
\* The nodes are started in the order of their numbers.
LEMMA StartedGrows ==
    ASSUME NEW s \in {1..k : k \in 0..3}
    PROVE  /\ s \subseteq Ids /\ Cardinality(s) \in Nat
           /\ s # Ids => s \cup {Cardinality(s) + 1} \in {1..k : k \in 0..3}
<1>1. PICK k \in 0..3 : s = 1..k
  BY Zenon
<1>2. Cardinality(s) = k
  <2>1. Cardinality(1..k) = IF 1 > k THEN 0 ELSE k - 1 + 1
    BY FS_Interval
  <2> QED BY <1>1, <2>1
<1>3. s # Ids => k + 1 \in 0..3 /\ s \cup {k + 1} = 1..(k + 1)
  BY <1>1 DEF Ids
<1> QED BY <1>1, <1>2, <1>3 DEF Ids

\* A node knows the voters when its prefix of the log makes them.
LEMMA VotersKnown ==
    ASSUME ClusterTypes, NEW n \in Ids
    PROVE  VotersOf(SubSeq(clog, 1, applied[n])) = Ids <=> KnowsVoters(n)
<1> DEFINE l == SubSeq(clog, 1, applied[n])
<1>1. applied[n] \in 0..Len(clog) /\ clog \in Seq(Entries)
  BY DEF ClusterTypes
<1>2. DOMAIN l = 1..applied[n] /\ \A i \in 1..applied[n] : l[i] = clog[i]
  BY <1>1
<1>3. Ids # {1}
  BY DEF Ids
<1> HIDE DEF l
<1> QED BY Zenon, <1>2, <1>3 DEF VotersOf, KnowsVoters, l

-----------------------------------------------------------------------------
LEMMA ClusterInitial == ClusterInit => ClusterInv
<1> SUFFICES ASSUME ClusterInit PROVE ClusterInv
  BY Zenon
<1>1. started = 1..0 /\ started = {}
  BY DEF ClusterInit
<1>2. clog \in Seq(Entries) /\ Len(clog) = 0
  BY DEF ClusterInit
<1>3. ClusterTypes
  BY <1>1, <1>2 DEF ClusterInit, ClusterTypes, Owners
<1>4. \A w \in Owners : call[w] = NoCall
  BY Zenon DEF ClusterInit, Owners
<1>5. NoCall.op = "none" /\ Operation \in Owners
  BY Zenon DEF NoCall, Owners
<1>6. Bootstrapped
  BY Zenon, <1>1, <1>4, <1>5 DEF ClusterInit, Bootstrapped
<1>7. CallersServed /\ CallsTrue
  BY Zenon, <1>4, <1>5 DEF CallersServed, CallsTrue, Busy, CallTrue, Owners
<1> QED BY Zenon, <1>3, <1>6, <1>7 DEF ClusterInv

\* The log and what the nodes have applied and built only grow, so what a call was told stays
\* true.
LEMMA CallStaysTrue ==
    ASSUME ClusterTypes, NEW c \in Calls \cup {NoCall}, CallTrue(c),
           Len(clog) <= Len(clog'), \A i \in 1..Len(clog) : clog'[i] = clog[i], Len(clog') \in Nat,
           \A n \in Ids : applied'[n] \in Nat /\ applied[n] <= applied'[n]
                          /\ built'[n] \in Nat /\ built[n] <= built'[n]
    PROVE  CallTrue(c)'
<1>1. Len(clog) \in Nat
  BY DEF ClusterTypes
<1>2. c = NoCall \/ c \in Calls
  BY Zenon
<1>3. CASE c = NoCall
  BY Zenon, <1>3 DEF CallTrue, NoCall
<1>4. CASE c \in Calls
  <2>1. c.op \in {"wait", "receipt"} => c.index \in 1..Len(clog') /\ clog'[c.index] = c.what
    BY <1>1 DEF CallTrue
  <2>2. c.op = "receipt" => \A n \in Ids : applied'[n] >= c.index
    BY <1>4 DEF CallTrue, ClusterTypes, Calls
  <2>3. c.op = "read" => c.what <= Len(clog')
    BY <1>1 DEF CallTrue
  <2>4. c.op = "covered" => \E n \in Ids : built'[n] >= c.what
    BY DEF CallTrue, ClusterTypes
  <2> QED BY Zenon, <2>1, <2>2, <2>3, <2>4 DEF CallTrue
<1> QED BY Zenon, <1>2, <1>3, <1>4

\* A step of one call: only that call changes, and the log at most grows by one entry.
LEMMA OneCall ==
    ASSUME ClusterInv, ClusterTypes, NEW w \in Owners, NEW c \in Calls \cup {NoCall},
           call' = [call EXCEPT ![w] = c],
           UNCHANGED <<started, applied>>,
           clog' = clog \/ \E e \in Entries : clog' = Append(clog, e),
           built' = built \/ \E m \in Ids : built' = [built EXCEPT ![m] = applied[m]],
           CallTrue(c)'
    PROVE  ClusterTypes' /\ CallsTrue'
<1>1. /\ clog' \in Seq(Entries) /\ Len(clog') \in Nat /\ Len(clog) <= Len(clog')
      /\ \A i \in 1..Len(clog) : clog'[i] = clog[i]
  <2>0. clog \in Seq(Entries)
    BY Zenon DEF ClusterTypes
  <2>1. CASE clog' = clog
    BY <2>0, <2>1
  <2>2. ASSUME NEW e \in Entries, clog' = Append(clog, e)
        PROVE  /\ clog' \in Seq(Entries) /\ Len(clog') = Len(clog) + 1
               /\ \A i \in 1..Len(clog) : clog'[i] = clog[i]
    BY <2>0, <2>2
  <2> QED BY <2>0, <2>1, <2>2
<1>2. /\ built' \in [Ids -> Nat]
      /\ \A n \in Ids : built[n] <= built'[n] /\ built'[n] <= applied[n]
  <2>0. /\ built \in [Ids -> Nat] /\ applied \in [Ids -> Nat]
        /\ \A n \in Ids : built[n] <= applied[n]
    BY Zenon DEF ClusterTypes
  <2>1. CASE built' = built
    BY <2>0, <2>1
  <2>2. ASSUME NEW m \in Ids, built' = [built EXCEPT ![m] = applied[m]]
        PROVE  /\ built' \in [Ids -> Nat]
               /\ \A n \in Ids : built[n] <= built'[n] /\ built'[n] <= applied[n]
    BY <2>0, <2>2
  <2> QED BY Zenon, <2>1, <2>2
<1>3. ClusterTypes'
  <2>1. \A n \in Ids : applied[n] <= Len(clog')
    BY <1>1 DEF ClusterTypes
  <2>2. call' \in [Owners -> Calls \cup {NoCall}]
    BY Zenon DEF ClusterTypes
  <2> QED BY Zenon, <1>1, <1>2, <2>1, <2>2 DEF ClusterTypes
<1>4. ASSUME NEW v \in Owners PROVE CallTrue(call[v])'
  <2>1. CASE v = w
    BY Zenon, <2>1 DEF ClusterTypes
  <2>2. CASE v # w
    <3>1. call'[v] = call[v] /\ call[v] \in Calls \cup {NoCall}
      BY Zenon, <2>2 DEF ClusterTypes
    <3>2. CallTrue(call[v])
      BY Zenon DEF ClusterInv, CallsTrue
    <3> DEFINE d == call[v]
    <3>3. \A n \in Ids : applied'[n] \in Nat /\ applied[n] <= applied'[n]
                         /\ built'[n] \in Nat /\ built[n] <= built'[n]
      BY <1>2 DEF ClusterTypes
    <3> QED BY Zenon, <1>1, <3>1, <3>2, <3>3, CallStaysTrue DEF CallTrue
  <2> QED BY Zenon, <2>1, <2>2
<1> QED BY Zenon, <1>3, <1>4 DEF CallsTrue

\* Such a step of a caller leaves the bootstrap alone.
LEMMA CallerKeepsBoot ==
    ASSUME ClusterInv, ClusterAssumption, NEW w \in Callers, NEW c \in Calls,
           call' = [call EXCEPT ![w] = c],
           UNCHANGED <<boot, started, applied>>,
           clog' = clog \/ \E e \in Entries : clog' = Append(clog, e),
           Busy(c) => boot = "done"
    PROVE  Bootstrapped' /\ CallersServed'
<1>1. w # Operation /\ call'[Operation] = call[Operation]
  BY Zenon DEF ClusterInv, ClusterTypes, ClusterAssumption, Owners
<1>2. \A n \in Ids : KnowsVoters(n) => KnowsVoters(n)'
  <2> SUFFICES ASSUME NEW n \in Ids, NEW i \in 1..applied[n], clog[i].kind = "voters"
               PROVE  clog'[i].kind = "voters"
    BY Zenon DEF KnowsVoters
  <2>1. i \in 1..Len(clog) /\ clog \in Seq(Entries)
    BY DEF ClusterInv, ClusterTypes
  <2>2. clog'[i] = clog[i]
    BY <2>1
  <2> QED BY Zenon, <2>2
<1>3. Bootstrapped'
  BY Zenon, <1>1, <1>2 DEF ClusterInv, Bootstrapped
<1>4. \A v \in Callers : call'[v] = IF v = w THEN c ELSE call[v]
  BY Zenon DEF ClusterInv, ClusterTypes, Owners
<1>5. CallersServed'
  BY Zenon, <1>4 DEF ClusterInv, CallersServed, Busy
<1> QED BY Zenon, <1>3, <1>5

\* A new call of a caller.
LEMMA CallBegins ==
    ASSUME ClusterInv, ClusterAssumption, NEW w \in Callers, NEW n \in Ids,
           Replicate(w, n) \/ EnsureLinearizable(w, n) \/ TriggerSnapshot(w, n, Len(clog))
    PROVE  ClusterInv'
<1> DEFINE c == call'[w]
<1>0. Len(clog) \in Nat /\ call \in [Owners -> Calls \cup {NoCall}] /\ w \in Owners
  BY DEF ClusterInv, ClusterTypes, Owners
<1>1. PICK op \in {"write", "read", "snapshot"}, what \in Subjects :
         /\ call' = [call EXCEPT ![w] = Calling(op, what, n)]
         /\ op = "write" => what \in Entries
         /\ op # "write" => what = Len(clog)
  <2>1. CASE Replicate(w, n)
    BY Zenon, <2>1 DEF Replicate, Entries, Subjects
  <2>2. CASE EnsureLinearizable(w, n)
    BY Zenon, <1>0, <2>2 DEF EnsureLinearizable, Subjects
  <2>3. CASE TriggerSnapshot(w, n, Len(clog))
    BY Zenon, <1>0, <2>3 DEF TriggerSnapshot, Subjects
  <2> QED BY Zenon, <2>1, <2>2, <2>3
<1>2. boot = "done" /\ UNCHANGED <<boot, started, clog, applied, built>>
  BY Zenon DEF Replicate, EnsureLinearizable, TriggerSnapshot, Served
<1>3. /\ call' = [call EXCEPT ![w] = Calling(op, what, n)]
      /\ Calling(op, what, n) \in Calls
  BY Zenon, <1>1 DEF Calling, Calls, Kinds
<1>4. CallTrue(Calling(op, what, n))'
  BY <1>0, <1>1, <1>2 DEF Calling, CallTrue
<1>5. ClusterTypes' /\ CallsTrue'
  BY Zenon, <1>0, <1>2, <1>3, <1>4, OneCall DEF ClusterInv
<1>6. Bootstrapped' /\ CallersServed'
  BY Zenon, <1>2, <1>3, CallerKeepsBoot
<1> QED BY Zenon, <1>5, <1>6 DEF ClusterInv

\* A step of a membership call, which is made before any caller is served.
LEMMA OperationKeepsBoot ==
    ASSUME ClusterInv, ClusterAssumption, NEW c \in Calls, call[Operation] # NoCall,
           call' = [call EXCEPT ![Operation] = c], c.what = call[Operation].what,
           UNCHANGED started, boot' = boot \/ boot' = "unknown"
    PROVE  Bootstrapped' /\ CallersServed'
<1>1. call'[Operation] = c /\ \A v \in Callers : call'[v] = call[v]
  BY Zenon DEF ClusterInv, ClusterTypes, ClusterAssumption, Owners
<1>2. boot \notin {"done", "down"} /\ boot' \notin {"done", "down"}
  BY Zenon DEF ClusterInv, Bootstrapped
<1>3. call[Operation].op # "none"
  BY Zenon DEF ClusterInv, ClusterTypes, Owners, Calls, Kinds
<1>4. Bootstrapped'
  BY Zenon, <1>1, <1>2, <1>3 DEF ClusterInv, Bootstrapped
<1>5. CallersServed'
  BY Zenon, <1>1, <1>2 DEF ClusterInv, CallersServed, Busy
<1> QED BY Zenon, <1>4, <1>5

\* A call that goes on keeps its subject; one that ends in a failure claims nothing.
LEMMA AgainIsCall ==
    ASSUME NEW c \in Calls, NEW n \in Ids
    PROVE  /\ Again(c, n) \in Calls /\ Again(c, n).what = c.what
           /\ Again(c, n).op \in {c.op, "failed"}
<1>1. [c EXCEPT !.op = "failed"] \in Calls /\ [c EXCEPT !.op = "failed"].what = c.what
      /\ [c EXCEPT !.op = "failed"].op = "failed"
  BY Zenon DEF Calls, Kinds
<1>2. PICK t \in Nat : t = c.tries + 1
  BY DEF Calls
<1>3. PICK r : r = [c EXCEPT !.at = n, !.tries = t]
  BY Zenon
<1>4. r \in Calls /\ r.what = c.what /\ r.op = c.op
  BY Zenon, <1>3 DEF Calls
<1> QED BY Zenon, <1>1, <1>2, <1>3, <1>4 DEF Again

LEMMA RetryIsNode ==
    ASSUME ClusterInv, NEW a \in Ids, NEW h, NEW n \in RetryLeader(a, h)
    PROVE  n \in Ids
<1>1. started \subseteq Ids
  BY Zenon, StartedGrows DEF ClusterInv, ClusterTypes
<1> QED BY Zenon, <1>1 DEF RetryLeader

LEMMA AcceptedKeeps ==
    ASSUME ClusterInv, ClusterAssumption, NEW w \in Owners, Accepted(w)
    PROVE  ClusterInv'
<1>1. PICK d : d = call[w]
  BY Zenon
<1>2. /\ d.op = "write" /\ clog' = Append(clog, d.what)
      /\ call' = [call EXCEPT ![w] = [d EXCEPT !.op = "wait", !.index = Len(clog) + 1]]
      /\ UNCHANGED <<boot, started, applied, built>>
  BY Zenon, <1>1 DEF Accepted
<1>3. clog \in Seq(Entries) /\ Len(clog) \in Nat /\ d \in Calls
  BY <1>1, <1>2 DEF ClusterInv, ClusterTypes, NoCall
<1>4. d.what \in Entries
  BY Zenon, <1>1, <1>2 DEF ClusterInv, CallsTrue, CallTrue
<1>5. PICK c \in Calls : /\ call' = [call EXCEPT ![w] = c]
                         /\ c.what = d.what /\ c.index = Len(clog) + 1 /\ c.op = "wait"
  <2>0. PICK i \in Nat : i = Len(clog) + 1
    BY <1>3
  <2>1. PICK r : r = [d EXCEPT !.op = "wait", !.index = i]
    BY Zenon
  <2>2. r \in Calls /\ r.what = d.what /\ r.index = i /\ r.op = "wait"
    BY Zenon, <1>3, <2>1 DEF Calls, Kinds
  <2> QED BY Zenon, <1>2, <2>0, <2>1, <2>2
<1>6. Len(clog') = Len(clog) + 1 /\ clog'[Len(clog) + 1] = d.what
  BY <1>2, <1>3, <1>4
<1>7. ClusterTypes' /\ CallsTrue'
  <2>1. CallTrue(c)'
    BY <1>3, <1>5, <1>6 DEF CallTrue
  <2> QED BY Zenon, <1>2, <1>4, <1>5, <2>1, OneCall DEF ClusterInv
<1>8. CASE w \in Callers
  <2>1. boot = "done"
    BY Zenon, <1>1, <1>2, <1>8 DEF ClusterInv, CallersServed, Busy
  <2>2. Bootstrapped' /\ CallersServed'
    BY Zenon, <1>2, <1>4, <1>5, <1>8, <2>1, CallerKeepsBoot
  <2> QED BY Zenon, <1>7, <2>2 DEF ClusterInv
<1>9. CASE w = Operation
  <2>1. call[Operation] # NoCall
    BY <1>1, <1>2, <1>9 DEF NoCall
  <2>2. Bootstrapped' /\ CallersServed'
    BY Zenon, <1>1, <1>2, <1>5, <1>9, <2>1, OperationKeepsBoot
  <2> QED BY Zenon, <1>7, <2>2 DEF ClusterInv
<1> QED BY Zenon, <1>8, <1>9 DEF Owners

LEMMA ForwardedKeeps ==
    ASSUME ClusterInv, ClusterAssumption, NEW w \in Owners, Forwarded(w) \/ Refused(w)
    PROVE  ClusterInv'
<1>1. PICK d : d = call[w]
  BY Zenon
<1>2. PICK hinted, n : n \in RetryLeader(d.at, hinted) /\ call' = [call EXCEPT ![w] = Again(d, n)]
  BY Zenon, <1>1 DEF Forwarded, Refused
<1>3. /\ d.op \in {"write", "read"} /\ UNCHANGED <<boot, started, applied, built>>
      /\ clog' = clog \/ (d.op = "write" /\ clog' = Append(clog, d.what))
  BY Zenon, <1>1 DEF Forwarded, Refused
<1>4. clog \in Seq(Entries) /\ Len(clog) \in Nat /\ d \in Calls
  BY <1>1, <1>3 DEF ClusterInv, ClusterTypes, NoCall
<1>5. /\ d.op = "write" => d.what \in Entries
      /\ d.op = "read" => d.what \in Nat /\ d.what <= Len(clog)
  BY Zenon, <1>1 DEF ClusterInv, CallsTrue, CallTrue
<1>6. n \in Ids
  <2>1. d.at \in Ids
    BY Zenon, <1>4 DEF Calls
  <2> QED BY Zenon, <1>2, <2>1, RetryIsNode
<1>7. PICK c \in Calls : /\ call' = [call EXCEPT ![w] = c] /\ c.what = d.what
                         /\ c.op \in {d.op, "failed"}
  BY Zenon, <1>2, <1>4, <1>6, AgainIsCall
<1>8. (clog' = clog \/ \E e \in Entries : clog' = Append(clog, e)) /\ Len(clog) <= Len(clog')
  BY <1>3, <1>4, <1>5
<1>9. ClusterTypes' /\ CallsTrue'
  <2>1. Len(clog') \in Nat
    BY <1>4, <1>8
  <2>2. CallTrue(c)'
    BY Zenon, <1>3, <1>4, <1>5, <1>7, <1>8, <2>1 DEF CallTrue
  <2> QED BY Zenon, <1>3, <1>7, <1>8, <2>2, OneCall DEF ClusterInv
<1>10. CASE w \in Callers
  <2>1. boot = "done"
    BY Zenon, <1>1, <1>3, <1>10 DEF ClusterInv, CallersServed, Busy
  <2>2. Bootstrapped' /\ CallersServed'
    BY Zenon, <1>3, <1>7, <1>8, <1>10, <2>1, CallerKeepsBoot
  <2> QED BY Zenon, <1>9, <2>2 DEF ClusterInv
<1>11. CASE w = Operation
  <2>1. call[Operation] # NoCall
    BY <1>1, <1>3, <1>11 DEF NoCall
  <2>2. Bootstrapped' /\ CallersServed'
    BY Zenon, <1>1, <1>3, <1>7, <1>11, <2>1, OperationKeepsBoot
  <2> QED BY Zenon, <1>9, <2>2 DEF ClusterInv
<1> QED BY Zenon, <1>10, <1>11 DEF Owners

LEMMA GaveUpKeeps ==
    ASSUME ClusterInv, ClusterAssumption, NEW w \in Owners, GaveUp(w)
    PROVE  ClusterInv'
<1>1. PICK d : d = call[w]
  BY Zenon
<1>2. /\ Busy(d) /\ call' = [call EXCEPT ![w] = [d EXCEPT !.op = "failed"]]
      /\ boot' = IF w = Operation THEN "unknown" ELSE boot
      /\ UNCHANGED <<started, clog, applied, built>>
  BY Zenon, <1>1 DEF GaveUp, Busy, ClusterInv, ClusterTypes
<1>3. d \in Calls
  BY <1>1, <1>2 DEF ClusterInv, ClusterTypes, NoCall, Busy
<1>4. PICK c \in Calls : call' = [call EXCEPT ![w] = c] /\ c.op = "failed" /\ c.what = d.what
  <2>1. PICK r : r = [d EXCEPT !.op = "failed"]
    BY Zenon
  <2>2. r \in Calls /\ r.op = "failed" /\ r.what = d.what
    BY Zenon, <1>3, <2>1 DEF Calls, Kinds
  <2> QED BY Zenon, <1>2, <2>1, <2>2
<1>5. ClusterTypes' /\ CallsTrue'
  <2>1. CallTrue(c)'
    BY Zenon, <1>4 DEF CallTrue
  <2> QED BY Zenon, <1>2, <1>4, <2>1, OneCall DEF ClusterInv
<1>6. CASE w \in Callers
  <2>1. boot' = boot
    BY Zenon, <1>2, <1>6 DEF ClusterAssumption
  <2>2. Bootstrapped' /\ CallersServed'
    BY Zenon, <1>2, <1>4, <1>6, <2>1, CallerKeepsBoot DEF Busy
  <2> QED BY Zenon, <1>5, <2>2 DEF ClusterInv
<1>7. CASE w = Operation
  <2>1. call[Operation] # NoCall
    BY <1>1, <1>2, <1>7 DEF NoCall, Busy
  <2>2. Bootstrapped' /\ CallersServed'
    BY Zenon, <1>1, <1>2, <1>4, <1>7, <2>1, OperationKeepsBoot
  <2> QED BY Zenon, <1>5, <2>2 DEF ClusterInv
<1> QED BY Zenon, <1>6, <1>7 DEF Owners

\* The answers: a receipt, a read index, a snapshot.
LEMMA AnswersKeep ==
    ASSUME ClusterInv, ClusterAssumption, NEW w \in Callers, WaitAllApplied(w) \/ ReadIndex(w)
    PROVE  ClusterInv'
<1>1. PICK d : d = call[w]
  BY Zenon
<1>2. Busy(d) /\ w \in Owners /\ UNCHANGED <<boot, started, clog, applied, built>>
  BY Zenon, <1>1 DEF WaitAllApplied, ReadIndex, Busy, Owners
<1>3. d \in Calls /\ boot = "done" /\ started = Ids /\ CallTrue(d) /\ Len(clog) \in Nat
  <2>1. d \in Calls /\ Len(clog) \in Nat
    BY <1>1, <1>2 DEF ClusterInv, ClusterTypes, Busy, NoCall
  <2>2. boot = "done" /\ started = Ids
    BY Zenon, <1>1, <1>2 DEF ClusterInv, CallersServed, Bootstrapped
  <2> QED BY Zenon, <1>1, <1>2, <2>1, <2>2 DEF ClusterInv, CallsTrue
<1>4. PICK c \in Calls : call' = [call EXCEPT ![w] = c] /\ CallTrue(c)' /\ ~Busy(c)
  <2>1. CASE WaitAllApplied(w)
    <3>1. /\ d.op = "wait" /\ \A n \in Ids : applied[n] >= d.index
          /\ call' = [call EXCEPT ![w] = [d EXCEPT !.op = "receipt"]]
      BY Zenon, <1>1, <1>2, <1>3, <2>1 DEF WaitAllApplied, ClusterInv, ClusterTypes
    <3>2. PICK r : r = [d EXCEPT !.op = "receipt"]
      BY Zenon
    <3>3. r \in Calls /\ r.op = "receipt" /\ r.what = d.what /\ r.index = d.index
      BY Zenon, <1>3, <3>2 DEF Calls, Kinds
    <3>4. CallTrue(r)'
      BY Zenon, <1>2, <1>3, <3>1, <3>3 DEF CallTrue
    <3> QED BY Zenon, <3>1, <3>2, <3>3, <3>4 DEF Busy
  <2>2. CASE ReadIndex(w)
    <3>1. /\ d.op = "read"
          /\ call' = [call EXCEPT ![w] = [d EXCEPT !.op = "indexed", !.index = Len(clog)]]
      BY Zenon, <1>1, <1>2, <2>2 DEF ReadIndex, ClusterInv, ClusterTypes
    <3>2. PICK r : r = [d EXCEPT !.op = "indexed", !.index = Len(clog)]
      BY Zenon
    <3>3. r \in Calls /\ r.op = "indexed" /\ r.what = d.what /\ r.index = Len(clog)
      BY Zenon, <1>3, <3>2 DEF Calls, Kinds
    <3>4. CallTrue(r)'
      BY Zenon, <1>2, <1>3, <3>1, <3>3 DEF CallTrue
    <3> QED BY Zenon, <3>1, <3>2, <3>3, <3>4 DEF Busy
  <2> QED BY Zenon, <2>1, <2>2
<1>5. ClusterTypes' /\ CallsTrue'
  BY Zenon, <1>2, <1>4, OneCall DEF ClusterInv
<1>6. Bootstrapped' /\ CallersServed'
  BY Zenon, <1>2, <1>4, CallerKeepsBoot
<1> QED BY Zenon, <1>5, <1>6 DEF ClusterInv

LEMMA SnapshotKeeps ==
    ASSUME ClusterInv, ClusterAssumption, NEW w \in Callers, SnapshotBuilt(w)
    PROVE  ClusterInv'
<1>1. PICK d : d = call[w]
  BY Zenon
<1>2. /\ d.op = "snapshot" /\ built' = [built EXCEPT ![d.at] = applied[d.at]]
      /\ UNCHANGED <<boot, started, clog, applied>> /\ w \in Owners
  BY Zenon, <1>1 DEF SnapshotBuilt, Owners
<1>3. d \in Calls /\ boot = "done" /\ CallTrue(d) /\ d.at \in Ids /\ d.what \in Nat
  <2>1. d \in Calls
    BY <1>1, <1>2 DEF ClusterInv, ClusterTypes, NoCall
  <2>2. boot = "done" /\ CallTrue(d)
    BY Zenon, <1>1, <1>2 DEF ClusterInv, CallersServed, CallsTrue, Busy
  <2>3. d.at \in Ids
    BY Zenon, <2>1 DEF Calls
  <2> QED BY Zenon, <1>2, <2>1, <2>2, <2>3 DEF CallTrue
<1>4. applied[d.at] \in Nat /\ built'[d.at] = applied[d.at]
  BY Zenon, <1>2, <1>3 DEF ClusterInv, ClusterTypes
<1>5. PICK c \in Calls : call' = [call EXCEPT ![w] = c] /\ CallTrue(c)'
  <2>1. CASE applied[d.at] >= d.what
    <3>1. call' = [call EXCEPT ![w] = [d EXCEPT !.op = "covered", !.index = applied[d.at]]]
      BY Zenon, <1>1, <1>2, <2>1 DEF SnapshotBuilt, ClusterInv, ClusterTypes
    <3>2. PICK r : r = [d EXCEPT !.op = "covered", !.index = applied[d.at]]
      BY Zenon
    <3>3. r \in Calls /\ r.op = "covered" /\ r.what = d.what /\ r.index = applied[d.at]
      BY Zenon, <1>3, <1>4, <3>2 DEF Calls, Kinds
    <3>4. CallTrue(r)'
      BY Zenon, <1>3, <1>4, <2>1, <3>3 DEF CallTrue
    <3> QED BY Zenon, <3>1, <3>2, <3>3, <3>4
  <2>2. CASE ~(applied[d.at] >= d.what)
    <3>1. PICK n \in RetryLeader(d.at, 0) : call' = [call EXCEPT ![w] = Again(d, n)]
      BY Zenon, <1>1, <2>2 DEF SnapshotBuilt
    <3>2. n \in Ids
      BY Zenon, <1>3, <3>1, RetryIsNode
    <3>3. Again(d, n) \in Calls /\ Again(d, n).what = d.what /\ Again(d, n).op \in {"snapshot", "failed"}
      BY Zenon, <1>2, <1>3, <3>2, AgainIsCall
    <3>4. CallTrue(Again(d, n))'
      BY Zenon, <1>3, <3>3 DEF CallTrue
    <3> QED BY Zenon, <3>1, <3>3, <3>4
  <2> QED BY Zenon, <2>1, <2>2
<1>6. ClusterTypes' /\ CallsTrue'
  BY Zenon, <1>2, <1>3, <1>5, OneCall DEF ClusterInv
<1>7. Bootstrapped' /\ CallersServed'
  BY Zenon, <1>2, <1>3, <1>5, CallerKeepsBoot
<1> QED BY Zenon, <1>6, <1>7 DEF ClusterInv

-----------------------------------------------------------------------------
(* The bootstrap. *)

LEMMA NodesKeep ==
    ASSUME ClusterInv, StartNode \/ Shutdown \/ ReopenThreeVoters \/ BootstrapFailed
    PROVE  ClusterInv'
<1>1. UNCHANGED <<clog, applied, built, call>>
  BY Zenon DEF StartNode, Shutdown, ReopenThreeVoters, BootstrapFailed
<1>2. started' \in {1..k : k \in 0..3} /\ (started = Ids => started' \in {Ids, {}})
  <2>0. started \in {1..k : k \in 0..3}
    BY Zenon DEF ClusterInv, ClusterTypes
  <2>1. CASE StartNode
    <3>1. started # Ids
      BY <2>1 DEF StartNode, ClusterInv, Bootstrapped, Ids
    <3> QED BY Zenon, <2>0, <2>1, <3>1, StartedGrows DEF StartNode
  <2>2. CASE Shutdown
    <3>1. started' = {} /\ {} = 1..0
      BY <2>2 DEF Shutdown
    <3> QED BY <3>1
  <2>3. CASE ReopenThreeVoters
    BY Zenon, <2>0, <2>3, StartedGrows DEF ReopenThreeVoters
  <2>4. CASE BootstrapFailed
    BY Zenon, <2>0, <2>4 DEF BootstrapFailed
  <2> QED BY Zenon, <2>1, <2>2, <2>3, <2>4
<1>3. ClusterTypes' /\ CallsTrue'
  BY Zenon, <1>1, <1>2 DEF ClusterInv, ClusterTypes, CallsTrue, CallTrue
<1>4. Bootstrapped' /\ CallersServed'
  <2>1. CASE StartNode
    BY Zenon, <1>1, <1>2, <2>1 DEF StartNode, ClusterInv, Bootstrapped, CallersServed, KnowsVoters, Ids
  <2>2. CASE Shutdown
    <3>1. \A w \in Callers : ~Busy(call[w])
      BY Zenon, <2>2 DEF Shutdown, CallerFree, Busy
    <3>2. boot = "done" /\ boot' = "down" /\ call[Operation] = NoCall
      BY Zenon, <2>2 DEF Shutdown, Served, ClusterInv, Bootstrapped
    <3> QED BY <1>1, <3>1, <3>2 DEF ClusterInv, Bootstrapped, CallersServed, KnowsVoters, NoCall
  <2>3. CASE ReopenThreeVoters
    BY Zenon, <1>1, <1>2, <2>3 DEF ReopenThreeVoters, ClusterInv, Bootstrapped, CallersServed, KnowsVoters, NoCall
  <2>4. CASE BootstrapFailed
    BY Zenon, <1>1, <2>4 DEF BootstrapFailed, ClusterInv, Bootstrapped, CallersServed, KnowsVoters
  <2> QED BY Zenon, <2>1, <2>2, <2>3, <2>4
<1> QED BY Zenon, <1>3, <1>4 DEF ClusterInv

LEMMA MembershipKeeps ==
    ASSUME ClusterInv, ClusterAssumption, NEW n \in Ids, BootstrapMembership(n)
    PROVE  ClusterInv'
<1>0. Cardinality(started) \in Nat /\ Operation \in Owners
  BY Zenon, StartedGrows DEF ClusterInv, ClusterTypes, Owners
<1>1. PICK what \in Subjects :
         /\ call' = [call EXCEPT ![Operation] = Calling("write", what, n)] /\ what \in Entries
         /\ what = Promoting => started = Ids
  <2>1. /\ Joining(Cardinality(started)) \in Entries /\ Promoting \in Entries
        /\ Joining(Cardinality(started)) # Promoting
    BY Zenon, <1>0 DEF Joining, Promoting, Entries
  <2> QED BY Zenon, <2>1 DEF BootstrapMembership, Subjects
<1>2. boot \in {"joining", "joined"} /\ UNCHANGED <<boot, started, clog, applied, built>>
  BY Zenon DEF BootstrapMembership
<1>3. Calling("write", what, n) \in Calls /\ Calling("write", what, n).what = what
  BY Zenon DEF Calling, Calls, Kinds
<1>4. ClusterTypes' /\ CallsTrue'
  <2>1. CallTrue(Calling("write", what, n))'
    BY Zenon, <1>1 DEF Calling, CallTrue
  <2> QED BY Zenon, <1>0, <1>1, <1>2, <1>3, <2>1, OneCall DEF ClusterInv
<1>5. /\ call'[Operation] = Calling("write", what, n)
      /\ \A v \in Callers : call'[v] = call[v]
  BY Zenon, <1>0, <1>1 DEF ClusterInv, ClusterTypes, ClusterAssumption, Owners
<1>6. Bootstrapped'
  BY Zenon, <1>1, <1>2, <1>3, <1>5 DEF Bootstrapped
<1>7. CallersServed'
  BY Zenon, <1>2, <1>5 DEF ClusterInv, CallersServed, Busy
<1> QED BY Zenon, <1>4, <1>6, <1>7 DEF ClusterInv

LEMMA BootstrapAnsweredKeeps ==
    ASSUME ClusterInv, ClusterAssumption, BootstrapAnswered
    PROVE  ClusterInv'
<1>0. Operation \in Owners /\ ClusterTypes
  BY Zenon DEF Owners, ClusterInv
<1>1. /\ call[Operation].op = "wait" /\ call' = [call EXCEPT ![Operation] = NoCall]
      /\ boot' = (IF call[Operation].what = Promoting THEN "done" ELSE "joined")
      /\ UNCHANGED <<started, clog, applied, built>>
  BY Zenon DEF BootstrapAnswered
<1>2. boot' = "done" => started = Ids /\ \A n \in Ids : KnowsVoters(n)
  <2> SUFFICES ASSUME call[Operation].what = Promoting
               PROVE  started = Ids /\ \A n \in Ids : KnowsVoters(n)
    BY Zenon, <1>1
  <2>1. \A n \in Ids : VotersOf(SubSeq(clog, 1, applied[n])) = Ids
    BY Zenon DEF BootstrapAnswered
  <2> QED BY Zenon, <1>0, <1>1, <2>1, VotersKnown DEF ClusterInv, Bootstrapped
<1>3. ClusterTypes' /\ CallsTrue'
  <2>1. CallTrue(NoCall)'
    BY Zenon DEF NoCall, CallTrue
  <2> QED BY Zenon, <1>0, <1>1, <2>1, OneCall
<1>4. call'[Operation] = NoCall /\ \A v \in Callers : call'[v] = call[v]
  BY Zenon, <1>0, <1>1 DEF ClusterTypes, ClusterAssumption, Owners
<1>5. Bootstrapped'
  BY <1>1, <1>2, <1>4 DEF Bootstrapped, KnowsVoters, NoCall
<1>6. CallersServed'
  <2>1. boot # "done"
    BY <1>1 DEF ClusterInv, Bootstrapped, NoCall
  <2> QED BY Zenon, <1>4, <2>1 DEF ClusterInv, CallersServed
<1> QED BY Zenon, <1>3, <1>5, <1>6 DEF ClusterInv

-----------------------------------------------------------------------------
(* OpenRaft. *)

LEMMA ApplyKeeps ==
    ASSUME ClusterInv, NEW m \in Ids, ApplyNext(m)
    PROVE  ClusterInv'
<1>0. ClusterTypes
  BY Zenon DEF ClusterInv
<1>1. /\ applied[m] < Len(clog) /\ applied' = [applied EXCEPT ![m] = @ + 1]
      /\ UNCHANGED <<boot, started, clog, built, call>>
  BY Zenon DEF ApplyNext
<1>2. applied' \in [Ids -> Nat] /\ Len(clog) \in Nat
      /\ \A n \in Ids : applied[n] <= applied'[n] /\ applied'[n] <= Len(clog)
  BY <1>0, <1>1 DEF ClusterTypes
<1>3. ClusterTypes'
  BY <1>0, <1>1, <1>2 DEF ClusterTypes
<1>4. CallsTrue'
  <2> SUFFICES ASSUME NEW w \in Owners PROVE CallTrue(call[w])'
    BY Zenon DEF CallsTrue
  <2>1. call[w] \in Calls \cup {NoCall} /\ CallTrue(call[w])
    BY Zenon, <1>0 DEF ClusterTypes, ClusterInv, CallsTrue
  <2>2. \A n \in Ids : applied'[n] \in Nat /\ applied[n] <= applied'[n]
                       /\ built'[n] \in Nat /\ built[n] <= built'[n]
    BY <1>0, <1>1, <1>2 DEF ClusterTypes
  <2> QED BY <1>0, <1>1, <1>2, <2>1, <2>2, CallStaysTrue DEF CallTrue
<1>5. \A n \in Ids : KnowsVoters(n) => KnowsVoters(n)'
  BY <1>0, <1>1, <1>2 DEF KnowsVoters, ClusterTypes
<1>6. Bootstrapped' /\ CallersServed'
  BY Zenon, <1>1, <1>5 DEF ClusterInv, Bootstrapped, CallersServed
<1> QED BY Zenon, <1>3, <1>4, <1>6 DEF ClusterInv

LEMMA ClusterInductive ==
    ASSUME ClusterAssumption, ClusterInv, [ClusterNext]_clusterVars
    PROVE  ClusterInv'
<1>1. ASSUME UNCHANGED <<boot, started, clog, applied, built, call>>
      PROVE  ClusterInv'
  BY Zenon, <1>1 DEF ClusterInv, ClusterTypes, Bootstrapped, CallersServed, CallsTrue, KnowsVoters, CallTrue
<1>2. ASSUME NEW n \in Ids, Elect(n) \/ Learn(n)
      PROVE  ClusterInv'
  BY Zenon, <1>1, <1>2 DEF Elect, Learn
<1>3. CASE UNCHANGED clusterVars
  BY Zenon, <1>1, <1>3 DEF clusterVars
<1> QED BY Zenon, <1>2, <1>3, CallBegins, AcceptedKeeps, ForwardedKeeps, GaveUpKeeps, AnswersKeep, SnapshotKeeps,
           NodesKeep, MembershipKeeps, BootstrapAnsweredKeeps, ApplyKeeps DEF ClusterNext, Owners

\* Whatever leads, fails or is forwarded, an answer of the runtime is true of the three nodes:
\* the bootstrap is complete on each, a receipt's entry is the caller's and applied by all, a read
\* index and a snapshot are not behind what was asked (raft-runtime, cluster.rs).
THEOREM ClusterAnswersTrue ==
    ASSUME ClusterAssumption
    PROVE  ClusterSpec => []AnswersTrue
<1>1. ClusterInv /\ [ClusterNext]_clusterVars => ClusterInv'
  BY Zenon, ClusterInductive
<1>2. ClusterInv => AnswersTrue
  <2> SUFFICES ASSUME ClusterInv PROVE AnswersTrue
    BY Zenon
  <2>1. Served => \A n \in Ids : VotersOf(SubSeq(clog, 1, applied[n])) = Ids
    BY Zenon, VotersKnown DEF ClusterInv, Bootstrapped, Served
  <2>2. \A w \in Callers : CallTrue(call[w])
    BY Zenon DEF ClusterInv, CallsTrue, Owners
  <2> QED BY Zenon, <2>1, <2>2 DEF AnswersTrue, CallTrue
<1> QED BY <1>1, <1>2, ClusterInitial, PTL DEF ClusterSpec

-----------------------------------------------------------------------------
(***************************************************************************)
(* No peer frame is numbered or handled twice, and no operation identifier *)
(* gets two answers, for any set of peers and any bounds, through failed   *)
(* writes, kills and losses of power.                                      *)
(*                                                                         *)
(* FramesOnce by itself is not inductive: that the next number is new      *)
(* depends on what every copy of the numbers knows.  PeerInv says that     *)
(* each copy from which a node may go on (its file, what a loss of power   *)
(* leaves of it, its memory) covers every number the node has used, and    *)
(* that a number being written is above those in memory.                   *)
(***************************************************************************)

Frame == [sender : Peers, receiver : Peers, sequence : 1..MaxSequence]

PeerTypes ==
    /\ stateFile \in [Peers -> Numbers \cup {None}]
    /\ stateKept \in [Peers -> Numbers \cup {None}]
    /\ sequences \in [Peers -> Numbers \cup {None}]
    /\ saving \in [Peers -> Saves \cup {None}]
    /\ frames \subseteq Frame
    /\ \A f \in frames : f.sender # f.receiver
    /\ issued \in [NumberedBy -> Nat]
    /\ admitted \in [NumberedBy -> Nat]

\* The numbers x include all that n has used, of those counted by i and a.
Covered(i, a, x, n) ==
    \A p \in Peers, s \in 1..MaxSequence :
        p # n => /\ i[<<n, p, s>>] > 0 => x # None /\ s <= x.outgoing[p]
                 /\ a[<<p, n, s>>] > 0 => x # None /\ s <= x.incoming[p]
Covers(x, n) == Covered(issued, admitted, x, n)

\* The number being written is new, and the file has it once it is renamed.
Ahead(n) ==
    LET d == saving[n].then
    IN  /\ sequences[n] # None /\ d.peer # n
        /\ d.to = "seal" => /\ d.sequence > sequences[n].outgoing[d.peer]
                            /\ saving[n].new = [sequences[n] EXCEPT !.outgoing[d.peer] = d.sequence]
        /\ d.to = "admit" => /\ d.sequence > sequences[n].incoming[d.peer]
                             /\ saving[n].new = [sequences[n] EXCEPT !.incoming[d.peer] = d.sequence]
        /\ saving[n].at = "sync" => stateFile[n] = saving[n].new

PeerInv ==
    /\ PeerTypes
    /\ FramesOnce
    /\ \A n \in Peers : /\ Covers(stateFile[n], n) /\ Covers(stateKept[n], n)
                        /\ sequences[n] # None => Covers(sequences[n], n)
                        /\ saving[n] # None => Ahead(n)

\* An answer is the remembered one, and what is executed is not remembered.
AnswerInv ==
    /\ completed = [n \in Peers |-> completed[n]]
    /\ active = [n \in Peers |-> active[n]]
    /\ \A a \in answers :
          /\ a.node \in Peers /\ a.op \in DOMAIN completed[a.node]
          /\ a = [node |-> a.node, op |-> a.op, payload |-> completed[a.node][a.op].digest[2],
                  result |-> completed[a.node][a.op].result]
    /\ \A n \in Peers : active[n] # None => active[n].op \notin DOMAIN completed[n]

-----------------------------------------------------------------------------
(* The numbers. *)

\* A number is an index of the two counts.
LEMMA Indexed ==
    ASSUME NEW n \in Peers, NEW p \in Peers, p # n, NEW s \in 1..MaxSequence
    PROVE  <<n, p, s>> \in NumberedBy
BY Zenon DEF NumberedBy

LEMMA PeerInitial ==
    ASSUME PeerAssumption, PeerInit
    PROVE  PeerInv
<1>1. PeerTypes /\ FramesOnce
  BY DEF PeerInit, PeerTypes, FramesOnce
<1>2. ASSUME NEW n \in Peers PROVE Covers(stateFile[n], n) /\ Covers(stateKept[n], n)
  BY Indexed DEF PeerInit, Covers, Covered, PeerAssumption
<1>3. \A n \in Peers : sequences[n] = None /\ saving[n] = None
  BY Zenon DEF PeerInit
<1> QED BY Zenon, <1>1, <1>2, <1>3 DEF PeerInv

\* Steps that leave the files, the counts and the wire alone, and at a node either nothing or
\* what is in memory.
LEMMA KeepsNumbers ==
    ASSUME PeerAssumption, PeerInv, UNCHANGED Sequencing
    PROVE  PeerInv'
<1>1. /\ stateFile' = stateFile /\ stateKept' = stateKept /\ sequences' = sequences
      /\ saving' = saving /\ frames' = frames /\ issued' = issued /\ admitted' = admitted
  BY Zenon DEF Sequencing
<1> QED BY Zenon, <1>1 DEF PeerInv, PeerTypes, FramesOnce, Covers, Ahead

LEMMA OpenKeepsNumbers ==
    ASSUME PeerAssumption, PeerInv, NEW n \in Peers, OpenSequences(n)
    PROVE  PeerInv'
<1>1. PeerTypes' /\ FramesOnce'
  BY Zenon DEF PeerInv, PeerTypes, OpenSequences, FramesOnce, NoSequences, Numbers
<1>2. ASSUME NEW m \in Peers PROVE Covers(stateFile[m], m)' /\ Covers(stateKept[m], m)'
  BY Zenon DEF PeerInv, Covers, Covered, OpenSequences
<1>3. ASSUME NEW m \in Peers, sequences'[m] # None PROVE Covers(sequences[m], m)'
  <2>1. CASE m = n
    BY Zenon, <2>1, <1>3 DEF PeerInv, PeerTypes, Covers, Covered, OpenSequences
  <2>2. CASE m # n
    BY Zenon, <2>2, <1>3 DEF PeerInv, PeerTypes, Covers, Covered, OpenSequences
  <2> QED BY Zenon, <2>1, <2>2
<1>4. ASSUME NEW m \in Peers, saving'[m] # None PROVE Ahead(m)'
  BY Zenon, <1>4 DEF PeerInv, PeerTypes, Ahead, OpenSequences
<1> QED BY Zenon, <1>1, <1>2, <1>3, <1>4 DEF PeerInv

LEMMA CloseKeepsNumbers ==
    ASSUME PeerAssumption, PeerInv, NEW n \in Peers, CloseSequences(n)
    PROVE  PeerInv'
<1>1. PeerTypes' /\ FramesOnce'
  BY Zenon DEF PeerInv, PeerTypes, CloseSequences, FramesOnce
<1>2. ASSUME NEW m \in Peers
      PROVE  /\ Covers(stateFile[m], m)' /\ Covers(stateKept[m], m)'
             /\ sequences'[m] # None => Covers(sequences[m], m)'
  BY Zenon DEF PeerInv, PeerTypes, Covers, Covered, CloseSequences
<1>3. ASSUME NEW m \in Peers, saving'[m] # None PROVE Ahead(m)'
  <2>1. m # n /\ saving[m] # None
    BY Zenon, <1>3 DEF CloseSequences
  <2> QED BY Zenon, <2>1 DEF PeerInv, PeerTypes, Ahead, CloseSequences
<1> QED BY Zenon, <1>1, <1>2, <1>3 DEF PeerInv

\* What next_outgoing and admit_peer_envelope begin to write is above what is in memory.
LEMMA PersistKeepsNumbers ==
    ASSUME PeerAssumption, PeerInv, NEW n \in Peers, Idle(n),
           NEW new \in Numbers, NEW d \in [to : {"seal", "admit"}, peer : Peers, sequence : 1..MaxSequence],
           d.peer # n,
           d.to = "seal" => /\ d.sequence > sequences[n].outgoing[d.peer]
                            /\ new = [sequences[n] EXCEPT !.outgoing[d.peer] = d.sequence],
           d.to = "admit" => /\ d.sequence > sequences[n].incoming[d.peer]
                             /\ new = [sequences[n] EXCEPT !.incoming[d.peer] = d.sequence],
           Persist(n, new, d),
           UNCHANGED <<stateFile, stateKept, sequences, frames, issued, admitted>>
    PROVE  PeerInv'
<1> DEFINE save == [at |-> "rename", old |-> sequences[n], new |-> new, then |-> d]
<1>1. save \in Saves
  BY Zenon DEF Saves, PeerInv, PeerTypes, Idle
<1>2. saving' = [saving EXCEPT ![n] = save]
  BY Zenon DEF Persist
<1>3. PeerTypes' /\ FramesOnce'
  BY Zenon, <1>1, <1>2 DEF PeerInv, PeerTypes, FramesOnce
<1>4. ASSUME NEW m \in Peers
      PROVE  /\ Covers(stateFile[m], m)' /\ Covers(stateKept[m], m)'
             /\ sequences'[m] # None => Covers(sequences[m], m)'
  BY Zenon DEF PeerInv, Covers, Covered
<1>5. ASSUME NEW m \in Peers, saving'[m] # None PROVE Ahead(m)'
  <2>1. CASE m = n
    <3>1. saving'[n] = save
      BY Zenon, <1>2 DEF PeerInv, PeerTypes
    <3> QED BY <2>1, <3>1 DEF Ahead, Idle
  <2>2. CASE m # n
    BY Zenon, <2>2, <1>2, <1>5 DEF PeerInv, PeerTypes, Ahead
  <2> QED BY Zenon, <2>1, <2>2
<1> QED BY Zenon, <1>3, <1>4, <1>5 DEF PeerInv

LEMMA NextOutgoingKeepsNumbers ==
    ASSUME PeerAssumption, PeerInv, NEW n \in Peers, NEW p \in Peers, NextOutgoing(n, p)
    PROVE  PeerInv'
<1> DEFINE next == sequences[n].outgoing[p] + 1
           new == [sequences[n] EXCEPT !.outgoing[p] = next]
           d == [to |-> "seal", peer |-> p, sequence |-> next]
<1>1. sequences[n] \in Numbers
  BY Zenon DEF NextOutgoing, Idle, PeerInv, PeerTypes
<1>2. next \in 1..MaxSequence /\ next > sequences[n].outgoing[p]
  BY <1>1 DEF NextOutgoing, Numbers, PeerAssumption
<1>3. new \in Numbers
  BY <1>1, <1>2 DEF Numbers
<1>4. d \in [to : {"seal", "admit"}, peer : Peers, sequence : 1..MaxSequence]
  BY Zenon, <1>2
<1>5. Idle(n) /\ p # n /\ Persist(n, new, d)
      /\ UNCHANGED <<stateFile, stateKept, sequences, frames, issued, admitted>>
  BY Zenon DEF NextOutgoing
<1> QED BY Zenon, <1>2, <1>3, <1>4, <1>5, PersistKeepsNumbers

LEMMA AdmitKeepsNumbers ==
    ASSUME PeerAssumption, PeerInv, NEW n \in Peers, NEW f \in frames, AdmitPeerEnvelope(n, f)
    PROVE  PeerInv'
<1> DEFINE new == [sequences[n] EXCEPT !.incoming[f.sender] = f.sequence]
           d == [to |-> "admit", peer |-> f.sender, sequence |-> f.sequence]
<1>1. sequences[n] \in Numbers
  BY Zenon DEF AdmitPeerEnvelope, Idle, PeerInv, PeerTypes
<1>2. f.sender \in Peers /\ f.sequence \in 1..MaxSequence /\ f.sender # n
  BY Zenon DEF AdmitPeerEnvelope, Verified, PeerInv, PeerTypes, Frame
<1>3. new \in Numbers
  BY <1>1, <1>2 DEF Numbers
<1>4. d \in [to : {"seal", "admit"}, peer : Peers, sequence : 1..MaxSequence]
  BY Zenon, <1>2
<1>5. Idle(n) /\ f.sequence > sequences[n].incoming[f.sender] /\ Persist(n, new, d)
      /\ UNCHANGED <<stateFile, stateKept, sequences, frames, issued, admitted>>
  BY Zenon DEF AdmitPeerEnvelope
<1> QED BY Zenon, <1>2, <1>3, <1>4, <1>5, PersistKeepsNumbers

\* The numbers being written include those in memory.
LEMMA WrittenCovers ==
    ASSUME PeerAssumption, PeerInv, NEW n \in Peers, saving[n] # None
    PROVE  /\ saving[n] \in Saves /\ saving[n].new \in Numbers /\ sequences[n] \in Numbers
           /\ \A p \in Peers : /\ sequences[n].outgoing[p] <= saving[n].new.outgoing[p]
                              /\ sequences[n].incoming[p] <= saving[n].new.incoming[p]
           /\ Covers(saving[n].new, n)
<1>1. saving[n] \in Saves /\ saving[n].new \in Numbers /\ sequences[n] \in Numbers /\ Ahead(n)
  BY Zenon DEF PeerInv, PeerTypes, Ahead, Saves
<1> DEFINE d == saving[n].then
<1>2. d.peer \in Peers /\ d.sequence \in Nat /\ d.to \in {"seal", "admit"}
  BY <1>1 DEF Saves, PeerAssumption
<1>3. ASSUME NEW p \in Peers
      PROVE  /\ sequences[n].outgoing[p] <= saving[n].new.outgoing[p]
             /\ sequences[n].incoming[p] <= saving[n].new.incoming[p]
  <2>1. CASE d.to = "seal"
    BY <2>1, <1>1, <1>2 DEF Ahead, Numbers
  <2>2. CASE d.to = "admit"
    BY <2>2, <1>1, <1>2 DEF Ahead, Numbers
  <2> QED BY Zenon, <2>1, <2>2, <1>2
<1>4. Covers(sequences[n], n)
  BY Zenon, <1>1 DEF PeerInv, Ahead
<1>5. saving[n].new # None
  BY Zenon, <1>1 DEF PeerAssumption
<1>6. Covers(saving[n].new, n)
  <2> SUFFICES ASSUME NEW p \in Peers, NEW s \in 1..MaxSequence, p # n
               PROVE  /\ issued[<<n, p, s>>] > 0 => s <= saving[n].new.outgoing[p]
                      /\ admitted[<<p, n, s>>] > 0 => s <= saving[n].new.incoming[p]
    BY Zenon, <1>5 DEF Covers, Covered
  <2>1. /\ sequences[n].outgoing[p] \in Nat /\ saving[n].new.outgoing[p] \in Nat
        /\ sequences[n].incoming[p] \in Nat /\ saving[n].new.incoming[p] \in Nat /\ s \in Nat
    BY <1>1 DEF Numbers, PeerAssumption
  <2> QED BY <1>3, <1>4, <2>1 DEF Covers, Covered
<1> QED BY Zenon, <1>1, <1>3, <1>6

LEMMA RenameKeepsNumbers ==
    ASSUME PeerAssumption, PeerInv, NEW n \in Peers, RenameState(n)
    PROVE  PeerInv'
<1>1. saving[n] # None /\ saving[n] \in Saves /\ saving[n].new \in Numbers /\ Covers(saving[n].new, n)
  BY Zenon, WrittenCovers DEF RenameState
<1>2. saving' = [saving EXCEPT ![n] = [saving[n] EXCEPT !.at = "sync"]]
  BY Zenon DEF RenameState
<1>3. [saving[n] EXCEPT !.at = "sync"] \in Saves
  BY Zenon, <1>1 DEF Saves
<1>4. stateFile' = [stateFile EXCEPT ![n] = saving[n].new] /\ stateKept' \in {stateKept, stateFile'}
  BY Zenon DEF RenameState
<1>5. UNCHANGED <<sequences, frames, issued, admitted>>
  BY Zenon DEF RenameState
<1>6. PeerTypes' /\ FramesOnce'
  BY Zenon, <1>1, <1>2, <1>3, <1>4, <1>5 DEF PeerInv, PeerTypes, FramesOnce
<1>7. ASSUME NEW m \in Peers
      PROVE  /\ Covers(stateFile[m], m)' /\ Covers(stateKept[m], m)'
             /\ sequences'[m] # None => Covers(sequences[m], m)'
  <2>1. stateFile'[m] \in {stateFile[m], saving[n].new} /\ (m # n => stateFile'[m] = stateFile[m])
    BY Zenon, <1>4 DEF PeerInv, PeerTypes
  <2>2. stateKept'[m] \in {stateKept[m], stateFile'[m]}
    BY Zenon, <1>4
  <2> QED BY Zenon, <1>1, <1>5, <2>1, <2>2 DEF PeerInv, Covers, Covered
<1>8. ASSUME NEW m \in Peers, saving'[m] # None PROVE Ahead(m)'
  <2>1. CASE m = n
    <3>1. saving'[n] = [saving[n] EXCEPT !.at = "sync"] /\ stateFile'[n] = saving[n].new
      BY Zenon, <1>2, <1>4 DEF PeerInv, PeerTypes
    <3>2. saving'[n].then = saving[n].then /\ saving'[n].new = saving[n].new
      BY Zenon, <3>1, <1>1 DEF Saves
    <3>3. Ahead(n)
      BY Zenon, <1>1 DEF PeerInv
    <3> QED BY Zenon, <2>1, <3>1, <3>2, <3>3, <1>5 DEF Ahead
  <2>2. CASE m # n
    <3>1. saving'[m] = saving[m] /\ stateFile'[m] = stateFile[m]
      BY Zenon, <2>2, <1>2, <1>4 DEF PeerInv, PeerTypes
    <3> QED BY Zenon, <3>1, <1>5, <1>8 DEF PeerInv, Ahead
  <2> QED BY Zenon, <2>1, <2>2
<1> QED BY Zenon, <1>6, <1>7, <1>8 DEF PeerInv

\* The number that a finished write is used for has not been used before.
LEMMA NumberIsNew ==
    ASSUME PeerAssumption, PeerInv, NEW n \in Peers, saving[n] # None
    PROVE  LET d == saving[n].then
           IN  /\ d.peer \in Peers /\ d.peer # n /\ d.sequence \in 1..MaxSequence
               /\ d.to \in {"seal", "admit"}
               /\ d.to = "seal" => /\ issued[<<n, d.peer, d.sequence>>] = 0
                                   /\ d.sequence <= saving[n].new.outgoing[d.peer]
               /\ d.to = "admit" => /\ admitted[<<d.peer, n, d.sequence>>] = 0
                                    /\ d.sequence <= saving[n].new.incoming[d.peer]
<1> DEFINE d == saving[n].then
<1>1. /\ saving[n] \in Saves /\ sequences[n] \in Numbers /\ Ahead(n) /\ Covers(sequences[n], n)
  BY Zenon, WrittenCovers DEF PeerInv, Ahead
<1>2. d.peer \in Peers /\ d.peer # n /\ d.sequence \in 1..MaxSequence /\ d.to \in {"seal", "admit"}
  BY Zenon, <1>1 DEF Saves, Ahead
<1>3. /\ issued[<<n, d.peer, d.sequence>>] \in Nat /\ admitted[<<d.peer, n, d.sequence>>] \in Nat
      /\ sequences[n].outgoing[d.peer] \in Nat /\ sequences[n].incoming[d.peer] \in Nat
  BY Zenon, <1>1, <1>2, Indexed DEF PeerInv, PeerTypes, Numbers
<1>4. d.to = "seal" => issued[<<n, d.peer, d.sequence>>] = 0
  BY <1>1, <1>2, <1>3 DEF Covers, Covered, Ahead
<1>5. d.to = "admit" => admitted[<<d.peer, n, d.sequence>>] = 0
  BY <1>1, <1>2, <1>3 DEF Covers, Covered, Ahead
<1>6. d.to = "seal" => d.sequence <= saving[n].new.outgoing[d.peer]
  BY <1>1, <1>2 DEF Ahead, Numbers
<1>7. d.to = "admit" => d.sequence <= saving[n].new.incoming[d.peer]
  BY <1>1, <1>2 DEF Ahead, Numbers
<1> QED BY Zenon, <1>2, <1>4, <1>5, <1>6, <1>7

LEMMA SyncKeepsNumbers ==
    ASSUME PeerAssumption, PeerInv, NEW n \in Peers, SyncState(n)
    PROVE  PeerInv'
<1> DEFINE d == saving[n].then
           new == saving[n].new
           sealed == <<n, d.peer, d.sequence>>
           handled == <<d.peer, n, d.sequence>>
<1>1. saving[n] # None /\ saving[n] \in Saves /\ new \in Numbers /\ new # None /\ Covers(new, n)
  BY Zenon, WrittenCovers DEF SyncState, PeerAssumption
<1>2. /\ d.peer \in Peers /\ d.peer # n /\ d.sequence \in 1..MaxSequence /\ d.to \in {"seal", "admit"}
      /\ d.to = "seal" => issued[sealed] = 0 /\ d.sequence <= new.outgoing[d.peer]
      /\ d.to = "admit" => admitted[handled] = 0 /\ d.sequence <= new.incoming[d.peer]
  BY Zenon, <1>1, NumberIsNew
<1>3. sealed \in NumberedBy /\ handled \in NumberedBy
  BY Zenon, <1>2, Indexed
<1>4. /\ stateFile[n] = new /\ UNCHANGED stateFile /\ stateKept' = [stateKept EXCEPT ![n] = new]
      /\ sequences' = [sequences EXCEPT ![n] = new] /\ saving' = [saving EXCEPT ![n] = None]
  BY Zenon, <1>1 DEF SyncState, PeerInv, Ahead
<1>5. /\ frames' \subseteq Frame /\ \A f \in frames' : f.sender # f.receiver
      /\ issued' \in [NumberedBy -> Nat] /\ admitted' \in [NumberedBy -> Nat]
      /\ FramesOnce'
      /\ \A i \in NumberedBy : issued'[i] # issued[i] => d.to = "seal" /\ i = sealed
      /\ \A i \in NumberedBy : admitted'[i] # admitted[i] => d.to = "admit" /\ i = handled
  <2>1. CASE d.to = "seal"
    <3>1. /\ issued' = [issued EXCEPT ![sealed] = issued[sealed] + 1] /\ UNCHANGED admitted
          /\ frames' = frames \cup {[sender |-> n, receiver |-> d.peer, sequence |-> d.sequence]}
      BY Zenon, <2>1 DEF SyncState
    <3> QED BY <2>1, <3>1, <1>2, <1>3 DEF PeerInv, PeerTypes, FramesOnce, Frame
  <2>2. CASE d.to = "admit"
    <3>1. admitted' = [admitted EXCEPT ![handled] = admitted[handled] + 1] /\ UNCHANGED <<issued, frames>>
      BY Zenon, <2>2 DEF SyncState
    <3> QED BY <2>2, <3>1, <1>2, <1>3 DEF PeerInv, PeerTypes, FramesOnce
  <2> QED BY Zenon, <2>1, <2>2, <1>2
<1>6. PeerTypes'
  BY Zenon, <1>1, <1>4, <1>5 DEF PeerInv, PeerTypes
<1>7. Covered(issued', admitted', new, n)
  <2> SUFFICES ASSUME NEW p \in Peers, NEW s \in 1..MaxSequence, p # n
               PROVE  /\ issued'[<<n, p, s>>] > 0 => s <= new.outgoing[p]
                      /\ admitted'[<<p, n, s>>] > 0 => s <= new.incoming[p]
    BY Zenon, <1>1 DEF Covered
  <2>1. <<n, p, s>> \in NumberedBy /\ <<p, n, s>> \in NumberedBy
    BY Zenon, Indexed
  <2>2. issued'[<<n, p, s>>] > 0 => s <= new.outgoing[p]
    BY Zenon, <1>1, <1>2, <1>5, <2>1 DEF Covers, Covered
  <2>3. admitted'[<<p, n, s>>] > 0 => s <= new.incoming[p]
    BY Zenon, <1>1, <1>2, <1>5, <2>1 DEF Covers, Covered
  <2> QED BY Zenon, <2>2, <2>3
<1>8. ASSUME NEW m \in Peers, m # n, NEW x, Covers(x, m)
      PROVE  Covered(issued', admitted', x, m)
  <2> SUFFICES ASSUME NEW p \in Peers, NEW s \in 1..MaxSequence, p # m
               PROVE  /\ issued'[<<m, p, s>>] > 0 => x # None /\ s <= x.outgoing[p]
                      /\ admitted'[<<p, m, s>>] > 0 => x # None /\ s <= x.incoming[p]
    BY Zenon DEF Covered
  <2>1. <<m, p, s>> \in NumberedBy /\ <<p, m, s>> \in NumberedBy
    BY Zenon, Indexed
  <2>2. issued'[<<m, p, s>>] = issued[<<m, p, s>>] /\ admitted'[<<p, m, s>>] = admitted[<<p, m, s>>]
    BY Zenon, <1>5, <1>8, <2>1
  <2> QED BY Zenon, <1>8, <2>2 DEF Covers, Covered
<1>9. ASSUME NEW m \in Peers
      PROVE  /\ Covers(stateFile[m], m)' /\ Covers(stateKept[m], m)'
             /\ sequences'[m] # None => Covers(sequences[m], m)'
             /\ saving'[m] # None => Ahead(m)'
  <2>1. CASE m = n
    <3>1. stateFile'[n] = new /\ stateKept'[n] = new /\ sequences'[n] = new /\ saving'[n] = None
      BY Zenon, <1>4 DEF PeerInv, PeerTypes
    <3> QED BY Zenon, <2>1, <3>1, <1>7 DEF Covers
  <2>2. CASE m # n
    <3>1. /\ stateFile'[m] = stateFile[m] /\ stateKept'[m] = stateKept[m]
          /\ sequences'[m] = sequences[m] /\ saving'[m] = saving[m]
      BY Zenon, <2>2, <1>4 DEF PeerInv, PeerTypes
    <3>2. saving'[m] # None => Ahead(m)'
      BY Zenon, <3>1 DEF PeerInv, Ahead
    <3> QED BY Zenon, <2>2, <3>1, <3>2, <1>8 DEF PeerInv, Covers
  <2> QED BY Zenon, <2>1, <2>2
<1> QED BY Zenon, <1>5, <1>6, <1>9 DEF PeerInv

LEMMA FailureKeepsNumbers ==
    ASSUME PeerAssumption, PeerInv, NEW n \in Peers, PersistFails(n)
    PROVE  PeerInv'
<1>1. PeerTypes' /\ FramesOnce'
  BY Zenon DEF PeerInv, PeerTypes, FramesOnce, PersistFails
<1>2. ASSUME NEW m \in Peers
      PROVE  /\ Covers(stateFile[m], m)' /\ Covers(stateKept[m], m)'
             /\ sequences'[m] # None => Covers(sequences[m], m)'
  BY Zenon DEF PeerInv, Covers, PersistFails
<1>3. ASSUME NEW m \in Peers, saving'[m] # None PROVE Ahead(m)'
  <2>1. m # n /\ saving'[m] = saving[m]
    BY Zenon, <1>3 DEF PeerInv, PeerTypes, PersistFails
  <2> QED BY Zenon, <2>1, <1>3 DEF PeerInv, Ahead, PersistFails
<1> QED BY Zenon, <1>1, <1>2, <1>3 DEF PeerInv

LEMMA KillKeepsNumbers ==
    ASSUME PeerAssumption, PeerInv, NEW n \in Peers, KillPeer(n)
    PROVE  PeerInv'
<1>1. PICK s \in {stateKept[n], stateFile[n]} : stateFile' = [stateFile EXCEPT ![n] = s]
  BY Zenon DEF KillPeer
<1>2. /\ stateKept' = stateFile' /\ sequences' = [sequences EXCEPT ![n] = None]
      /\ saving' = [saving EXCEPT ![n] = None] /\ UNCHANGED <<frames, issued, admitted>>
  BY Zenon DEF KillPeer
<1>3. PeerTypes' /\ FramesOnce'
  BY Zenon, <1>1, <1>2 DEF PeerInv, PeerTypes, FramesOnce
<1>4. ASSUME NEW m \in Peers
      PROVE  /\ Covers(stateFile[m], m)' /\ Covers(stateKept[m], m)'
             /\ sequences'[m] # None => Covers(sequences[m], m)'
  <2>1. stateFile'[m] \in {stateFile[m], stateKept[m]}
    BY Zenon, <1>1 DEF PeerInv, PeerTypes
  <2>2. sequences'[m] \in {None, sequences[m]}
    BY Zenon, <1>2 DEF PeerInv, PeerTypes
  <2> QED BY Zenon, <1>2, <2>1, <2>2 DEF PeerInv, Covers
<1>5. ASSUME NEW m \in Peers, saving'[m] # None PROVE Ahead(m)'
  <2>1. /\ m # n /\ saving'[m] = saving[m] /\ sequences'[m] = sequences[m]
        /\ stateFile'[m] = stateFile[m]
    BY Zenon, <1>1, <1>2, <1>5 DEF PeerInv, PeerTypes
  <2> QED BY Zenon, <2>1, <1>5 DEF PeerInv, Ahead
<1> QED BY Zenon, <1>3, <1>4, <1>5 DEF PeerInv

LEMMA NumbersInductive ==
    ASSUME PeerAssumption, PeerInv, [PeerNext]_peerVars
    PROVE  PeerInv'
<1>1. ASSUME NEW n \in Peers, RemoveLock(n) PROVE PeerInv'
  BY Zenon, <1>1 DEF RemoveLock, PeerInv, PeerTypes, FramesOnce, Covers, Ahead
<1>2. ASSUME NEW n \in Peers,
             \/ ViewChanges(n) \/ Executed(n) \/ ExecuteFails(n)
             \/ \E op \in OpIds, payload \in Payloads : Execute(n, op, payload)
      PROVE  PeerInv'
  <2>1. UNCHANGED Sequencing
    BY Zenon, <1>2 DEF ViewChanges, Executed, ExecuteFails, Execute
  <2> QED BY Zenon, <2>1, KeepsNumbers
<1>3. CASE UNCHANGED peerVars
  BY Zenon, <1>3, KeepsNumbers DEF peerVars, Sequencing
<1>4. CASE PeerNext
  BY Zenon, <1>1, <1>2, <1>4, OpenKeepsNumbers, CloseKeepsNumbers, RenameKeepsNumbers, SyncKeepsNumbers,
     FailureKeepsNumbers, KillKeepsNumbers, NextOutgoingKeepsNumbers, AdmitKeepsNumbers DEF PeerNext
<1> QED BY Zenon, <1>3, <1>4

-----------------------------------------------------------------------------
(* The answers. *)

LEMMA AnswersInductive ==
    ASSUME AnswerInv, [PeerNext]_peerVars
    PROVE  AnswerInv'
<1>1. ASSUME NEW n \in Peers, NEW op \in OpIds, NEW payload \in Payloads, Execute(n, op, payload)
      PROVE  AnswerInv'
  <2>1. CASE op \in DOMAIN completed[n]
    <3>1. /\ completed[n][op].digest = <<op, payload>> /\ UNCHANGED <<completed, active>>
          /\ answers' = answers \cup {[node |-> n, op |-> op, payload |-> payload,
                                       result |-> completed[n][op].result]}
      BY Zenon, <1>1, <2>1 DEF Execute, Digest
    <3>2. completed[n][op].digest[2] = payload
      BY <3>1
    <3>3. ASSUME NEW a \in answers'
          PROVE  /\ a.node \in Peers /\ a.op \in DOMAIN completed[a.node]
                 /\ a = [node |-> a.node, op |-> a.op, payload |-> completed[a.node][a.op].digest[2],
                         result |-> completed[a.node][a.op].result]
      <4>1. CASE a \in answers
        BY Zenon, <4>1 DEF AnswerInv
      <4>2. CASE a = [node |-> n, op |-> op, payload |-> payload, result |-> completed[n][op].result]
        <5>1. a.node = n /\ a.op = op
          BY Zenon, <4>2
        <5> QED BY Zenon, <4>2, <5>1, <3>2, <2>1
      <4> QED BY Zenon, <4>1, <4>2, <3>1
    <3> QED BY Zenon, <3>1, <3>3 DEF AnswerInv
  <2>2. CASE op \notin DOMAIN completed[n]
    <3>1. /\ active' = [active EXCEPT ![n] = [op |-> op, payload |-> payload, view |-> leaderView]]
          /\ UNCHANGED <<completed, answers>>
      BY Zenon, <1>1, <2>2 DEF Execute
    <3> QED BY Zenon, <2>2, <3>1 DEF AnswerInv
  <2> QED BY Zenon, <2>1, <2>2
<1>2. ASSUME NEW n \in Peers, Executed(n) PROVE AnswerInv'
  <2> DEFINE c == active[n]
             result == [term |-> leaderView.term, index |-> leaderView.commit + 1, value |-> c.payload]
             known == [digest |-> <<c.op, c.payload>>, result |-> result]
             mine == [o \in DOMAIN completed[n] \cup {c.op} |-> IF o = c.op THEN known ELSE completed[n][o]]
             answer == [node |-> n, op |-> c.op, payload |-> c.payload, result |-> result]
  <2>1. active[n] # None /\ active' = [active EXCEPT ![n] = None] /\ c.op \notin DOMAIN completed[n]
    BY Zenon, <1>2 DEF Executed, AnswerInv
  <2>2. \/ completed' = [completed EXCEPT ![n] = mine] /\ answers' = answers \cup {answer}
        \/ UNCHANGED <<completed, answers>>
    BY Zenon, <1>2 DEF Executed, Digest
  <2>3. CASE UNCHANGED <<completed, answers>>
    BY Zenon, <2>1, <2>3 DEF AnswerInv
  <2>4. CASE completed' = [completed EXCEPT ![n] = mine] /\ answers' = answers \cup {answer}
    <3>1. completed' = [m \in Peers |-> completed'[m]] /\ active' = [m \in Peers |-> active'[m]]
      BY Zenon, <2>1, <2>4 DEF AnswerInv
    <3>2. completed'[n] = mine /\ \A m \in Peers : m # n => completed'[m] = completed[m]
      BY Zenon, <2>4 DEF AnswerInv
    <3>3. ASSUME NEW m \in Peers, NEW o \in DOMAIN completed[m]
          PROVE  o \in DOMAIN completed'[m] /\ completed'[m][o] = completed[m][o]
      BY <2>1, <3>2
    <3>4. c.op \in DOMAIN completed'[n] /\ completed'[n][c.op] = known
      BY Zenon, <3>2
    <3>5. ASSUME NEW a \in answers'
          PROVE  /\ a.node \in Peers /\ a.op \in DOMAIN completed'[a.node]
                 /\ a = [node |-> a.node, op |-> a.op, payload |-> completed'[a.node][a.op].digest[2],
                         result |-> completed'[a.node][a.op].result]
      <4>1. CASE a \in answers
        BY Zenon, <4>1, <3>3 DEF AnswerInv
      <4>2. CASE a = answer
        BY <4>2, <3>4
      <4> QED BY Zenon, <4>1, <4>2, <2>4
    <3>6. ASSUME NEW m \in Peers, active'[m] # None PROVE active'[m].op \notin DOMAIN completed'[m]
      <4>1. m # n /\ active'[m] = active[m]
        BY Zenon, <3>6, <2>1 DEF AnswerInv
      <4> QED BY Zenon, <4>1, <3>2, <3>6 DEF AnswerInv
    <3> QED BY Zenon, <3>1, <3>5, <3>6 DEF AnswerInv
  <2> QED BY Zenon, <2>2, <2>3, <2>4
<1>3. ASSUME NEW n \in Peers, KillPeer(n) PROVE AnswerInv'
  <2>1. /\ completed' = [completed EXCEPT ![n] = [o \in {} |-> None]] /\ active' = [active EXCEPT ![n] = None]
        /\ answers' = {a \in answers : a.node # n}
    BY Zenon, <1>3 DEF KillPeer
  <2> QED BY Zenon, <2>1 DEF AnswerInv
<1>4. ASSUME NEW n \in Peers, ExecuteFails(n) PROVE AnswerInv'
  BY Zenon, <1>4 DEF ExecuteFails, AnswerInv
<1>5. ASSUME UNCHANGED <<completed, active, answers>> PROVE AnswerInv'
  BY Zenon, <1>5 DEF AnswerInv
<1>6. ASSUME NEW n \in Peers,
             \/ OpenSequences(n) \/ CloseSequences(n) \/ RenameState(n) \/ SyncState(n)
             \/ PersistFails(n) \/ RemoveLock(n) \/ \E p \in Peers : NextOutgoing(n, p)
             \/ \E f \in frames : AdmitPeerEnvelope(n, f)
      PROVE  AnswerInv'
  <2>1. UNCHANGED Executing
    BY Zenon, <1>6 DEF OpenSequences, CloseSequences, RenameState, SyncState, PersistFails, RemoveLock,
                NextOutgoing, AdmitPeerEnvelope
  <2> QED BY Zenon, <2>1, <1>5 DEF Executing
<1>7. ASSUME NEW n \in Peers, ViewChanges(n) PROVE AnswerInv'
  BY Zenon, <1>5, <1>7 DEF ViewChanges
<1>8. CASE PeerNext
  BY Zenon, <1>1, <1>2, <1>3, <1>4, <1>6, <1>7, <1>8 DEF PeerNext
<1>9. CASE UNCHANGED peerVars
  BY Zenon, <1>5, <1>9 DEF peerVars
<1> QED BY Zenon, <1>8, <1>9

-----------------------------------------------------------------------------
\* No number is given to two frames and no frame is handled twice, whatever fails, is killed or
\* loses power (ha-service, PersistentPeerSequences and admit_peer_envelope).
THEOREM NumberedOnce ==
    ASSUME PeerAssumption
    PROVE  PeerSpec => []FramesOnce
<1>1. PeerInit => PeerInv
  BY Zenon, PeerInitial
<1>2. PeerInv /\ [PeerNext]_peerVars => PeerInv'
  BY Zenon, NumbersInductive
<1>3. PeerInv => FramesOnce
  BY Zenon DEF PeerInv
<1> QED BY <1>1, <1>2, <1>3, PTL DEF PeerSpec

\* While a node runs it gives one answer to an operation identifier, whoever leads and however
\* often it is asked (ha-service, HaService::execute and its completed map).
THEOREM OneAnswer == PeerSpec => []AnsweredOnce
<1>1. PeerInit => AnswerInv
  BY Zenon DEF PeerInit, AnswerInv
<1>2. AnswerInv /\ [PeerNext]_peerVars => AnswerInv'
  BY Zenon, AnswersInductive
<1>3. AnswerInv => AnsweredOnce
  BY Zenon DEF AnswerInv, AnsweredOnce
<1> QED BY <1>1, <1>2, <1>3, PTL DEF PeerSpec

\* Both at once, as the peers rely on them: nothing that reaches a node is taken twice, and
\* what it answers does not change (ha-service).
THEOREM PeersOnce ==
    ASSUME PeerAssumption
    PROVE  PeerSpec => []OnceEach
<1>1. FramesOnce /\ AnsweredOnce => OnceEach
  BY Zenon DEF OnceEach
<1> QED BY <1>1, NumberedOnce, OneAnswer, PTL

=============================================================================
