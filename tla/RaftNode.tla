------------------------------- MODULE RaftNode -------------------------------
(***************************************************************************)
(* The durable stores of a Raft node: DurableLogStore (vote, committed     *)
(* index, entries, last purged index in one file) and DurableStateMachine  *)
(* (applied state and current snapshot in one bundle), each replaced by    *)
(* atomic_write and guarded by an initialisation marker, and the chunked   *)
(* transfer by which a snapshot reaches the node.  The two stores have     *)
(* their own locks, so their writes interleave; the process is killed, a   *)
(* write fails or the power is cut between the rename and the directory    *)
(* sync of either.                                                         *)
(*                                                                         *)
(* OpenRaft is external: it calls the stores in the order its storage      *)
(* traits document (vote and entries are answered after the store          *)
(* returned, only committed entries are applied, a conflicting suffix is   *)
(* truncated before it is overwritten, only what a snapshot covers is      *)
(* purged), and stops the node when a store fails.  An entry is its term;  *)
(* the state of the machine is the sequence of entries it applied.         *)
(***************************************************************************)
EXTENDS Integers, Sequences, FiniteSets, FiniteSetsExt, Functions

CONSTANTS Nil,           \* model value: no file, no store
          Unrest,        \* the kinds of trouble a behaviour may meet, chosen at the start
          MaxTerm, MaxIndex, \* bounds: terms and log indexes
          MaxIncoming,   \* MAX_INCOMING_SNAPSHOTS
          MaxTransfers,  \* bound: snapshot transfers begun
          MaxCrashes     \* bound: kills, failed writes and losses of power

VARIABLES unrest,        \* which faults this behaviour meets
          logDir, logKept,   \* the log directory, and what a loss of power leaves of it
          log, logWrite,     \* the open log store, and its write in progress
          smDir, smKept, sm, smWrite, \* the same of the state machine
          chosen,        \* the entries the cluster has committed
          promised,      \* the highest vote this node has answered with
          flushed,       \* the entries whose append was reported complete: index -> term
          wire, incoming, \* snapshot chunks under way, and transfers being assembled
          begun, crashes

raftVars == <<unrest, logDir, logKept, log, logWrite, smDir, smKept, sm, smWrite,
              chosen, promised, flushed, wire, incoming, begun, crashes>>

Chunks == 2              \* chunks a snapshot is sent in
Indexes == 1..MaxIndex
NoLog == [i \in {} |-> 0]

\* The contents of the two files, and what the constants must be for Nil to differ from them.
Logs == [vote : Nat, committed : Nat, purged : Nat, log : UNION {[S -> Nat] : S \in SUBSET Indexes}]
Snapshots == [last : Nat, data : Seq(Nat)]
Bundles == [state : Seq(Nat), snapshot : Snapshots \cup {Nil}]
RaftAssumption == MaxIndex \in Nat /\ Nil \notin Logs \cup Snapshots \cup Bundles

-----------------------------------------------------------------------------
(* The contents of the files. *)

NewLog == [vote |-> 0, committed |-> 0, purged |-> 0, log |-> NoLog]
NewMachine == [state |-> <<>>, snapshot |-> Nil]
EmptyDir == [data |-> Nil, marker |-> FALSE]

LastIndex(l) == Max({l.purged} \cup DOMAIN l.log)

\* The entries follow the last purged one without a hole.
ValidLog(l) == l.log = NoLog \/ DOMAIN l.log = (l.purged + 1)..LastIndex(l)

\* The snapshot's data is the state its metadata names.
ValidBundle(b) == b.snapshot # Nil => Len(b.snapshot.data) = b.snapshot.last

\* open_existing: the marker and the file it names are there.
Opens(d) == d.marker /\ d.data # Nil

-----------------------------------------------------------------------------
(* atomic_write: the new file is renamed over the old one, then the          *)
(* directory is synced.  Memory follows when the write has returned.         *)

Settled == [at |-> "idle"]
Writing(store, then) == [at |-> "rename", new |-> store, then |-> then]
Running == log # Nil /\ sm # Nil
LogFree == Running /\ logWrite = Settled
MachineFree == Running /\ smWrite = Settled
Outside == UNCHANGED <<unrest, wire, begun, crashes>>
MachineSame == UNCHANGED <<smDir, smKept, sm, smWrite, incoming>>
LogSame == UNCHANGED <<logDir, logKept, log, logWrite, promised, flushed>>

\* The write of a candidate begins.  Invalid candidates are refused.
PersistLog(l, then) == ValidLog(l) /\ logWrite' = Writing(l, then)
PersistBundle(b) == ValidBundle(b) /\ smWrite' = Writing(b, Nil)

RenameLog ==
    /\ Running /\ logWrite.at = "rename"
    /\ logDir' = [logDir EXCEPT !.data = logWrite.new]
    /\ logKept' = IF unrest = "process" THEN logDir' ELSE logKept
    /\ logWrite' = [logWrite EXCEPT !.at = "sync"]
    /\ Outside /\ MachineSame /\ UNCHANGED <<log, chosen, promised, flushed>>

\* The write returns: what was asked for is in memory and is answered.
SyncLog ==
    /\ Running /\ logWrite.at = "sync"
    /\ logKept' = logDir /\ log' = logWrite.new /\ logWrite' = Settled
    /\ promised' = IF logWrite.then = "vote" THEN logWrite.new.vote ELSE promised
    /\ flushed' = IF logWrite.then = "append" THEN logWrite.new.log ELSE flushed
    /\ Outside /\ MachineSame /\ UNCHANGED <<logDir, chosen>>

RenameMachine ==
    /\ Running /\ smWrite.at = "rename"
    /\ smDir' = [smDir EXCEPT !.data = smWrite.new]
    /\ smKept' = IF unrest = "process" THEN smDir' ELSE smKept
    /\ smWrite' = [smWrite EXCEPT !.at = "sync"]
    /\ Outside /\ LogSame /\ UNCHANGED <<sm, chosen, incoming>>

SyncMachine ==
    /\ Running /\ smWrite.at = "sync"
    /\ smKept' = smDir /\ sm' = smWrite.new /\ smWrite' = Settled
    /\ Outside /\ LogSame /\ UNCHANGED <<smDir, chosen, incoming>>

-----------------------------------------------------------------------------
(* Opening.  The four files of a new node are written one after the other;   *)
(* a node is created only in empty directories.                              *)

Creating == <<logDir.data # Nil, logDir.marker, smDir.data # Nil, smDir.marker>>

Create ==
    /\ log = Nil /\ sm = Nil
    /\ CASE Creating = <<FALSE, FALSE, FALSE, FALSE>> -> logDir' = [logDir EXCEPT !.data = NewLog] /\ UNCHANGED smDir
         [] Creating = <<TRUE, FALSE, FALSE, FALSE>>  -> logDir' = [logDir EXCEPT !.marker = TRUE] /\ UNCHANGED smDir
         [] Creating = <<TRUE, TRUE, FALSE, FALSE>>   -> smDir' = [smDir EXCEPT !.data = NewMachine] /\ UNCHANGED logDir
         [] Creating = <<TRUE, TRUE, TRUE, FALSE>>    -> smDir' = [smDir EXCEPT !.marker = TRUE] /\ UNCHANGED logDir
         [] OTHER -> FALSE
    /\ logKept' = logDir' /\ smKept' = smDir'
    /\ crashes = 0
    /\ Outside /\ UNCHANGED <<log, logWrite, sm, smWrite, chosen, promised, flushed, incoming>>

OpenExisting ==
    /\ log = Nil /\ sm = Nil /\ Opens(logDir) /\ Opens(smDir)
    /\ ValidLog(logDir.data) /\ ValidBundle(smDir.data)
    /\ log' = logDir.data /\ sm' = smDir.data
    /\ Outside /\ UNCHANGED <<logDir, logKept, logWrite, smDir, smKept, smWrite, chosen, promised, flushed, incoming>>

-----------------------------------------------------------------------------
(* The log store. *)

\* Mutant: the vote is answered from memory and not written.
SaveVoteInMemory(v) ==
    /\ LogFree /\ v > log.vote
    /\ log' = [log EXCEPT !.vote = v] /\ promised' = v
    /\ Outside /\ MachineSame /\ UNCHANGED <<logDir, logKept, logWrite, chosen, flushed>>

SaveVote(v) ==
    /\ LogFree /\ v > log.vote
    /\ PersistLog([log EXCEPT !.vote = v], "vote")
    /\ Outside /\ MachineSame /\ UNCHANGED <<logDir, logKept, log, chosen, promised, flushed>>

SaveCommitted(i) ==
    /\ LogFree /\ i > log.committed /\ i <= LastIndex(log) /\ i <= Len(chosen)
    /\ \A j \in DOMAIN log.log : j <= i => log.log[j] = chosen[j]
    /\ PersistLog([log EXCEPT !.committed = i], "committed")
    /\ Outside /\ MachineSame /\ UNCHANGED <<logDir, logKept, log, chosen, promised, flushed>>

\* An entry with the index of another one is refused.
AppendEntries(t) ==
    /\ LogFree /\ LastIndex(log) < MaxIndex /\ t <= log.vote
    /\ LET i == LastIndex(log) + 1
       IN  /\ i <= Len(chosen) => t = chosen[i]
           /\ PersistLog([log EXCEPT !.log = [j \in DOMAIN @ \cup {i} |-> IF j = i THEN t ELSE @[j]]], "append")
    /\ Outside /\ MachineSame /\ UNCHANGED <<logDir, logKept, log, chosen, promised, flushed>>

\* OpenRaft truncates a suffix that its leader does not have.
TruncateAfter(i) ==
    /\ LogFree /\ i + 1 \in DOMAIN log.log
    /\ i < Len(chosen) => log.log[i + 1] # chosen[i + 1]
    /\ PersistLog([log EXCEPT !.log = Restrict(@, {j \in DOMAIN @ : j <= i})], "truncate")
    /\ flushed' = Restrict(flushed, {j \in DOMAIN flushed : j <= i})
    /\ Outside /\ MachineSame /\ UNCHANGED <<logDir, logKept, log, chosen, promised>>

\* The snapshot in memory covers what OpenRaft purges; what conflicts with an
\* installed snapshot goes as well.
Purge(i) ==
    /\ LogFree /\ sm.snapshot # Nil /\ i <= sm.snapshot.last /\ i > log.purged
    /\ i < Min({LastIndex(log), Len(chosen)}) => log.log[i + 1] = chosen[i + 1]
    /\ PersistLog([log EXCEPT !.log = Restrict(@, {j \in DOMAIN @ : j > i}), !.purged = i], "purge")
    /\ Outside /\ MachineSame /\ UNCHANGED <<logDir, logKept, log, chosen, promised, flushed>>

-----------------------------------------------------------------------------
(* The state machine. *)

Apply ==
    /\ MachineFree
    /\ LET i == Len(sm.state) + 1
       IN  /\ i <= log.committed /\ i \in DOMAIN log.log
           /\ PersistBundle([sm EXCEPT !.state = Append(@, log.log[i])])
    /\ Outside /\ LogSame /\ UNCHANGED <<smDir, smKept, sm, chosen, incoming>>

BuildSnapshot ==
    /\ MachineFree /\ sm.state # <<>>
    /\ sm.snapshot # Nil => sm.snapshot.last # Len(sm.state)
    /\ PersistBundle([sm EXCEPT !.snapshot = [last |-> Len(sm.state), data |-> sm.state]])
    /\ Outside /\ LogSame /\ UNCHANGED <<smDir, smKept, sm, chosen, incoming>>

\* A snapshot is installed when all of its chunks are there.
InstallSnapshot(last, data) ==
    /\ MachineFree /\ Len(data) = last /\ last > Len(sm.state)
    /\ PersistBundle([state |-> data, snapshot |-> [last |-> last, data |-> data]])

-----------------------------------------------------------------------------
(* The transfer of a snapshot.  A transfer is named by the snapshot it       *)
(* carries; its chunks are requests that a timeout leaves under way, so the  *)
(* chunks of a new attempt meet those of the old one.                        *)

Part(n, k) == SubSeq(SubSeq(chosen, 1, n), (k * n) \div Chunks + 1, ((k + 1) * n) \div Chunks)

SendSnapshot(n) ==
    /\ begun < MaxTransfers /\ n <= Len(chosen)
    /\ wire' = wire \cup {[last |-> n, ordinal |-> k, chunk |-> Part(n, k)] : k \in 0..(Chunks - 1)}
    /\ begun' = begun + 1
    /\ LogSame /\ MachineSame /\ UNCHANGED <<unrest, chosen, crashes>>

\* The transfers after the first chunk of one, which starts it anew.
Started(c) ==
    IF c.ordinal = 0 /\ (Cardinality(DOMAIN incoming) < MaxIncoming \/ c.last \in DOMAIN incoming)
    THEN [n \in DOMAIN incoming \cup {c.last} |-> IF n = c.last THEN [next |-> 0, data |-> <<>>] ELSE incoming[n]]
    ELSE incoming

\* A request that timed out may still be handled, at any time or never, and the
\* chunk may be sent again: what was sent stays on the wire.
HandleSnapshotChunk(c) ==
    /\ c \in wire /\ Running
    /\ LET known == Started(c)
           data  == known[c.last].data \o c.chunk
       IN  /\ c.last \in DOMAIN known
           /\ known[c.last].next = c.ordinal
           /\ Len(data) <= c.last
           /\ IF c.ordinal + 1 = Chunks
              THEN /\ incoming' = Restrict(known, DOMAIN known \ {c.last})
                   /\ \/ InstallSnapshot(c.last, data)
                      \/ ~(Len(sm.state) < c.last) /\ UNCHANGED smWrite
              ELSE /\ incoming' = [known EXCEPT ![c.last] = [next |-> c.ordinal + 1, data |-> data]]
                   /\ UNCHANGED smWrite
    /\ LogSame /\ Outside /\ UNCHANGED <<smDir, smKept, sm, chosen>>

-----------------------------------------------------------------------------
(* The cluster commits an entry that it may not have from this node. *)
Choose(t) ==
    /\ Len(chosen) < MaxIndex
    /\ chosen # <<>> => t >= chosen[Len(chosen)]
    /\ chosen' = Append(chosen, t)
    /\ Outside /\ LogSame /\ MachineSame

Stopped == log' = Nil /\ sm' = Nil /\ logWrite' = Settled /\ smWrite' = Settled
           /\ incoming' = NoLog /\ crashes' = crashes + 1
           /\ UNCHANGED <<unrest, chosen, promised, flushed, wire, begun>>

\* A write fails, before its rename or at its sync, and OpenRaft stops the node.
WriteFails ==
    /\ unrest = "process" /\ crashes < MaxCrashes /\ Running /\ (logWrite # Settled \/ smWrite # Settled)
    /\ Stopped /\ UNCHANGED <<logDir, logKept, smDir, smKept>>

KillNode ==
    /\ unrest = "process" /\ crashes < MaxCrashes /\ (Running \/ Creating[1])
    /\ Stopped /\ UNCHANGED <<logDir, logKept, smDir, smKept>>

NodeLosesPower ==
    /\ unrest = "power" /\ crashes < MaxCrashes /\ Running
    /\ logDir' \in {logKept, logDir} /\ logKept' = logDir'
    /\ smDir' \in {smKept, smDir} /\ smKept' = smDir'
    /\ Stopped

-----------------------------------------------------------------------------
RaftInit ==
    /\ unrest \in Unrest
    /\ logDir = EmptyDir /\ logKept = EmptyDir /\ log = Nil /\ logWrite = Settled
    /\ smDir = EmptyDir /\ smKept = EmptyDir /\ sm = Nil /\ smWrite = Settled
    /\ chosen = <<>> /\ promised = 0 /\ flushed = NoLog
    /\ wire = {} /\ incoming = NoLog /\ begun = 0 /\ crashes = 0

RaftNext ==
    \/ Create \/ OpenExisting \/ RenameLog \/ SyncLog \/ RenameMachine \/ SyncMachine
    \/ \E t \in 1..MaxTerm : SaveVote(t) \/ AppendEntries(t) \/ Choose(t)
    \/ \E i \in 0..MaxIndex : SaveCommitted(i) \/ TruncateAfter(i) \/ Purge(i)
    \/ Apply \/ BuildSnapshot
    \/ \E n \in Indexes : SendSnapshot(n)
    \/ \E c \in wire : HandleSnapshotChunk(c)
    \/ WriteFails \/ KillNode \/ NodeLosesPower

RaftSpec == RaftInit /\ [][RaftNext]_raftVars

-----------------------------------------------------------------------------
(* Properties. *)

BothOnDisk == Opens(logKept) /\ Opens(smKept)

\* What the node has answered holds after any crash: the vote it gave, and
\* every entry whose append it reported and was not told to remove.
AnsweredKept ==
    BothOnDisk => /\ logKept.data.vote >= promised
                  /\ \A i \in DOMAIN flushed :
                       \/ i \in DOMAIN logKept.data.log /\ logKept.data.log[i] = flushed[i]
                       \/ i <= logKept.data.purged

\* A restarted node can go on: its two files open and fit together, at every
\* point of their writes.  The machine's state is a prefix of what the cluster
\* committed, so is its snapshot, and everything purged from the log is in the
\* snapshot.
NodeRecoverable ==
    BothOnDisk => LET l == logKept.data
                  b == smKept.data
              IN  /\ ValidLog(l) /\ ValidBundle(b)
                  /\ Len(b.state) <= Len(chosen) /\ b.state = SubSeq(chosen, 1, Len(b.state))
                  /\ l.purged > 0 => b.snapshot # Nil /\ b.snapshot.last >= l.purged
                  /\ b.snapshot # Nil => b.snapshot.data = SubSeq(chosen, 1, b.snapshot.last)
                                         /\ b.snapshot.last <= Len(b.state)

\* What a Raft node answered for, a vote, an entry or a snapshot, is on its disk after a
\* kill or a loss of power, and its two stores open (raft-runtime, store.rs).
AnswersSurvive == AnsweredKept /\ NodeRecoverable
=============================================================================
