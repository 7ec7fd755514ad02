---------------------------- MODULE RaftNodeProofs ----------------------------
(***************************************************************************)
(* What a Raft node has answered survives kills, failed writes and losses  *)
(* of power, and its two stores fit together at every point of their       *)
(* writes, for any terms, indexes, transfers and faults.                   *)
(*                                                                         *)
(* AnswersSurvive speaks of what the disk keeps.  The invariant extends    *)
(* it to every log and bundle that is held anywhere (in memory, in the     *)
(* directory, kept by the disk, or about to be written), because a step    *)
(* makes one of these of another; relates these places; and adds what is   *)
(* true of the chunks of a snapshot that are under way.                    *)
(***************************************************************************)
EXTENDS RaftNode, SequenceTheorems, TLAPS

Dirs(contents) == [data : contents \cup {Nil}, marker : BOOLEAN]
Writes(contents, ends) == [at : {"rename", "sync"}, new : contents, then : ends]
LogEnds == {"vote", "committed", "append", "truncate", "purge"}

\* Everything that is held of a store.
Held(memory, dir, survives, write) ==
    ({memory, dir.data, survives.data} \cup IF write = Settled THEN {} ELSE {write.new}) \ {Nil}
LogsHeld == Held(log, logDir, logKept, logWrite)
BundlesHeld == Held(sm, smDir, smKept, smWrite)

\* Where these are while atomic_write replaces the file of a store.
Placed(memory, dir, survives, write) ==
    /\ write.at # "sync" \/ unrest = "process" => survives = dir
    /\ write.at = "sync" => /\ dir.data = write.new /\ survives.data \in {memory, write.new}
                            /\ survives.marker = dir.marker
    /\ write.at # "sync" /\ memory # Nil => dir.data = memory
    /\ write # Settled => memory # Nil

\* The log is without holes, has what was answered, and agrees with the cluster as far as it
\* is committed.
Whole(l) == \E top \in Nat : top >= l.purged /\ DOMAIN l.log = (l.purged + 1)..top
Answered(l) ==
    /\ l.vote >= promised
    /\ \A i \in DOMAIN flushed : (i \in DOMAIN l.log /\ l.log[i] = flushed[i]) \/ i <= l.purged
Agrees(l) ==
    /\ l.committed <= Len(chosen)
    /\ \A j \in DOMAIN l.log : j <= l.committed => l.log[j] = chosen[j]
GoodLog(l) == Whole(l) /\ Answered(l) /\ Agrees(l)

\* The state is what the cluster committed first, and so is the snapshot.
Prefix(s) == Len(s) <= Len(chosen) /\ \A i \in 1..Len(s) : s[i] = chosen[i]
GoodBundle(b) ==
    /\ Prefix(b.state)
    /\ b.snapshot # Nil => /\ Prefix(b.snapshot.data) /\ Len(b.snapshot.data) = b.snapshot.last
                           /\ b.snapshot.last <= Len(b.state)
Reach(b) == IF b.snapshot = Nil THEN 0 ELSE b.snapshot.last

\* The first chunk of a snapshot is the first half of it, the second one the rest.
Half(n) == n \div 2
GoodChunk(c) ==
    /\ c.last <= Len(chosen)
    /\ c.ordinal = 0 => /\ Len(c.chunk) = Half(c.last)
                        /\ \A i \in 1..Half(c.last) : c.chunk[i] = chosen[i]
    /\ c.ordinal = 1 => /\ Len(c.chunk) = c.last - Half(c.last)
                        /\ \A i \in 1..(c.last - Half(c.last)) : c.chunk[i] = chosen[Half(c.last) + i]
GoodTransfer(n, t) ==
    /\ n <= Len(chosen) /\ Prefix(t.data)
    /\ t.next = 0 => t.data = <<>>
    /\ t.next = 1 => Len(t.data) = Half(n)

RaftTypes ==
    /\ logDir \in Dirs(Logs) /\ logKept \in Dirs(Logs) /\ log \in Logs \cup {Nil}
    /\ logWrite \in Writes(Logs, LogEnds) \cup {Settled}
    /\ smDir \in Dirs(Bundles) /\ smKept \in Dirs(Bundles) /\ sm \in Bundles \cup {Nil}
    /\ smWrite \in Writes(Bundles, {Nil}) \cup {Settled}
    /\ chosen \in Seq(Nat) /\ promised \in Nat /\ DOMAIN flushed \subseteq Nat

Places == Placed(log, logDir, logKept, logWrite) /\ Placed(sm, smDir, smKept, smWrite)

\* What was purged is in every snapshot that may be opened, and none is replaced by an
\* earlier one.  Nothing was answered or purged before the files of the node were there.
Covered ==
    /\ \A l \in LogsHeld, b \in BundlesHeld : l.purged <= Reach(b)
    /\ smWrite # Settled => Reach(sm) <= Reach(smWrite.new)
    /\ logDir.data = Nil => promised = 0 /\ flushed = NoLog
    /\ smDir.data = Nil => \A l \in LogsHeld : l.purged = 0

Transfers ==
    /\ \A c \in wire : c \in [last : Nat, ordinal : {0, 1}, chunk : Seq(Nat)] /\ GoodChunk(c)
    /\ \A n \in DOMAIN incoming : /\ n \in Nat /\ incoming[n] \in [next : {0, 1}, data : Seq(Nat)]
                                  /\ GoodTransfer(n, incoming[n])

RaftInv ==
    /\ RaftTypes /\ Places /\ Covered /\ Transfers
    /\ \A l \in LogsHeld : GoodLog(l)
    /\ \A b \in BundlesHeld : GoodBundle(b)

-----------------------------------------------------------------------------
(* Logs and bundles. *)

\* The end of a sequence of entries, from position m on, and its start.
LEMMA EndOf ==
    ASSUME NEW s, NEW m \in Int, NEW n \in Int, m >= 1, n >= m - 1, \A i \in m..n : s[i] \in Nat
    PROVE  /\ SubSeq(s, m, n) \in Seq(Nat) /\ Len(SubSeq(s, m, n)) = n - m + 1
           /\ \A i \in 1..(n - m + 1) : SubSeq(s, m, n)[i] = s[m + i - 1]
<1>1. /\ SubSeq(s, m, n) \in Seq(Nat)
      /\ Len(SubSeq(s, m, n)) = IF m <= n THEN n - m + 1 ELSE 0
      /\ \A i \in 1..(n - m + 1) : SubSeq(s, m, n)[i] = s[m + i - 1]
  BY SubSeqProperties
<1>2. (IF m <= n THEN n - m + 1 ELSE 0) = n - m + 1
  OBVIOUS
<1> QED BY Zenon, <1>1, <1>2

LEMMA StartOf ==
    ASSUME NEW s \in Seq(Nat), NEW n \in Nat, n <= Len(s)
    PROVE  /\ SubSeq(s, 1, n) \in Seq(Nat) /\ Len(SubSeq(s, 1, n)) = n
           /\ \A i \in 1..n : SubSeq(s, 1, n)[i] = s[i] /\ s[i] \in Nat
OBVIOUS


LEMMA HalfOf ==
    ASSUME NEW n \in Nat
    PROVE  /\ Half(n) \in Nat /\ Half(n) <= n
           /\ (0 * n) \div Chunks + 1 = 1 /\ ((0 + 1) * n) \div Chunks = Half(n)
           /\ (1 * n) \div Chunks + 1 = Half(n) + 1 /\ ((1 + 1) * n) \div Chunks = n
BY DEF Half, Chunks

\* The chunks of the first n entries.
LEMMA Parts ==
    ASSUME chosen \in Seq(Nat), NEW n \in Nat, n <= Len(chosen), NEW k \in {0, 1}
    PROVE  LET c == [last |-> n, ordinal |-> k, chunk |-> Part(n, k)]
           IN  c \in [last : Nat, ordinal : {0, 1}, chunk : Seq(Nat)] /\ GoodChunk(c)
<1>1. PICK whole : whole = SubSeq(chosen, 1, n)
  BY Zenon
<1>2. whole \in Seq(Nat) /\ Len(whole) = n /\ \A i \in 1..n : whole[i] = chosen[i] /\ whole[i] \in Nat
  BY Zenon, <1>1, StartOf
<1>3. PICK h \in Nat : h = Half(n) /\ h <= n
  BY Zenon, HalfOf
<1>4. PICK p : p = Part(n, k)
  BY Zenon
<1>5. CASE k = 0
  <2>1. p = SubSeq(whole, 1, h)
    BY Zenon, <1>1, <1>3, <1>4, <1>5, HalfOf DEF Part
  <2>2. p \in Seq(Nat) /\ Len(p) = h /\ \A i \in 1..h : p[i] = whole[i]
    BY Zenon, <1>2, <1>3, <2>1, StartOf
  <2>3. ASSUME NEW i \in 1..h PROVE p[i] = chosen[i]
    <3>1. i \in 1..n
      BY <1>3
    <3> QED BY Zenon, <1>2, <2>2, <3>1
  <2> QED BY <1>3, <1>4, <1>5, <2>2, <2>3 DEF GoodChunk
<1>6. CASE k = 1
  <2>1. p = SubSeq(whole, h + 1, n)
    BY Zenon, <1>1, <1>3, <1>4, <1>6, HalfOf DEF Part
  <2>2. \A i \in (h + 1)..n : whole[i] \in Nat
    BY <1>2, <1>3
  <2>3. h + 1 \in Int /\ n \in Int /\ h + 1 >= 1 /\ n >= h + 1 - 1 /\ n - (h + 1) + 1 = n - h
    BY <1>3
  <2>4. /\ SubSeq(whole, h + 1, n) \in Seq(Nat) /\ Len(SubSeq(whole, h + 1, n)) = n - h
        /\ \A i \in 1..(n - h) : SubSeq(whole, h + 1, n)[i] = whole[(h + 1) + i - 1]
    BY <2>2, <2>3, EndOf
  <2>5. p \in Seq(Nat) /\ Len(p) = n - h
    BY Zenon, <2>1, <2>4
  <2>6. ASSUME NEW i \in 1..(n - h) PROVE p[i] = chosen[h + i]
    <3>1. i \in Int /\ 1 <= i /\ i <= n - h
      BY <1>3
    <3>2. (h + 1) + i - 1 = h + i
      BY <1>3, <3>1
    <3>3. h + i \in 1..n
      BY <1>3, <3>1
    <3> QED BY Zenon, <1>2, <2>1, <2>4, <3>2, <3>3
  <2> QED BY <1>3, <1>4, <1>6, <2>5, <2>6 DEF GoodChunk
<1> QED BY Zenon, <1>5, <1>6

LEMMA LogEntries ==
    ASSUME NEW l \in Logs
    PROVE  /\ l.vote \in Nat /\ l.committed \in Nat /\ l.purged \in Nat
           /\ DOMAIN l.log \subseteq Indexes /\ l.log \in [DOMAIN l.log -> Nat]
<1>1. /\ l.vote \in Nat /\ l.committed \in Nat /\ l.purged \in Nat
      /\ l.log \in UNION {[S -> Nat] : S \in SUBSET Indexes}
  BY Zenon DEF Logs
<1>2. PICK S \in SUBSET Indexes : l.log \in [S -> Nat]
  BY Zenon, <1>1
<1> QED BY Zenon, <1>1, <1>2

\* A log with other entries, and with another purged index.
LEMMA LogOfEntries ==
    ASSUME NEW v \in Nat, NEW c \in Nat, NEW p \in Nat, NEW S \in SUBSET Indexes, NEW f \in [S -> Nat]
    PROVE  [vote |-> v, committed |-> c, purged |-> p, log |-> f] \in Logs
<1>1. f \in UNION {[T -> Nat] : T \in SUBSET Indexes}
  BY Zenon
<1> QED BY Zenon, <1>1 DEF Logs

LEMMA LogFields ==
    ASSUME NEW l \in Logs
    PROVE  /\ l = [vote |-> l.vote, committed |-> l.committed, purged |-> l.purged, log |-> l.log]
           /\ \A v : [l EXCEPT !.vote = v] =
                      [vote |-> v, committed |-> l.committed, purged |-> l.purged, log |-> l.log]
           /\ \A c : [l EXCEPT !.committed = c] =
                      [vote |-> l.vote, committed |-> c, purged |-> l.purged, log |-> l.log]
           /\ \A f : [l EXCEPT !.log = f] =
                      [vote |-> l.vote, committed |-> l.committed, purged |-> l.purged, log |-> f]
           /\ \A f, p : [l EXCEPT !.log = f, !.purged = p] =
                      [vote |-> l.vote, committed |-> l.committed, purged |-> p, log |-> f]
<1> DEFINE E == UNION {[S -> Nat] : S \in SUBSET Indexes}
<1>1. l \in [vote : Nat, committed : Nat, purged : Nat, log : E]
  BY Zenon DEF Logs
<1> HIDE DEF E
<1>2. l = [vote |-> l.vote, committed |-> l.committed, purged |-> l.purged, log |-> l.log]
  BY Zenon, <1>1
<1>3. ASSUME NEW v
      PROVE  [l EXCEPT !.vote = v] =
             [vote |-> v, committed |-> l.committed, purged |-> l.purged, log |-> l.log]
  <2>1. PICK r : r = [l EXCEPT !.vote = v]
    BY Zenon
  <2>2. r = [vote |-> v, committed |-> l.committed, purged |-> l.purged, log |-> l.log]
    BY Zenon, <1>1, <2>1
  <2> QED BY Zenon, <2>1, <2>2
<1>4. ASSUME NEW c
      PROVE  [l EXCEPT !.committed = c] =
             [vote |-> l.vote, committed |-> c, purged |-> l.purged, log |-> l.log]
  <2>1. PICK r : r = [l EXCEPT !.committed = c]
    BY Zenon
  <2>2. r = [vote |-> l.vote, committed |-> c, purged |-> l.purged, log |-> l.log]
    BY Zenon, <1>1, <2>1
  <2> QED BY Zenon, <2>1, <2>2
<1>5. ASSUME NEW f
      PROVE  [l EXCEPT !.log = f] =
             [vote |-> l.vote, committed |-> l.committed, purged |-> l.purged, log |-> f]
  <2>1. PICK r : r = [l EXCEPT !.log = f]
    BY Zenon
  <2>2. r = [vote |-> l.vote, committed |-> l.committed, purged |-> l.purged, log |-> f]
    BY Zenon, <1>1, <2>1
  <2> QED BY Zenon, <2>1, <2>2
<1>6. ASSUME NEW f, NEW p
      PROVE  [l EXCEPT !.log = f, !.purged = p] =
             [vote |-> l.vote, committed |-> l.committed, purged |-> p, log |-> f]
  <2>1. PICK r : r = [l EXCEPT !.log = f, !.purged = p]
    BY Zenon
  <2>2. r = [vote |-> l.vote, committed |-> l.committed, purged |-> p, log |-> f]
    BY Zenon, <1>1, <2>1
  <2> QED BY Zenon, <2>1, <2>2
<1> QED BY Zenon, <1>2, <1>3, <1>4, <1>5, <1>6

\* LastIndex of a log without holes.
LEMMA LastIsTop ==
    ASSUME NEW l \in Logs, NEW top \in Nat, top >= l.purged, DOMAIN l.log = (l.purged + 1)..top
    PROVE  LastIndex(l) = top
<1> DEFINE S == {l.purged} \cup DOMAIN l.log
<1>1. l.purged \in Nat
  BY Zenon, LogEntries
<1>2. top \in S /\ \A y \in S : top >= y
  BY <1>1
<1>3. \A x \in S : (\A y \in S : x >= y) => x = top
  BY <1>1, <1>2
<1> QED BY Zenon, <1>2, <1>3 DEF LastIndex, Max

LEMMA WholeIsValid ==
    ASSUME NEW l \in Logs, Whole(l)
    PROVE  ValidLog(l)
<1>1. PICK top \in Nat : top >= l.purged /\ DOMAIN l.log = (l.purged + 1)..top
  BY Zenon DEF Whole
<1> QED BY Zenon, <1>1, LastIsTop DEF ValidLog

LEMMA BundleFields ==
    ASSUME NEW b \in Bundles, RaftAssumption
    PROVE  /\ b.state \in Seq(Nat) /\ b = [state |-> b.state, snapshot |-> b.snapshot]
           /\ b.snapshot # Nil => b.snapshot.last \in Nat /\ b.snapshot.data \in Seq(Nat)
           /\ Reach(b) \in Nat
           /\ \A s \in Seq(Nat) : [b EXCEPT !.state = s] = [state |-> s, snapshot |-> b.snapshot]
                                  /\ [b EXCEPT !.state = s] \in Bundles
           /\ \A s \in Snapshots : [b EXCEPT !.snapshot = s] = [state |-> b.state, snapshot |-> s]
                                   /\ [b EXCEPT !.snapshot = s] \in Bundles
<1>1. b.state \in Seq(Nat) /\ b.snapshot \in Snapshots \cup {Nil}
  BY Zenon DEF Bundles
<1>2. b.snapshot # Nil => b.snapshot.last \in Nat /\ b.snapshot.data \in Seq(Nat)
  BY Zenon, <1>1 DEF Snapshots
<1>3. b = [state |-> b.state, snapshot |-> b.snapshot]
  BY Zenon DEF Bundles
<1>4. ASSUME NEW s \in Seq(Nat), NEW r, r = [b EXCEPT !.state = s]
      PROVE  r = [state |-> s, snapshot |-> b.snapshot] /\ r \in Bundles
  BY Zenon, <1>4 DEF Bundles
<1>5. ASSUME NEW s \in Snapshots, NEW r, r = [b EXCEPT !.snapshot = s]
      PROVE  r = [state |-> b.state, snapshot |-> s] /\ r \in Bundles
  BY Zenon, <1>5 DEF Bundles
<1> QED BY Zenon, <1>1, <1>2, <1>3, <1>4, <1>5 DEF Reach

-----------------------------------------------------------------------------
(* The places of a store. *)

LEMMA HeldTypes ==
    ASSUME RaftTypes
    PROVE  LogsHeld \subseteq Logs /\ BundlesHeld \subseteq Bundles
<1>1. /\ logDir.data \in Logs \cup {Nil} /\ logKept.data \in Logs \cup {Nil}
      /\ smDir.data \in Bundles \cup {Nil} /\ smKept.data \in Bundles \cup {Nil}
  BY Zenon DEF RaftTypes, Dirs
<1>2. /\ logWrite # Settled => logWrite.new \in Logs
      /\ smWrite # Settled => smWrite.new \in Bundles
  BY Zenon DEF RaftTypes, Writes
<1> QED BY Zenon, <1>1, <1>2 DEF RaftTypes, LogsHeld, BundlesHeld, Held

\* What is held is no older than what memory has.
LEMMA MemoryIsOldest ==
    ASSUME RaftAssumption, RaftInv, sm # Nil
    PROVE  /\ \A b \in BundlesHeld : Reach(sm) <= Reach(b)
           /\ sm \in BundlesHeld
<1>0. RaftTypes /\ Placed(sm, smDir, smKept, smWrite) /\ (smWrite # Settled => Reach(sm) <= Reach(smWrite.new))
  BY Zenon DEF RaftInv, Places, Covered
<1>1. Reach(sm) \in Nat
  BY Zenon, <1>0, BundleFields DEF RaftTypes
<1>2. smWrite.at = "sync" => smWrite # Settled
  BY DEF Settled
<1> QED BY <1>0, <1>1, <1>2 DEF BundlesHeld, Held, Placed

LEMMA LogWriteBegins ==
    ASSUME RaftAssumption, RaftInv, LogFree, NEW l \in Logs, NEW then \in LogEnds,
           logWrite' = Writing(l, then),
           Whole(l), Answered(l)', Agrees(l),
           \A b \in BundlesHeld : l.purged <= Reach(b),
           flushed' = flushed \/ \E i \in Nat : flushed' = Restrict(flushed, {j \in DOMAIN flushed : j <= i}),
           UNCHANGED <<unrest, logDir, logKept, log, smDir, smKept, sm, smWrite, chosen, promised, wire, incoming>>
    PROVE  RaftInv'
<1>1. logWrite' \in Writes(Logs, LogEnds) /\ logWrite'.at = "rename" /\ logWrite'.new = l /\ logWrite' # Settled
  BY Zenon DEF Writing, Writes, Settled
<1>2. log # Nil /\ logWrite = Settled /\ Settled.at = "idle" /\ sm # Nil
  BY Zenon DEF LogFree, Running, Settled
<1>3. RaftTypes'
  BY Zenon, <1>1 DEF RaftInv, RaftTypes, Restrict
<1>4. Places'
  <2>1. Placed(log, logDir, logKept, logWrite)'
    BY Zenon, <1>1, <1>2 DEF RaftInv, Places, Placed
  <2>2. Placed(sm, smDir, smKept, smWrite)'
    BY Zenon DEF RaftInv, Places, Placed
  <2> QED BY Zenon, <2>1, <2>2 DEF Places
<1>5. LogsHeld' \subseteq LogsHeld \cup {l} /\ BundlesHeld' = BundlesHeld
  BY Zenon, <1>1 DEF LogsHeld, BundlesHeld, Held
<1>6. Covered'
  <2>1. smDir.data # Nil /\ logDir.data # Nil
    BY Zenon, <1>2 DEF RaftInv, RaftTypes, Places, Placed, Writes, Settled, RaftAssumption
  <2> QED BY Zenon, <1>5, <2>1 DEF RaftInv, Covered, Reach
<1>7. ASSUME NEW k \in LogsHeld PROVE GoodLog(k)'
  <2>1. GoodLog(k)
    BY Zenon DEF RaftInv
  <2>2. Whole(k)' /\ Agrees(k)'
    BY Zenon, <2>1 DEF GoodLog, Whole, Agrees
  <2>3. Answered(k)'
    BY Zenon, <2>1 DEF GoodLog, Answered, Restrict
  <2> QED BY Zenon, <2>2, <2>3 DEF GoodLog
<1>8. GoodLog(l)'
  BY Zenon DEF GoodLog, Whole, Agrees
<1>9. ASSUME NEW b \in BundlesHeld PROVE GoodBundle(b)'
  BY Zenon DEF RaftInv, GoodBundle, Prefix
<1>10. Transfers'
  BY Zenon DEF RaftInv, Transfers, GoodChunk, GoodTransfer, Prefix
<1> QED BY Zenon, <1>3, <1>4, <1>5, <1>6, <1>7, <1>8, <1>9, <1>10 DEF RaftInv

-----------------------------------------------------------------------------
(* The log store. *)

LEMMA MemoryLog ==
    ASSUME RaftInv, LogFree
    PROVE  /\ log \in Logs /\ log \in LogsHeld /\ Whole(log) /\ Answered(log) /\ Agrees(log)
           /\ \A b \in BundlesHeld : log.purged <= Reach(b)
<1>1. log # Nil /\ log \in Logs
  BY Zenon DEF RaftInv, RaftTypes, LogFree, Running
<1>2. log \in LogsHeld
  BY Zenon, <1>1 DEF LogsHeld, Held
<1> QED BY Zenon, <1>1, <1>2 DEF RaftInv, GoodLog, Covered

LEMMA VoteKeeps ==
    ASSUME RaftAssumption, RaftInv, NEW v \in Nat, SaveVote(v)
    PROVE  RaftInv'
<1>1. LogFree /\ v > log.vote
  BY Zenon DEF SaveVote
<1>2. PICK l : l = [log EXCEPT !.vote = v]
  BY Zenon
<1>3. l \in Logs /\ l.vote = v /\ l.committed = log.committed /\ l.purged = log.purged /\ l.log = log.log
  <2>1. /\ l = [vote |-> v, committed |-> log.committed, purged |-> log.purged, log |-> log.log]
        /\ log.committed \in Nat /\ log.purged \in Nat
        /\ DOMAIN log.log \subseteq Indexes /\ log.log \in [DOMAIN log.log -> Nat]
    BY Zenon, <1>1, <1>2, MemoryLog, LogFields, LogEntries
  <2> QED BY Zenon, <2>1, LogOfEntries
<1>4. /\ logWrite' = Writing(l, "vote")
      /\ UNCHANGED <<unrest, logDir, logKept, log, smDir, smKept, sm, smWrite, chosen, promised, flushed, wire, incoming>>
  BY Zenon, <1>2 DEF SaveVote, PersistLog, Outside, MachineSame
<1>5. Whole(l) /\ Agrees(l) /\ \A b \in BundlesHeld : l.purged <= Reach(b)
  BY Zenon, <1>1, <1>3, MemoryLog DEF Whole, Agrees
<1>6. Answered(l)'
  <2>1. log.vote \in Nat /\ promised \in Nat
    BY Zenon, <1>1, MemoryLog, LogEntries DEF RaftInv, RaftTypes
  <2> QED BY <1>1, <1>3, <1>4, <2>1, MemoryLog DEF Answered
<1> QED BY Zenon, <1>1, <1>3, <1>4, <1>5, <1>6, LogWriteBegins DEF LogEnds

LEMMA CommittedKeeps ==
    ASSUME RaftAssumption, RaftInv, NEW i \in Nat, SaveCommitted(i)
    PROVE  RaftInv'
<1>1. /\ LogFree /\ i <= Len(chosen)
      /\ \A j \in DOMAIN log.log : j <= i => log.log[j] = chosen[j]
  BY Zenon DEF SaveCommitted
<1>2. PICK l : l = [log EXCEPT !.committed = i]
  BY Zenon
<1>3. l \in Logs /\ l.vote = log.vote /\ l.committed = i /\ l.purged = log.purged /\ l.log = log.log
  <2>1. /\ l = [vote |-> log.vote, committed |-> i, purged |-> log.purged, log |-> log.log]
        /\ log.vote \in Nat /\ log.purged \in Nat
        /\ DOMAIN log.log \subseteq Indexes /\ log.log \in [DOMAIN log.log -> Nat]
    BY Zenon, <1>1, <1>2, MemoryLog, LogFields, LogEntries
  <2> QED BY Zenon, <2>1, LogOfEntries
<1>4. /\ logWrite' = Writing(l, "committed")
      /\ UNCHANGED <<unrest, logDir, logKept, log, smDir, smKept, sm, smWrite, chosen, promised, flushed, wire, incoming>>
  BY Zenon, <1>2 DEF SaveCommitted, PersistLog, Outside, MachineSame
<1>5. Whole(l) /\ Agrees(l) /\ \A b \in BundlesHeld : l.purged <= Reach(b)
  BY Zenon, <1>1, <1>3, MemoryLog DEF Whole, Agrees
<1>6. Answered(l)'
  BY Zenon, <1>1, <1>3, <1>4, MemoryLog DEF Answered
<1> QED BY Zenon, <1>1, <1>3, <1>4, <1>5, <1>6, LogWriteBegins DEF LogEnds

LEMMA AppendKeeps ==
    ASSUME RaftAssumption, RaftInv, NEW t \in Nat, AppendEntries(t)
    PROVE  RaftInv'
<1>1. LogFree /\ LastIndex(log) < MaxIndex
  BY Zenon DEF AppendEntries
<1>2. PICK top \in Nat : top >= log.purged /\ DOMAIN log.log = (log.purged + 1)..top
  BY Zenon, <1>1, MemoryLog DEF Whole
<1>3. /\ log \in Logs /\ log.vote \in Nat /\ log.committed \in Nat /\ log.purged \in Nat
      /\ LastIndex(log) = top /\ log.log \in [DOMAIN log.log -> Nat]
  BY Zenon, <1>1, <1>2, MemoryLog, LogEntries, LastIsTop
<1> DEFINE i == top + 1
           D == DOMAIN log.log \cup {i}
           f == [j \in D |-> IF j = i THEN t ELSE log.log[j]]
<1>4. PICK l : l = [log EXCEPT !.log = f]
  BY Zenon
<1>5. /\ D = (log.purged + 1)..i /\ D \subseteq Indexes /\ i \notin DOMAIN log.log
      /\ f \in [D -> Nat]
  BY <1>1, <1>2, <1>3 DEF Indexes, RaftAssumption
<1>6. l \in Logs /\ l.vote = log.vote /\ l.committed = log.committed /\ l.purged = log.purged /\ l.log = f
  <2> HIDE DEF f, D, i
  <2>1. l = [vote |-> log.vote, committed |-> log.committed, purged |-> log.purged, log |-> f]
    BY Zenon, <1>3, <1>4, LogFields
  <2> QED BY Zenon, <1>3, <1>5, <2>1, LogOfEntries
<1>7. /\ logWrite' = Writing(l, "append") /\ (i <= Len(chosen) => t = chosen[i])
      /\ UNCHANGED <<unrest, logDir, logKept, log, smDir, smKept, sm, smWrite, chosen, promised, flushed, wire, incoming>>
  BY Zenon, <1>3, <1>4 DEF AppendEntries, PersistLog, Outside, MachineSame
<1>8. Whole(l) /\ Agrees(l) /\ \A b \in BundlesHeld : l.purged <= Reach(b)
  <2>1. DOMAIN l.log = (l.purged + 1)..i /\ i \in Nat /\ i >= l.purged
    BY <1>2, <1>3, <1>5, <1>6
  <2>2. Agrees(l)
    <3>1. log.committed <= Len(chosen) /\ Len(chosen) \in Nat
      BY <1>1, MemoryLog DEF Agrees, RaftInv, RaftTypes
    <3>2. ASSUME NEW j \in D, j <= log.committed PROVE f[j] = chosen[j]
      BY <1>1, <1>3, <1>5, <1>7, <3>1, <3>2, MemoryLog DEF Agrees
    <3> QED BY Zenon, <1>5, <1>6, <3>1, <3>2 DEF Agrees
  <2> QED BY Zenon, <1>1, <1>6, <2>1, <2>2, MemoryLog DEF Whole
<1>9. Answered(l)'
  <2>1. \A j \in DOMAIN log.log : j \in DOMAIN l.log /\ l.log[j] = log.log[j]
    BY Zenon, <1>5, <1>6
  <2> QED BY Zenon, <1>1, <1>6, <1>7, <2>1, MemoryLog DEF Answered
<1> QED BY Zenon, <1>1, <1>6, <1>7, <1>8, <1>9, LogWriteBegins DEF LogEnds

LEMMA TruncateKeeps ==
    ASSUME RaftAssumption, RaftInv, NEW i \in Nat, TruncateAfter(i)
    PROVE  RaftInv'
<1>1. LogFree /\ i + 1 \in DOMAIN log.log
  BY Zenon DEF TruncateAfter
<1>2. PICK top \in Nat : top >= log.purged /\ DOMAIN log.log = (log.purged + 1)..top
  BY Zenon, <1>1, MemoryLog DEF Whole
<1>3. /\ log \in Logs /\ log.vote \in Nat /\ log.committed \in Nat /\ log.purged \in Nat
      /\ DOMAIN log.log \subseteq Indexes /\ log.log \in [DOMAIN log.log -> Nat]
  BY Zenon, <1>1, MemoryLog, LogEntries
<1> DEFINE D == {j \in DOMAIN log.log : j <= i}
           f == Restrict(log.log, D)
<1>4. PICK l : l = [log EXCEPT !.log = f]
  BY Zenon
<1>5. D = (log.purged + 1)..i /\ i >= log.purged /\ D \subseteq Indexes /\ f \in [D -> Nat]
  BY <1>1, <1>2, <1>3 DEF Restrict
<1>6. /\ l \in Logs /\ l.vote = log.vote /\ l.committed = log.committed /\ l.purged = log.purged
      /\ l.log = f /\ \A j \in D : f[j] = log.log[j]
  <2>1. \A j \in D : f[j] = log.log[j]
    BY Zenon DEF Restrict
  <2> HIDE DEF f, D
  <2>2. l = [vote |-> log.vote, committed |-> log.committed, purged |-> log.purged, log |-> f]
    BY Zenon, <1>3, <1>4, LogFields
  <2> QED BY Zenon, <1>3, <1>5, <2>1, <2>2, LogOfEntries
<1>7. /\ logWrite' = Writing(l, "truncate")
      /\ flushed' = Restrict(flushed, {j \in DOMAIN flushed : j <= i})
      /\ UNCHANGED <<unrest, logDir, logKept, log, smDir, smKept, sm, smWrite, chosen, promised, wire, incoming>>
  BY Zenon, <1>4 DEF TruncateAfter, PersistLog, Outside, MachineSame
<1>8. Whole(l) /\ Agrees(l) /\ \A b \in BundlesHeld : l.purged <= Reach(b)
  BY Zenon, <1>1, <1>3, <1>5, <1>6, MemoryLog DEF Whole, Agrees
<1>9. Answered(l)'
  <2>1. l.vote >= promised
    BY Zenon, <1>1, <1>6, MemoryLog DEF Answered
  <2>2. ASSUME NEW j \in DOMAIN flushed, j <= i
        PROVE  (j \in DOMAIN l.log /\ l.log[j] = flushed[j]) \/ j <= l.purged
    BY <1>1, <1>5, <1>6, <2>2, MemoryLog DEF Answered
  <2> QED BY Zenon, <1>7, <2>1, <2>2 DEF Answered, Restrict
<1> QED BY Zenon, <1>1, <1>6, <1>7, <1>8, <1>9, LogWriteBegins DEF LogEnds

LEMMA PurgeKeeps ==
    ASSUME RaftAssumption, RaftInv, NEW i \in Nat, Purge(i)
    PROVE  RaftInv'
<1>1. LogFree /\ sm # Nil /\ sm.snapshot # Nil /\ i <= sm.snapshot.last /\ i > log.purged
  BY Zenon DEF Purge, LogFree, Running
<1>2. PICK top \in Nat : top >= log.purged /\ DOMAIN log.log = (log.purged + 1)..top
  BY Zenon, <1>1, MemoryLog DEF Whole
<1>3. /\ log \in Logs /\ log.vote \in Nat /\ log.committed \in Nat /\ log.purged \in Nat
      /\ DOMAIN log.log \subseteq Indexes /\ log.log \in [DOMAIN log.log -> Nat]
  BY Zenon, <1>1, MemoryLog, LogEntries
<1> DEFINE D == {j \in DOMAIN log.log : j > i}
           f == Restrict(log.log, D)
<1>4. PICK l : l = [log EXCEPT !.log = f, !.purged = i]
  BY Zenon
<1>5. PICK last \in Nat : last >= i /\ D = (i + 1)..last
  <2>1. CASE top >= i
    BY <1>1, <1>2, <1>3, <2>1
  <2>2. CASE top < i
    <3>1. D = (i + 1)..i
      BY <1>1, <1>2, <1>3, <2>2
    <3> QED BY <3>1
  <2> QED BY <2>1, <2>2
<1>6. /\ l \in Logs /\ l.vote = log.vote /\ l.committed = log.committed /\ l.purged = i
      /\ l.log = f /\ DOMAIN f = D /\ \A j \in D : f[j] = log.log[j]
  <2>1. DOMAIN f = D /\ (\A j \in D : f[j] = log.log[j]) /\ f \in [D -> Nat] /\ D \subseteq Indexes
    BY Zenon, <1>3 DEF Restrict
  <2> HIDE DEF f, D
  <2>2. l = [vote |-> log.vote, committed |-> log.committed, purged |-> i, log |-> f]
    BY Zenon, <1>3, <1>4, LogFields
  <2> QED BY Zenon, <1>3, <2>1, <2>2, LogOfEntries
<1>7. /\ logWrite' = Writing(l, "purge")
      /\ UNCHANGED <<unrest, logDir, logKept, log, smDir, smKept, sm, smWrite, chosen, promised, flushed, wire, incoming>>
  BY Zenon, <1>4 DEF Purge, PersistLog, Outside, MachineSame
<1>8. Whole(l) /\ Agrees(l)
  BY Zenon, <1>1, <1>5, <1>6, MemoryLog DEF Whole, Agrees
<1>9. ASSUME NEW b \in BundlesHeld PROVE l.purged <= Reach(b)
  <2>1. Reach(sm) = sm.snapshot.last /\ Reach(sm) <= Reach(b)
    BY Zenon, <1>1, MemoryIsOldest DEF Reach
  <2>2. Reach(sm) \in Nat /\ Reach(b) \in Nat
    BY Zenon, <1>1, BundleFields, HeldTypes, MemoryIsOldest DEF RaftInv
  <2> QED BY <1>1, <1>6, <2>1, <2>2
<1>10. Answered(l)'
  <2>1. \A j \in DOMAIN log.log : j > i \/ j <= i
    BY <1>2, <1>3
  <2>2. ASSUME NEW j \in DOMAIN flushed
        PROVE  (j \in DOMAIN l.log /\ l.log[j] = flushed[j]) \/ j <= l.purged
    <3>1. (j \in DOMAIN log.log /\ log.log[j] = flushed[j]) \/ j <= log.purged
      BY Zenon, <1>1, MemoryLog DEF Answered
    <3>2. CASE j \in DOMAIN log.log /\ log.log[j] = flushed[j]
      BY Zenon, <1>6, <2>1, <3>2
    <3>3. CASE j <= log.purged
      BY <1>1, <1>3, <1>6, <3>3 DEF RaftInv, RaftTypes
    <3> QED BY Zenon, <3>1, <3>2, <3>3
  <2>3. l.vote >= promised
    BY Zenon, <1>1, <1>6, MemoryLog DEF Answered
  <2> QED BY Zenon, <1>7, <2>2, <2>3 DEF Answered
<1> QED BY Zenon, <1>1, <1>6, <1>7, <1>8, <1>9, <1>10, LogWriteBegins DEF LogEnds

-----------------------------------------------------------------------------
(* atomic_write, opening and stopping move what is held from place to place. *)

LEMMA Moved ==
    ASSUME RaftInv, LogsHeld' \subseteq LogsHeld, BundlesHeld' \subseteq BundlesHeld,
           RaftTypes', Places',
           smWrite' # Settled => Reach(sm') <= Reach(smWrite'.new),
           logDir'.data = Nil => logDir.data = Nil, smDir'.data = Nil => smDir.data = Nil,
           UNCHANGED <<chosen, promised, flushed, wire>>, incoming' = incoming \/ incoming' = NoLog
    PROVE  RaftInv'
<1>1. Covered'
  BY Zenon DEF RaftInv, Covered, Reach
<1>2. Transfers'
  BY DEF RaftInv, Transfers, GoodChunk, GoodTransfer, Prefix, NoLog
<1>3. ASSUME NEW l \in LogsHeld' PROVE GoodLog(l)'
  BY Zenon DEF RaftInv, GoodLog, Whole, Answered, Agrees
<1>4. ASSUME NEW b \in BundlesHeld' PROVE GoodBundle(b)'
  BY Zenon DEF RaftInv, GoodBundle, Prefix
<1> QED BY Zenon, <1>1, <1>2, <1>3, <1>4 DEF RaftInv

LEMMA RenameLogKeeps ==
    ASSUME RaftAssumption, RaftInv, RenameLog
    PROVE  RaftInv'
<1>1. /\ logWrite.at = "rename" /\ logDir' = [logDir EXCEPT !.data = logWrite.new]
      /\ logKept' = (IF unrest = "process" THEN logDir' ELSE logKept)
      /\ logWrite' = [logWrite EXCEPT !.at = "sync"] /\ log # Nil
      /\ UNCHANGED <<unrest, log, smDir, smKept, sm, smWrite, chosen, promised, flushed, wire, incoming>>
  BY Zenon DEF RenameLog, Running, Outside, MachineSame
<1>2. logWrite \in Writes(Logs, LogEnds) /\ logWrite # Settled /\ logWrite.new \in Logs
  BY <1>1 DEF RaftInv, RaftTypes, Settled, Writes
<1>3. /\ logWrite' \in Writes(Logs, LogEnds) /\ logWrite'.at = "sync" /\ logWrite'.new = logWrite.new
      /\ logWrite' # Settled
  BY Zenon, <1>1, <1>2 DEF Writes, Settled
<1>4. /\ logDir' \in Dirs(Logs) /\ logDir'.data = logWrite.new /\ logDir'.marker = logDir.marker
      /\ logKept' \in Dirs(Logs)
  BY Zenon, <1>1, <1>2 DEF RaftInv, RaftTypes, Dirs
<1>5. logKept = logDir /\ logDir.data = log
  BY Zenon, <1>1 DEF RaftInv, Places, Placed
<1>6. RaftTypes'
  BY Zenon, <1>1, <1>3, <1>4 DEF RaftInv, RaftTypes
<1>7. Placed(log, logDir, logKept, logWrite)'
  BY Zenon, <1>1, <1>3, <1>4, <1>5 DEF Placed
<1>8. Placed(sm, smDir, smKept, smWrite)'
  BY Zenon, <1>1 DEF RaftInv, Places, Placed
<1>9. LogsHeld' \subseteq LogsHeld /\ BundlesHeld' = BundlesHeld
  BY Zenon, <1>1, <1>2, <1>3, <1>4, <1>5 DEF LogsHeld, BundlesHeld, Held
<1>10. (smWrite' # Settled => Reach(sm') <= Reach(smWrite'.new)) /\ (logDir'.data = Nil => logDir.data = Nil)
  <2>1. smWrite # Settled => Reach(sm) <= Reach(smWrite.new)
    BY Zenon DEF RaftInv, Covered
  <2>2. logDir'.data = Nil => logDir.data = Nil
    BY Zenon, <1>2, <1>4 DEF RaftAssumption
  <2> QED BY Zenon, <1>1, <2>1, <2>2 DEF Reach
<1> QED BY Zenon, <1>1, <1>6, <1>7, <1>8, <1>9, <1>10, Moved DEF Places

LEMMA SyncLogKeeps ==
    ASSUME RaftAssumption, RaftInv, SyncLog
    PROVE  RaftInv'
<1>1. /\ logWrite.at = "sync" /\ logKept' = logDir /\ log' = logWrite.new /\ logWrite' = Settled
      /\ promised' = (IF logWrite.then = "vote" THEN logWrite.new.vote ELSE promised)
      /\ flushed' = (IF logWrite.then = "append" THEN logWrite.new.log ELSE flushed)
      /\ UNCHANGED <<unrest, logDir, smDir, smKept, sm, smWrite, chosen, wire, incoming>> /\ log # Nil
  BY Zenon DEF SyncLog, Running, Outside, MachineSame
<1>2. logWrite \in Writes(Logs, LogEnds) /\ logWrite # Settled /\ logWrite.new \in Logs
  BY <1>1 DEF RaftInv, RaftTypes, Settled, Writes
<1>3. PICK l \in Logs : l = logWrite.new
  BY Zenon, <1>2
<1>4. logDir.data = l /\ l # Nil
  BY Zenon, <1>1, <1>3 DEF RaftInv, Places, Placed, RaftAssumption
<1>5. LogsHeld' = {l} /\ l \in LogsHeld /\ BundlesHeld' = BundlesHeld
  BY Zenon, <1>1, <1>2, <1>3, <1>4 DEF LogsHeld, BundlesHeld, Held
<1>6. RaftTypes'
  <2>1. l.vote \in Nat /\ DOMAIN l.log \subseteq Nat
    BY LogEntries DEF Indexes
  <2> QED BY Zenon, <1>1, <1>3, <2>1 DEF RaftInv, RaftTypes
<1>7. Placed(log, logDir, logKept, logWrite)' /\ Placed(sm, smDir, smKept, smWrite)'
  BY Zenon, <1>1, <1>3, <1>4 DEF RaftInv, Places, Placed, Settled
<1>8. Covered'
  BY Zenon, <1>1, <1>4, <1>5 DEF RaftInv, Covered, Reach
<1>9. GoodLog(l)'
  <2>1. GoodLog(l)
    BY Zenon, <1>5 DEF RaftInv
  <2>2. Whole(l)' /\ Agrees(l)'
    BY Zenon, <1>1, <2>1 DEF GoodLog, Whole, Agrees
  <2>3. Answered(l)'
    BY <1>1, <1>3, <2>1, LogEntries DEF GoodLog, Answered
  <2> QED BY Zenon, <2>2, <2>3 DEF GoodLog
<1>10. ASSUME NEW b \in BundlesHeld' PROVE GoodBundle(b)'
  BY Zenon, <1>1, <1>5 DEF RaftInv, GoodBundle, Prefix
<1>11. Transfers'
  BY Zenon, <1>1 DEF RaftInv, Transfers, GoodChunk, GoodTransfer, Prefix
<1> QED BY Zenon, <1>5, <1>6, <1>7, <1>8, <1>9, <1>10, <1>11 DEF RaftInv, Places

LEMMA RenameMachineKeeps ==
    ASSUME RaftAssumption, RaftInv, RenameMachine
    PROVE  RaftInv'
<1>1. /\ smWrite.at = "rename" /\ smDir' = [smDir EXCEPT !.data = smWrite.new]
      /\ smKept' = (IF unrest = "process" THEN smDir' ELSE smKept)
      /\ smWrite' = [smWrite EXCEPT !.at = "sync"] /\ sm # Nil
      /\ UNCHANGED <<unrest, sm, logDir, logKept, log, logWrite, chosen, promised, flushed, wire, incoming>>
  BY Zenon DEF RenameMachine, Running, Outside, LogSame
<1>2. smWrite \in Writes(Bundles, {Nil}) /\ smWrite # Settled /\ smWrite.new \in Bundles
  BY <1>1 DEF RaftInv, RaftTypes, Settled, Writes
<1>3. /\ smWrite' \in Writes(Bundles, {Nil}) /\ smWrite'.at = "sync" /\ smWrite'.new = smWrite.new
      /\ smWrite' # Settled
  BY Zenon, <1>1, <1>2 DEF Writes, Settled
<1>4. /\ smDir' \in Dirs(Bundles) /\ smDir'.data = smWrite.new /\ smDir'.marker = smDir.marker
      /\ smKept' \in Dirs(Bundles)
  BY Zenon, <1>1, <1>2 DEF RaftInv, RaftTypes, Dirs
<1>5. smKept = smDir /\ smDir.data = sm
  BY Zenon, <1>1 DEF RaftInv, Places, Placed
<1>6. RaftTypes'
  BY Zenon, <1>1, <1>3, <1>4 DEF RaftInv, RaftTypes
<1>7. Placed(sm, smDir, smKept, smWrite)'
  BY Zenon, <1>1, <1>3, <1>4, <1>5 DEF Placed
<1>8. Placed(log, logDir, logKept, logWrite)'
  BY Zenon, <1>1 DEF RaftInv, Places, Placed
<1>9. BundlesHeld' \subseteq BundlesHeld /\ LogsHeld' = LogsHeld
  BY Zenon, <1>1, <1>2, <1>3, <1>4, <1>5 DEF LogsHeld, BundlesHeld, Held
<1>10. (smWrite' # Settled => Reach(sm') <= Reach(smWrite'.new)) /\ (smDir'.data = Nil => smDir.data = Nil)
  <2>1. Reach(sm) <= Reach(smWrite.new)
    BY Zenon, <1>2 DEF RaftInv, Covered
  <2>2. smDir'.data = Nil => smDir.data = Nil
    BY Zenon, <1>2, <1>4 DEF RaftAssumption
  <2> QED BY Zenon, <1>1, <1>3, <2>1, <2>2 DEF Reach
<1> QED BY Zenon, <1>1, <1>6, <1>7, <1>8, <1>9, <1>10, Moved DEF Places

LEMMA SyncMachineKeeps ==
    ASSUME RaftAssumption, RaftInv, SyncMachine
    PROVE  RaftInv'
<1>1. /\ smWrite.at = "sync" /\ smKept' = smDir /\ sm' = smWrite.new /\ smWrite' = Settled
      /\ UNCHANGED <<unrest, smDir, logDir, logKept, log, logWrite, chosen, promised, flushed, wire, incoming>>
  BY Zenon DEF SyncMachine, Running, Outside, LogSame
<1>2. smWrite \in Writes(Bundles, {Nil}) /\ smWrite # Settled /\ smWrite.new \in Bundles
  BY <1>1 DEF RaftInv, RaftTypes, Settled, Writes
<1>3. smDir.data = smWrite.new
  BY Zenon, <1>1 DEF RaftInv, Places, Placed
<1>4. BundlesHeld' \subseteq BundlesHeld /\ LogsHeld' = LogsHeld
  BY Zenon, <1>1, <1>2, <1>3 DEF LogsHeld, BundlesHeld, Held
<1>5. RaftTypes'
  BY Zenon, <1>1, <1>2 DEF RaftInv, RaftTypes
<1>6. Placed(log, logDir, logKept, logWrite)' /\ Placed(sm, smDir, smKept, smWrite)'
  BY Zenon, <1>1, <1>3 DEF RaftInv, Places, Placed, Settled
<1> QED BY Zenon, <1>1, <1>4, <1>5, <1>6, Moved DEF Places

LEMMA OpenKeeps ==
    ASSUME RaftInv, OpenExisting
    PROVE  RaftInv'
<1>1. /\ logDir.data # Nil /\ smDir.data # Nil /\ log = Nil /\ sm = Nil /\ log' = logDir.data /\ sm' = smDir.data
      /\ UNCHANGED <<unrest, logDir, logKept, logWrite, smDir, smKept, smWrite, chosen, promised, flushed, wire, incoming>>
  BY Zenon DEF OpenExisting, Opens, Outside
<1>2. logWrite = Settled /\ smWrite = Settled /\ Settled.at = "idle"
  BY Zenon, <1>1 DEF RaftInv, Places, Placed, Settled
<1>3. LogsHeld' \subseteq LogsHeld /\ BundlesHeld' \subseteq BundlesHeld
  BY Zenon, <1>1, <1>2 DEF LogsHeld, BundlesHeld, Held
<1>4. RaftTypes'
  BY Zenon, <1>1 DEF RaftInv, RaftTypes, Dirs
<1>5. Places'
  BY Zenon, <1>1, <1>2 DEF RaftInv, Places, Placed
<1> QED BY Zenon, <1>1, <1>2, <1>3, <1>4, <1>5, Moved

\* A kill, a failed write or a loss of power.
LEMMA StoppedKeeps ==
    ASSUME RaftInv, Stopped,
           \/ UNCHANGED <<logDir, logKept, smDir, smKept>> /\ unrest = "process"
           \/ /\ logDir' \in {logKept, logDir} /\ logKept' = logDir' /\ log # Nil
              /\ smDir' \in {smKept, smDir} /\ smKept' = smDir' /\ sm # Nil
    PROVE  RaftInv'
<1>1. /\ log' = Nil /\ sm' = Nil /\ logWrite' = Settled /\ smWrite' = Settled /\ incoming' = NoLog
      /\ UNCHANGED <<unrest, chosen, promised, flushed, wire>>
  BY Zenon DEF Stopped
<1>2. LogsHeld' \subseteq LogsHeld /\ BundlesHeld' \subseteq BundlesHeld
  BY Zenon, <1>1 DEF LogsHeld, BundlesHeld, Held
<1>3. RaftTypes'
  BY Zenon, <1>1 DEF RaftInv, RaftTypes
<1>4. Places'
  <2>1. Placed(log, logDir, logKept, logWrite)'
    BY Zenon, <1>1 DEF RaftInv, Places, Placed, Settled
  <2>2. Placed(sm, smDir, smKept, smWrite)'
    BY Zenon, <1>1 DEF RaftInv, Places, Placed, Settled
  <2> QED BY Zenon, <2>1, <2>2 DEF Places
<1>5. (logDir'.data = Nil => logDir.data = Nil) /\ (smDir'.data = Nil => smDir.data = Nil)
  <2>1. logDir' = logKept /\ log # Nil /\ logKept.data = Nil => logDir.data = Nil
    BY Zenon DEF RaftInv, Places, Placed
  <2>2. smDir' = smKept /\ sm # Nil /\ smKept.data = Nil => smDir.data = Nil
    BY Zenon DEF RaftInv, Places, Placed
  <2> QED BY Zenon, <2>1, <2>2
<1> QED BY Zenon, <1>1, <1>2, <1>3, <1>4, <1>5, Moved

-----------------------------------------------------------------------------
(* A new node. *)

LEMMA NewFiles ==
    /\ NewLog \in Logs /\ NewLog.vote = 0 /\ NewLog.committed = 0 /\ NewLog.purged = 0 /\ DOMAIN NewLog.log = {}
    /\ NewMachine \in Bundles /\ NewMachine.state = <<>> /\ NewMachine.snapshot = Nil
<1>1. NoLog \in [{} -> Nat] /\ {} \in SUBSET Indexes
  BY Zenon DEF NoLog
<1>2. NewLog \in Logs
  BY Zenon, <1>1, LogOfEntries DEF NewLog
<1>3. NewMachine \in Bundles
  BY DEF NewMachine, Bundles
<1> QED BY Zenon, <1>2, <1>3 DEF NewLog, NewMachine, NoLog

LEMMA RaftInitial ==
    ASSUME RaftInit
    PROVE  RaftInv
<1>1. EmptyDir \in Dirs(Logs) /\ EmptyDir \in Dirs(Bundles) /\ EmptyDir.data = Nil
  BY Zenon DEF EmptyDir, Dirs
<1>2. DOMAIN NoLog = {}
  BY Zenon DEF NoLog
<1>3. RaftTypes
  BY <1>1, <1>2 DEF RaftInit, RaftTypes
<1>4. LogsHeld = {} /\ BundlesHeld = {}
  BY Zenon, <1>1 DEF RaftInit, LogsHeld, BundlesHeld, Held
<1>5. Places
  BY Zenon DEF RaftInit, Places, Placed, Settled
<1>6. Covered /\ Transfers
  BY Zenon, <1>2, <1>4 DEF RaftInit, Covered, Transfers
<1> QED BY Zenon, <1>3, <1>4, <1>5, <1>6 DEF RaftInv

LEMMA CreateKeeps ==
    ASSUME RaftAssumption, RaftInv, Create
    PROVE  RaftInv'
<1>1. /\ log = Nil /\ sm = Nil /\ logKept' = logDir' /\ smKept' = smDir'
      /\ UNCHANGED <<unrest, log, logWrite, sm, smWrite, chosen, promised, flushed, wire, incoming>>
  BY Zenon DEF Create, Outside
<1>2. logWrite = Settled /\ smWrite = Settled /\ Settled.at = "idle"
  BY Zenon, <1>1 DEF RaftInv, Places, Placed, Settled
<1>3. logKept = logDir /\ smKept = smDir
  BY Zenon, <1>1, <1>2 DEF RaftInv, Places, Placed
<1>4. Places'
  BY Zenon, <1>1, <1>2 DEF Places, Placed
<1>5. /\ LogsHeld = {logDir.data} \ {Nil} /\ LogsHeld' = {logDir'.data} \ {Nil}
      /\ BundlesHeld = {smDir.data} \ {Nil} /\ BundlesHeld' = {smDir'.data} \ {Nil}
  BY Zenon, <1>1, <1>2, <1>3 DEF LogsHeld, BundlesHeld, Held
<1>6. /\ logDir \in Dirs(Logs) /\ smDir \in Dirs(Bundles) /\ NewLog # Nil /\ NewMachine # Nil
  BY Zenon, NewFiles DEF RaftInv, RaftTypes, RaftAssumption
<1>7. CASE logDir.data = Nil /\ smDir.data = Nil /\ logDir' = [logDir EXCEPT !.data = NewLog] /\ UNCHANGED smDir
  <2>1. logDir' \in Dirs(Logs) /\ logDir'.data = NewLog
    BY Zenon, <1>6, <1>7, NewFiles DEF Dirs
  <2>2. LogsHeld' = {NewLog} /\ BundlesHeld' = {}
    BY Zenon, <1>5, <1>6, <1>7, <2>1
  <2>3. RaftTypes'
    BY Zenon, <1>1, <1>6, <1>7, <2>1 DEF RaftInv, RaftTypes
  <2>4. promised = 0 /\ DOMAIN flushed = {}
    BY Zenon, <1>7 DEF RaftInv, Covered, NoLog
  <2>5. Covered'
    BY Zenon, <1>1, <1>2, <1>6, <2>1, <2>2, NewFiles DEF Covered
  <2>6. GoodLog(NewLog)'
    <3>1. Whole(NewLog)'
      <4>1. 0 \in Nat /\ 0 >= NewLog.purged /\ DOMAIN NewLog.log = (NewLog.purged + 1)..0
        BY NewFiles
      <4> QED BY Zenon, <4>1 DEF Whole
    <3>2. Answered(NewLog)' /\ Agrees(NewLog)'
      BY <1>1, <2>4, NewFiles DEF Answered, Agrees, RaftInv, RaftTypes
    <3> QED BY Zenon, <3>1, <3>2 DEF GoodLog
  <2>7. Transfers'
    BY Zenon, <1>1 DEF RaftInv, Transfers, GoodChunk, GoodTransfer, Prefix
  <2> QED BY Zenon, <1>4, <2>2, <2>3, <2>5, <2>6, <2>7 DEF RaftInv
<1>8. CASE smDir.data = Nil /\ smDir' = [smDir EXCEPT !.data = NewMachine] /\ UNCHANGED logDir
  <2>1. smDir' \in Dirs(Bundles) /\ smDir'.data = NewMachine
    BY Zenon, <1>6, <1>8, NewFiles DEF Dirs
  <2>2. LogsHeld' = LogsHeld /\ BundlesHeld' = {NewMachine}
    BY Zenon, <1>5, <1>6, <1>8, <2>1
  <2>3. RaftTypes'
    BY Zenon, <1>1, <1>6, <1>8, <2>1 DEF RaftInv, RaftTypes
  <2>4. Covered'
    <3>1. Reach(NewMachine)' = 0
      BY Zenon, NewFiles DEF Reach
    <3>2. \A l \in LogsHeld : l.purged = 0
      BY Zenon, <1>8 DEF RaftInv, Covered
    <3>3. logDir'.data = Nil => promised' = 0 /\ flushed' = NoLog
      BY Zenon, <1>1, <1>8 DEF RaftInv, Covered
    <3> QED BY <1>1, <1>2, <1>6, <2>1, <2>2, <3>1, <3>2, <3>3 DEF Covered
  <2>5. ASSUME NEW l \in LogsHeld PROVE GoodLog(l)'
    BY Zenon, <1>1 DEF RaftInv, GoodLog, Whole, Answered, Agrees
  <2>6. GoodBundle(NewMachine)'
    BY <1>1, NewFiles DEF GoodBundle, Prefix, RaftInv, RaftTypes
  <2>7. Transfers'
    BY Zenon, <1>1 DEF RaftInv, Transfers, GoodChunk, GoodTransfer, Prefix
  <2> QED BY Zenon, <1>4, <2>2, <2>3, <2>4, <2>5, <2>6, <2>7 DEF RaftInv
<1>9. CASE \/ logDir' = [logDir EXCEPT !.marker = TRUE] /\ UNCHANGED smDir
           \/ smDir' = [smDir EXCEPT !.marker = TRUE] /\ UNCHANGED logDir
  <2>1. /\ logDir' \in Dirs(Logs) /\ logDir'.data = logDir.data
        /\ smDir' \in Dirs(Bundles) /\ smDir'.data = smDir.data
    BY Zenon, <1>6, <1>9 DEF Dirs
  <2>2. RaftTypes'
    BY Zenon, <1>1, <2>1 DEF RaftInv, RaftTypes
  <2>3. LogsHeld' = LogsHeld /\ BundlesHeld' = BundlesHeld
    BY Zenon, <1>5, <2>1
  <2> QED BY Zenon, <1>1, <1>2, <1>4, <2>1, <2>2, <2>3, Moved
<1> QED
  <2>1. \/ logDir.data = Nil /\ smDir.data = Nil /\ logDir' = [logDir EXCEPT !.data = NewLog] /\ UNCHANGED smDir
        \/ logDir' = [logDir EXCEPT !.marker = TRUE] /\ UNCHANGED smDir
        \/ smDir.data = Nil /\ smDir' = [smDir EXCEPT !.data = NewMachine] /\ UNCHANGED logDir
        \/ smDir' = [smDir EXCEPT !.marker = TRUE] /\ UNCHANGED logDir
    BY Zenon DEF Create, Creating
  <2> QED BY Zenon, <1>7, <1>8, <1>9, <2>1

-----------------------------------------------------------------------------
(* The cluster commits another entry. *)

LEMMA ChooseKeeps ==
    ASSUME RaftAssumption, RaftInv, NEW t \in Nat, Choose(t)
    PROVE  RaftInv'
<1>1. /\ chosen' = Append(chosen, t)
      /\ UNCHANGED <<unrest, logDir, logKept, log, logWrite, smDir, smKept, sm, smWrite, promised, flushed, wire, incoming>>
  BY Zenon DEF Choose, Outside, LogSame, MachineSame
<1>2. /\ chosen' \in Seq(Nat) /\ Len(chosen) \in Nat /\ Len(chosen') = Len(chosen) + 1
      /\ \A i \in 1..Len(chosen) : chosen'[i] = chosen[i]
  BY <1>1 DEF RaftInv, RaftTypes
<1>3. LogsHeld' = LogsHeld /\ BundlesHeld' = BundlesHeld
  BY Zenon, <1>1 DEF LogsHeld, BundlesHeld, Held
<1>4. RaftTypes' /\ Covered'
  BY Zenon, <1>1, <1>2, <1>3 DEF RaftInv, RaftTypes, Covered, Reach
<1>5. Places'
  BY Zenon, <1>1 DEF RaftInv, Places, Placed
<1>6. ASSUME NEW s \in Seq(Nat), Prefix(s) PROVE Prefix(s)'
  <2>1. Len(s) \in Nat /\ Len(s) <= Len(chosen) /\ \A i \in 1..Len(s) : s[i] = chosen[i]
    BY <1>6 DEF Prefix
  <2>2. \A i \in 1..Len(s) : i \in 1..Len(chosen)
    BY <1>2, <2>1
  <2> QED BY <1>2, <2>1, <2>2 DEF Prefix
<1>7. ASSUME NEW l \in LogsHeld PROVE GoodLog(l)'
  <2>1. l \in Logs /\ GoodLog(l)
    BY Zenon, HeldTypes DEF RaftInv
  <2>2. l.committed \in Nat /\ \A j \in DOMAIN l.log : j \in Nat /\ j >= 1
    BY <2>1, LogEntries DEF Indexes
  <2>3. Agrees(l)'
    BY <1>2, <2>1, <2>2 DEF GoodLog, Agrees
  <2> QED BY Zenon, <1>1, <2>1, <2>3 DEF GoodLog, Whole, Answered
<1>8. ASSUME NEW b \in BundlesHeld PROVE GoodBundle(b)'
  <2>1. b \in Bundles /\ GoodBundle(b)
    BY Zenon, HeldTypes DEF RaftInv
  <2> QED BY Zenon, <1>6, <2>1, BundleFields DEF GoodBundle
<1>9. Transfers'
  <2>1. ASSUME NEW c \in wire PROVE c \in [last : Nat, ordinal : {0, 1}, chunk : Seq(Nat)] /\ GoodChunk(c)'
    <3>1. c \in [last : Nat, ordinal : {0, 1}, chunk : Seq(Nat)] /\ GoodChunk(c)
      BY Zenon DEF RaftInv, Transfers
    <3>2. c.last \in Nat /\ c.last <= Len(chosen) /\ Half(c.last) \in Nat /\ Half(c.last) <= c.last
      BY <3>1 DEF GoodChunk, Half
    <3>3. /\ \A i \in 1..Half(c.last) : i \in 1..Len(chosen)
          /\ \A i \in 1..(c.last - Half(c.last)) : Half(c.last) + i \in 1..Len(chosen)
      BY <1>2, <3>2
    <3>4. PICK h \in Nat : h = Half(c.last)
      BY Zenon, <3>2
    <3>5. c.last <= Len(chosen')
      BY <1>2, <3>2
    <3>6. ASSUME c.ordinal = 0 PROVE Len(c.chunk) = h /\ \A i \in 1..h : c.chunk[i] = chosen'[i]
      BY Zenon, <1>2, <3>1, <3>3, <3>4, <3>6 DEF GoodChunk
    <3>7. ASSUME c.ordinal = 1
          PROVE  Len(c.chunk) = c.last - h /\ \A i \in 1..(c.last - h) : c.chunk[i] = chosen'[h + i]
      BY Zenon, <1>2, <3>1, <3>3, <3>4, <3>7 DEF GoodChunk
    <3> QED BY Zenon, <3>1, <3>4, <3>5, <3>6, <3>7 DEF GoodChunk
  <2>2. ASSUME NEW n \in DOMAIN incoming
        PROVE  n \in Nat /\ incoming[n] \in [next : {0, 1}, data : Seq(Nat)] /\ GoodTransfer(n, incoming[n])'
    <3>1. n \in Nat /\ incoming[n] \in [next : {0, 1}, data : Seq(Nat)] /\ GoodTransfer(n, incoming[n])
      BY Zenon DEF RaftInv, Transfers
    <3>2. PICK d \in [next : {0, 1}, data : Seq(Nat)] : d = incoming[n]
      BY Zenon, <3>1
    <3>3. GoodTransfer(n, d)'
      BY <1>2, <1>6, <3>1, <3>2 DEF GoodTransfer
    <3> QED BY Zenon, <1>1, <3>1, <3>2, <3>3
  <2> QED BY Zenon, <1>1, <2>1, <2>2 DEF Transfers
<1> QED BY Zenon, <1>3, <1>4, <1>5, <1>7, <1>8, <1>9 DEF RaftInv

-----------------------------------------------------------------------------
(* The state machine and the transfer of a snapshot. *)

LEMMA MachineWriteBegins ==
    ASSUME RaftAssumption, RaftInv, MachineFree, NEW b \in Bundles,
           smWrite' = Writing(b, Nil), GoodBundle(b), Reach(sm) <= Reach(b), Transfers',
           UNCHANGED <<unrest, logDir, logKept, log, logWrite, smDir, smKept, sm, chosen, promised, flushed, wire>>
    PROVE  RaftInv'
<1>1. smWrite' \in Writes(Bundles, {Nil}) /\ smWrite'.at = "rename" /\ smWrite'.new = b /\ smWrite' # Settled
  BY Zenon DEF Writing, Writes, Settled
<1>2. sm # Nil /\ smWrite = Settled /\ Settled.at = "idle" /\ sm \in Bundles /\ sm \in BundlesHeld
  BY Zenon, MemoryIsOldest DEF MachineFree, Running, Settled, RaftInv, RaftTypes
<1>3. RaftTypes'
  BY Zenon, <1>1 DEF RaftInv, RaftTypes
<1>4. Placed(log, logDir, logKept, logWrite)' /\ Placed(sm, smDir, smKept, smWrite)'
  BY Zenon, <1>1, <1>2 DEF RaftInv, Places, Placed
<1>5. LogsHeld' = LogsHeld /\ BundlesHeld' \subseteq BundlesHeld \cup {b}
  BY Zenon, <1>1 DEF LogsHeld, BundlesHeld, Held
<1>6. Covered'
  <2>1. ASSUME NEW l \in LogsHeld PROVE l.purged <= Reach(b)
    <3>1. l.purged \in Nat /\ Reach(sm) \in Nat /\ Reach(b) \in Nat
      BY Zenon, <1>2, HeldTypes, LogEntries, BundleFields DEF RaftInv
    <3>2. l.purged <= Reach(sm)
      BY Zenon, <1>2 DEF RaftInv, Covered
    <3> QED BY <3>1, <3>2
  <2>2. \A l \in LogsHeld, k \in BundlesHeld : l.purged <= Reach(k)
    BY Zenon DEF RaftInv, Covered
  <2>3. \A k : Reach(k)' = Reach(k)
    BY Zenon DEF Reach
  <2>4. (\A l \in LogsHeld, k \in BundlesHeld : l.purged <= Reach(k))'
    BY Zenon, <1>5, <2>1, <2>2 DEF Reach
  <2>5. Reach(sm)' <= Reach(smWrite.new)'
    BY Zenon, <1>1 DEF Reach
  <2> QED BY Zenon, <1>5, <2>4, <2>5 DEF RaftInv, Covered
<1>7. ASSUME NEW l \in LogsHeld PROVE GoodLog(l)'
  BY Zenon DEF RaftInv, GoodLog, Whole, Answered, Agrees
<1>8. ASSUME NEW k \in BundlesHeld \cup {b} PROVE GoodBundle(k)'
  BY Zenon DEF RaftInv, GoodBundle, Prefix
<1> QED BY Zenon, <1>3, <1>4, <1>5, <1>6, <1>7, <1>8 DEF RaftInv, Places

LEMMA MemoryMachine ==
    ASSUME RaftAssumption, RaftInv, Running
    PROVE  /\ sm \in Bundles /\ GoodBundle(sm) /\ log \in Logs /\ GoodLog(log) /\ log \in LogsHeld
           /\ chosen \in Seq(Nat)
<1>1. log # Nil /\ sm # Nil /\ log \in Logs /\ sm \in Bundles /\ chosen \in Seq(Nat)
  BY Zenon DEF RaftInv, RaftTypes, Running
<1>2. log \in LogsHeld /\ sm \in BundlesHeld
  BY Zenon, <1>1 DEF LogsHeld, BundlesHeld, Held
<1> QED BY Zenon, <1>1, <1>2 DEF RaftInv

LEMMA ApplyKeeps ==
    ASSUME RaftAssumption, RaftInv, Apply
    PROVE  RaftInv'
<1>1. MachineFree /\ Running
  BY Zenon DEF Apply, MachineFree
<1>2. PICK i \in Nat : i = Len(sm.state) + 1
  BY <1>1, MemoryMachine, BundleFields
<1>3. PICK s : s = Append(sm.state, log.log[i])
  BY Zenon
<1>4. PICK b : b = [sm EXCEPT !.state = s]
  BY Zenon
<1>5. /\ i <= log.committed /\ i \in DOMAIN log.log /\ smWrite' = Writing(b, Nil)
      /\ UNCHANGED <<unrest, logDir, logKept, log, logWrite, smDir, smKept, sm, chosen, promised, flushed, wire, incoming>>
  BY Zenon, <1>2, <1>3, <1>4 DEF Apply, PersistBundle, Outside, LogSame
<1>6. log.log[i] \in Nat /\ log.log[i] = chosen[i] /\ i <= Len(chosen)
  <2>1. log.committed \in Nat /\ log.log \in [DOMAIN log.log -> Nat] /\ Len(chosen) \in Nat
    BY <1>1, MemoryMachine, LogEntries
  <2> QED BY <1>1, <1>2, <1>5, <2>1, MemoryMachine DEF GoodLog, Agrees
<1>7. /\ s \in Seq(Nat) /\ Len(s) = i /\ s[i] = chosen[i] /\ sm.state \in Seq(Nat)
      /\ \A j \in 1..Len(sm.state) : s[j] = sm.state[j]
  BY <1>1, <1>2, <1>3, <1>6, MemoryMachine, BundleFields
<1>8. Prefix(s)
  <2>1. \A j \in 1..Len(sm.state) : sm.state[j] = chosen[j]
    BY Zenon, <1>1, MemoryMachine DEF GoodBundle, Prefix
  <2>2. PICK n \in Nat : n = Len(sm.state)
    BY <1>7
  <2>3. ASSUME NEW j \in 1..i PROVE s[j] = chosen[j]
    <3>1. j \in 1..n \/ j = i
      BY <1>2, <2>2
    <3> QED BY Zenon, <1>7, <2>1, <2>2, <3>1
  <2> QED BY Zenon, <1>6, <1>7, <2>3 DEF Prefix
<1>9. b \in Bundles /\ b.state = s /\ b.snapshot = sm.snapshot
  <2>1. sm \in Bundles /\ s \in Seq(Nat)
    BY Zenon, <1>1, <1>7, MemoryMachine
  <2>2. b = [state |-> s, snapshot |-> sm.snapshot] /\ b \in Bundles
    BY Zenon, <1>4, <2>1, BundleFields
  <2> QED BY Zenon, <2>2
<1>10. GoodBundle(b) /\ Reach(sm) <= Reach(b)
  <2>1. GoodBundle(sm) /\ sm \in Bundles
    BY Zenon, <1>1, MemoryMachine
  <2>2. (sm.snapshot # Nil => sm.snapshot.last \in Nat) /\ Reach(sm) \in Nat
    BY Zenon, <2>1, BundleFields
  <2>3. Reach(b) = Reach(sm)
    BY Zenon, <1>9 DEF Reach
  <2>4. b.snapshot # Nil => b.snapshot.last <= Len(b.state)
    <3>1. sm.snapshot # Nil => sm.snapshot.last <= Len(sm.state)
      BY Zenon, <2>1 DEF GoodBundle
    <3> QED BY <1>2, <1>7, <1>9, <2>2, <3>1
  <2> QED BY <1>8, <1>9, <2>1, <2>2, <2>3, <2>4 DEF GoodBundle
<1>11. Transfers'
  BY Zenon, <1>5 DEF RaftInv, Transfers, GoodChunk, GoodTransfer, Prefix
<1> QED BY Zenon, <1>1, <1>5, <1>9, <1>10, <1>11, MachineWriteBegins

LEMMA BuildKeeps ==
    ASSUME RaftAssumption, RaftInv, BuildSnapshot
    PROVE  RaftInv'
<1>1. MachineFree /\ Running
  BY Zenon DEF BuildSnapshot, MachineFree
<1>2. PICK n \in Nat : n = Len(sm.state)
  BY <1>1, MemoryMachine, BundleFields
<1>3. PICK s : s = [last |-> n, data |-> sm.state]
  BY Zenon
<1>4. s \in Snapshots /\ s.last = n /\ s.data = sm.state /\ s # Nil
  <2>1. sm.state \in Seq(Nat)
    BY Zenon, <1>1, MemoryMachine, BundleFields
  <2>2. s \in Snapshots /\ s.last = n /\ s.data = sm.state
    BY Zenon, <1>3, <2>1 DEF Snapshots
  <2> QED BY Zenon, <2>2 DEF RaftAssumption
<1>5. PICK b : b = [sm EXCEPT !.snapshot = s]
  BY Zenon
<1>6. /\ smWrite' = Writing(b, Nil)
      /\ UNCHANGED <<unrest, logDir, logKept, log, logWrite, smDir, smKept, sm, chosen, promised, flushed, wire, incoming>>
  BY Zenon, <1>2, <1>3, <1>5 DEF BuildSnapshot, PersistBundle, Outside, LogSame
<1>7. b \in Bundles /\ b.state = sm.state /\ b.snapshot = s
  BY <1>1, <1>4, <1>5, MemoryMachine, BundleFields
<1>8. GoodBundle(b) /\ Reach(sm) <= Reach(b)
  <2>1. GoodBundle(sm) /\ sm \in Bundles
    BY Zenon, <1>1, MemoryMachine
  <2>2. sm.snapshot # Nil => sm.snapshot.last \in Nat
    BY Zenon, <2>1, BundleFields
  <2> QED BY <1>2, <1>4, <1>7, <2>1, <2>2 DEF GoodBundle, Reach
<1>9. Transfers'
  BY Zenon, <1>6 DEF RaftInv, Transfers, GoodChunk, GoodTransfer, Prefix
<1> QED BY Zenon, <1>1, <1>6, <1>7, <1>8, <1>9, MachineWriteBegins

\* Nothing that is held changes, only what is under way.
LEMMA Underway ==
    ASSUME RaftInv, Transfers',
           UNCHANGED <<unrest, logDir, logKept, log, logWrite, smDir, smKept, sm, smWrite, chosen, promised, flushed>>
    PROVE  RaftInv'
<1>1. LogsHeld' = LogsHeld /\ BundlesHeld' = BundlesHeld
  BY Zenon DEF LogsHeld, BundlesHeld, Held
<1>2. RaftTypes' /\ Covered'
  BY Zenon, <1>1 DEF RaftInv, RaftTypes, Covered, Reach
<1>3. Places'
  BY Zenon DEF RaftInv, Places, Placed
<1>4. ASSUME NEW l \in LogsHeld PROVE GoodLog(l)'
  BY Zenon DEF RaftInv, GoodLog, Whole, Answered, Agrees
<1>5. ASSUME NEW b \in BundlesHeld PROVE GoodBundle(b)'
  BY Zenon DEF RaftInv, GoodBundle, Prefix
<1> QED BY Zenon, <1>1, <1>2, <1>3, <1>4, <1>5 DEF RaftInv

LEMMA SendKeeps ==
    ASSUME RaftInv, NEW n \in Nat, SendSnapshot(n)
    PROVE  RaftInv'
<1>1. /\ n <= Len(chosen)
      /\ wire' = wire \cup {[last |-> n, ordinal |-> k, chunk |-> Part(n, k)] : k \in 0..(Chunks - 1)}
      /\ UNCHANGED <<unrest, logDir, logKept, log, logWrite, smDir, smKept, sm, smWrite, chosen, promised, flushed, incoming>>
  BY Zenon DEF SendSnapshot, LogSame, MachineSame
<1>2. chosen \in Seq(Nat) /\ 0..(Chunks - 1) = {0, 1}
  BY DEF RaftInv, RaftTypes, Chunks
<1>3. ASSUME NEW c \in wire' PROVE c \in [last : Nat, ordinal : {0, 1}, chunk : Seq(Nat)] /\ GoodChunk(c)
  <2>1. CASE c \in wire
    BY Zenon, <2>1 DEF RaftInv, Transfers
  <2>2. CASE c \notin wire
    <3>1. PICK k \in {0, 1} : c = [last |-> n, ordinal |-> k, chunk |-> Part(n, k)]
      BY Zenon, <1>1, <1>2, <2>2
    <3> QED BY Zenon, <1>1, <1>2, <3>1, Parts
  <2> QED BY Zenon, <2>1, <2>2
<1>4. Transfers'
  BY Zenon, <1>1, <1>3 DEF RaftInv, Transfers, GoodChunk, GoodTransfer, Prefix
<1> QED BY Zenon, <1>1, <1>4, Underway

\* A first chunk starts its transfer anew.
LEMMA StartedGood ==
    ASSUME RaftInv, NEW c \in wire
    PROVE  \A n \in DOMAIN Started(c) :
              /\ n \in Nat /\ Started(c)[n] \in [next : {0, 1}, data : Seq(Nat)]
              /\ GoodTransfer(n, Started(c)[n])
<1>1. c.last \in Nat /\ c.last <= Len(chosen)
  BY Zenon DEF RaftInv, Transfers, GoodChunk
<1>2. PICK new : new = [next |-> 0, data |-> <<>>]
  BY Zenon
<1>3. new \in [next : {0, 1}, data : Seq(Nat)] /\ GoodTransfer(c.last, new)
  BY <1>1, <1>2 DEF GoodTransfer, Prefix, RaftInv, RaftTypes
<1>4. CASE Started(c) = incoming
  BY Zenon, <1>4 DEF RaftInv, Transfers
<1>5. CASE Started(c) = [n \in DOMAIN incoming \cup {c.last} |-> IF n = c.last THEN new ELSE incoming[n]]
  <2>1. \A n \in DOMAIN incoming : /\ n \in Nat /\ incoming[n] \in [next : {0, 1}, data : Seq(Nat)]
                                  /\ GoodTransfer(n, incoming[n])
    BY Zenon DEF RaftInv, Transfers
  <2> QED BY Zenon, <1>1, <1>3, <1>5, <2>1
<1> QED BY Zenon, <1>2, <1>4, <1>5 DEF Started

FirstHalf(s, h) == Len(s) = h /\ \A i \in 1..h : s[i] = chosen[i]
OtherHalf(s, h, n) == Len(s) = n - h /\ \A i \in 1..(n - h) : s[i] = chosen[h + i]

LEMMA HalvesJoin ==
    ASSUME chosen \in Seq(Nat), NEW n \in Nat, NEW h \in Nat, h <= n,
           NEW first \in Seq(Nat), FirstHalf(first, h), NEW rest \in Seq(Nat), OtherHalf(rest, h, n)
    PROVE  first \o rest \in Seq(Nat) /\ FirstHalf(first \o rest, n)
<1> USE DEF FirstHalf, OtherHalf
<1>1. PICK d : d = first \o rest
  BY Zenon
<1>2. PICK m \in Nat : m = n - h /\ n = h + m
  OBVIOUS
<1>3. /\ first \o rest \in Seq(Nat) /\ Len(first \o rest) = Len(first) + Len(rest)
      /\ \A i \in 1..Len(first) + Len(rest) :
           (first \o rest)[i] = IF i <= Len(first) THEN first[i] ELSE rest[i - Len(first)]
  BY Zenon, ConcatProperties
<1>4. d \in Seq(Nat) /\ Len(d) = n /\ \A i \in 1..n : d[i] = IF i <= h THEN first[i] ELSE rest[i - h]
  BY Zenon, <1>1, <1>2, <1>3
<1>5. ASSUME NEW i \in 1..n PROVE d[i] = chosen[i]
  <2>1. i \in Nat /\ 1 <= i /\ i <= n
    OBVIOUS
  <2>2. CASE i <= h
    <3>1. i \in 1..h
      BY <2>1, <2>2
    <3> QED BY Zenon, <1>4, <2>2, <3>1
  <2>3. CASE i > h
    <3>1. d[i] = IF i <= h THEN first[i] ELSE rest[i - h]
      BY Zenon, <1>4
    <3>2. ~(i <= h) /\ i - h \in 1..(n - h) /\ h + (i - h) = i
      BY <2>1, <2>3
    <3>3. rest[i - h] = chosen[h + (i - h)]
      BY Zenon, <3>2
    <3> QED BY Zenon, <3>1, <3>2, <3>3
  <2> QED BY <2>1, <2>2, <2>3
<1> QED BY Zenon, <1>1, <1>4, <1>5

\* What a transfer has after a chunk that it waited for.
LEMMA Joined ==
    ASSUME chosen \in Seq(Nat), NEW c \in [last : Nat, ordinal : {0, 1}, chunk : Seq(Nat)], GoodChunk(c),
           NEW t \in [next : {0, 1}, data : Seq(Nat)], GoodTransfer(c.last, t), t.next = c.ordinal,
           NEW d, d = t.data \o c.chunk
    PROVE  /\ d \in Seq(Nat) /\ Prefix(d)
           /\ c.ordinal = 0 => Len(d) = Half(c.last)
           /\ c.ordinal = 1 => Len(d) = c.last
<1>1. /\ c.last \in Nat /\ c.chunk \in Seq(Nat) /\ t.data \in Seq(Nat) /\ c.ordinal \in {0, 1}
      /\ c.last <= Len(chosen) /\ Len(chosen) \in Nat
  BY DEF GoodChunk
<1>2. PICK h \in Nat : h = Half(c.last) /\ h <= c.last
  BY Zenon, <1>1, HalfOf
<1>3. CASE c.ordinal = 0
  <2>1. d = c.chunk
    <3>1. t.data = <<>>
      BY Zenon, <1>3 DEF GoodTransfer
    <3>2. PICK s \in Seq(Nat) : s = c.chunk
      BY Zenon, <1>1
    <3>3. <<>> \o s = s
      OBVIOUS
    <3> QED BY Zenon, <3>1, <3>2, <3>3
  <2>2. Len(d) = h /\ \A i \in 1..h : d[i] = chosen[i]
    BY Zenon, <1>2, <1>3, <2>1 DEF GoodChunk
  <2>3. Len(d) <= Len(chosen)
    BY <1>1, <1>2, <2>2
  <2>4. d \in Seq(Nat) /\ c.ordinal # 1
    BY <1>1, <1>3, <2>1
  <2> QED BY Zenon, <1>2, <2>2, <2>3, <2>4 DEF Prefix
<1>4. CASE c.ordinal = 1
  <2>1. Len(t.data) = h /\ \A i \in 1..h : t.data[i] = chosen[i]
    BY Zenon, <1>2, <1>4 DEF GoodTransfer, Prefix
  <2>2. Len(c.chunk) = c.last - h /\ \A i \in 1..(c.last - h) : c.chunk[i] = chosen[h + i]
    BY Zenon, <1>2, <1>4 DEF GoodChunk
  <2>3. PICK n \in Nat, first \in Seq(Nat), rest \in Seq(Nat) : n = c.last /\ first = t.data /\ rest = c.chunk
    BY Zenon, <1>1
  <2>4. h <= n /\ FirstHalf(first, h) /\ OtherHalf(rest, h, n)
    BY Zenon, <1>2, <2>1, <2>2, <2>3 DEF FirstHalf, OtherHalf
  <2>5. first \o rest \in Seq(Nat) /\ FirstHalf(first \o rest, n)
    BY Zenon, <2>4, HalvesJoin
  <2>6. d \in Seq(Nat) /\ Len(d) = n /\ \A i \in 1..n : d[i] = chosen[i]
    BY Zenon, <2>3, <2>5 DEF FirstHalf
  <2>7. Prefix(d)
    <3>1. Len(d) <= Len(chosen)
      BY Zenon, <1>1, <2>3, <2>6
    <3> QED BY Zenon, <3>1, <2>6 DEF Prefix
  <2>8. c.ordinal # 0
    BY <1>4
  <2> QED BY Zenon, <2>3, <2>6, <2>7, <2>8
<1> QED BY Zenon, <1>1, <1>3, <1>4

LEMMA ChunkKeeps ==
    ASSUME RaftAssumption, RaftInv, NEW c \in wire, HandleSnapshotChunk(c)
    PROVE  RaftInv'
<1>1. PICK known : known = Started(c)
  BY Zenon
<1>2. PICK t : t = known[c.last]
  BY Zenon
<1>3. PICK d : d = t.data \o c.chunk
  BY Zenon
<1>4. /\ Running /\ c.last \in DOMAIN known /\ t.next = c.ordinal
      /\ IF c.ordinal + 1 = Chunks
         THEN /\ incoming' = Restrict(known, DOMAIN known \ {c.last})
              /\ InstallSnapshot(c.last, d) \/ UNCHANGED smWrite
         ELSE /\ incoming' = [known EXCEPT ![c.last] = [next |-> c.ordinal + 1, data |-> d]]
              /\ UNCHANGED smWrite
      /\ UNCHANGED <<unrest, logDir, logKept, log, logWrite, smDir, smKept, sm, chosen, promised, flushed, wire>>
  BY Zenon, <1>1, <1>2, <1>3 DEF HandleSnapshotChunk, LogSame, Outside
<1>5. chosen \in Seq(Nat) /\ c \in [last : Nat, ordinal : {0, 1}, chunk : Seq(Nat)] /\ GoodChunk(c)
  BY Zenon DEF RaftInv, RaftTypes, Transfers
<1>6. \A n \in DOMAIN known : /\ n \in Nat /\ known[n] \in [next : {0, 1}, data : Seq(Nat)]
                              /\ GoodTransfer(n, known[n])
  BY Zenon, <1>1, StartedGood
<1>7. t \in [next : {0, 1}, data : Seq(Nat)] /\ GoodTransfer(c.last, t)
  BY Zenon, <1>2, <1>4, <1>6
<1>8. /\ d \in Seq(Nat) /\ Prefix(d)
      /\ c.ordinal = 0 => Len(d) = Half(c.last)
      /\ c.ordinal = 1 => Len(d) = c.last
  BY Zenon, <1>3, <1>4, <1>5, <1>7, Joined
<1>9. ASSUME \A n \in DOMAIN incoming' : /\ n \in Nat /\ incoming'[n] \in [next : {0, 1}, data : Seq(Nat)]
                                        /\ GoodTransfer(n, incoming'[n])
      PROVE  Transfers'
  BY Zenon, <1>4, <1>9 DEF RaftInv, Transfers, GoodChunk, GoodTransfer, Prefix
<1>10. CASE c.ordinal = 0
  <2>1. PICK new : new = [next |-> 1, data |-> d]
    BY Zenon
  <2>2. new \in [next : {0, 1}, data : Seq(Nat)] /\ GoodTransfer(c.last, new)
    BY <1>5, <1>8, <1>10, <2>1 DEF GoodTransfer, GoodChunk
  <2>3. incoming' = [known EXCEPT ![c.last] = new] /\ UNCHANGED smWrite
    BY <1>4, <1>10, <2>1 DEF Chunks
  <2>4. Transfers'
    BY Zenon, <1>6, <1>9, <2>2, <2>3
  <2> QED BY Zenon, <1>4, <2>3, <2>4, Underway
<1>11. CASE c.ordinal = 1
  <2>1. incoming' = Restrict(known, DOMAIN known \ {c.last}) /\ (InstallSnapshot(c.last, d) \/ UNCHANGED smWrite)
    BY <1>4, <1>11 DEF Chunks
  <2>2. Transfers'
    BY Zenon, <1>6, <1>9, <2>1 DEF Restrict
  <2>3. CASE UNCHANGED smWrite
    BY Zenon, <1>4, <2>2, <2>3, Underway
  <2>4. CASE InstallSnapshot(c.last, d)
    <3>1. PICK n \in Nat : n = c.last
      BY Zenon, <1>5
    <3>2. PICK s : s = [last |-> n, data |-> d]
      BY Zenon
    <3>3. PICK b : b = [state |-> d, snapshot |-> s]
      BY Zenon
    <3>4. MachineFree /\ n > Len(sm.state) /\ smWrite' = Writing(b, Nil)
      BY Zenon, <2>4, <3>1, <3>2, <3>3 DEF InstallSnapshot, PersistBundle
    <3>5. s \in Snapshots /\ s.last = n /\ s.data = d /\ s # Nil
      <4>1. s \in Snapshots /\ s.last = n /\ s.data = d
        BY Zenon, <1>8, <3>2 DEF Snapshots
      <4> QED BY Zenon, <4>1 DEF RaftAssumption
    <3>6. b \in Bundles /\ b.state = d /\ b.snapshot = s
      BY Zenon, <1>8, <3>3, <3>5 DEF Bundles
    <3>7. GoodBundle(b) /\ Reach(b) = n
      BY <1>8, <1>11, <3>1, <3>5, <3>6 DEF GoodBundle, Reach
    <3>8. Reach(sm) <= n
      <4>1. sm \in Bundles /\ GoodBundle(sm)
        BY Zenon, <1>4, MemoryMachine
      <4>2. Len(sm.state) \in Nat /\ (sm.snapshot # Nil => sm.snapshot.last \in Nat)
        BY <4>1, BundleFields
      <4> QED BY <3>4, <4>1, <4>2 DEF GoodBundle, Reach
    <3> QED BY Zenon, <1>4, <2>2, <3>4, <3>6, <3>7, <3>8, MachineWriteBegins
  <2> QED BY Zenon, <2>1, <2>3, <2>4
<1> QED BY Zenon, <1>5, <1>10, <1>11

-----------------------------------------------------------------------------
(* The invariant holds. *)

LEMMA RaftInductive ==
    ASSUME RaftAssumption, RaftInv, [RaftNext]_raftVars
    PROVE  RaftInv'
<1>1. CASE Create
  BY Zenon, <1>1, CreateKeeps
<1>2. CASE OpenExisting
  BY Zenon, <1>2, OpenKeeps
<1>3. CASE RenameLog \/ SyncLog
  BY Zenon, <1>3, RenameLogKeeps, SyncLogKeeps
<1>4. CASE RenameMachine \/ SyncMachine
  BY Zenon, <1>4, RenameMachineKeeps, SyncMachineKeeps
<1>5. ASSUME NEW t \in 1..MaxTerm, SaveVote(t) \/ AppendEntries(t) \/ Choose(t)
      PROVE  RaftInv'
  <2>1. t \in Nat
    OBVIOUS
  <2> QED BY Zenon, <1>5, <2>1, VoteKeeps, AppendKeeps, ChooseKeeps
<1>6. ASSUME NEW i \in 0..MaxIndex, SaveCommitted(i) \/ TruncateAfter(i) \/ Purge(i)
      PROVE  RaftInv'
  <2>1. i \in Nat
    OBVIOUS
  <2> QED BY Zenon, <1>6, <2>1, CommittedKeeps, TruncateKeeps, PurgeKeeps
<1>7. CASE Apply \/ BuildSnapshot
  BY Zenon, <1>7, ApplyKeeps, BuildKeeps
<1>8. ASSUME NEW n \in Indexes, SendSnapshot(n)
      PROVE  RaftInv'
  <2>1. n \in Nat
    BY DEF Indexes
  <2> QED BY Zenon, <1>8, <2>1, SendKeeps
<1>9. ASSUME NEW c \in wire, HandleSnapshotChunk(c)
      PROVE  RaftInv'
  BY Zenon, <1>9, ChunkKeeps
<1>10. CASE WriteFails \/ KillNode
  BY Zenon, <1>10, StoppedKeeps DEF WriteFails, KillNode
<1>11. CASE NodeLosesPower
  BY Zenon, <1>11, StoppedKeeps DEF NodeLosesPower, Running
<1>12. CASE UNCHANGED raftVars
  <2>1. UNCHANGED <<unrest, logDir, logKept, log, logWrite, smDir, smKept, sm, smWrite, chosen, promised, flushed,
                    wire, incoming>>
    BY Zenon, <1>12 DEF raftVars
  <2>2. Transfers'
    BY Zenon, <2>1 DEF RaftInv, Transfers, GoodChunk, GoodTransfer, Prefix
  <2> QED BY Zenon, <2>1, <2>2, Underway
<1> QED BY Zenon, <1>1, <1>2, <1>3, <1>4, <1>5, <1>6, <1>7, <1>8, <1>9, <1>10, <1>11, <1>12 DEF RaftNext

LEMMA RaftInvSuffices ==
    ASSUME RaftAssumption, RaftInv
    PROVE  AnswersSurvive
<1> SUFFICES ASSUME BothOnDisk PROVE AnswersSurvive
  BY Zenon DEF AnswersSurvive, AnsweredKept, NodeRecoverable
<1>1. logKept.data \in LogsHeld /\ smKept.data \in BundlesHeld
  BY Zenon DEF BothOnDisk, Opens, LogsHeld, BundlesHeld, Held
<1>2. PICK l \in Logs, b \in Bundles : l = logKept.data /\ b = smKept.data
  BY Zenon, <1>1, HeldTypes DEF RaftInv
<1>3. GoodLog(l) /\ GoodBundle(b) /\ l.purged <= Reach(b)
  BY Zenon, <1>1, <1>2 DEF RaftInv, Covered
<1>4. AnsweredKept
  BY Zenon, <1>2, <1>3 DEF AnsweredKept, GoodLog, Answered
<1>5. ASSUME NEW s \in Seq(Nat), Prefix(s) PROVE s = SubSeq(chosen, 1, Len(s))
  <2>1. PICK n \in Nat : n = Len(s) /\ n <= Len(chosen) /\ \A i \in 1..n : s[i] = chosen[i]
    BY <1>5 DEF Prefix
  <2>2. PICK w : w = SubSeq(chosen, 1, n)
    BY Zenon
  <2>3. w \in Seq(Nat) /\ Len(w) = n /\ \A i \in 1..n : w[i] = chosen[i]
    BY Zenon, <2>1, <2>2, StartOf DEF RaftInv, RaftTypes
  <2> QED BY Zenon, <2>1, <2>2, <2>3, SeqEqual
<1>6. ValidLog(l) /\ ValidBundle(b)
  BY Zenon, <1>3, WholeIsValid DEF GoodLog, GoodBundle, ValidBundle
<1>7. Len(b.state) <= Len(chosen) /\ b.state = SubSeq(chosen, 1, Len(b.state))
  BY Zenon, <1>3, <1>5, BundleFields DEF GoodBundle, Prefix
<1>8. l.purged > 0 => b.snapshot # Nil /\ b.snapshot.last >= l.purged
  BY <1>3, LogEntries, BundleFields DEF Reach
<1>9. b.snapshot # Nil => b.snapshot.data = SubSeq(chosen, 1, b.snapshot.last) /\ b.snapshot.last <= Len(b.state)
  BY Zenon, <1>3, <1>5, BundleFields DEF GoodBundle
<1>10. NodeRecoverable
  BY Zenon, <1>2, <1>6, <1>7, <1>8, <1>9 DEF NodeRecoverable
<1> QED BY Zenon, <1>4, <1>10 DEF AnswersSurvive

\* What the node answered for, a vote, an entry that it reported appended, a purged entry that
\* its snapshot stands for, is on its disk at every point of the two stores' writes, and the two
\* files open and fit together, whatever kills, failed writes and losses of power come between
\* the rename and the directory sync of atomic_write (raft-runtime, store.rs).
THEOREM NodeAnswersSurvive ==
    ASSUME RaftAssumption
    PROVE  RaftSpec => []AnswersSurvive
<1>1. RaftInit => RaftInv
  BY Zenon, RaftInitial
<1>2. RaftInv /\ [RaftNext]_raftVars => RaftInv'
  BY Zenon, RaftInductive
<1>3. RaftInv => AnswersSurvive
  BY Zenon, RaftInvSuffices
<1> QED BY <1>1, <1>2, <1>3, PTL DEF RaftSpec
=============================================================================
