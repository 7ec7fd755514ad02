------------------------ MODULE DurableHistoryProofs ------------------------
(***************************************************************************)
(* Facts about journals, about the relation History between the three      *)
(* files, and about what a step leaves alone: what the step proofs of the  *)
(* durable service rest on.  Then the typing of the service, for every set *)
(* of requests, every capacity and every bound.                            *)
(***************************************************************************)
EXTENDS DurableInvariant, FiniteSetTheorems, FunctionTheorems, TLAPS

-----------------------------------------------------------------------------
(***************************************************************************)
(* Journals.                                                               *)
(***************************************************************************)

\* What the fields of a journal record are.
LEMMA RecordFields ==
  ASSUME NEW j \in Seq(Records), NEW i \in 1..Len(j)
  PROVE  /\ j[i] \in Records
         /\ j[i].type \in {"Intent", "Commit", "Abort", "Checkpoint"}
         /\ j[i].type # "Checkpoint" => j[i].m \in Markers /\ j[i].m.gen \in Nat \ {0}
         /\ j[i].type = "Checkpoint" => j[i].gen \in Nat /\ j[i].recs \in SUBSET Markers
         /\ j[i].m \in Markers \cup {NoMarker}
<1>1. j[i] \in Records
  OBVIOUS
<1>2. j[i].type \in {"Intent", "Commit", "Abort", "Checkpoint"}
  BY Zenon, <1>1 DEF Records
<1>3. j[i].type # "Checkpoint" => j[i].m \in Markers
  BY Zenon, <1>1 DEF Records
<1>4. j[i].type = "Checkpoint" => j[i].gen \in Nat /\ j[i].recs \in SUBSET Markers
  BY Zenon, <1>1 DEF Records
<1>5. j[i].m \in Markers \cup {NoMarker}
  BY Zenon, <1>1 DEF Records
<1>6. \A m \in Markers : m.gen \in Nat \ {0}
  BY Zenon DEF Markers
<1>. QED
  BY Zenon, <1>1, <1>2, <1>3, <1>4, <1>5, <1>6

\* The committed generation is a natural number.
LEMMA GenerationType ==
  ASSUME NEW j \in Seq(Records), NEW i \in 0..Len(j)
  PROVE  CommittedGeneration(j, i) \in Nat
<1>1. CASE i = 0
  BY Zenon, <1>1 DEF CommittedGeneration
<1>2. CASE i # 0
  <2>1. i \in 1..Len(j)
    BY <1>2
  <2>. QED
    BY <1>2, <2>1, RecordFields DEF CommittedGeneration
<1>. QED
  BY Zenon, <1>1, <1>2

\* The replay of a prefix depends on the prefix alone.
LEMMA PrefixReplay ==
  ASSUME NEW j, NEW k, NEW i \in Nat, \A x \in 1..i : k[x] = j[x]
  PROVE  /\ Committed(k, i) = Committed(j, i)
         /\ CommittedGeneration(k, i) = CommittedGeneration(j, i)
<1>2. i > 0 => 1 \in 1..i /\ i \in 1..i
  OBVIOUS
<1>3. {k[x].m : x \in {n \in 1..i : k[n].type = "Commit"}}
        = {j[x].m : x \in {n \in 1..i : j[n].type = "Commit"}}
  BY Zenon
<1>4. (IF i > 0 /\ k[1].type = "Checkpoint" THEN k[1].recs ELSE {})
        = (IF i > 0 /\ j[1].type = "Checkpoint" THEN j[1].recs ELSE {})
  BY Zenon, <1>2
<1>5. Committed(k, i) = Committed(j, i)
  BY Zenon, <1>3, <1>4 DEF Committed
<1>6. CommittedGeneration(k, i) = CommittedGeneration(j, i)
  BY <1>2 DEF CommittedGeneration
<1>. QED
  BY Zenon, <1>5, <1>6

\* So do the checks of its last record.
LEMMA PrefixValid ==
  ASSUME NEW j, NEW k, NEW i \in Nat \ {0}, \A x \in 1..i : k[x] = j[x],
         NEW recs, ValidRecord(j, i, recs)
  PROVE  ValidRecord(k, i, recs)
<1>1. i \in 1..i /\ k[i] = j[i]
  OBVIOUS
<1>2. i > 1 => k[i-1] = j[i-1]
  OBVIOUS
<1>3. i - 1 \in Nat /\ \A x \in 1..(i-1) : k[x] = j[x]
  OBVIOUS
<1>4. /\ Committed(k, i - 1) = Committed(j, i - 1)
      /\ CommittedGeneration(k, i - 1) = CommittedGeneration(j, i - 1)
  BY <1>3, PrefixReplay, Zenon
<1>. QED
  BY Zenon, <1>1, <1>2, <1>4 DEF ValidRecord

\* k is journal j with record e behind it.
Extended(k, j, e) ==
  /\ j \in Seq(Records) /\ k \in Seq(Records)
  /\ Len(k) = Len(j) + 1
  /\ k[Len(k)] = e
  /\ \A i \in 1..Len(j) : k[i] = j[i]

\* Append is such an extension.
LEMMA AppendExtends ==
  ASSUME NEW j \in Seq(Records), NEW e \in Records
  PROVE  Extended(Append(j, e), j, e)
  BY DEF Extended

\* Appending an Intent, Commit or Abort leaves the replay of the records before
\* it as it was, and commits its marker if it is a Commit.
LEMMA ExtendedReplay ==
  ASSUME NEW j, NEW k, NEW e, Extended(k, j, e), e.type # "Checkpoint"
  PROVE  Committed(k, Len(k)) =
           Committed(j, Len(j)) \cup (IF e.type = "Commit" THEN {e.m} ELSE {})
<1>1. PICK n \in Nat : n = Len(j)
  BY DEF Extended
<1>2. PICK h \in Nat : h = Len(k)
  BY DEF Extended
<1>3. h = n + 1 /\ k[h] = e /\ \A i \in 1..n : k[i] = j[i]
  BY Zenon, <1>1, <1>2 DEF Extended
<1>4. (IF h > 0 /\ k[1].type = "Checkpoint" THEN k[1].recs ELSE {})
        = (IF n > 0 /\ j[1].type = "Checkpoint" THEN j[1].recs ELSE {})
  BY <1>3
<1>5. {x \in 1..h : k[x].type = "Commit"}
        = {x \in 1..n : j[x].type = "Commit"} \cup (IF e.type = "Commit" THEN {h} ELSE {})
  BY <1>3
<1>6. {k[x].m : x \in {y \in 1..h : k[y].type = "Commit"}}
        = {j[x].m : x \in {y \in 1..n : j[y].type = "Commit"}}
            \cup (IF e.type = "Commit" THEN {e.m} ELSE {})
  BY <1>3, <1>5
<1>7. Committed(k, h) = Committed(j, n) \cup (IF e.type = "Commit" THEN {e.m} ELSE {})
  BY Zenon, <1>4, <1>6 DEF Committed
<1>. QED
  BY Zenon, <1>1, <1>2, <1>7

\* The last commit after an append.
LEMMA ExtendedLastCommit ==
  ASSUME NEW j, NEW k, NEW e, Extended(k, j, e), e.type # "Checkpoint", NEW m,
         IF e.type = "Commit" THEN m = e.m ELSE IsLastCommit(m, j, Len(j))
  PROVE  IsLastCommit(m, k, Len(k))
<1>1. /\ Len(k) = Len(j) + 1 /\ k[Len(k)] = e /\ Len(j) \in Nat
      /\ \A i \in 1..Len(j) : k[i] = j[i]
  BY DEF Extended
<1> DEFINE F(q) == {x \in 1..Len(q) : q[x].type \in {"Commit", "Checkpoint"}}
<1>2. CASE e.type = "Commit"
  <2>1. Len(k) \in F(k) /\ \A x \in F(k) : x <= Len(k)
    BY <1>1, <1>2
  <2>. QED
    BY Zenon, <1>1, <1>2, <2>1 DEF IsLastCommit
<1>3. CASE e.type # "Commit"
  <2>1. F(k) = F(j)
    BY <1>1, <1>3
  <2>2. IsLastCommit(m, j, Len(j))
    BY Zenon, <1>3
  <2>3. CASE F(j) = {} /\ m = NoMarker
    BY Zenon, <2>1, <2>3 DEF IsLastCommit
  <2>4. ASSUME NEW x \in F(j), \A y \in F(j) : y <= x, m = j[x].m
        PROVE  IsLastCommit(m, k, Len(k))
    BY Zenon, <1>1, <2>1, <2>4 DEF IsLastCommit
  <2>. QED
    BY Zenon, <2>2, <2>3, <2>4 DEF IsLastCommit
<1>. QED
  BY Zenon, <1>2, <1>3

\* The records before it stay valid.
LEMMA ExtendedValid ==
  ASSUME NEW j, NEW k, NEW e, Extended(k, j, e), NEW recs,
         \A i \in 1..Len(j) : ValidRecord(j, i, recs), ValidRecord(k, Len(k), recs)
  PROVE  \A i \in 1..Len(k) : ValidRecord(k, i, recs)
<1>1. /\ Len(k) = Len(j) + 1 /\ Len(j) \in Nat
      /\ \A i \in 1..Len(j) : k[i] = j[i]
  BY DEF Extended
<1>2. ASSUME NEW i \in 1..Len(j) PROVE ValidRecord(k, i, recs)
  <2>1. i \in Nat \ {0} /\ \A x \in 1..i : k[x] = j[x]
    BY <1>1
  <2>. QED
    BY Zenon, <2>1, PrefixValid
<1>3. \A i \in 1..Len(k) : i \in 1..Len(j) \/ i = Len(k)
  BY <1>1
<1>. QED
  BY Zenon, <1>2, <1>3

\* An Intent commits nothing.
LEMMA PendingReplay ==
  ASSUME NEW j \in Seq(Records), Pending(j), NEW recs, ValidRecord(j, Len(j), recs)
  PROVE  LET c == j[Len(j)].m
         IN  /\ c \in Markers
             /\ Committed(j, Len(j)) = Committed(j, Len(j) - 1)
             /\ c.gen = CommittedGeneration(j, Len(j)) + 1
             /\ c \notin Committed(j, Len(j))
             /\ \A m \in Committed(j, Len(j)) : m.req.key # c.req.key
<1> DEFINE n == Len(j)
           c == j[n].m
<1>1. n \in Nat \ {0} /\ n \in 1..Len(j) /\ j[n].type = "Intent"
  BY DEF Pending
<1>2. c \in Markers /\ c.gen \in Nat \ {0}
  BY Zenon, <1>1, RecordFields
<1>3. Committed(j, n) = Committed(j, n - 1)
  <2>1. {x \in 1..n : j[x].type = "Commit"} = {x \in 1..(n-1) : j[x].type = "Commit"}
    BY <1>1
  <2>2. (n > 0 /\ j[1].type = "Checkpoint") <=> (n - 1 > 0 /\ j[1].type = "Checkpoint")
    BY <1>1
  <2>. QED
    BY Zenon, <2>1, <2>2 DEF Committed
<1>4. CommittedGeneration(j, n) = c.gen - 1
  BY Zenon, <1>1 DEF CommittedGeneration
<1>5. /\ \A m \in Committed(j, n - 1) : m.req.key # c.req.key
      /\ c \notin Committed(j, n - 1)
  BY Zenon, <1>1 DEF ValidRecord
<1>. QED
  BY <1>2, <1>3, <1>4, <1>5

\* What a valid replay commits are markers, of generations from 1 on.
LEMMA CommittedType ==
  ASSUME NEW j \in Seq(Records), NEW i \in 0..Len(j)
  PROVE  Committed(j, i) \subseteq Markers
<1>1. \A x \in 1..i : x \in 1..Len(j)
  OBVIOUS
<1>2. ASSUME NEW x \in 1..i, j[x].type = "Commit"
      PROVE  j[x].m \in Markers
  BY Zenon, <1>1, <1>2, RecordFields
<1>3. ASSUME i > 0, j[1].type = "Checkpoint"
      PROVE  j[1].recs \subseteq Markers
  <2>1. 1 \in 1..Len(j)
    BY <1>3
  <2>. QED
    BY Zenon, <1>3, <2>1, RecordFields
<1>. QED
  BY Zenon, <1>2, <1>3 DEF Committed

\* What the fields of a commit marker are.
LEMMA MarkerType ==
  ASSUME NEW m \in Markers
  PROVE  /\ m.gen \in Nat \ {0} /\ m.seq \in Nat \ {0} /\ m.req \in Requests
         /\ m # NoMarker
  BY DEF Markers, NoMarker, Marker

\* The last commit is a committed marker, or there is none.
LEMMA LastCommitIn ==
  ASSUME NEW j \in Seq(Records), NEW recs, NEW m,
         \A i \in 1..Len(j) : ValidRecord(j, i, recs), IsLastCommit(m, j, Len(j))
  PROVE  m = NoMarker \/ m \in Committed(j, Len(j))
<1>1. SUFFICES ASSUME NEW x \in 1..Len(j), j[x].type \in {"Commit", "Checkpoint"}, m = j[x].m
               PROVE  m = NoMarker \/ m \in Committed(j, Len(j))
  BY Zenon DEF IsLastCommit
<1>2. CASE j[x].type = "Commit"
  BY Zenon, <1>1, <1>2 DEF Committed
<1>3. CASE j[x].type = "Checkpoint"
  <2>1. x = 1 /\ ValidCheckpoint(j[x], recs)
    BY Zenon, <1>3 DEF ValidRecord
  <2>2. m = NoMarker \/ m \in j[1].recs
    BY Zenon, <1>1, <2>1 DEF ValidCheckpoint
  <2>3. Len(j) > 0 /\ j[1].type = "Checkpoint"
    BY <1>3, <2>1
  <2>. QED
    BY Zenon, <2>2, <2>3 DEF Committed
<1>. QED
  BY Zenon, <1>1, <1>2, <1>3

-----------------------------------------------------------------------------
(***************************************************************************)
(* Histories.  Each lemma is one way a history continues.                  *)
(***************************************************************************)

\* The parts of a history, for citing.
LEMMA HistoryParts ==
  ASSUME NEW s, NEW j, NEW l, History(s, j, l)
  PROVE  LET C == Committed(j, Len(j))
             g == CommittedGeneration(j, Len(j))
         IN  /\ \A i \in 1..Len(j) : ValidRecord(j, i, l.recs)
             /\ ValidGenerations(C, g)
             /\ UniqueKeys(C)
             /\ PublishedPending(s, j) \/ (s.gen = g /\ IsLastCommit(s.last, j, Len(j)))
             /\ s.gen = 0 => s = EmptySnapshot
             /\ l.gen \in {g - 1, g} /\ l.gen >= 0
             /\ Pending(j) => l.gen = g
             /\ l.recs = LedgerPrefix(C, l.gen)
             /\ g + (IF Pending(j) THEN 1 ELSE 0) <= MaxRetained
  BY Zenon DEF History

\* execute() appends an intent for a fresh key to a settled store.
LEMMA HistoryIntent ==
  ASSUME NEW s \in Snapshots, NEW j, NEW l \in Ledgers, History(s, j, l), ~Pending(j),
         l.gen = CommittedGeneration(j, Len(j)),
         NEW k, NEW e, Extended(k, j, e),
         e.type = "Intent", e.seq = Len(k), e.m \in Markers, e.m.seq = Len(k),
         e.m.gen = CommittedGeneration(j, Len(j)) + 1, e.m.gen <= MaxRetained,
         \A x \in Committed(j, Len(j)) : x.req.key # e.m.req.key
  PROVE  /\ History(s, k, l)
         /\ Pending(k)
         /\ Committed(k, Len(k)) = Committed(j, Len(j))
         /\ CommittedGeneration(k, Len(k)) = CommittedGeneration(j, Len(j))
         /\ Outcome(s, k) = Outcome(s, j)
<1> DEFINE n == Len(j)
           h == Len(k)
           C == Committed(j, n)
           g == CommittedGeneration(j, n)
<1>1. /\ j \in Seq(Records) /\ k \in Seq(Records) /\ n \in Nat /\ h = n + 1 /\ k[h] = e
      /\ \A i \in 1..n : k[i] = j[i]
  BY DEF Extended
<1>2. n = h - 1 /\ (h > 1 => k[h-1] = j[n]) /\ h # 0
  BY <1>1
<1>3. g \in Nat
  BY <1>1, GenerationType
<1>4. Committed(k, n) = C /\ CommittedGeneration(k, n) = g
  BY Zenon, <1>1, PrefixReplay
<1>5. Committed(k, h) = C
  BY Zenon, ExtendedReplay
<1>6. CommittedGeneration(k, h) = g
  BY <1>1, <1>2, <1>3 DEF CommittedGeneration
<1>7. Pending(k)
  BY <1>1 DEF Pending
<1>8. s.gen = g /\ IsLastCommit(s.last, j, n)
  BY Zenon, HistoryParts DEF PublishedPending
<1>9. IsLastCommit(s.last, k, h)
  BY Zenon, <1>8, ExtendedLastCommit
<1>10. ValidRecord(k, h, l.recs)
  <2>1. e.m \notin C
    BY Zenon
  <2>2. h > 1 => k[h-1].type # "Intent"
    BY <1>1, <1>2 DEF Pending
  <2>3. Committed(k, h - 1) = C /\ CommittedGeneration(k, h - 1) = g
    BY Zenon, <1>2, <1>4
  <2> HIDE DEF C, g, h, n
  <2>. QED
    BY Zenon, <1>1, <2>1, <2>2, <2>3 DEF ValidRecord, C, g, h, n
<1>11. \A i \in 1..h : ValidRecord(k, i, l.recs)
  BY Zenon, <1>10, HistoryParts, ExtendedValid
<1>12. ~PublishedPending(s, k) /\ ~PublishedPending(s, j)
  BY <1>1, <1>3, <1>8 DEF PublishedPending
<1>13. g + 1 <= MaxRetained
  BY Zenon
<1>14. History(s, k, l)
  BY Zenon, <1>5, <1>6, <1>7, <1>8, <1>9, <1>11, <1>13, HistoryParts DEF History
<1>15. Outcome(s, k) = Outcome(s, j)
  BY Zenon, <1>5, <1>12 DEF Outcome
<1>. QED
  BY Zenon, <1>5, <1>6, <1>7, <1>14, <1>15

\* PublishSnapshot: the snapshot of the open intent replaces the old one.
LEMMA HistoryPublish ==
  ASSUME NEW s, NEW t \in Snapshots, NEW j \in Seq(Records), NEW l, History(s, j, l),
         Pending(j), t.last = j[Len(j)].m, t.gen = j[Len(j)].m.gen
  PROVE  History(t, j, l) /\ PublishedPending(t, j)
<1>1. PublishedPending(t, j)
  BY Zenon DEF PublishedPending
<1>2. Len(j) \in 1..Len(j)
  BY DEF Pending
<1>3. t.gen # 0
  BY Zenon, <1>2, HistoryParts, PendingReplay, MarkerType
<1>. QED
  BY Zenon, <1>1, <1>3, HistoryParts DEF History

\* WriteCommit and WriteTerminal close the open intent: with a Commit if its
\* snapshot is published, with an Abort if not.
LEMMA HistoryTerminal ==
  ASSUME NEW s \in Snapshots, NEW j, NEW l \in Ledgers, History(s, j, l), Pending(j),
         NEW k, NEW e, Extended(k, j, e), e.seq = Len(k), e.m = j[Len(j)].m,
         \/ e.type = "Commit" /\ s.last = e.m /\ s.gen = e.m.gen
         \/ e.type = "Abort" /\ s.last # e.m
  PROVE  /\ History(s, k, l)
         /\ ~Pending(k)
         /\ Committed(k, Len(k)) = Committed(j, Len(j)) \cup (IF e.type = "Commit" THEN {e.m} ELSE {})
         /\ CommittedGeneration(k, Len(k)) = s.gen
         /\ e.type = "Commit" => l.gen = s.gen - 1
         /\ Outcome(s, k) = Outcome(s, j)
<1> DEFINE n == Len(j)
           h == Len(k)
           c == e.m
           C == Committed(j, n)
           g == CommittedGeneration(j, n)
           D == C \cup (IF e.type = "Commit" THEN {c} ELSE {})
<1>0. /\ j \in Seq(Records) /\ k \in Seq(Records) /\ h = n + 1 /\ k[h] = e
      /\ \A i \in 1..n : k[i] = j[i]
  BY Zenon DEF Extended
<1>1. n \in Nat \ {0} /\ n \in 1..n /\ j[n].type = "Intent" /\ n \in 0..Len(j)
  BY <1>0 DEF Pending
<1>2. /\ c \in Markers /\ c.gen = g + 1 /\ c \notin C
      /\ \A m \in C : m.req.key # c.req.key
  BY Zenon, <1>0, <1>1, HistoryParts, PendingReplay
<1>3. g \in Nat /\ C \subseteq Markers /\ c.gen \in Nat \ {0}
  BY Zenon, <1>0, <1>1, <1>2, GenerationType, CommittedType, MarkerType
<1>4. e.type \in {"Commit", "Abort"} /\ e.type # "Checkpoint"
  BY Zenon
<1>5. Committed(k, h) = D
  BY Zenon, <1>4, ExtendedReplay
<1>6. ~Pending(k)
  BY Zenon, <1>0, <1>4 DEF Pending
<1>7. s.gen = IF e.type = "Commit" THEN g + 1 ELSE g
  BY Zenon, <1>2, HistoryParts DEF PublishedPending
<1>8. CommittedGeneration(k, h) = s.gen
  <2>1. CommittedGeneration(k, h) = IF e.type = "Commit" THEN c.gen ELSE c.gen - 1
    BY <1>0, <1>1, <1>4 DEF CommittedGeneration
  <2>. QED
    BY <1>2, <1>3, <1>7, <2>1
<1>9. \A i \in 1..h : ValidRecord(k, i, l.recs)
  <2>1. h > 1 /\ h - 1 = n /\ k[h - 1] = j[n]
    BY <1>0, <1>1
  <2>2. ValidRecord(k, h, l.recs)
    BY Zenon, <1>0, <1>1, <1>4, <2>1 DEF ValidRecord
  <2>. QED
    BY Zenon, <2>2, HistoryParts, ExtendedValid
<1>10. IsLastCommit(s.last, k, h)
  <2>1. e.type = "Abort" => IsLastCommit(s.last, j, n)
    BY Zenon, HistoryParts DEF PublishedPending
  <2>. QED
    BY Zenon, <1>4, <2>1, ExtendedLastCommit
<1>11. l.gen = g /\ l.recs = LedgerPrefix(C, g) /\ s.gen <= MaxRetained
  BY <1>7, <1>3, BoundsAssumption, HistoryParts
<1>12. ValidGenerations(D, s.gen)
  <2>1. ValidGenerations(C, g)
    BY Zenon, HistoryParts
  <2>2. \A m \in C : m.gen \in 1..g
    BY Zenon, <2>1 DEF ValidGenerations
  <2>3. CASE e.type = "Commit"
    <3>1. {m.gen : m \in D} = {m.gen : m \in C} \cup {g + 1}
      BY Zenon, <1>2, <2>3
    <3>2. {m.gen : m \in D} = 1..(g + 1)
      <4>1. {m.gen : m \in C} = 1..g
        BY Zenon, <2>1 DEF ValidGenerations
      <4>2. (1..g) \cup {g + 1} = 1..(g + 1)
        BY <1>3
      <4>. QED
        BY Zenon, <3>1, <4>1, <4>2
    <3>3. \A m, x \in D : m.gen = x.gen => m = x
      BY <1>2, <1>3, <2>1, <2>2, <2>3 DEF ValidGenerations
    <3>. QED
      BY Zenon, <1>7, <2>3, <3>2, <3>3 DEF ValidGenerations
  <2>4. CASE e.type = "Abort"
    BY Zenon, <1>7, <2>1, <2>4
  <2>. QED
    BY Zenon, <2>3, <2>4
<1>13. UniqueKeys(D)
  BY Zenon, <1>2, HistoryParts DEF UniqueKeys
<1>14. LedgerPrefix(D, g) = LedgerPrefix(C, g)
  BY <1>2, <1>3 DEF LedgerPrefix
<1>15. History(s, k, l)
  <2>1. l.gen \in {s.gen - 1, s.gen} /\ l.gen >= 0
    BY <1>3, <1>7, <1>11
  <2>2. s.gen = 0 => s = EmptySnapshot
    BY Zenon, HistoryParts
  <2>3. s.gen + 0 <= MaxRetained /\ l.recs = LedgerPrefix(D, l.gen)
    BY <1>3, <1>7, <1>11, <1>14
  <2> HIDE DEF D, C, g, c
  <2>. QED
    BY Zenon, <1>5, <1>6, <1>8, <1>9, <1>10, <1>12, <1>13, <2>1, <2>2, <2>3 DEF History
<1>16. Outcome(s, k) = Outcome(s, j)
  BY Zenon, <1>2, <1>3, <1>5, <1>6, <1>7 DEF Outcome, PublishedPending
<1>. QED
  BY <1>3, <1>5, <1>6, <1>7, <1>8, <1>11, <1>15, <1>16

\* PublishLedger and RebuildLedger complete the ledger.
LEMMA HistoryLedger ==
  ASSUME NEW s \in Snapshots, NEW j \in Seq(Records), NEW l \in Ledgers, History(s, j, l),
         NEW t, t = [gen |-> CommittedGeneration(j, Len(j)), recs |-> Committed(j, Len(j))]
  PROVE  History(s, j, t)
<1> DEFINE n == Len(j)
           C == Committed(j, n)
           g == CommittedGeneration(j, n)
<1>1. n \in Nat /\ n \in 0..Len(j) /\ g \in Nat /\ C \subseteq Markers
  BY GenerationType, CommittedType
<1>2. ValidGenerations(C, g) /\ l.recs = LedgerPrefix(C, l.gen)
  BY HistoryParts
<1>3. \A m \in C : m.gen \in 1..g
  BY Zenon, <1>2 DEF ValidGenerations
<1>4. LedgerPrefix(C, g) = C
  BY <1>1, <1>3 DEF LedgerPrefix
<1>5. ASSUME NEW i \in 1..n
      PROVE  ValidRecord(j, i, C)
  <2>1. ValidRecord(j, i, l.recs)
    BY Zenon, HistoryParts
  <2>2. CASE j[i].type = "Checkpoint"
    <3>1. ValidCheckpoint(j[i], l.recs)
      BY Zenon, <2>1, <2>2 DEF ValidRecord
    <3>2. j[i].gen \in Nat
      BY Zenon, <2>2, RecordFields
    <3>3. LedgerPrefix(C, j[i].gen) = LedgerPrefix(l.recs, j[i].gen)
      <4>1. LedgerPrefix(l.recs, j[i].gen) \subseteq LedgerPrefix(C, j[i].gen)
        BY Zenon, <1>2 DEF LedgerPrefix
      <4>2. ASSUME NEW m \in LedgerPrefix(C, j[i].gen)
            PROVE  m \in LedgerPrefix(l.recs, j[i].gen)
        <5>1. m \in C /\ m.gen \in 1..j[i].gen
          BY <1>3, <3>2 DEF LedgerPrefix
        <5>2. PICK r \in LedgerPrefix(l.recs, j[i].gen) : r.gen = m.gen
          BY Zenon, <3>1, <5>1 DEF ValidCheckpoint, ValidGenerations
        <5>3. r = m
          BY Zenon, <1>2, <4>1, <5>1, <5>2 DEF LedgerPrefix, ValidGenerations
        <5>. QED
          BY Zenon, <5>2, <5>3
      <4>. QED
        BY Zenon, <4>1, <4>2
    <3>4. ValidCheckpoint(j[i], C)
      BY Zenon, <3>1, <3>3 DEF ValidCheckpoint
    <3>. QED
      BY Zenon, <2>1, <2>2, <3>4 DEF ValidRecord
  <2>3. CASE j[i].type # "Checkpoint"
    BY Zenon, <2>1, <2>3 DEF ValidRecord
  <2>. QED
    BY Zenon, <2>2, <2>3
<1>6. t.gen = g /\ t.recs = C
  BY Zenon
<1>7. \A i \in 1..n : ValidRecord(j, i, t.recs)
  BY Zenon, <1>5, <1>6
<1>8. t.gen \in {g - 1, g} /\ t.gen >= 0 /\ t.recs = LedgerPrefix(C, t.gen)
  BY <1>1, <1>4, <1>6
<1>9. /\ ValidGenerations(C, g) /\ UniqueKeys(C)
      /\ PublishedPending(s, j) \/ (s.gen = g /\ IsLastCommit(s.last, j, n))
      /\ s.gen = 0 => s = EmptySnapshot
      /\ g + (IF Pending(j) THEN 1 ELSE 0) <= MaxRetained
  BY Zenon, HistoryParts
<1> HIDE DEF C, g
<1>. QED
  BY Zenon, <1>6, <1>7, <1>8, <1>9 DEF History, C, g

\* compact() and the last replacement of restore_backup(): a checkpoint alone.
StandsAlone(s, recs) ==
  /\ ValidCommittedState(s, recs)
  /\ UniqueKeys(recs)
  /\ s.gen = 0 => s = EmptySnapshot
  /\ s.gen <= MaxRetained

CheckpointOf(k, l, s, recs) ==
  /\ Len(k) = 1
  /\ k[1] = Checkpoint(s, recs)
  /\ l.gen = s.gen
  /\ l.recs = recs

\* A journal that is one Checkpoint, with its snapshot and ledger, is a history
\* that commits exactly the records of the Checkpoint.
LEMMA HistoryCheckpoint ==
  ASSUME NEW s \in Snapshots, NEW recs, StandsAlone(s, recs),
         NEW k, NEW l, CheckpointOf(k, l, s, recs)
  PROVE  /\ History(s, k, l)
         /\ ~Pending(k)
         /\ Len(k) = 1
         /\ Committed(k, Len(k)) = recs
         /\ CommittedGeneration(k, Len(k)) = s.gen
         /\ Outcome(s, k) = recs
<1>0. s.gen \in Nat
  BY Zenon DEF Snapshots
<1> DEFINE e == Checkpoint(s, recs)
<1>1. Len(k) = 1 /\ k[1] = e /\ l.gen = s.gen /\ l.recs = recs
  BY Zenon DEF CheckpointOf
<1>2. e.type = "Checkpoint" /\ e.seq = 1 /\ e.m = s.last /\ e.gen = s.gen /\ e.recs = recs
  BY Zenon DEF Checkpoint
<1> HIDE DEF e
<1> USE DEF StandsAlone
<1>3. ~Pending(k)
  BY Zenon, <1>1, <1>2 DEF Pending
<1>4. Committed(k, 1) = recs
  BY <1>1, <1>2 DEF Committed
<1>5. CommittedGeneration(k, 1) = s.gen
  BY <1>1, <1>2 DEF CommittedGeneration
<1>6. ValidGenerations(recs, s.gen)
  BY Zenon DEF ValidCommittedState
<1>7. LedgerPrefix(recs, s.gen) = recs
  <2>1. \A m \in recs : m.gen \in 1..s.gen
    BY Zenon, <1>6 DEF ValidGenerations
  <2>. QED
    BY <1>0, <2>1 DEF LedgerPrefix
<1>8. ValidCheckpoint(e, recs)
  BY Zenon, <1>2, <1>6, <1>7 DEF ValidCheckpoint, ValidCommittedState
<1>9. ValidRecord(k, 1, recs)
  BY Zenon, <1>1, <1>2, <1>8 DEF ValidRecord
<1>10. IsLastCommit(s.last, k, 1)
  BY <1>1, <1>2 DEF IsLastCommit
<1>11. \A i \in 1..1 : ValidRecord(k, i, recs)
  BY <1>9
<1>12. ~PublishedPending(s, k)
  BY Zenon, <1>3 DEF PublishedPending
<1>13. History(s, k, l)
  BY <1>0, <1>1, <1>3, <1>4, <1>5, <1>6, <1>7, <1>10, <1>11 DEF History
<1>14. Outcome(s, k) = recs
  BY Zenon, <1>1, <1>4, <1>12 DEF Outcome
<1>. QED
  BY Zenon, <1>1, <1>3, <1>4, <1>5, <1>13, <1>14

\* recover() accepts a history.
LEMMA HistoryAccepted ==
  ASSUME NEW s \in Snapshots, NEW j \in Seq(Records), NEW l \in Ledgers, History(s, j, l)
  PROVE  Accepts(s, j, l)
<1> DEFINE n == Len(j)
           C == Committed(j, n)
           g == CommittedGeneration(j, n)
<1>1. n \in Nat /\ g \in Nat /\ C \subseteq Markers /\ l.gen \in Nat
  BY GenerationType, CommittedType DEF Ledgers
<1>2. ValidGenerations(C, g) /\ l.recs = LedgerPrefix(C, l.gen) /\ UniqueKeys(C)
  BY HistoryParts
<1>3. l.gen <= g /\ g <= l.gen + 1
  BY <1>1, HistoryParts
<1>4. \A m \in C : m.gen \in 1..g
  BY Zenon, <1>2 DEF ValidGenerations
<1>5. ValidGenerations(l.recs, l.gen)
  <2>1. \A m, r \in l.recs : m.gen = r.gen => m = r
    BY Zenon, <1>2 DEF LedgerPrefix, ValidGenerations
  <2>2. \A m \in l.recs : m.gen \in 1..l.gen
    BY <1>1, <1>2, <1>4 DEF LedgerPrefix
  <2>3. ASSUME NEW x \in 1..l.gen PROVE \E m \in l.recs : m.gen = x
    <3>1. x \in 1..g
      BY <1>1, <1>3
    <3>2. PICK m \in C : m.gen = x
      BY Zenon, <1>2, <3>1 DEF ValidGenerations
    <3>. QED
      BY <1>2, <3>2 DEF LedgerPrefix
  <2>. QED
    BY <2>1, <2>2, <2>3 DEF ValidGenerations
<1>6. \A m \in C : IF m.gen <= l.gen THEN m \in l.recs
                   ELSE \A r \in l.recs : r.req.key # m.req.key
  BY Zenon, <1>2 DEF LedgerPrefix, UniqueKeys
<1>7. \A r \in l.recs : \E m \in C : m.req.key = r.req.key
  BY Zenon, <1>2 DEF LedgerPrefix
<1>8. g + (IF PublishedPending(s, j) THEN 1 ELSE 0) <= MaxRetained
  BY <1>1, BoundsAssumption, HistoryParts DEF PublishedPending
<1>. QED
  BY Zenon, <1>2, <1>3, <1>5, <1>6, <1>7, <1>8, HistoryParts DEF Accepts

\* As many records as generations.
LEMMA GenerationsCounted ==
  ASSUME NEW recs, NEW g \in Nat, ValidGenerations(recs, g)
  PROVE  Cardinality(recs) = g
<1> DEFINE f == [m \in recs |-> m.gen]
<1>1. f \in Bijection(recs, 1..g)
  <2>1. f \in [recs -> 1..g]
    BY Zenon DEF ValidGenerations
  <2>2. \A m, n \in recs : f[m] = f[n] => m = n
    BY Zenon DEF ValidGenerations
  <2>3. \A x \in 1..g : \E m \in recs : f[m] = x
    BY Zenon DEF ValidGenerations
  <2>. QED
    BY Zenon, <2>1, <2>2, <2>3, Fun_IsBij
<1>2. ExistsBijection(1..g, recs)
  BY <1>1, Fun_ExistsBij, Fun_ExistsBijSymmetric
<1>3. IsFiniteSet(1..g) /\ Cardinality(1..g) = g
  BY FS_Interval
<1>. QED
  BY Zenon, <1>2, <1>3, FS_Bijection

-----------------------------------------------------------------------------
(***************************************************************************)
(* Effects.                                                                *)
(***************************************************************************)

\* A mutation newer than all others decides its own resource and no other.
LEMMA EffectOfNewest ==
  ASSUME NEW C \in SUBSET Markers, NEW m \in Markers, \A x \in C : x.gen < m.gen,
         m.req.res \in Resources
  PROVE  Effect(C \cup {m}) = [Effect(C) EXCEPT ![m.req.res] = m.req.val]
<1> DEFINE D == C \cup {m}
           W(S, r) == {x \in S : x.req.res = r}
           N(U) == IF U = {} THEN Absent
                   ELSE (CHOOSE x \in U : \A y \in U : y.gen <= x.gen).req.val
<1>1. \A x \in D : x.gen \in Nat
  BY Zenon, MarkerType
<1>2. \A S : Effect(S) = [r \in Resources |-> N(W(S, r))]
  BY Zenon DEF Effect
<1>3. N(W(D, m.req.res)) = m.req.val
  <2> DEFINE U == W(D, m.req.res)
             P(x) == \A y \in U : y.gen <= x.gen
  <2>1. m \in U
    BY Zenon
  <2>2. P(m)
    BY <1>1
  <2>3. \A x \in U : P(x) => x = m
    BY <1>1, <2>1
  <2> HIDE DEF U, P
  <2>4. (CHOOSE x \in U : P(x)) = m
    BY Zenon, <2>1, <2>2, <2>3
  <2>. QED
    BY Zenon, <2>1, <2>4 DEF U, P
<1>4. \A r \in Resources : r # m.req.res => W(D, r) = W(C, r)
  BY Zenon
<1> HIDE DEF N, W, D
<1>5. \A r \in Resources : r # m.req.res => N(W(D, r)) = N(W(C, r))
  BY Zenon, <1>4
<1>6. Effect(D) = [Effect(C) EXCEPT ![m.req.res] = m.req.val]
  BY Zenon, <1>2, <1>3, <1>5
<1>. QED
  BY Zenon, <1>6 DEF D

-----------------------------------------------------------------------------
(***************************************************************************)
(* What a step leaves alone.                                               *)
(***************************************************************************)

\* A step that changes neither file contents nor mixed keeps the history.
LEMMA FilesKept ==
  ASSUME FilesAgree, PublishedEffects,
         UNCHANGED <<snapshotFile, journalFile, ledgerFile, mixed>>
  PROVE  FilesAgree' /\ PublishedEffects'
  BY Zenon DEF FilesAgree, PublishedEffects

\* A step that changes neither the journal nor acked owes the callers nothing.
LEMMA CallersKept ==
  ASSUME CallersAgree, UNCHANGED <<journalFile, mixed, acked>>
  PROVE  CallersAgree'
  BY Zenon DEF CallersAgree

\* Outside a restore only the bundles matter to it.
LEMMA RestoreKept ==
  ASSUME RestoreMatches, UNCHANGED backups, pc' \notin RestoreSteps
  PROVE  RestoreMatches'
<1>1. \A b \in backups' : WholeBundle(b)
  BY Zenon DEF RestoreMatches
<1>2. pc' \notin {"restore ledger sync", "restore journal", "restore journal sync"}
  BY Zenon DEF RestoreSteps
<1>. QED
  BY Zenon, <1>1, <1>2 DEF RestoreMatches

\* A step that leaves the journal alone keeps the room reserved in it, unless it
\* starts an intent.
LEMMA RoomKept ==
  ASSUME RoomForTerminal, UNCHANGED journalFile, pc' # "intent"
  PROVE  RoomForTerminal'
  BY Zenon DEF RoomForTerminal, Pending

\* Nothing is said of the memory of an instance that is down or fenced.
LEMMA MemoryForgotten ==
  ASSUME pc' = "down" \/ (pc' = "idle" /\ unresolved')
  PROVE  MemoryAgrees' /\ SequenceMatches'
<1>1. MutationMatches' /\ RecoveryMatches'
  BY Zenon DEF MutationMatches, RecoveryMatches, RecoverySteps
<1>. QED
  BY Zenon, <1>1 DEF MemoryAgrees, SequenceMatches

\* Each kind of step has its own part of MemoryAgrees to keep.
LEMMA MemoryOfMutation ==
  ASSUME pc' \in MutationSteps, ~mixed' => MutationMatches'
  PROVE  MemoryAgrees'
<1>1. RecoveryMatches'
  BY Zenon DEF RecoveryMatches, RecoverySteps, MutationSteps
<1>. QED
  BY Zenon, <1>1 DEF MemoryAgrees, MutationSteps

\* The same for a step of recover().
LEMMA MemoryOfRecovery ==
  ASSUME pc' \in RecoverySteps, ~mixed' => RecoveryMatches'
  PROVE  MemoryAgrees'
<1>1. MutationMatches'
  BY Zenon DEF MutationMatches, RecoverySteps
<1>. QED
  BY Zenon, <1>1 DEF MemoryAgrees, RecoverySteps

\* The same for a step of compact() or restore_backup(), and at rest.
LEMMA MemoryOfSettled ==
  ASSUME pc' \in {"idle", "compact", "compact sync"} \cup RestoreSteps,
         ~mixed' => (pc' \notin RestoreSteps => Settled'),
         (~mixed' /\ pc' = "compact") => ValidCommittedState(snapshot, ledger)'
  PROVE  MemoryAgrees'
<1>1. MutationMatches' /\ RecoveryMatches'
  BY Zenon DEF MutationMatches, RecoveryMatches, RecoverySteps, RestoreSteps
<1>. QED
  BY Zenon, <1>1 DEF MemoryAgrees, RestoreSteps

-----------------------------------------------------------------------------
(***************************************************************************)
(* Typing of the data the actions build.                                   *)
(***************************************************************************)
\* The values Init and a restart use are well typed.
LEMMA EmptyTypes ==
  /\ NoMarker \in Markers \cup {NoMarker}
  /\ EmptySnapshot \in Snapshots
  /\ EmptyLedger \in Ledgers
  /\ NoBundle \in Bundles
<1>1. EmptySnapshot \in Snapshots
  BY Zenon DEF EmptySnapshot, Snapshots, Values
<1>2. EmptyLedger \in Ledgers
  BY Zenon DEF EmptyLedger, Ledgers
<1>. QED
  BY <1>1, <1>2 DEF NoBundle, Bundles

\* A mutation's candidate snapshot (execute) is a snapshot.
LEMMA ApplyType ==
  ASSUME NEW s \in Snapshots, NEW m \in Markers
  PROVE  Apply(s, m) \in Snapshots
<1>1. m.req.res \in Resources /\ m.req.val \in Values
  BY Zenon, RequestsAssumption DEF Markers, Values
<1>2. [s.entries EXCEPT ![m.req.res] = m.req.val] \in [Resources -> Values]
  BY Zenon, <1>1 DEF Snapshots
<1>. QED
  BY Zenon, <1>2 DEF Apply, Snapshots, Markers

\* A record of the journal is a record.
LEMMA RecordType ==
  ASSUME NEW t \in {"Intent", "Commit", "Abort"}, NEW s \in Nat, NEW m \in Markers
  PROVE  Record(t, s, m) \in Records
BY Zenon DEF Record, Records, Markers

\* So is the checkpoint of a snapshot and a ledger.
LEMMA CheckpointType ==
  ASSUME NEW s \in Snapshots, NEW recs \in SUBSET Markers
  PROVE  Checkpoint(s, recs) \in Records
BY Zenon DEF Checkpoint, Records, Snapshots

\* Facts about sequences, and about the record of stable files.
LEMMA AppendType ==
  ASSUME NEW S, NEW q \in Seq(S), NEW e \in S
  PROVE  Append(q, e) \in Seq(S)
OBVIOUS

\* A prefix of a sequence is one of the same type.
LEMMA PrefixType ==
  ASSUME NEW S, NEW q \in Seq(S), NEW n \in 0..Len(q)
  PROVE  SubSeq(q, 1, n) \in Seq(S)
OBVIOUS

\* Replaying a well-typed journal yields markers.
LEMMA ReplayTypes ==
  ASSUME NEW j \in Seq(Records)
  PROVE  /\ Committed(j, Len(j)) \in SUBSET Markers
         /\ Aborted(j) \in SUBSET Markers
         /\ Pending(j) => j[Len(j)].m \in Markers
<1>1. \A k \in 1..Len(j) : j[k] \in Records
  OBVIOUS
<1>2. ASSUME NEW e \in Records
      PROVE  IF e.type = "Checkpoint" THEN e.recs \in SUBSET Markers ELSE e.m \in Markers
  BY Zenon DEF Records
<1>3. Len(j) \in Nat
  OBVIOUS
<1>4. Committed(j, Len(j)) \in SUBSET Markers
  BY <1>1, <1>2, <1>3 DEF Committed
<1>5. Aborted(j) \in SUBSET Markers
  BY Zenon, <1>1, <1>2 DEF Aborted
<1>. QED
  BY <1>1, <1>2, <1>3, <1>4, <1>5 DEF Pending

-----------------------------------------------------------------------------
(***************************************************************************)
(* Type correctness: TypeOK is inductive.  First the file operations.      *)
(***************************************************************************)
\* Writing a record keeps the files typed.
LEMMA JournalWriteTypes ==
  ASSUME FilesTyped, MediumTyped, NEW e \in Records, JournalWrite(e)
  PROVE  FilesTyped' /\ MediumTyped'
<1>1. journalFile' \in Seq(Records)
  BY Zenon, AppendType DEF JournalWrite, FilesTyped
<1>. QED
  BY Zenon, <1>1 DEF JournalWrite, FilesTyped, MediumTyped

\* So does syncing it.
LEMMA JournalSyncTypes ==
  ASSUME FilesTyped, MediumTyped, JournalSync
  PROVE  FilesTyped' /\ MediumTyped'
<1>1. [stable EXCEPT !.journal = journalFile]
        \in [snapshot : Snapshots, journal : Seq(Records), ledger : Ledgers]
  BY Zenon DEF FilesTyped, MediumTyped
<1>. QED
  BY Zenon, <1>1 DEF JournalSync, FilesTyped, MediumTyped, files

\* And replacing a file.
LEMMA ReplaceTypes ==
  ASSUME FilesTyped, MediumTyped,
         \/ \E s \in Snapshots : ReplaceSnapshot(s)
         \/ \E l \in Ledgers : ReplaceLedger(l)
         \/ \E j \in Seq(Records) : ReplaceJournal(j)
  PROVE  FilesTyped' /\ MediumTyped'
BY Zenon DEF ReplaceSnapshot, ReplaceLedger, ReplaceJournal, FilesTyped, MediumTyped

\* And syncing the directory.
LEMMA DirectorySyncTypes ==
  ASSUME FilesTyped, MediumTyped, DirectorySync
  PROVE  FilesTyped' /\ MediumTyped'
<1>1. (IF "journal" \in unsynced THEN journalFile ELSE stable.journal) \in Seq(Records)
  BY Zenon DEF FilesTyped, MediumTyped
<1>. QED
  BY Zenon, <1>1 DEF DirectorySync, FilesTyped, MediumTyped, files

\* A dead process leaves typed memory.
LEMMA ForgetTypes ==
  ASSUME ForgetMemory
  PROVE  /\ MemoryTyped'
         /\ cur' \in Markers \cup {NoMarker}
         /\ src' \in Bundles
BY Zenon, EmptyTypes DEF ForgetMemory, MemoryTyped

\* Parts an action leaves alone.
LEMMA UnchangedTypes ==
  /\ FilesTyped /\ UNCHANGED files => FilesTyped'
  /\ MediumTyped /\ UNCHANGED medium => MediumTyped'
  /\ MemoryTyped /\ UNCHANGED memory => MemoryTyped'
  /\ CallersTyped /\ UNCHANGED callers => CallersTyped'
BY Zenon DEF FilesTyped, MediumTyped, MemoryTyped, CallersTyped, files, medium, memory, callers

\* The steps of put and delete keep the types.
LEMMA MutateTypes == TypeOK /\ Mutate => TypeOK'
<1> SUFFICES ASSUME TypeOK, Mutate PROVE TypeOK'
  BY Zenon
<1>0. journal_sequence + 1 \in Nat
  BY DEF TypeOK, MemoryTyped
<1> USE UnchangedTypes DEF TypeOK
<1>1. ASSUME NEW r \in Requests, Execute(r) PROVE TypeOK'
  <2>1. cur' \in Markers
    BY <1>1 DEF Execute, Marker, Markers, MemoryTyped, Snapshots
  <2>2. ControlTyped'
    BY Zenon, <1>1, <2>1 DEF Execute, ControlTyped, Goto, MutationSteps
  <2>3. MemoryTyped'
    BY Zenon, <1>1 DEF Execute, MemoryTyped
  <2>. QED
    BY Zenon, <1>1, <2>2, <2>3 DEF Execute
<1>2. CASE WriteIntent
  <2>0. cur \in Markers
    BY Zenon, <1>2 DEF WriteIntent, Goto, ControlTyped, MutationSteps
  <2>1. Record("Intent", journal_sequence + 1, cur) \in Records
    BY Zenon, <2>0, <1>0, RecordType
  <2>2. FilesTyped' /\ MediumTyped'
    BY Zenon, <1>2, <2>1, JournalWriteTypes DEF WriteIntent
  <2>3. ControlTyped'
    BY Zenon, <1>2 DEF WriteIntent, Goto, ControlTyped, MutationSteps
  <2>. QED
    BY Zenon, <1>2, <2>2, <2>3 DEF WriteIntent
<1>3. CASE SyncIntent
  <2>1. MemoryTyped'
    BY Zenon, <1>0, <1>3 DEF SyncIntent, MemoryTyped
  <2>2. ControlTyped'
    BY Zenon, <1>3 DEF SyncIntent, Goto, ControlTyped, MutationSteps, JournalSync, files, Pending
  <2>. QED
    BY Zenon, <1>3, <2>1, <2>2, JournalSyncTypes DEF SyncIntent
<1>4. CASE PublishSnapshot
  <2>1. Apply(snapshot, cur) \in Snapshots
    BY Zenon, <1>4, ApplyType DEF PublishSnapshot, Goto, ControlTyped, MemoryTyped, MutationSteps
  <2>2. FilesTyped' /\ MediumTyped'
    BY Zenon, <1>4, <2>1, ReplaceTypes DEF PublishSnapshot
  <2>3. ControlTyped'
    BY Zenon, <1>4 DEF PublishSnapshot, Goto, ControlTyped, MutationSteps
  <2>. QED
    BY Zenon, <1>4, <2>2, <2>3 DEF PublishSnapshot
<1>5. CASE SyncSnapshot
  <2>1. Apply(snapshot, cur) \in Snapshots
    BY Zenon, <1>5, ApplyType DEF SyncSnapshot, Goto, ControlTyped, MemoryTyped, MutationSteps
  <2>2. ControlTyped' /\ MemoryTyped'
    BY Zenon, <1>5, <2>1 DEF SyncSnapshot, Goto, ControlTyped, MemoryTyped, MutationSteps
  <2>. QED
    BY Zenon, <1>5, <2>2, DirectorySyncTypes DEF SyncSnapshot
<1>6. CASE WriteCommit
  <2>0. cur \in Markers
    BY Zenon, <1>6 DEF WriteCommit, Goto, ControlTyped, MutationSteps
  <2>1. Record("Commit", journal_sequence + 1, cur) \in Records
    BY Zenon, <2>0, <1>0, RecordType
  <2>2. FilesTyped' /\ MediumTyped'
    BY Zenon, <1>6, <2>1, JournalWriteTypes DEF WriteCommit
  <2>3. ControlTyped'
    BY Zenon, <1>6 DEF WriteCommit, Goto, ControlTyped, MutationSteps
  <2>. QED
    BY Zenon, <1>6, <2>2, <2>3 DEF WriteCommit
<1>7. CASE SyncCommit
  <2>1. MemoryTyped'
    BY Zenon, <1>0, <1>7 DEF SyncCommit, MemoryTyped
  <2>2. ControlTyped'
    BY Zenon, <1>7 DEF SyncCommit, Goto, ControlTyped, MutationSteps, JournalSync, files, Pending
  <2>. QED
    BY Zenon, <1>7, <2>1, <2>2, JournalSyncTypes DEF SyncCommit
<1>8. CASE PublishLedger
  <2>1. [gen |-> cur.gen, recs |-> ledger \cup {cur}] \in Ledgers
    BY Zenon, <1>8 DEF PublishLedger, Goto, ControlTyped, MemoryTyped, MutationSteps, Ledgers, Markers
  <2>2. FilesTyped' /\ MediumTyped'
    BY Zenon, <1>8, <2>1, ReplaceTypes DEF PublishLedger
  <2>3. ControlTyped'
    BY Zenon, <1>8 DEF PublishLedger, Goto, ControlTyped, MutationSteps
  <2>. QED
    BY Zenon, <1>8, <2>2, <2>3 DEF PublishLedger
<1>9. CASE Acknowledge
  <2>1. cur \in Markers
    BY Zenon, <1>9 DEF Acknowledge, Goto, ControlTyped, MutationSteps
  <2>2. MemoryTyped' /\ CallersTyped'
    BY Zenon, <1>9, <2>1 DEF Acknowledge, MemoryTyped, CallersTyped
  <2>3. ControlTyped'
    BY Zenon, <1>9 DEF Acknowledge, Goto, ControlTyped, MutationSteps
  <2>. QED
    BY Zenon, <1>9, <2>2, <2>3, DirectorySyncTypes DEF Acknowledge
<1>. QED
  BY Zenon, <1>1, <1>2, <1>3, <1>4, <1>5, <1>6, <1>7, <1>8, <1>9 DEF Mutate

\* Compaction, backup and restore keep the types.
LEMMA MaintainTypes == TypeOK /\ Maintain => TypeOK'
<1> SUFFICES ASSUME TypeOK, Maintain PROVE TypeOK'
  BY Zenon
<1> USE UnchangedTypes DEF TypeOK
<1>1. CASE Compact
  <2>1. ControlTyped' /\ MemoryTyped'
    BY Zenon, <1>1 DEF Compact, Goto, ControlTyped, MemoryTyped, MutationSteps
  <2>. QED
    BY Zenon, <1>1, <2>1 DEF Compact
<1>2. <<Checkpoint(snapshot, ledger)>> \in Seq(Records)
  BY CheckpointType DEF MemoryTyped
<1>3. CASE ReplaceByCheckpoint
  <2>1. FilesTyped' /\ MediumTyped'
    BY Zenon, <1>2, <1>3, ReplaceTypes DEF ReplaceByCheckpoint
  <2>2. ControlTyped'
    BY Zenon, <1>3 DEF ReplaceByCheckpoint, Goto, ControlTyped, MutationSteps
  <2>. QED
    BY Zenon, <1>3, <2>1, <2>2 DEF ReplaceByCheckpoint
<1>4. CASE FinishCompaction
  <2>1. ControlTyped' /\ MemoryTyped'
    BY Zenon, <1>4 DEF FinishCompaction, Goto, ControlTyped, MemoryTyped, MutationSteps
  <2>. QED
    BY Zenon, <1>4, <2>1, DirectorySyncTypes DEF FinishCompaction
<1>5. CASE ExportBackup
  <2>1. Bundle \in Bundles
    BY Zenon, <1>2 DEF Bundle, Bundles, Ledgers, Snapshots, MemoryTyped, CallersTyped
  <2>2. CallersTyped'
    BY Zenon, <1>5, <2>1 DEF ExportBackup, CallersTyped
  <2>3. ControlTyped'
    BY Zenon, <1>5 DEF ExportBackup, ControlTyped, control, files, Pending
  <2>. QED
    BY Zenon, <1>5, <2>2, <2>3 DEF ExportBackup
<1>6. ASSUME NEW b \in backups, NEW a \in BOOLEAN, RestoreBackup(b, a) PROVE TypeOK'
  <2>1. ControlTyped' /\ MemoryTyped'
    BY Zenon, <1>6 DEF RestoreBackup, Goto, ControlTyped, MemoryTyped, CallersTyped,
                MutationSteps, RestoreSteps
  <2>. QED
    BY Zenon, <1>6, <2>1 DEF RestoreBackup
<1>7. /\ src.snapshot \in Snapshots /\ src.ledger \in Ledgers /\ src.journal \in Seq(Records)
      /\ src.mixed \in BOOLEAN
  BY Zenon DEF ControlTyped, Bundles
<1>8. CASE RestoreSnapshot
  <2>1. FilesTyped' /\ MediumTyped'
    BY Zenon, <1>7, <1>8, ReplaceTypes DEF RestoreSnapshot
  <2>2. ControlTyped' /\ CallersTyped'
    BY Zenon, <1>8 DEF RestoreSnapshot, Goto, ControlTyped, CallersTyped, MutationSteps, RestoreSteps
  <2>. QED
    BY Zenon, <1>8, <2>1, <2>2 DEF RestoreSnapshot
<1>9. CASE RestoreLedger
  <2>1. FilesTyped' /\ MediumTyped'
    BY Zenon, <1>7, <1>9, ReplaceTypes DEF RestoreLedger
  <2>2. ControlTyped'
    BY Zenon, <1>9 DEF RestoreLedger, Goto, ControlTyped, MutationSteps, RestoreSteps
  <2>. QED
    BY Zenon, <1>9, <2>1, <2>2 DEF RestoreLedger
<1>10. CASE RestoreJournal
  <2>1. FilesTyped' /\ MediumTyped'
    BY Zenon, <1>7, <1>10, ReplaceTypes DEF RestoreJournal
  <2>2. ControlTyped' /\ CallersTyped'
    BY Zenon, <1>7, <1>10 DEF RestoreJournal, Goto, ControlTyped, CallersTyped, MutationSteps, RestoreSteps
  <2>. QED
    BY Zenon, <1>10, <2>1, <2>2 DEF RestoreJournal
<1>11. CASE SyncRestore
  <2>1. ControlTyped'
    BY Zenon, <1>11 DEF SyncRestore, Goto, ControlTyped, MutationSteps, RestoreSteps
  <2>. QED
    BY Zenon, <1>11, <2>1, DirectorySyncTypes DEF SyncRestore
<1>12. CASE FinishRestore
  <2>1. MemoryTyped'
    BY Zenon, <1>7, <1>12 DEF FinishRestore, MemoryTyped, Ledgers
  <2>2. ControlTyped'
    BY Zenon, <1>12, EmptyTypes DEF FinishRestore, Goto, ControlTyped, MutationSteps
  <2>. QED
    BY Zenon, <1>12, <2>1, <2>2, DirectorySyncTypes DEF FinishRestore
<1>. QED
  BY Zenon, <1>1, <1>3, <1>4, <1>5, <1>6, <1>8, <1>9, <1>10, <1>11, <1>12 DEF Maintain

\* Recovery keeps the types.
LEMMA RecoverTypes == TypeOK /\ Recover => TypeOK'
<1> SUFFICES ASSUME TypeOK, Recover PROVE TypeOK'
  BY Zenon
<1>0. journal_sequence + 1 \in Nat /\ Len(journalFile) \in Nat
  BY DEF TypeOK, MemoryTyped, FilesTyped
<1> USE UnchangedTypes DEF TypeOK
<1>1. /\ Committed(journalFile, Len(journalFile)) \in SUBSET Markers
      /\ Aborted(journalFile) \in SUBSET Markers
      /\ Pending(journalFile) => journalFile[Len(journalFile)].m \in Markers
  BY Zenon, ReplayTypes DEF FilesTyped
<1>2. CASE Reopen
  <2>1. MemoryTyped'
    BY Zenon, <1>0, <1>2 DEF Reopen, MemoryTyped, FilesTyped, Ledgers
  <2>2. cur' \in Markers \cup {NoMarker} /\ (Pending(journalFile) => cur' \in Markers)
    BY Zenon, <1>1, <1>2 DEF Reopen
  <2>3. Pending(journalFile)' = Pending(journalFile)
    BY Zenon, <1>2 DEF Reopen, files, Pending
  <2>4. ControlTyped'
    BY Zenon, <1>2, <2>2, <2>3 DEF Reopen, AfterTail, ControlTyped, MutationSteps, RecoverySteps
  <2>. QED
    BY Zenon, <1>2, <2>1, <2>4 DEF Reopen
<1>3. CASE TruncateTail
  <2>1. FilesTyped'
    BY Zenon, <1>3 DEF TruncateTail, FilesTyped
  <2>2. ControlTyped'
    BY Zenon, <1>3 DEF TruncateTail, Goto, ControlTyped, MutationSteps, RecoverySteps, Pending
  <2>. QED
    BY Zenon, <1>3, <2>1, <2>2 DEF TruncateTail
<1>4. CASE SyncTail
  <2>1. ControlTyped'
    BY Zenon, <1>4 DEF SyncTail, AfterTail, ControlTyped, MutationSteps, RecoverySteps
  <2>. QED
    BY Zenon, <1>4, <2>1, JournalSyncTypes DEF SyncTail
<1>5. CASE WriteTerminal
  <2>1. cur \in Markers
    BY Zenon, <1>5 DEF WriteTerminal, Goto, ControlTyped
  <2>2. Record(IF snapshot.last = cur THEN "Commit" ELSE "Abort", journal_sequence + 1, cur)
          \in Records
    BY Zenon, <1>0, <2>1, RecordType
  <2>3. FilesTyped' /\ MediumTyped'
    BY Zenon, <1>5, <2>2, JournalWriteTypes DEF WriteTerminal
  <2>4. ControlTyped'
    BY Zenon, <1>5 DEF WriteTerminal, Goto, ControlTyped, MutationSteps, RecoverySteps
  <2>. QED
    BY Zenon, <1>5, <2>3, <2>4 DEF WriteTerminal
<1>6. CASE SyncTerminal
  <2>1. MemoryTyped'
    BY Zenon, <1>0, <1>6 DEF SyncTerminal, MemoryTyped
  <2>2. ControlTyped'
    BY Zenon, <1>6 DEF SyncTerminal, Goto, ControlTyped, MutationSteps, RecoverySteps
  <2>. QED
    BY Zenon, <1>6, <2>1, <2>2, JournalSyncTypes DEF SyncTerminal
<1>7. CASE RebuildLedger
  <2>1. [gen |-> snapshot.gen, recs |-> Committed(journalFile, Len(journalFile))] \in Ledgers
    BY Zenon, <1>1 DEF Ledgers, MemoryTyped, Snapshots
  <2>2. FilesTyped' /\ MediumTyped'
    BY Zenon, <1>7, <2>1, ReplaceTypes DEF RebuildLedger
  <2>3. MemoryTyped'
    BY Zenon, <1>1, <1>7 DEF RebuildLedger, MemoryTyped
  <2>4. ControlTyped'
    BY Zenon, <1>7 DEF RebuildLedger, Goto, ControlTyped, MutationSteps, RecoverySteps
  <2>. QED
    BY Zenon, <1>7, <2>2, <2>3, <2>4 DEF RebuildLedger
<1>8. CASE FinishRecovery
  <2>1. ControlTyped'
    BY Zenon, <1>8 DEF FinishRecovery, Goto, ControlTyped, MutationSteps
  <2>. QED
    BY Zenon, <1>8, <2>1, DirectorySyncTypes DEF FinishRecovery
<1>9. CASE DropFenced
  <2>1. ControlTyped' /\ MemoryTyped'
    BY Zenon, <1>9, ForgetTypes DEF DropFenced, Goto, ControlTyped, MutationSteps
  <2>. QED
    BY Zenon, <1>9, <2>1 DEF DropFenced
<1>. QED
  BY Zenon, <1>2, <1>3, <1>4, <1>5, <1>6, <1>7, <1>8, <1>9 DEF Recover

\* Kills, I/O errors and power cuts keep the types.
LEMMA FaultTypes == TypeOK /\ (Kill \/ IoError \/ PowerCut) => TypeOK'
<1> SUFFICES ASSUME TypeOK, Kill \/ IoError \/ PowerCut PROVE TypeOK'
  BY Zenon
<1>0. faults + 1 \in Nat
  BY DEF TypeOK, CallersTyped
<1> USE UnchangedTypes DEF TypeOK
<1>1. ASSUME NEW kind, Fault(kind) PROVE CallersTyped'
  BY Zenon, <1>0, <1>1 DEF Fault, CallersTyped
<1>2. ASSUME CutWrite PROVE FilesTyped' /\ MediumTyped'
  BY Zenon, <1>2 DEF CutWrite, FilesTyped
<1>3. CASE Kill
  <2>1. ControlTyped' /\ MemoryTyped'
    BY Zenon, <1>3, ForgetTypes DEF Kill, ControlTyped, MutationSteps
  <2>. QED
    BY Zenon, <1>1, <1>2, <1>3, <2>1 DEF Kill
<1>4. CASE IoError
  <2>1. CASE pc \in RecoverySteps
    <3>1. ControlTyped' /\ MemoryTyped'
      BY Zenon, <1>4, <2>1, ForgetTypes DEF IoError, ControlTyped, MutationSteps
    <3>. QED
      BY Zenon, <1>1, <1>2, <1>4, <3>1 DEF IoError
  <2>2. CASE pc \notin RecoverySteps
    <3>1. ControlTyped' /\ MemoryTyped'
      BY Zenon, <1>4, <2>2, EmptyTypes DEF IoError, ControlTyped, MutationSteps
    <3>. QED
      BY Zenon, <1>1, <1>2, <1>4, <3>1 DEF IoError
  <2>. QED
    BY Zenon, <2>1, <2>2
<1>5. CASE PowerCut
  <2>1. \A n \in Len(stable.journal)..Len(journalFile) : n \in 0..Len(journalFile)
    BY DEF FilesTyped, MediumTyped
  <2>2. \A n \in Len(stable.journal)..Len(journalFile) : SubSeq(journalFile, 1, n) \in Seq(Records)
    BY Zenon, <2>1, PrefixType DEF FilesTyped
  <2>3. FilesTyped'
    BY Zenon, <1>5, <2>2 DEF PowerCut, FilesTyped, MediumTyped
  <2>4. MediumTyped'
    BY Zenon, <1>5, <2>3 DEF PowerCut, FilesTyped, MediumTyped
  <2>5. ControlTyped' /\ MemoryTyped'
    BY Zenon, <1>5, ForgetTypes DEF PowerCut, ControlTyped, MutationSteps
  <2>. QED
    BY Zenon, <1>1, <1>5, <2>3, <2>4, <2>5 DEF PowerCut
<1>. QED
  BY Zenon, <1>3, <1>4, <1>5

\* create_new leaves a well-typed store.
LEMMA InitTypes == Init => TypeOK
<1> SUFFICES ASSUME Init PROVE TypeOK
  BY Zenon
<1>1. <<>> \in Seq(Records)
  OBVIOUS
<1>2. FilesTyped /\ MediumTyped /\ MemoryTyped /\ CallersTyped
  BY Zenon, <1>1, EmptyTypes DEF Init, FilesTyped, MediumTyped, MemoryTyped, CallersTyped
<1>3. ControlTyped
  BY Zenon, EmptyTypes DEF Init, ControlTyped, MutationSteps
<1>. QED
  BY Zenon, <1>2, <1>3 DEF TypeOK

\* Every step keeps the types.
LEMMA NextTypes == TypeOK /\ [Next]_vars => TypeOK'
<1> SUFFICES ASSUME TypeOK, [Next]_vars PROVE TypeOK'
  BY Zenon
<1>1. ASSUME NEW m \in ledger, Reconcile(m) PROVE TypeOK'
  <2>1. CallersTyped'
    BY Zenon, <1>1 DEF TypeOK, Reconcile, CallersTyped, MemoryTyped
  <2>2. ControlTyped'
    BY Zenon, <1>1 DEF TypeOK, Reconcile, ControlTyped, control, files, Pending
  <2>. QED
    BY Zenon, <1>1, <2>1, <2>2, UnchangedTypes DEF TypeOK, Reconcile
<1>2. CASE UNCHANGED vars
  <2>1. ControlTyped'
    BY Zenon, <1>2 DEF TypeOK, vars, ControlTyped, control, files, Pending
  <2>. QED
    BY Zenon, <1>2, <2>1, UnchangedTypes DEF TypeOK, vars
<1>. QED
  BY Zenon, <1>1, <1>2, MutateTypes, MaintainTypes, RecoverTypes, FaultTypes DEF Next

\* Every reachable state of the service, its files and its callers is well
\* typed, whatever faults happen.
THEOREM TypeCorrect == Spec => []TypeOK
  BY InitTypes, NextTypes, PTL DEF Spec
=============================================================================
