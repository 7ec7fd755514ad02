--------------------------- MODULE ServicesProofs ----------------------------
(***************************************************************************)
(* Proofs about two services that account for what they let happen: the    *)
(* ledger of redeemed tokens (ReplayLedger), and the runtime whose         *)
(* operations are audited (RuntimeService).                                *)
(***************************************************************************)
EXTENDS ReplayLedger, RuntimeService, NaturalsInduction, WellFoundedInduction, TLAPS

-----------------------------------------------------------------------------
(***************************************************************************)
(* That no assertion is released twice, for every set of tokens and proofs *)
(* and every bound.  What was released has a whole frame on the disk, and  *)
(* a ledger in memory remembers it or is past its expiry.                  *)
(***************************************************************************)

Prints == {Fingerprint(x) : x \in Presented}
Expiries == {x.expires : x \in Presented}
WholeFrames == [torn : {FALSE}, sequence : Nat, fingerprint : Prints, expires : Expiries, previous : Nat]
Frames == {Torn} \cup WholeFrames

ReplayTypes ==
    /\ ledger = Closed \/ ledger \in Ledgers
    /\ frames \in Seq(Frames) /\ ledgerDurable \in 0..Len(frames)
    /\ walltime \in 0..MaxNow /\ unknown \in BOOLEAN /\ admissions \in Seq(Prints)

\* Some assertion of that fingerprint and expiry verifies at some time.
Verified(f, e) ==
    \E x \in Presented, t \in 0..MaxNow : Fingerprint(x) = f /\ x.expires = e /\ Verifies(x, t)

\* The frames hold what was verified, and what was released is on the disk.
FramesTrue ==
    \A i \in 1..Len(frames) : ~frames[i].torn => Verified(frames[i].fingerprint, frames[i].expires)
OnTheDisk(f) == \E i \in 1..ledgerDurable : ~frames[i].torn /\ frames[i].fingerprint = f

\* An open ledger remembers what was released until it is past its expiry.
Past(f) == \E x \in Presented : x.expires < walltime /\ Verified(f, x.expires)
EntriesTrue ==
    ledger # Closed => \A f \in DOMAIN ledger.entries : Verified(f, ledger.entries[f])
Remembers ==
    ledger # Closed => \A k \in 1..Len(admissions) :
                          admissions[k] \in DOMAIN ledger.entries \/ Past(admissions[k])

\* Until an append ends with an unknown outcome the ledger in memory continues the file.
Continues ==
    ledger # Closed => /\ Chained(Len(frames))
                       /\ ledger.sequence = Len(frames) + 1 /\ ledger.previous = Len(frames)

ReplayInv ==
    /\ ReplayTypes /\ FramesTrue /\ EntriesTrue /\ Remembers
    /\ \A k \in 1..Len(admissions) : OnTheDisk(admissions[k])
    /\ \A j, k \in 1..Len(admissions) : admissions[j] = admissions[k] => j = k
    /\ ~unknown => Recovered # {} /\ Continues

-------------------------------------------------------------------------------
(* Least and greatest elements, frames and what they verify *)

LEMMA LeastOf ==
    ASSUME NEW T, T \subseteq Nat, T # {}
    PROVE  \E x \in T : \A y \in T : x <= y
<1>1. PICK R : R = OpToRel(<, Nat)
  BY Zenon
<1>2. IsWellFoundedOn(R, Nat)
  BY Zenon, <1>1, NatLessThanWellFounded
<1>3. PICK x \in T : \A y \in T : ~ (<<y, x>> \in R)
  BY <1>2, WFMin, Zenon
<1>4. ASSUME NEW y \in Nat, NEW z \in Nat, y < z PROVE <<y, z>> \in R
  BY Zenon, <1>1, <1>4 DEF OpToRel
<1>5. x \in Nat /\ \A y \in T : y \in Nat
  BY Zenon
<1>6. ASSUME NEW y \in T PROVE x <= y
  <2>1. ~(y < x)
    BY Zenon, <1>3, <1>4, <1>5
  <2> QED BY <2>1, <1>5
<1> QED BY Zenon, <1>6

LEMMA GreatestOf ==
    ASSUME NEW n \in Nat, NEW S \in SUBSET (0..n), S # {}
    PROVE  \E i \in S : \A j \in S : j <= i
<1>1. PICK T : T = {k \in Nat : \E i \in S : k = n - i}
  BY Zenon
<1>2. T \subseteq Nat /\ T # {}
  <2>1. PICK i \in S : TRUE
    BY Zenon
  <2>2. n - i \in Nat
    OBVIOUS
  <2>3. n - i \in T
    BY Zenon, <1>1, <2>2
  <2> QED BY Zenon, <1>1, <2>3
<1>3. PICK x \in T : \A y \in T : x <= y
  BY Zenon, <1>2, LeastOf
<1>4. PICK i \in S : x = n - i
  BY Zenon, <1>1, <1>3
<1>5. ASSUME NEW j \in S PROVE j <= i
  <2>1. n - j \in T
    BY <1>1
  <2>2. n - i <= n - j
    BY Zenon, <1>3, <1>4, <2>1
  <2> QED BY <2>2
<1> QED BY Zenon, <1>5

LEMMA OneExpiry ==
    ASSUME ReplayAssumption, NEW f, NEW d, NEW e, Verified(f, d), Verified(f, e)
    PROVE  d = e
<1>1. PICK x \in Presented, s \in 0..MaxNow : Fingerprint(x) = f /\ x.expires = d /\ Verifies(x, s)
  BY Zenon DEF Verified
<1>2. PICK y \in Presented, t \in 0..MaxNow : Fingerprint(y) = f /\ y.expires = e /\ Verifies(y, t)
  BY Zenon DEF Verified
<1> QED BY Zenon, <1>1, <1>2 DEF ReplayAssumption

LEMMA VerifiedTyped ==
    ASSUME ReplayAssumption, NEW f, NEW e, Verified(f, e)
    PROVE  f \in Prints /\ e \in Expiries /\ e \in Nat
BY Zenon DEF ReplayAssumption, Verified, Prints, Expiries

LEMMA TornOrWhole ==
    ASSUME NEW f \in Frames
    PROVE  f \in WholeFrames \/ f.torn = TRUE
BY DEF Frames, Torn

LEMMA WholeIsWhole ==
    ASSUME NEW f \in WholeFrames
    PROVE  f.torn = FALSE /\ f.fingerprint \in Prints /\ f.expires \in Expiries
BY Zenon DEF WholeFrames

\* What an admissible assertion is written as.
LEMMA NewFrame ==
    ASSUME ReplayAssumption, ReplayInv, ledger # Closed, NEW x \in Presented, Admissible(x),
           NEW f, f = EncodeReplayBody(ledger.sequence, x, ledger.previous)
    PROVE  /\ f \in WholeFrames /\ Verified(f.fingerprint, f.expires)
           /\ f.sequence = ledger.sequence /\ f.previous = ledger.previous
           /\ f.fingerprint = Fingerprint(x) /\ f.expires = x.expires /\ f.torn = FALSE
           /\ Verified(Fingerprint(x), x.expires)
<1>1. ledger.sequence \in Nat /\ ledger.previous \in Nat
  BY Zenon DEF ReplayInv, ReplayTypes, Ledgers
<1>2. Verified(Fingerprint(x), x.expires)
  BY Zenon DEF Admissible, Verified, ReplayInv, ReplayTypes
<1>3. Fingerprint(x) \in Prints /\ x.expires \in Expiries
  BY Zenon, <1>2, VerifiedTyped
<1>4. /\ f.sequence = ledger.sequence /\ f.previous = ledger.previous
      /\ f.fingerprint = Fingerprint(x) /\ f.expires = x.expires /\ f.torn = FALSE
  BY Zenon DEF EncodeReplayBody
<1>5. f \in WholeFrames
  BY Zenon, <1>1, <1>3 DEF EncodeReplayBody, WholeFrames
<1> QED BY Zenon, <1>2, <1>4, <1>5

LEMMA SomeFrame ==
    ASSUME ReplayAssumption, ReplayInv, ledger # Closed, NEW x \in Presented, Admissible(x),
           NEW f \in {Torn, EncodeReplayBody(ledger.sequence, x, ledger.previous)}
    PROVE  f \in Frames /\ (f.torn \/ Verified(f.fingerprint, f.expires))
<1>1. CASE f = Torn
  BY Zenon, <1>1 DEF Frames, Torn
<1>2. CASE f = EncodeReplayBody(ledger.sequence, x, ledger.previous)
  BY Zenon, <1>2, NewFrame DEF Frames
<1> QED BY Zenon, <1>1, <1>2

LEMMA FrameAppended ==
    ASSUME ReplayInv, NEW f \in Frames, frames' = Append(frames, f),
           f.torn \/ Verified(f.fingerprint, f.expires)
    PROVE  /\ frames' \in Seq(Frames) /\ Len(frames') = Len(frames) + 1 /\ Len(frames) \in Nat
           /\ \A i \in 1..Len(frames) : frames'[i] = frames[i]
           /\ frames'[Len(frames) + 1] = f
           /\ FramesTrue'
<1>1. frames \in Seq(Frames)
  BY Zenon DEF ReplayInv, ReplayTypes
<1>2. /\ frames' \in Seq(Frames) /\ Len(frames') = Len(frames) + 1 /\ Len(frames) \in Nat
      /\ \A i \in 1..Len(frames) : frames'[i] = frames[i]
      /\ frames'[Len(frames) + 1] = f
  BY <1>1
<1>3. ASSUME NEW i \in 1..Len(frames'), ~frames'[i].torn
      PROVE  Verified(frames'[i].fingerprint, frames'[i].expires)
  <2>1. CASE i = Len(frames) + 1
    BY Zenon, <1>2, <1>3, <2>1
  <2>2. CASE i \in 1..Len(frames)
    BY Zenon, <1>2, <1>3, <2>2 DEF ReplayInv, FramesTrue
  <2> QED BY <1>2, <2>1, <2>2
<1> QED BY Zenon, <1>2, <1>3 DEF FramesTrue, Verified

LEMMA CutTo ==
    ASSUME ReplayInv, NEW n \in 0..Len(frames), frames' = SubSeq(frames, 1, n)
    PROVE  /\ frames' \in Seq(Frames) /\ Len(frames') = n /\ n \in Nat /\ Len(frames) \in Nat
           /\ \A i \in 1..n : frames'[i] = frames[i]
           /\ FramesTrue'
<1>1. frames \in Seq(Frames) /\ Len(frames) \in Nat
  BY DEF ReplayInv, ReplayTypes
<1>2. /\ frames' \in Seq(Frames) /\ Len(frames') = n /\ n \in Nat
      /\ \A i \in 1..n : frames'[i] = frames[i]
  BY <1>1
<1>3. ASSUME NEW i \in 1..Len(frames'), ~frames'[i].torn
      PROVE  Verified(frames'[i].fingerprint, frames'[i].expires)
  BY <1>1, <1>2, <1>3 DEF ReplayInv, FramesTrue
<1> QED BY Zenon, <1>1, <1>2, <1>3 DEF FramesTrue, Verified

LEMMA SameChain ==
    ASSUME NEW n \in Nat, Chained(n), \A i \in 1..n : frames'[i] = frames[i]
    PROVE  Chained(n)'
<1> SUFFICES ASSUME NEW i \in 1..n
             PROVE  ~frames'[i].torn /\ frames'[i].sequence = i /\ frames'[i].previous = TagBefore(i)'
  BY Zenon DEF Chained
<1>1. ~frames[i].torn /\ frames[i].sequence = i /\ frames[i].previous = TagBefore(i) /\ frames'[i] = frames[i]
  BY Zenon DEF Chained
<1>2. TagBefore(i)' = TagBefore(i)
  <2>1. CASE i = 1
    BY Zenon, <2>1 DEF TagBefore
  <2>2. CASE i # 1
    <3>1. i - 1 \in 1..n
      BY <2>2
    <3> QED BY Zenon, <2>2, <3>1 DEF TagBefore
  <2> QED BY Zenon, <2>1, <2>2
<1> QED BY Zenon, <1>1, <1>2

-------------------------------------------------------------------------------
(* Opening the ledger *)

\* recover_replay keeps, of each fingerprint, the expiry of a frame that has it.
LEMMA RecoveredEntries ==
    ASSUME ReplayAssumption, ReplayInv, NEW n \in Recovered, NEW r, r = RecoverReplay(n)
    PROVE  /\ r \in Ledgers /\ r.sequence = n + 1 /\ r.previous = n
           /\ DOMAIN r.entries = {frames[i].fingerprint : i \in 1..n}
           /\ \A f \in DOMAIN r.entries : Verified(f, r.entries[f])
<1>1. n \in 0..Len(frames) /\ n \in Nat /\ Chained(n) /\ frames \in Seq(Frames) /\ Len(frames) \in Nat
  BY DEF Recovered, ReplayInv, ReplayTypes
<1>2. ASSUME NEW i \in 1..n
      PROVE  ~frames[i].torn /\ frames[i] \in WholeFrames /\ Verified(frames[i].fingerprint, frames[i].expires)
  <2>1. i \in 1..Len(frames) /\ ~frames[i].torn /\ frames[i] \in Frames
    BY <1>1 DEF Chained
  <2> QED BY Zenon, <2>1, TornOrWhole DEF ReplayInv, FramesTrue
<1>3. PICK d : d = {frames[i].fingerprint : i \in 1..n}
  BY Zenon
<1>4. PICK L : L = [f \in d |-> CHOOSE i \in 1..n : /\ frames[i].fingerprint = f
                                                   /\ \A j \in (i + 1)..n : frames[j].fingerprint # f]
  BY Zenon
<1>5. ASSUME NEW f \in d PROVE L[f] \in 1..n /\ frames[L[f]].fingerprint = f
  <2>1. PICK S : S = {i \in 1..n : frames[i].fingerprint = f}
    BY Zenon
  <2>2. S \in SUBSET (0..n) /\ S # {}
    BY <1>3, <2>1
  <2>3. PICK i \in S : \A j \in S : j <= i
    BY Zenon, <1>1, <2>2, GreatestOf
  <2>4. i \in 1..n /\ frames[i].fingerprint = f /\ \A j \in (i + 1)..n : frames[j].fingerprint # f
    BY <1>1, <2>1, <2>3
  <2> QED BY Zenon, <1>4, <2>4
<1>6. PICK g : g = [f \in d |-> frames[CHOOSE i \in 1..n :
                                           /\ frames[i].fingerprint = f
                                           /\ \A j \in (i + 1)..n : frames[j].fingerprint # f].expires]
  BY Zenon
<1>7. /\ r = [sequence |-> n + 1, previous |-> n, entries |-> g]
      /\ \A f \in d : g[f] = frames[L[f]].expires
  BY <1>3, <1>4, <1>6 DEF RecoverReplay
<1>8. r.sequence = n + 1 /\ r.previous = n /\ r.entries = g /\ DOMAIN g = d
  BY <1>6, <1>7
<1>9. ASSUME NEW f \in d PROVE Verified(f, g[f]) /\ f \in Prints /\ g[f] \in Expiries
  BY <1>2, <1>5, <1>7, VerifiedTyped
<1>10. g \in [d -> Expiries] /\ d \in SUBSET Prints
  BY Zenon, <1>6, <1>9
<1>11. r \in Ledgers
  BY <1>1, <1>7, <1>10 DEF Ledgers, Prints, Expiries
<1> QED BY Zenon, <1>3, <1>8, <1>9, <1>11

LEMMA OpenKeeps ==
    ASSUME ReplayAssumption, ReplayInv, Open
    PROVE  ReplayInv'
<1>1. PICK n \in Recovered : /\ ledger' = RecoverReplay(n) /\ frames' = SubSeq(frames, 1, n)
                             /\ ledgerDurable' = IF n < Len(frames) THEN n ELSE ledgerDurable
  BY Zenon DEF Open
<1>2. UNCHANGED <<walltime, unknown, admissions>>
  BY Zenon DEF Open
<1>3. /\ n \in 0..Len(frames) /\ n \in Nat /\ Chained(n) /\ Len(frames) \in Nat /\ ledgerDurable \in 0..Len(frames)
      /\ \A i \in (n + 1)..Len(frames) : frames[i].torn
  BY DEF Recovered, ReplayInv, ReplayTypes
<1>4. /\ frames' \in Seq(Frames) /\ Len(frames') = n /\ FramesTrue'
      /\ \A i \in 1..n : frames'[i] = frames[i]
  BY Zenon, <1>1, <1>3, CutTo
<1>5. /\ ledger' \in Ledgers /\ ledger'.sequence = n + 1 /\ ledger'.previous = n
      /\ DOMAIN ledger'.entries = {frames[i].fingerprint : i \in 1..n}
      /\ \A f \in DOMAIN ledger'.entries : Verified(f, ledger'.entries[f])
  BY Zenon, <1>1, RecoveredEntries
<1>6. ledger' # Closed
  BY Zenon, <1>5 DEF ReplayAssumption
<1>7. ReplayTypes'
  <2>1. ledgerDurable' \in 0..Len(frames')
    BY <1>1, <1>3, <1>4
  <2> QED BY Zenon, <1>2, <1>4, <1>5, <2>1 DEF ReplayInv, ReplayTypes
<1>8. ASSUME NEW k \in 1..Len(admissions)
      PROVE  OnTheDisk(admissions[k])' /\ admissions[k] \in DOMAIN ledger'.entries
  <2>1. PICK i \in 1..ledgerDurable : ~frames[i].torn /\ frames[i].fingerprint = admissions[k]
    BY Zenon DEF ReplayInv, OnTheDisk
  <2>2. i \in 1..n
    BY <1>3, <2>1
  <2>3. i \in 1..ledgerDurable' /\ frames'[i] = frames[i]
    BY Zenon, <1>1, <1>4, <2>2
  <2> QED BY Zenon, <1>2, <1>5, <2>1, <2>2, <2>3 DEF OnTheDisk
<1>9. EntriesTrue' /\ Remembers'
  BY Zenon, <1>2, <1>5, <1>8 DEF EntriesTrue, Remembers
<1>10. Chained(n)'
  BY Zenon, <1>3, <1>4, SameChain
<1>11. Recovered' # {} /\ Continues'
  <2>1. n \in Recovered'
    BY <1>3, <1>4, <1>10 DEF Recovered
  <2> QED BY Zenon, <1>4, <1>5, <1>10, <2>1 DEF Continues
<1>12. \A k \in 1..Len(admissions') : OnTheDisk(admissions[k])'
  BY Zenon, <1>2, <1>8
<1> QED BY Zenon, <1>2, <1>4, <1>7, <1>9, <1>11, <1>12 DEF ReplayInv

-------------------------------------------------------------------------------
(* Recording an assertion *)

LEMMA PruneKeeps ==
    ASSUME ReplayAssumption, ReplayInv, ledger # Closed
    PROVE  /\ ledger \in Ledgers /\ Kept \in SUBSET Prints /\ Kept \subseteq DOMAIN ledger.entries
           /\ \A f \in Kept : Verified(f, ledger.entries[f]) /\ ledger.entries[f] \in Expiries
           /\ \A k \in 1..Len(admissions) : admissions[k] \in Kept \/ Past(admissions[k])
<1>1. ledger \in Ledgers
  BY Zenon DEF ReplayInv, ReplayTypes
<1>2. Kept \subseteq DOMAIN ledger.entries
  BY Zenon DEF Kept
<1>3. \A f \in DOMAIN ledger.entries : Verified(f, ledger.entries[f])
  BY Zenon DEF ReplayInv, EntriesTrue
<1>4. \A f \in DOMAIN ledger.entries : f \in Prints /\ ledger.entries[f] \in Expiries /\ ledger.entries[f] \in Nat
  BY Zenon, <1>3, VerifiedTyped
<1>5. ASSUME NEW k \in 1..Len(admissions), admissions[k] \notin Kept PROVE Past(admissions[k])
  <2>1. CASE admissions[k] \in DOMAIN ledger.entries
    <3>1. PICK e : e = ledger.entries[admissions[k]]
      BY Zenon
    <3>2. ~(e >= walltime) /\ e \in Nat /\ walltime \in Nat /\ e \in Expiries
      BY <1>4, <1>5, <2>1, <3>1 DEF Kept, ReplayInv, ReplayTypes
    <3>3. PICK x \in Presented : e = x.expires
      BY Zenon, <3>2 DEF Expiries
    <3>4. Verified(admissions[k], e)
      BY Zenon, <1>3, <2>1, <3>1
    <3>5. e < walltime
      BY <3>2
    <3> QED BY Zenon, <3>3, <3>4, <3>5 DEF Past
  <2>2. CASE admissions[k] \notin DOMAIN ledger.entries
    BY Zenon, <2>2 DEF ReplayInv, Remembers
  <2> QED BY Zenon, <2>1, <2>2
<1> QED BY Zenon, <1>1, <1>2, <1>3, <1>4, <1>5

\* The ledger after its expired entries went.
LEMMA PrunedLedger ==
    ASSUME ReplayAssumption, ReplayInv, ledger # Closed,
           NEW r, r = [ledger EXCEPT !.entries = Restrict(@, Kept)]
    PROVE  /\ r \in Ledgers /\ r.sequence = ledger.sequence /\ r.previous = ledger.previous
           /\ DOMAIN r.entries = Kept /\ \A f \in Kept : r.entries[f] = ledger.entries[f]
<1>1. PICK g : g = [f \in Kept |-> ledger.entries[f]]
  BY Zenon
<1>2. r = [ledger EXCEPT !.entries = g]
  BY Zenon, <1>1 DEF Restrict
<1>3. g \in [Kept -> Expiries]
  BY Zenon, <1>1, PruneKeeps
<1>4. r.sequence = ledger.sequence /\ r.previous = ledger.previous /\ r.entries = g
  BY Zenon, <1>2, PruneKeeps DEF Ledgers
<1>5. r \in Ledgers
  <2>1. ledger \in Ledgers /\ Kept \in SUBSET Prints
    BY Zenon, PruneKeeps
  <2> QED BY <1>2, <1>3, <2>1 DEF Ledgers, Prints, Expiries
<1> QED BY Zenon, <1>1, <1>4, <1>5

\* Only the ledger moved, and it forgot what is past.
LEMMA RefusedKeeps ==
    ASSUME ReplayAssumption, ReplayInv, NEW x \in Presented, Refused(x)
    PROVE  ReplayInv'
<1>1. /\ ledger # Closed /\ ledger' = [ledger EXCEPT !.entries = Restrict(@, Kept)]
      /\ UNCHANGED <<frames, ledgerDurable, walltime, unknown, admissions>>
  BY Zenon DEF Refused
<1>2. /\ ledger' \in Ledgers /\ ledger'.sequence = ledger.sequence /\ ledger'.previous = ledger.previous
      /\ DOMAIN ledger'.entries = Kept /\ \A f \in Kept : ledger'.entries[f] = ledger.entries[f]
  BY Zenon, <1>1, PrunedLedger
<1>3. /\ \A f \in Kept : Verified(f, ledger.entries[f])
      /\ \A k \in 1..Len(admissions) : admissions[k] \in Kept \/ Past(admissions[k])
  BY Zenon, <1>1, PruneKeeps
<1>4. ReplayTypes' /\ FramesTrue' /\ EntriesTrue'
  BY Zenon, <1>1, <1>2, <1>3 DEF ReplayInv, ReplayTypes, FramesTrue, EntriesTrue
<1>5. Remembers'
  BY Zenon, <1>1, <1>2, <1>3 DEF Remembers, Past
<1>6. Continues => Continues'
  BY Zenon, <1>1, <1>2 DEF Continues, Chained, TagBefore
<1>7. Recovered' = Recovered /\ \A f : OnTheDisk(f)' = OnTheDisk(f)
  BY Zenon, <1>1 DEF Recovered, Chained, TagBefore, OnTheDisk
<1>8. \A k \in 1..Len(admissions') : OnTheDisk(admissions[k])'
  BY Zenon, <1>1 DEF ReplayInv, OnTheDisk
<1> QED BY Zenon, <1>1, <1>4, <1>5, <1>6, <1>7, <1>8 DEF ReplayInv

\* What is admissible was not released: the ledger would remember it, or it is past.
LEMMA NotReleased ==
    ASSUME ReplayAssumption, ReplayInv, ledger # Closed, NEW x \in Presented, Admissible(x),
           NEW k \in 1..Len(admissions)
    PROVE  admissions[k] # Fingerprint(x)
<1> SUFFICES ASSUME admissions[k] = Fingerprint(x) PROVE FALSE
  BY Zenon
<1>1. x.expires >= walltime /\ Fingerprint(x) \notin Kept
  BY Zenon DEF Admissible
<1>2. PICK y \in Presented : y.expires < walltime /\ Verified(Fingerprint(x), y.expires)
  BY Zenon, <1>1, PruneKeeps DEF Past
<1>3. Verified(Fingerprint(x), x.expires)
  BY Zenon DEF Admissible, Verified, ReplayInv, ReplayTypes
<1>4. x.expires = y.expires
  BY Zenon, <1>2, <1>3, OneExpiry
<1>5. x.expires \in Nat /\ walltime \in Nat
  BY DEF ReplayAssumption, ReplayInv, ReplayTypes
<1> QED BY <1>1, <1>2, <1>4, <1>5

\* A frame that continues the file continues the chain.
LEMMA ChainGrows ==
    ASSUME ReplayInv, Chained(Len(frames)), NEW f \in Frames, ~f.torn, frames' = Append(frames, f),
           f.sequence = Len(frames) + 1, f.previous = Len(frames)
    PROVE  Chained(Len(frames))'
<1>1. PICK n \in Nat : n = Len(frames)
  BY DEF ReplayInv, ReplayTypes
<1>2. (\A i \in 1..n : frames'[i] = frames[i]) /\ frames'[n + 1] = f /\ Len(frames') = n + 1
  BY <1>1 DEF ReplayInv, ReplayTypes
<1>3. Chained(n)'
  BY Zenon, <1>1, <1>2, SameChain
<1>4. TagBefore(n + 1)' = n
  <2>1. CASE n = 0
    BY <2>1 DEF TagBefore
  <2>2. CASE n # 0
    <3>1. n \in 1..n
      BY <1>1, <2>2
    <3>2. frames'[n].sequence = n
      BY Zenon, <1>1, <1>2, <3>1 DEF Chained
    <3>3. n + 1 # 1 /\ (n + 1) - 1 = n
      BY <2>2
    <3> QED BY Zenon, <3>2, <3>3 DEF TagBefore
  <2> QED BY Zenon, <2>1, <2>2
<1>5. ASSUME NEW i \in 1..(n + 1)
      PROVE  ~frames'[i].torn /\ frames'[i].sequence = i /\ frames'[i].previous = TagBefore(i)'
  <2>1. CASE i = n + 1
    BY Zenon, <1>1, <1>2, <1>4, <2>1
  <2>2. CASE i \in 1..n
    BY Zenon, <1>3, <2>2 DEF Chained
  <2>3. i = n + 1 \/ i \in 1..n
    BY <1>1
  <2> QED BY Zenon, <2>1, <2>2, <2>3
<1> QED BY Zenon, <1>2, <1>5 DEF Chained

LEMMA VerifyAndRecordKeeps ==
    ASSUME ReplayAssumption, ReplayInv, NEW x \in Presented, VerifyAndRecord(x)
    PROVE  ReplayInv'
<1>1. /\ ledger # Closed /\ Admissible(x)
      /\ admissions' = Append(admissions, Fingerprint(x)) /\ UNCHANGED <<walltime, unknown>>
  BY Zenon DEF VerifyAndRecord
<1>2. PICK f : f = EncodeReplayBody(ledger.sequence, x, ledger.previous)
  BY Zenon
<1>3. frames' = Append(frames, f) /\ ledgerDurable' = Len(frames')
  BY Zenon, <1>2 DEF VerifyAndRecord, RecordOnce
<1>4. /\ f \in WholeFrames /\ f \in Frames /\ Verified(f.fingerprint, f.expires) /\ f.torn = FALSE
      /\ f.sequence = ledger.sequence /\ f.previous = ledger.previous
      /\ f.fingerprint = Fingerprint(x) /\ f.expires = x.expires
      /\ Verified(Fingerprint(x), x.expires)
  BY Zenon, <1>1, <1>2, NewFrame DEF Frames
<1>5. /\ frames' \in Seq(Frames) /\ Len(frames') = Len(frames) + 1 /\ Len(frames) \in Nat
      /\ \A i \in 1..Len(frames) : frames'[i] = frames[i]
      /\ frames'[Len(frames) + 1] = f
      /\ FramesTrue'
  BY Zenon, <1>3, <1>4, FrameAppended
<1>6. PICK g : g = [h \in Kept \cup {Fingerprint(x)} |-> IF h = Fingerprint(x) THEN x.expires ELSE ledger.entries[h]]
  BY Zenon
<1>7. ledger' = [sequence |-> ledger.sequence + 1, previous |-> ledger.sequence, entries |-> g]
  BY Zenon, <1>6 DEF VerifyAndRecord
<1>8. /\ ledger \in Ledgers /\ Kept \in SUBSET Prints
      /\ \A h \in Kept : Verified(h, ledger.entries[h]) /\ ledger.entries[h] \in Expiries
      /\ \A k \in 1..Len(admissions) : admissions[k] \in Kept \/ Past(admissions[k])
  BY Zenon, <1>1, PruneKeeps
<1>9. ASSUME NEW h \in DOMAIN g PROVE Verified(h, g[h])
  BY Zenon, <1>4, <1>6, <1>8
<1>10. g \in [Kept \cup {Fingerprint(x)} -> Expiries] /\ Kept \cup {Fingerprint(x)} \in SUBSET Prints
  BY Zenon, <1>4, <1>6, <1>8, <1>9, VerifiedTyped
<1>11. ledger' \in Ledgers /\ ledger'.entries = g
  <2>1. ledger.sequence \in Nat
    BY Zenon, <1>8 DEF Ledgers
  <2>2. PICK D : D = Kept \cup {Fingerprint(x)}
    BY Zenon
  <2>3. g \in [D -> Expiries] /\ D \in SUBSET Prints
    BY Zenon, <1>10, <2>2
  <2>4. g \in UNION {[d -> Expiries] : d \in SUBSET Prints}
    BY Zenon, <2>3
  <2>5. ledger.sequence + 1 \in Nat
    BY <2>1
  <2> QED BY Zenon, <1>7, <2>1, <2>4, <2>5 DEF Ledgers, Prints, Expiries
<1>12. /\ admissions \in Seq(Prints) /\ admissions' \in Seq(Prints) /\ Len(admissions) \in Nat
       /\ Len(admissions') = Len(admissions) + 1
       /\ \A k \in 1..Len(admissions) : admissions'[k] = admissions[k]
       /\ admissions'[Len(admissions) + 1] = Fingerprint(x)
  BY <1>1, <1>10 DEF ReplayInv, ReplayTypes
<1>13. ReplayTypes'
  <2>1. ledgerDurable' \in 0..Len(frames') /\ walltime' \in 0..MaxNow /\ unknown' \in BOOLEAN
    BY <1>1, <1>3, <1>5 DEF ReplayInv, ReplayTypes
  <2> QED BY Zenon, <2>1, <1>5, <1>11, <1>12 DEF ReplayTypes
<1>14. EntriesTrue'
  BY Zenon, <1>9, <1>11 DEF EntriesTrue
<1>15. ASSUME NEW k \in 1..Len(admissions')
       PROVE  admissions'[k] \in DOMAIN g \/ Past(admissions'[k])
  <2>1. CASE k = Len(admissions) + 1
    BY Zenon, <1>6, <1>12, <2>1
  <2>2. CASE k \in 1..Len(admissions)
    BY Zenon, <1>6, <1>8, <1>12, <2>2
  <2> QED BY <1>12, <2>1, <2>2
<1>16. Remembers'
  BY Zenon, <1>1, <1>11, <1>15 DEF Remembers, Past
<1>17. ASSUME NEW k \in 1..Len(admissions') PROVE OnTheDisk(admissions[k])'
  <2>1. CASE k = Len(admissions) + 1
    BY <1>3, <1>4, <1>5, <1>12, <2>1 DEF OnTheDisk
  <2>2. CASE k \in 1..Len(admissions)
    <3>1. PICK i \in 1..ledgerDurable : ~frames[i].torn /\ frames[i].fingerprint = admissions[k]
      BY Zenon, <2>2 DEF ReplayInv, OnTheDisk
    <3>2. i \in 1..Len(frames) /\ i \in 1..ledgerDurable'
      BY <1>3, <1>5 DEF ReplayInv, ReplayTypes
    <3> QED BY Zenon, <1>5, <1>12, <2>2, <3>1, <3>2 DEF OnTheDisk
  <2> QED BY <1>12, <2>1, <2>2
<1>18. ASSUME NEW j \in 1..Len(admissions'), NEW k \in 1..Len(admissions'), admissions'[j] = admissions'[k]
       PROVE  j = k
  <2>1. \A i \in 1..Len(admissions) : admissions[i] # Fingerprint(x)
    BY Zenon, <1>1, NotReleased
  <2>2. \A a, b \in 1..Len(admissions) : admissions[a] = admissions[b] => a = b
    BY Zenon DEF ReplayInv
  <2> QED BY <1>12, <1>18, <2>1, <2>2
<1>19. ASSUME ~unknown PROVE Recovered' # {} /\ Continues'
  <2>1. Chained(Len(frames)) /\ ledger.sequence = Len(frames) + 1 /\ ledger.previous = Len(frames)
    BY Zenon, <1>1, <1>19 DEF ReplayInv, Continues
  <2>3. Chained(Len(frames))'
    BY Zenon, <1>3, <1>4, <2>1, ChainGrows
  <2>4. ledger'.sequence = Len(frames') + 1 /\ ledger'.previous = Len(frames')
    BY Zenon, <1>5, <1>7, <2>1
  <2>5. Len(frames') \in Recovered'
    BY <1>5, <2>3 DEF Recovered
  <2> QED BY Zenon, <2>3, <2>4, <2>5 DEF Continues
<1> QED BY Zenon, <1>1, <1>5, <1>13, <1>14, <1>16, <1>17, <1>18, <1>19 DEF ReplayInv

-------------------------------------------------------------------------------
(* Faults, time and the operator *)

\* The process is gone or has no more than it had, and the file only grew by a frame.
LEMMA DiskOutlives ==
    ASSUME ReplayInv, ledgerDurable' = ledgerDurable, admissions' = admissions,
           \A i \in 1..ledgerDurable : frames'[i] = frames[i],
           NEW k \in 1..Len(admissions')
    PROVE  OnTheDisk(admissions[k])'
<1>1. OnTheDisk(admissions[k])
  BY Zenon DEF ReplayInv
<1> QED BY Zenon, <1>1 DEF OnTheDisk

LEMMA RecordUnknownKeeps ==
    ASSUME ReplayAssumption, ReplayInv, NEW x \in Presented, RecordUnknown(x)
    PROVE  ReplayInv'
<1>1. /\ ledger # Closed /\ Admissible(x) /\ ledger' = [ledger EXCEPT !.entries = Restrict(@, Kept)]
      /\ unknown' = TRUE /\ UNCHANGED <<ledgerDurable, walltime, admissions>>
  BY Zenon DEF RecordUnknown
<1>2. PICK f \in {Torn, EncodeReplayBody(ledger.sequence, x, ledger.previous)} : frames' = Append(frames, f)
  BY Zenon DEF RecordUnknown
<1>3. f \in Frames /\ (f.torn \/ Verified(f.fingerprint, f.expires))
  BY Zenon, <1>1, <1>2, SomeFrame
<1>4. /\ frames' \in Seq(Frames) /\ Len(frames') = Len(frames) + 1 /\ Len(frames) \in Nat
      /\ \A i \in 1..Len(frames) : frames'[i] = frames[i]
      /\ FramesTrue'
  BY Zenon, <1>2, <1>3, FrameAppended
<1>5. /\ ledger' \in Ledgers /\ DOMAIN ledger'.entries = Kept
      /\ \A h \in Kept : ledger'.entries[h] = ledger.entries[h]
  BY Zenon, <1>1, PrunedLedger
<1>6. /\ \A h \in Kept : Verified(h, ledger.entries[h])
      /\ \A k \in 1..Len(admissions) : admissions[k] \in Kept \/ Past(admissions[k])
  BY Zenon, <1>1, PruneKeeps
<1>7. ReplayTypes'
  <2>1. ledgerDurable' \in 0..Len(frames')
    BY <1>1, <1>4 DEF ReplayInv, ReplayTypes
  <2> QED BY Zenon, <1>1, <1>4, <1>5, <2>1 DEF ReplayInv, ReplayTypes
<1>8. EntriesTrue'
  BY Zenon, <1>5, <1>6 DEF EntriesTrue
<1>9. Remembers'
  BY Zenon, <1>1, <1>5, <1>6 DEF Remembers, Past
<1>10. \A i \in 1..ledgerDurable : frames'[i] = frames[i]
  BY <1>4 DEF ReplayInv, ReplayTypes
<1>11. \A k \in 1..Len(admissions') : OnTheDisk(admissions[k])'
  BY Zenon, <1>1, <1>10, DiskOutlives
<1> QED BY Zenon, <1>1, <1>4, <1>7, <1>8, <1>9, <1>11 DEF ReplayInv

LEMMA KillKeeps ==
    ASSUME ReplayAssumption, ReplayInv, Kill
    PROVE  ReplayInv'
<1>1. /\ ledger # Closed /\ ledger' = Closed
      /\ UNCHANGED <<ledgerDurable, walltime, unknown, admissions>>
  BY Zenon DEF Kill
<1>2. CASE UNCHANGED frames
  <2>1. Recovered' = Recovered
    BY Zenon, <1>2 DEF Recovered, Chained, TagBefore
  <2>2. ReplayTypes' /\ FramesTrue' /\ EntriesTrue' /\ Remembers' /\ Continues'
    BY Zenon, <1>1, <1>2 DEF ReplayInv, ReplayTypes, FramesTrue, EntriesTrue, Remembers, Continues
  <2>3. \A k \in 1..Len(admissions') : OnTheDisk(admissions[k])'
    BY Zenon, <1>1, <1>2, DiskOutlives
  <2> QED BY Zenon, <1>1, <2>1, <2>2, <2>3 DEF ReplayInv
<1>3. ASSUME NEW x \in Presented, Admissible(x),
             NEW f \in {Torn, EncodeReplayBody(ledger.sequence, x, ledger.previous)}, frames' = Append(frames, f)
      PROVE  ReplayInv'
  <2>1. f \in Frames /\ (f.torn \/ Verified(f.fingerprint, f.expires))
    BY Zenon, <1>1, <1>3, SomeFrame
  <2>2. /\ frames' \in Seq(Frames) /\ Len(frames') = Len(frames) + 1 /\ Len(frames) \in Nat
        /\ \A i \in 1..Len(frames) : frames'[i] = frames[i]
        /\ frames'[Len(frames) + 1] = f
        /\ FramesTrue'
    BY Zenon, <1>3, <2>1, FrameAppended
  <2>3. ReplayTypes'
    <3>1. ledgerDurable' \in 0..Len(frames')
      BY <1>1, <2>2 DEF ReplayInv, ReplayTypes
    <3> QED BY Zenon, <1>1, <2>2, <3>1 DEF ReplayInv, ReplayTypes
  <2>4. EntriesTrue' /\ Remembers' /\ Continues'
    BY Zenon, <1>1 DEF EntriesTrue, Remembers, Continues
  <2>5. \A i \in 1..ledgerDurable : frames'[i] = frames[i]
    BY <2>2 DEF ReplayInv, ReplayTypes
  <2>6. \A k \in 1..Len(admissions') : OnTheDisk(admissions[k])'
    BY Zenon, <1>1, <2>5, DiskOutlives
  <2>7. ASSUME ~unknown PROVE Recovered' # {}
    <3>1. Chained(Len(frames)) /\ ledger.sequence = Len(frames) + 1 /\ ledger.previous = Len(frames)
      BY Zenon, <1>1, <2>7 DEF ReplayInv, Continues
    <3>2. CASE f = Torn
      <4>1. PICK n \in Nat : n = Len(frames)
        BY Zenon, <2>2
      <4>2. Chained(n)'
        BY Zenon, <2>2, <3>1, <4>1, SameChain
      <4>3. \A i \in (n + 1)..Len(frames') : frames'[i].torn
        BY <2>2, <3>2, <4>1 DEF Torn
      <4>4. n \in Recovered'
        BY <2>2, <4>1, <4>2, <4>3 DEF Recovered
      <4> QED BY Zenon, <4>4
    <3>3. CASE f = EncodeReplayBody(ledger.sequence, x, ledger.previous)
      <4>1. ~f.torn /\ f.sequence = Len(frames) + 1 /\ f.previous = Len(frames)
        BY Zenon, <1>1, <1>3, <3>1, <3>3, NewFrame
      <4>2. Chained(Len(frames))'
        BY Zenon, <1>3, <2>1, <3>1, <4>1, ChainGrows
      <4>3. Len(frames') \in Recovered'
        BY <2>2, <4>2 DEF Recovered
      <4> QED BY Zenon, <4>3
    <3> QED BY Zenon, <1>3, <3>2, <3>3
  <2> QED BY Zenon, <1>1, <2>2, <2>3, <2>4, <2>6, <2>7 DEF ReplayInv
<1> QED BY Zenon, <1>2, <1>3 DEF Kill

LEMMA PowerCutKeeps ==
    ASSUME ReplayAssumption, ReplayInv, PowerCut
    PROVE  ReplayInv'
<1>1. ledger' = Closed /\ ledgerDurable' = Len(frames') /\ UNCHANGED <<walltime, unknown, admissions>>
  BY Zenon DEF PowerCut
<1>2. PICK m \in ledgerDurable..Len(frames) : frames' = SubSeq(frames, 1, m)
  BY Zenon DEF PowerCut
<1>3. m \in 0..Len(frames) /\ ledgerDurable \in 0..Len(frames) /\ m >= ledgerDurable
  BY <1>2 DEF ReplayInv, ReplayTypes
<1>4. /\ frames' \in Seq(Frames) /\ Len(frames') = m /\ m \in Nat /\ Len(frames) \in Nat
      /\ \A i \in 1..m : frames'[i] = frames[i]
      /\ FramesTrue'
  BY Zenon, <1>2, <1>3, CutTo
<1>5. ReplayTypes'
  BY <1>1, <1>4 DEF ReplayInv, ReplayTypes
<1>6. EntriesTrue' /\ Remembers' /\ Continues'
  BY Zenon, <1>1 DEF EntriesTrue, Remembers, Continues
<1>7. ASSUME NEW k \in 1..Len(admissions') PROVE OnTheDisk(admissions[k])'
  <2>1. PICK i \in 1..ledgerDurable : ~frames[i].torn /\ frames[i].fingerprint = admissions[k]
    BY Zenon, <1>1 DEF ReplayInv, OnTheDisk
  <2>2. i \in 1..m /\ i \in 1..ledgerDurable'
    BY <1>1, <1>3, <1>4
  <2> QED BY Zenon, <1>1, <1>4, <2>1, <2>2 DEF OnTheDisk
<1>8. ASSUME ~unknown PROVE Recovered' # {}
  <2>1. PICK n \in 0..Len(frames) : Chained(n) /\ \A i \in (n + 1)..Len(frames) : frames[i].torn
    BY Zenon, <1>8 DEF ReplayInv, Recovered
  <2>2. PICK p \in Nat : p <= n /\ p <= m /\ (p = n \/ p = m)
    <3>1. n \in Nat /\ m \in Nat
      BY <1>4
    <3>2. CASE n <= m
      BY <3>1, <3>2
    <3>3. CASE ~(n <= m)
      <4>1. m <= n
        BY <3>1, <3>3
      <4> QED BY <3>1, <4>1
    <3> QED BY Zenon, <3>2, <3>3
  <2>3. Chained(p)
    BY <2>1, <2>2 DEF Chained
  <2>4. Chained(p)'
    BY <1>4, <2>2, <2>3, SameChain
  <2>5. \A i \in (p + 1)..m : frames'[i].torn
    BY <1>3, <1>4, <2>1, <2>2
  <2>6. p \in Recovered'
    BY <1>4, <2>2, <2>4, <2>5 DEF Recovered
  <2> QED BY Zenon, <2>6
<1> QED BY Zenon, <1>1, <1>4, <1>5, <1>6, <1>7, <1>8 DEF ReplayInv

LEMMA RestKeeps ==
    ASSUME ReplayAssumption, ReplayInv, UNCHANGED <<frames, ledgerDurable, unknown, admissions>>,
           ledger' = ledger \/ ledger' = Closed,
           walltime' \in 0..MaxNow, walltime' >= walltime
    PROVE  ReplayInv'
<1>1. ReplayTypes' /\ FramesTrue' /\ EntriesTrue'
  BY Zenon DEF ReplayInv, ReplayTypes, FramesTrue, EntriesTrue
<1>2. ASSUME ledger' # Closed, NEW k \in 1..Len(admissions')
      PROVE  admissions'[k] \in DOMAIN ledger'.entries \/ (Past(admissions[k]))'
  <2>1. CASE admissions[k] \in DOMAIN ledger.entries
    BY Zenon, <1>2, <2>1
  <2>2. CASE Past(admissions[k])
    <3>1. PICK x \in Presented : x.expires < walltime /\ Verified(admissions[k], x.expires)
      BY Zenon, <2>2 DEF Past
    <3>2. x.expires < walltime'
      BY <3>1 DEF ReplayAssumption, ReplayInv, ReplayTypes
    <3> QED BY Zenon, <3>1, <3>2 DEF Past
  <2> QED BY Zenon, <1>2, <2>1, <2>2 DEF ReplayInv, Remembers
<1>3. Remembers'
  BY Zenon, <1>2 DEF Remembers
<1>4. Recovered' = Recovered
  BY Zenon DEF Recovered, Chained, TagBefore
<1>5. Continues => Continues'
  BY Zenon DEF Continues, Chained, TagBefore
<1>6. \A k \in 1..Len(admissions') : OnTheDisk(admissions[k])'
  BY Zenon, DiskOutlives
<1> QED BY Zenon, <1>1, <1>3, <1>4, <1>5, <1>6 DEF ReplayInv

-------------------------------------------------------------------------------
(* The invariant, and what it gives *)

LEMMA ReplayInitial ==
    ASSUME ReplayAssumption, ReplayLedgerInit
    PROVE  ReplayInv
<1>1. ReplayTypes
  <2>1. MaxNow \in Nat
    BY Zenon DEF ReplayAssumption
  <2>2. 0 \in 0..MaxNow /\ <<>> \in Seq(Frames) /\ <<>> \in Seq(Prints) /\ 0 \in 0..Len(<<>>)
    BY <2>1
  <2>3. unknown \in BOOLEAN
    BY Zenon DEF ReplayLedgerInit
  <2> QED BY Zenon, <2>2, <2>3 DEF ReplayLedgerInit, ReplayTypes
<1>2. Len(frames) = 0 /\ Len(admissions) = 0 /\ ledger = Closed
  BY Zenon DEF ReplayLedgerInit
<1>3. 0 \in Recovered
  BY <1>2 DEF Recovered, Chained
<1> QED BY <1>1, <1>2, <1>3 DEF ReplayInv, FramesTrue, EntriesTrue, Remembers, Continues

LEMMA ReplayInductive ==
    ASSUME ReplayAssumption, ReplayInv, [ReplayLedgerNext]_replayLedgerVars
    PROVE  ReplayInv'
<1>0. walltime \in 0..MaxNow /\ MaxNow \in Nat
  BY Zenon DEF ReplayAssumption, ReplayInv, ReplayTypes
<1>1. CASE Open
  BY Zenon, <1>1, OpenKeeps
<1>2. CASE OpenTampered \/ Close \/ OperatorRemovesLock \/ UNCHANGED replayLedgerVars
  <2>1. /\ UNCHANGED <<frames, ledgerDurable, unknown, admissions, walltime>>
        /\ ledger' = ledger \/ ledger' = Closed
    BY Zenon, <1>2 DEF OpenTampered, Close, OperatorRemovesLock, replayLedgerVars
  <2> QED BY <1>0, <2>1, RestKeeps
<1>3. CASE TimePasses
  <2>1. /\ UNCHANGED <<frames, ledgerDurable, unknown, admissions, ledger>>
        /\ walltime < MaxNow /\ walltime' = walltime + 1
    BY Zenon, <1>3 DEF TimePasses
  <2>2. walltime' \in 0..MaxNow /\ walltime' >= walltime
    BY <1>0, <2>1
  <2> QED BY Zenon, <2>1, <2>2, RestKeeps
<1>4. CASE Kill
  BY Zenon, <1>4, KillKeeps
<1>5. CASE PowerCut
  BY Zenon, <1>5, PowerCutKeeps
<1>6. ASSUME NEW x \in Presented, VerifyAndRecord(x) \/ Refused(x) \/ RecordUnknown(x)
      PROVE  ReplayInv'
  BY Zenon, <1>6, VerifyAndRecordKeeps, RefusedKeeps, RecordUnknownKeeps
<1> QED BY Zenon, <1>1, <1>2, <1>3, <1>4, <1>5, <1>6 DEF ReplayLedgerNext

LEMMA ReplayInvSuffices ==
    ASSUME ReplayInv
    PROVE  ReleasedOnce
<1>1. admissions \in Seq(Prints)
  BY Zenon DEF ReplayInv, ReplayTypes
<1>2. DOMAIN admissions = 1..Len(admissions)
  BY <1>1
<1> QED BY Zenon, <1>2 DEF ReplayInv, ReleasedOnce, IsInjective

\* Whatever tokens and proofs are presented, and through any number of kills, losses of power
\* and failed appends, no fingerprint is released twice, and until an append ends with an
\* unknown outcome the file recovers (record_once, open, recover_replay).  An issuer is
\* assumed to give no identity two expiries.
THEOREM LedgerReleasesOnce ==
    ASSUME ReplayAssumption
    PROVE  ReplayLedgerSpec => []ReleasedOnce
<1>1. ReplayLedgerInit => ReplayInv
  BY Zenon, ReplayInitial
<1>2. ReplayInv /\ [ReplayLedgerNext]_replayLedgerVars => ReplayInv'
  BY Zenon, ReplayInductive
<1>3. ReplayInv => ReleasedOnce
  BY Zenon, ReplayInvSuffices
<1> QED BY <1>1, <1>2, <1>3, PTL DEF ReplayLedgerSpec

-----------------------------------------------------------------------------
(***************************************************************************)
(* That the audit sink tells the story of the durable service, for every   *)
(* set of requests and any number of failed appends and restarts.          *)
(***************************************************************************)

Stages == {"accepted", "committed", "duplicate", "completed", "unknown"}
Fingerprints == {RequestFingerprint(r) : r \in InboundRequests}
Events == [stage : Stages, fingerprint : Fingerprints, generation : Nat]
Entries == [key : {Key(r) : r \in InboundRequests}, binding : {Binding(r) : r \in InboundRequests}, generation : Nat]

RuntimeTypes ==
    /\ durable \in [seen : SUBSET Entries, generation : Nat, fenced : BOOLEAN, limbo : SUBSET InboundRequests]
    /\ events \in Seq(Events)
    /\ inbound = Idle \/ inbound \in Calls

Accepted(f) == \E i \in 1..Len(events) : events[i].stage = "accepted" /\ events[i].fingerprint = f
PrintOf(s) == <<s.key[1], s.key[2], s.binding[1], s.binding[2]>>
HasEntry(key, generation) == \E s \in durable.seen : s.key = key /\ s.generation = generation

\* What the store has or may turn out to have, and what is on its way to it, was accepted.
AllAccepted ==
    /\ \A s \in durable.seen : Accepted(PrintOf(s)) /\ s.generation <= durable.generation
    /\ \A r \in durable.limbo : Accepted(RequestFingerprint(r))
    /\ inbound # Idle => Accepted(RequestFingerprint(inbound.request))

\* The commits of the sink are those of the store, each once.
CommitsTold ==
    \A i \in 1..Len(events) :
       events[i].stage = "committed" =>
          /\ HasEntry(<<events[i].fingerprint[1], events[i].fingerprint[2]>>, events[i].generation)
          /\ \A j \in 1..Len(events) : events[j] = events[i] => i = j

\* What the call in progress is about to be told, and that its commit is not in the sink yet.
AboutToTell ==
    inbound # Idle /\ inbound.result \in {"Committed", "Duplicate"} =>
       /\ HasEntry(Key(inbound.request), inbound.generation)
       /\ inbound.result = "Committed" =>
             \A i \in 1..Len(events) : events[i].stage = "committed" => events[i].generation # inbound.generation

OutcomesTrue ==
    \A o \in outcomes :
       /\ o[3] \in {"Committed", "Duplicate", "Read"} => Audited(StageOf(o[3]), <<o[1], o[2]>>, o[4])
       /\ o[3] = "Duplicate" => HasEntry(<<o[1], o[2]>>, o[4])

RuntimeInv == RuntimeTypes /\ AllAccepted /\ CommitsTold /\ AboutToTell /\ OutcomesTrue

-------------------------------------------------------------------------------
(* The sink and the store only grow *)

LEMMA EventsGrow ==
    ASSUME events \in Seq(Events), NEW e \in Events, events' \in {events, Append(events, e)}
    PROVE  /\ events' \in Seq(Events) /\ Len(events) \in Nat /\ Len(events') \in Nat
           /\ \A i \in 1..Len(events) : i \in 1..Len(events') /\ events'[i] = events[i]
           /\ \A i \in 1..Len(events') : i \in 1..Len(events) \/ (i = Len(events) + 1 /\ events'[i] = e)
           /\ events' = Append(events, e) => Len(events) + 1 \in 1..Len(events') /\ events'[Len(events) + 1] = e
<1>1. CASE events' = events
  <2>1. events # Append(events, e)
    <3>1. Len(Append(events, e)) = Len(events) + 1 /\ Len(events) \in Nat
      OBVIOUS
    <3> QED BY <3>1
  <2> QED BY <1>1, <2>1
<1>2. CASE events' = Append(events, e)
  BY <1>2
<1> QED BY Zenon, <1>1, <1>2

LEMMA SinkTook ==
    ASSUME NEW e, NEW a \in Appended(e)
    PROVE  a[2] \in {events, Append(events, e)} /\ (a[1] => a[2] = Append(events, e))
<1>1. CASE a = <<TRUE, Append(events, e)>>
  BY Zenon, <1>1
<1>2. CASE a = <<FALSE, events>>
  <2>1. a[1] = FALSE /\ a[2] = events
    BY Zenon, <1>2
  <2> QED BY Zenon, <2>1
<1>3. CASE a = <<FALSE, Append(events, e)>>
  BY Zenon, <1>3
<1> QED BY Zenon, <1>1, <1>2, <1>3 DEF Appended

LEMMA StillAccepted ==
    ASSUME \A i \in 1..Len(events) : i \in 1..Len(events') /\ events'[i] = events[i],
           NEW f, Accepted(f)
    PROVE  Accepted(f)'
BY Zenon DEF Accepted

LEMMA StillAudited ==
    ASSUME \A i \in 1..Len(events) : i \in 1..Len(events') /\ events'[i] = events[i],
           NEW stage, NEW key, NEW generation, Audited(stage, key, generation)
    PROVE  Audited(stage, key, generation)'
BY Zenon DEF Audited

LEMMA StillThere ==
    ASSUME durable.seen \subseteq durable'.seen, NEW key, NEW generation, HasEntry(key, generation)
    PROVE  HasEntry(key, generation)'
BY Zenon DEF HasEntry

\* An event that is no commit leaves the commits of the sink as they are.
LEMMA OtherEventKeeps ==
    ASSUME RuntimeInv, NEW e \in Events, e.stage # "committed", events' \in {events, Append(events, e)},
           durable.seen \subseteq durable'.seen
    PROVE  CommitsTold'
<1>1. events \in Seq(Events)
  BY Zenon DEF RuntimeInv, RuntimeTypes
<1>2. ASSUME NEW i \in 1..Len(events'), events'[i].stage = "committed"
      PROVE  /\ i \in 1..Len(events) /\ events'[i] = events[i]
  BY Zenon, <1>1, <1>2, EventsGrow
<1>3. ASSUME NEW i \in 1..Len(events'), events'[i].stage = "committed"
      PROVE  /\ HasEntry(<<events[i].fingerprint[1], events[i].fingerprint[2]>>, events[i].generation)
             /\ \A j \in 1..Len(events') : events'[j] = events'[i] => i = j
  BY Zenon, <1>2, <1>3 DEF RuntimeInv, CommitsTold
<1>4. ASSUME NEW i \in 1..Len(events'), events'[i].stage = "committed"
      PROVE  HasEntry(<<events[i].fingerprint[1], events[i].fingerprint[2]>>, events[i].generation)'
  <2>1. PICK k, g : k = <<events[i].fingerprint[1], events[i].fingerprint[2]>> /\ g = events[i].generation
    BY Zenon
  <2>2. HasEntry(k, g)'
    BY Zenon, <1>3, <1>4, <2>1, StillThere
  <2> QED BY Zenon, <1>2, <1>4, <2>1, <2>2
<1> QED BY Zenon, <1>3, <1>4 DEF CommitsTold

\* What was told stays true as the sink and the store grow.
LEMMA ToldKeeps ==
    ASSUME RuntimeInv, NEW o \in outcomes, durable.seen \subseteq durable'.seen,
           \A i \in 1..Len(events) : i \in 1..Len(events') /\ events'[i] = events[i]
    PROVE  /\ o[3] \in {"Committed", "Duplicate", "Read"} => Audited(StageOf(o[3]), <<o[1], o[2]>>, o[4])'
           /\ o[3] = "Duplicate" => HasEntry(<<o[1], o[2]>>, o[4])'
BY Zenon, StillAudited, StillThere DEF RuntimeInv, OutcomesTrue

-------------------------------------------------------------------------------
(* The steps *)

LEMMA AdmitKeeps ==
    ASSUME RuntimeAssumption, RuntimeInv, inbound = Idle, NEW r \in InboundRequests, Admit(r)
    PROVE  RuntimeInv'
<1>1. PICK e : e = AuditEvent("accepted", r, 0)
  BY Zenon
<1>2. e \in Events /\ e.stage = "accepted" /\ e.fingerprint = RequestFingerprint(r)
  BY Zenon, <1>1 DEF AuditEvent, Events, Stages, Fingerprints
<1>3. PICK a \in Appended(e) :
         /\ events' = a[2] /\ UNCHANGED <<durable, outcomes>>
         /\ IF a[1] THEN inbound' = [request |-> r, at |-> "admitted", result |-> "none", generation |-> 0]
                    ELSE inbound' = Idle
  BY Zenon, <1>1 DEF Admit
<1>4. events' \in {events, Append(events, e)} /\ (a[1] => events' = Append(events, e))
  BY Zenon, <1>3, SinkTook
<1>5. \/ inbound' = Idle
      \/ /\ events' = Append(events, e) /\ inbound' \in Calls /\ inbound'.request = r /\ inbound'.result = "none"
  BY <1>3, <1>4 DEF Calls
<1>6. events \in Seq(Events)
  BY Zenon DEF RuntimeInv, RuntimeTypes
<1>7. /\ events' \in Seq(Events)
      /\ \A i \in 1..Len(events) : i \in 1..Len(events') /\ events'[i] = events[i]
      /\ events' = Append(events, e) => \E i \in 1..Len(events') : events'[i] = e
  BY Zenon, <1>2, <1>4, <1>6, EventsGrow
<1>8. RuntimeTypes'
  BY Zenon, <1>3, <1>5, <1>7 DEF RuntimeInv, RuntimeTypes
<1>9. AllAccepted'
  <2>1. ASSUME NEW s \in durable'.seen PROVE Accepted(PrintOf(s))' /\ s.generation <= durable'.generation
    BY Zenon, <1>3, <1>7, StillAccepted DEF RuntimeInv, AllAccepted
  <2>2. ASSUME NEW q \in durable'.limbo PROVE Accepted(RequestFingerprint(q))'
    BY Zenon, <1>3, <1>7, StillAccepted DEF RuntimeInv, AllAccepted
  <2>3. inbound' # Idle => Accepted(RequestFingerprint(inbound.request))'
    BY Zenon, <1>2, <1>5, <1>7 DEF Accepted
  <2> QED BY Zenon, <2>1, <2>2, <2>3 DEF AllAccepted
<1>10. CommitsTold'
  BY Zenon, <1>2, <1>3, <1>4, OtherEventKeeps
<1>11. AboutToTell'
  BY Zenon, <1>5 DEF AboutToTell
<1>12. OutcomesTrue'
  BY Zenon, <1>3, <1>7, ToldKeeps DEF OutcomesTrue
<1> QED BY Zenon, <1>8, <1>9, <1>10, <1>11, <1>12 DEF RuntimeInv

\* The entry of a commit.
LEMMA CommittedStore ==
    ASSUME RuntimeInv, NEW r \in InboundRequests, Accepted(RequestFingerprint(r)),
           NEW d, d = Committed(r)
    PROVE  /\ d \in [seen : SUBSET Entries, generation : Nat, fenced : BOOLEAN, limbo : SUBSET InboundRequests]
           /\ d.generation = durable.generation + 1 /\ d.limbo = durable.limbo /\ durable.seen \subseteq d.seen
           /\ \E s \in d.seen : s.key = Key(r) /\ s.generation = durable.generation + 1
           /\ \A s \in d.seen : Accepted(PrintOf(s)) /\ s.generation <= durable.generation + 1
<1>1. durable \in [seen : SUBSET Entries, generation : Nat, fenced : BOOLEAN, limbo : SUBSET InboundRequests]
  BY Zenon DEF RuntimeInv, RuntimeTypes
<1>2. PICK g \in Nat : g = durable.generation + 1
  BY <1>1
<1>3. PICK t : t = [key |-> Key(r), binding |-> Binding(r), generation |-> g]
  BY Zenon
<1>4. t \in Entries /\ t.key = Key(r) /\ t.binding = Binding(r) /\ t.generation = g
  BY Zenon, <1>3 DEF Entries
<1>5. d = [durable EXCEPT !.seen = durable.seen \cup {t}, !.generation = g]
  BY Zenon, <1>2, <1>3 DEF Committed
<1>6. /\ d \in [seen : SUBSET Entries, generation : Nat, fenced : BOOLEAN, limbo : SUBSET InboundRequests]
      /\ d.generation = g /\ d.limbo = durable.limbo /\ d.seen = durable.seen \cup {t}
  BY Zenon, <1>1, <1>4, <1>5
<1>7. PrintOf(t) = RequestFingerprint(r)
  BY <1>4 DEF PrintOf, RequestFingerprint, Key, Binding
<1>8. ASSUME NEW s \in d.seen PROVE Accepted(PrintOf(s)) /\ s.generation <= g
  <2>1. CASE s = t
    BY <1>4, <1>7, <2>1
  <2>2. CASE s \in durable.seen
    <3>1. Accepted(PrintOf(s)) /\ s.generation <= durable.generation /\ s.generation \in Nat
      BY Zenon, <1>1, <2>2 DEF RuntimeInv, AllAccepted, Entries
    <3> QED BY <1>1, <1>2, <3>1
  <2> QED BY Zenon, <1>6, <2>1, <2>2
<1> QED BY Zenon, <1>2, <1>4, <1>6, <1>8

\* The sink and what was told stay, the store grows, and the call is concluded or gone.
LEMMA StoreKeeps ==
    ASSUME RuntimeInv, UNCHANGED <<events, outcomes>>, durable.seen \subseteq durable'.seen,
           RuntimeTypes', AboutToTell', \A s \in durable'.seen : Accepted(PrintOf(s)) /\ s.generation <= durable'.generation,
           \A q \in durable'.limbo : Accepted(RequestFingerprint(q)),
           inbound' # Idle => inbound # Idle /\ inbound'.request = inbound.request
    PROVE  RuntimeInv'
<1>1. \A i \in 1..Len(events) : i \in 1..Len(events') /\ events'[i] = events[i]
  BY Zenon
<1>2. \A f : Accepted(f) => Accepted(f)'
  BY Zenon DEF Accepted
<1>3. AllAccepted'
  <2>1. ASSUME NEW s \in durable'.seen PROVE Accepted(PrintOf(s))'
    BY Zenon, <1>1, StillAccepted
  <2>2. ASSUME NEW q \in durable'.limbo PROVE Accepted(RequestFingerprint(q))'
    BY Zenon, <1>1, StillAccepted
  <2>3. inbound' # Idle => Accepted(RequestFingerprint(inbound.request))'
    BY Zenon, <1>1, StillAccepted DEF RuntimeInv, AllAccepted, Accepted
  <2> QED BY Zenon, <2>1, <2>2, <2>3 DEF AllAccepted
<1>4. CommitsTold'
  <2>1. ASSUME NEW i \in 1..Len(events), events[i].stage = "committed"
        PROVE  HasEntry(<<events[i].fingerprint[1], events[i].fingerprint[2]>>, events[i].generation)'
    <3>1. PICK k, g : k = <<events[i].fingerprint[1], events[i].fingerprint[2]>> /\ g = events[i].generation
      BY Zenon
    <3>2. HasEntry(k, g)'
      BY Zenon, <2>1, <3>1, StillThere DEF RuntimeInv, CommitsTold
    <3> QED BY Zenon, <3>1, <3>2
  <2> QED BY Zenon, <2>1 DEF RuntimeInv, CommitsTold
<1>5. OutcomesTrue'
  BY Zenon, <1>1, ToldKeeps DEF OutcomesTrue
<1> QED BY Zenon, <1>3, <1>4, <1>5 DEF RuntimeInv

\* What a call comes back from the durable service with.
LEMMA ConcludedCall ==
    ASSUME RuntimeInv, inbound # Idle, NEW what, NEW g \in Nat, Concluded(what, g),
           what \in {"Committed", "Duplicate", "Read", "OutcomeUnknown", "RecoveryRequired", "DurableRejected"}
    PROVE  /\ inbound' \in Calls /\ inbound'.request = inbound.request
           /\ inbound'.result = what /\ inbound'.generation = g
<1>1. inbound \in Calls
  BY Zenon DEF RuntimeInv, RuntimeTypes
<1>2. inbound' = [inbound EXCEPT !.at = "entered", !.result = what, !.generation = g]
  BY Zenon DEF Concluded
<1> QED BY Zenon, <1>1, <1>2 DEF Calls

LEMMA EnterDurableKeeps ==
    ASSUME RuntimeAssumption, RuntimeInv, EnterDurable
    PROVE  RuntimeInv'
<1>1. PICK r : r = inbound.request
  BY Zenon
<1>2. inbound # Idle /\ UNCHANGED <<events, outcomes>> /\ inbound \in Calls /\ r \in InboundRequests
  BY Zenon, <1>1 DEF EnterDurable, RuntimeInv, RuntimeTypes, Calls
<1>3. /\ durable \in [seen : SUBSET Entries, generation : Nat, fenced : BOOLEAN, limbo : SUBSET InboundRequests]
      /\ events \in Seq(Events) /\ Accepted(RequestFingerprint(r))
      /\ \A s \in durable.seen : Accepted(PrintOf(s)) /\ s.generation <= durable.generation
      /\ \A q \in durable.limbo : Accepted(RequestFingerprint(q))
  BY Zenon, <1>1, <1>2 DEF RuntimeInv, RuntimeTypes, AllAccepted
<1>4. ASSUME NEW what \in {"OutcomeUnknown", "RecoveryRequired", "DurableRejected"}, Concluded(what, 0),
             durable' = durable \/ durable' = [durable EXCEPT !.fenced = TRUE, !.limbo = {r}]
      PROVE  RuntimeInv'
  <2>1. /\ inbound' \in Calls /\ inbound'.request = inbound.request
        /\ inbound'.result = what /\ inbound'.generation = 0
    BY Zenon, <1>2, <1>4, ConcludedCall
  <2>2. /\ durable' \in [seen : SUBSET Entries, generation : Nat, fenced : BOOLEAN, limbo : SUBSET InboundRequests]
        /\ durable'.seen = durable.seen /\ durable'.generation = durable.generation
        /\ \A q \in durable'.limbo : Accepted(RequestFingerprint(q))
    BY Zenon, <1>2, <1>3, <1>4
  <2>3. RuntimeTypes' /\ AboutToTell'
    BY Zenon, <1>2, <1>3, <1>4, <2>1, <2>2 DEF RuntimeTypes, AboutToTell
  <2> QED BY Zenon, <1>2, <1>3, <2>1, <2>2, <2>3, StoreKeeps
<1>5. ASSUME NEW s \in Seen(r), s.binding = Binding(r), Concluded("Duplicate", s.generation), UNCHANGED durable
      PROVE  RuntimeInv'
  <2>1. s \in durable.seen /\ s.key = Key(r) /\ s.generation \in Nat
    BY Zenon, <1>3, <1>5 DEF Seen, Entries
  <2>2. /\ inbound' \in Calls /\ inbound'.request = inbound.request
        /\ inbound'.result = "Duplicate" /\ inbound'.generation = s.generation
    BY Zenon, <1>2, <1>5, <2>1, ConcludedCall
  <2>3. RuntimeTypes' /\ AboutToTell'
    BY Zenon, <1>1, <1>2, <1>3, <1>5, <2>1, <2>2 DEF RuntimeTypes, AboutToTell, HasEntry
  <2> QED BY Zenon, <1>2, <1>3, <1>5, <2>2, <2>3, StoreKeeps
<1>6. ASSUME Concluded("Committed", durable.generation + 1), durable' = Committed(r)
      PROVE  RuntimeInv'
  <2>1. PICK g \in Nat : g = durable.generation + 1
    BY <1>3
  <2>2. /\ durable' \in [seen : SUBSET Entries, generation : Nat, fenced : BOOLEAN, limbo : SUBSET InboundRequests]
        /\ durable'.generation = g /\ durable'.limbo = durable.limbo /\ durable.seen \subseteq durable'.seen
        /\ \E s \in durable'.seen : s.key = Key(r) /\ s.generation = g
        /\ \A s \in durable'.seen : Accepted(PrintOf(s)) /\ s.generation <= g
    BY Zenon, <1>2, <1>3, <1>6, <2>1, CommittedStore
  <2>3. /\ inbound' \in Calls /\ inbound'.request = inbound.request
        /\ inbound'.result = "Committed" /\ inbound'.generation = g
    BY Zenon, <1>2, <1>6, <2>1, ConcludedCall
  <2>4. ASSUME NEW i \in 1..Len(events), events[i].stage = "committed" PROVE events[i].generation # g
    <3>1. PICK s \in durable.seen : s.generation = events[i].generation
      BY Zenon, <2>4 DEF RuntimeInv, CommitsTold, HasEntry
    <3>2. s.generation <= durable.generation /\ s.generation \in Nat /\ durable.generation \in Nat
      BY Zenon, <1>3 DEF Entries
    <3> QED BY <2>1, <3>1, <3>2
  <2>5. RuntimeTypes'
    BY Zenon, <1>2, <1>3, <2>2, <2>3 DEF RuntimeTypes
  <2>6. AboutToTell'
    <3>1. HasEntry(Key(inbound.request), inbound.generation)'
      BY Zenon, <1>1, <2>2, <2>3 DEF HasEntry
    <3>2. \A i \in 1..Len(events') : events'[i].stage = "committed" => events'[i].generation # inbound'.generation
      BY Zenon, <1>2, <2>3, <2>4
    <3> QED BY Zenon, <3>1, <3>2 DEF AboutToTell
  <2> QED BY Zenon, <1>2, <1>3, <2>2, <2>3, <2>5, <2>6, StoreKeeps
<1> QED BY Zenon, <1>1, <1>4, <1>5, <1>6 DEF EnterDurable

LEMMA EnterQueryKeeps ==
    ASSUME RuntimeAssumption, RuntimeInv, EnterQuery
    PROVE  RuntimeInv'
<1>1. /\ durable \in [seen : SUBSET Entries, generation : Nat, fenced : BOOLEAN, limbo : SUBSET InboundRequests]
      /\ events \in Seq(Events)
      /\ \A s \in durable.seen : Accepted(PrintOf(s)) /\ s.generation <= durable.generation
      /\ \A q \in durable.limbo : Accepted(RequestFingerprint(q))
  BY Zenon DEF RuntimeInv, RuntimeTypes, AllAccepted
<1>2. inbound # Idle /\ UNCHANGED <<durable, events, outcomes>>
  BY Zenon DEF EnterQuery
<1>3. PICK what \in {"RecoveryRequired", "Read"} : Concluded(what, durable.generation)
  BY Zenon DEF EnterQuery
<1>4. durable.generation \in Nat
  BY Zenon, <1>1
<1>5. inbound' \in Calls /\ inbound'.request = inbound.request /\ inbound'.result = what
  BY Zenon, <1>2, <1>3, <1>4, ConcludedCall
<1>6. RuntimeTypes' /\ AboutToTell'
  BY Zenon, <1>1, <1>2, <1>3, <1>5 DEF RuntimeTypes, AboutToTell
<1> QED BY Zenon, <1>1, <1>2, <1>5, <1>6, StoreKeeps

LEMMA RestartKeeps ==
    ASSUME RuntimeAssumption, RuntimeInv, Restart
    PROVE  RuntimeInv'
<1>1. /\ durable \in [seen : SUBSET Entries, generation : Nat, fenced : BOOLEAN, limbo : SUBSET InboundRequests]
      /\ events \in Seq(Events)
      /\ \A s \in durable.seen : Accepted(PrintOf(s)) /\ s.generation <= durable.generation
      /\ \A q \in durable.limbo : Accepted(RequestFingerprint(q))
  BY Zenon DEF RuntimeInv, RuntimeTypes, AllAccepted
<1>2. inbound' = Idle /\ UNCHANGED <<events, outcomes>>
  BY Zenon DEF Restart
<1>3. ASSUME NEW d \in [seen : SUBSET Entries, generation : Nat, fenced : BOOLEAN, limbo : SUBSET InboundRequests],
             durable.seen \subseteq d.seen, durable' = [d EXCEPT !.fenced = FALSE, !.limbo = {}],
             \A s \in d.seen : Accepted(PrintOf(s)) /\ s.generation <= d.generation
      PROVE  RuntimeInv'
  <2>1. /\ durable' \in [seen : SUBSET Entries, generation : Nat, fenced : BOOLEAN, limbo : SUBSET InboundRequests]
        /\ durable'.seen = d.seen /\ durable'.generation = d.generation /\ durable'.limbo = {}
    BY Zenon, <1>3
  <2>2. RuntimeTypes' /\ AboutToTell'
    BY Zenon, <1>1, <1>2, <2>1 DEF RuntimeTypes, AboutToTell
  <2> QED BY Zenon, <1>2, <1>3, <2>1, <2>2, StoreKeeps
<1>4. CASE durable' = [durable EXCEPT !.fenced = FALSE, !.limbo = {}]
  BY Zenon, <1>1, <1>3, <1>4
<1>5. ASSUME NEW r \in durable.limbo, durable' = [Committed(r) EXCEPT !.fenced = FALSE, !.limbo = {}]
      PROVE  RuntimeInv'
  <2>1. PICK d : d = Committed(r)
    BY Zenon
  <2>2. r \in InboundRequests /\ Accepted(RequestFingerprint(r))
    BY Zenon, <1>1
  <2>3. /\ d \in [seen : SUBSET Entries, generation : Nat, fenced : BOOLEAN, limbo : SUBSET InboundRequests]
        /\ d.generation = durable.generation + 1 /\ durable.seen \subseteq d.seen
        /\ \A s \in d.seen : Accepted(PrintOf(s)) /\ s.generation <= durable.generation + 1
    BY Zenon, <2>1, <2>2, CommittedStore
  <2>4. \A s \in d.seen : Accepted(PrintOf(s)) /\ s.generation <= d.generation
    BY Zenon, <2>3
  <2>5. durable' = [d EXCEPT !.fenced = FALSE, !.limbo = {}]
    BY Zenon, <1>5, <2>1
  <2> QED BY Zenon, <1>3, <2>3, <2>4, <2>5
<1> QED BY Zenon, <1>4, <1>5 DEF Restart

\* A commit joins the sink once, with the generation the store has it at.
LEMMA CommitEventKeeps ==
    ASSUME RuntimeInv, NEW e \in Events, e.stage = "committed", events' \in {events, Append(events, e)},
           UNCHANGED durable, HasEntry(<<e.fingerprint[1], e.fingerprint[2]>>, e.generation),
           \A i \in 1..Len(events) : events[i].stage = "committed" => events[i].generation # e.generation
    PROVE  CommitsTold'
<1>1. events \in Seq(Events)
  BY Zenon DEF RuntimeInv, RuntimeTypes
<1>2. \A i \in 1..Len(events') :
         \/ i \in 1..Len(events) /\ events'[i] = events[i]
         \/ i = Len(events) + 1 /\ events'[i] = e
  BY Zenon, <1>1, EventsGrow
<1>3. ASSUME NEW i \in 1..Len(events'), events'[i].stage = "committed"
      PROVE  /\ HasEntry(<<events[i].fingerprint[1], events[i].fingerprint[2]>>, events[i].generation)'
             /\ \A j \in 1..Len(events') : events'[j] = events'[i] => i = j
  <2>1. CASE i = Len(events) + 1 /\ events'[i] = e
    <3>1. HasEntry(<<events[i].fingerprint[1], events[i].fingerprint[2]>>, events[i].generation)'
      BY Zenon, <2>1 DEF HasEntry
    <3>2. ASSUME NEW j \in 1..Len(events'), events'[j] = e PROVE j = i
      BY Zenon, <1>2, <2>1, <3>2
    <3> QED BY Zenon, <2>1, <3>1, <3>2
  <2>2. CASE i \in 1..Len(events) /\ events'[i] = events[i]
    <3>1. /\ HasEntry(<<events[i].fingerprint[1], events[i].fingerprint[2]>>, events[i].generation)
          /\ \A j \in 1..Len(events) : events[j] = events[i] => i = j
          /\ events[i] # e
      BY Zenon, <1>3, <2>2 DEF RuntimeInv, CommitsTold
    <3>2. HasEntry(<<events[i].fingerprint[1], events[i].fingerprint[2]>>, events[i].generation)'
      BY Zenon, <2>2, <3>1 DEF HasEntry
    <3>3. ASSUME NEW j \in 1..Len(events'), events'[j] = events'[i] PROVE j = i
      BY Zenon, <1>2, <2>2, <3>1, <3>3
    <3> QED BY Zenon, <3>2, <3>3
  <2> QED BY Zenon, <1>2, <2>1, <2>2
<1> QED BY Zenon, <1>3 DEF CommitsTold

\* The call ends: the sink took the event or not, and the caller is told what it bears out.
LEMMA TellKeeps ==
    ASSUME RuntimeInv, inbound # Idle, inbound' = Idle, UNCHANGED durable,
           NEW e \in Events, events' \in {events, Append(events, e)}, CommitsTold',
           NEW what, NEW g, outcomes' = outcomes \cup {<<inbound.request.caller, inbound.request.id, what, g>>},
           what \in {"Committed", "Duplicate", "Read"} =>
              /\ events' = Append(events, e) /\ e.stage = StageOf(what) /\ e.generation = g
              /\ e.fingerprint = RequestFingerprint(inbound.request),
           what = "Duplicate" => HasEntry(Key(inbound.request), g)
    PROVE  RuntimeInv'
<1>1. events \in Seq(Events)
  BY Zenon DEF RuntimeInv, RuntimeTypes
<1>2. /\ events' \in Seq(Events)
      /\ \A i \in 1..Len(events) : i \in 1..Len(events') /\ events'[i] = events[i]
      /\ events' = Append(events, e) => Len(events) + 1 \in 1..Len(events') /\ events'[Len(events) + 1] = e
  BY Zenon, <1>1, EventsGrow
<1>3. RuntimeTypes' /\ AboutToTell'
  BY Zenon, <1>2 DEF RuntimeInv, RuntimeTypes, AboutToTell
<1>4. AllAccepted'
  <2>1. ASSUME NEW s \in durable'.seen PROVE Accepted(PrintOf(s))' /\ s.generation <= durable'.generation
    BY Zenon, <1>2, StillAccepted DEF RuntimeInv, AllAccepted
  <2>2. ASSUME NEW q \in durable'.limbo PROVE Accepted(RequestFingerprint(q))'
    BY Zenon, <1>2, StillAccepted DEF RuntimeInv, AllAccepted
  <2> QED BY Zenon, <2>1, <2>2 DEF AllAccepted
<1>5. PICK n : n = <<inbound.request.caller, inbound.request.id, what, g>>
  BY Zenon
<1>6. n[3] = what /\ n[4] = g /\ <<n[1], n[2]>> = Key(inbound.request)
  BY Zenon, <1>5 DEF Key
<1>7. what \in {"Committed", "Duplicate", "Read"} => Audited(StageOf(n[3]), <<n[1], n[2]>>, n[4])'
  <2> SUFFICES ASSUME what \in {"Committed", "Duplicate", "Read"}
               PROVE  Audited(StageOf(n[3]), <<n[1], n[2]>>, n[4])'
    BY Zenon
  <2>1. PICK i \in 1..Len(events') : events'[i] = e
    BY Zenon, <1>2
  <2>2. <<e.fingerprint[1], e.fingerprint[2]>> = Key(inbound.request)
    BY DEF RequestFingerprint, Key
  <2>3. /\ events'[i].stage = StageOf(what) /\ events'[i].generation = g
        /\ <<events'[i].fingerprint[1], events'[i].fingerprint[2]>> = <<n[1], n[2]>>
    BY Zenon, <1>6, <2>1, <2>2
  <2> QED BY Zenon, <1>6, <2>3 DEF Audited
<1>8. what = "Duplicate" => HasEntry(<<n[1], n[2]>>, n[4])'
  BY Zenon, <1>6 DEF HasEntry
<1>9. OutcomesTrue'
  <2> SUFFICES ASSUME NEW o \in outcomes'
               PROVE  /\ o[3] \in {"Committed", "Duplicate", "Read"} => Audited(StageOf(o[3]), <<o[1], o[2]>>, o[4])'
                      /\ o[3] = "Duplicate" => HasEntry(<<o[1], o[2]>>, o[4])'
    BY Zenon DEF OutcomesTrue
  <2>1. CASE o \in outcomes
    BY Zenon, <1>2, <2>1, ToldKeeps
  <2>2. CASE o = n
    BY Zenon, <1>6, <1>7, <1>8, <2>2
  <2> QED BY Zenon, <1>5, <2>1, <2>2
<1> QED BY Zenon, <1>3, <1>4, <1>9 DEF RuntimeInv

LEMMA ConcludeSuccessKeeps ==
    ASSUME RuntimeAssumption, RuntimeInv, ConcludeSuccess
    PROVE  RuntimeInv'
<1>1. PICK r, res, g : r = inbound.request /\ res = inbound.result /\ g = inbound.generation
  BY Zenon
<1>2. /\ inbound # Idle /\ inbound' = Idle /\ UNCHANGED durable /\ res \in {"Committed", "Duplicate", "Read"}
      /\ inbound \in Calls /\ r \in InboundRequests /\ g \in Nat
  BY Zenon, <1>1 DEF ConcludeSuccess, RuntimeInv, RuntimeTypes, Calls
<1>3. PICK e : e = AuditEvent(StageOf(res), r, g)
  BY Zenon
<1>4. /\ StageOf("Committed") = "committed" /\ StageOf("Duplicate") = "duplicate" /\ StageOf("Read") = "completed"
  BY Zenon DEF StageOf
<1>5. e \in Events /\ e.stage = StageOf(res) /\ e.generation = g /\ e.fingerprint = RequestFingerprint(r)
  BY Zenon, <1>2, <1>3, <1>4 DEF AuditEvent, Events, Stages, Fingerprints
<1>6. PICK a \in Appended(e) :
         /\ events' = a[2]
         /\ IF a[1] THEN Told(r, res, g) ELSE Told(r, IF res = "Read" THEN "Withheld" ELSE "OutcomeUnknown", 0)
  BY Zenon, <1>1, <1>3 DEF ConcludeSuccess
<1>7. events' \in {events, Append(events, e)} /\ (a[1] => events' = Append(events, e))
  BY Zenon, <1>6, SinkTook
<1>8. /\ res \in {"Committed", "Duplicate"} => HasEntry(Key(r), g)
      /\ res = "Committed" => \A i \in 1..Len(events) : events[i].stage = "committed" => events[i].generation # g
  BY Zenon, <1>1, <1>2 DEF RuntimeInv, AboutToTell
<1>9. CommitsTold'
  <2>1. CASE res = "Committed"
    <3>1. <<e.fingerprint[1], e.fingerprint[2]>> = Key(r)
      BY <1>5 DEF RequestFingerprint, Key
    <3> QED BY Zenon, <1>2, <1>4, <1>5, <1>7, <1>8, <2>1, <3>1, CommitEventKeeps
  <2>2. CASE res # "Committed"
    <3>1. e.stage # "committed"
      BY Zenon, <1>2, <1>4, <1>5, <2>2
    <3> QED BY Zenon, <1>2, <1>5, <1>7, <3>1, OtherEventKeeps
  <2> QED BY Zenon, <2>1, <2>2
<1>10. CASE a[1]
  <2>1. outcomes' = outcomes \cup {<<r.caller, r.id, res, g>>}
    BY Zenon, <1>6, <1>10 DEF Told
  <2> QED BY Zenon, <1>1, <1>2, <1>5, <1>7, <1>8, <1>9, <1>10, <2>1, TellKeeps
<1>11. CASE ~a[1]
  <2>1. PICK what \in {"Withheld", "OutcomeUnknown"} : outcomes' = outcomes \cup {<<r.caller, r.id, what, 0>>}
    BY Zenon, <1>6, <1>11 DEF Told
  <2>2. what \notin {"Committed", "Duplicate", "Read"}
    BY Zenon, <2>1
  <2> QED BY Zenon, <1>1, <1>2, <1>5, <1>7, <1>9, <2>1, <2>2, TellKeeps
<1> QED BY Zenon, <1>10, <1>11

LEMMA ConcludeUnknownKeeps ==
    ASSUME RuntimeAssumption, RuntimeInv, ConcludeUnknown
    PROVE  RuntimeInv'
<1>1. PICK r : r = inbound.request
  BY Zenon
<1>2. /\ inbound # Idle /\ inbound' = Idle /\ UNCHANGED durable /\ r \in InboundRequests
      /\ outcomes' = outcomes \cup {<<r.caller, r.id, "OutcomeUnknown", 0>>}
  BY Zenon, <1>1 DEF ConcludeUnknown, RuntimeInv, RuntimeTypes, Calls, Told
<1>3. PICK e : e = AuditEvent("unknown", r, 0)
  BY Zenon
<1>4. e \in Events /\ e.stage # "committed"
  BY Zenon, <1>2, <1>3 DEF AuditEvent, Events, Stages, Fingerprints
<1>5. events' \in {events, Append(events, e)}
  BY Zenon, <1>1, <1>3, SinkTook DEF ConcludeUnknown
<1>6. CommitsTold'
  BY Zenon, <1>2, <1>4, <1>5, OtherEventKeeps
<1>7. PICK what : what = "OutcomeUnknown"
  BY Zenon
<1>8. what \notin {"Committed", "Duplicate", "Read"} /\ outcomes' = outcomes \cup {<<r.caller, r.id, what, 0>>}
  BY Zenon, <1>2, <1>7
<1> QED BY Zenon, <1>1, <1>2, <1>4, <1>5, <1>6, <1>8, TellKeeps

LEMMA ConcludeErrorKeeps ==
    ASSUME RuntimeAssumption, RuntimeInv, ConcludeError
    PROVE  RuntimeInv'
<1>1. PICK r, what : r = inbound.request /\ what = inbound.result
  BY Zenon
<1>2. /\ inbound # Idle /\ inbound' = Idle /\ UNCHANGED <<durable, events>> /\ r \in InboundRequests
      /\ what \in {"RecoveryRequired", "DurableRejected"}
      /\ outcomes' = outcomes \cup {<<r.caller, r.id, what, 0>>}
  BY Zenon, <1>1 DEF ConcludeError, RuntimeInv, RuntimeTypes, Calls, Told
<1>3. PICK e : e = AuditEvent("unknown", r, 0)
  BY Zenon
<1>4. e \in Events /\ e.stage # "committed"
  BY Zenon, <1>2, <1>3 DEF AuditEvent, Events, Stages, Fingerprints
<1>5. CommitsTold'
  BY Zenon, <1>2, <1>4, OtherEventKeeps
<1>6. what \notin {"Committed", "Duplicate", "Read"} /\ events' \in {events, Append(events, e)}
  BY Zenon, <1>2
<1> QED BY Zenon, <1>1, <1>2, <1>4, <1>5, <1>6, TellKeeps

-------------------------------------------------------------------------------
(* The invariant, and what it gives *)

LEMMA RuntimeInitial ==
    ASSUME RuntimeInit
    PROVE  RuntimeInv
<1>1. RuntimeTypes
  BY DEF RuntimeInit, RuntimeTypes
<1>2. Len(events) = 0 /\ durable.seen = {} /\ durable.limbo = {} /\ inbound = Idle /\ outcomes = {}
  BY Zenon DEF RuntimeInit
<1> QED BY <1>1, <1>2 DEF RuntimeInv, AllAccepted, CommitsTold, AboutToTell, OutcomesTrue

LEMMA RuntimeInductive ==
    ASSUME RuntimeAssumption, RuntimeInv, [RuntimeNext]_runtimeVars
    PROVE  RuntimeInv'
<1>1. ASSUME NEW r \in InboundRequests, Handle(r) \/ AdmitQuery(r) PROVE RuntimeInv'
  BY Zenon, <1>1, AdmitKeeps DEF Handle, AdmitQuery
<1>2. CASE UNCHANGED runtimeVars
  <2>1. UNCHANGED <<durable, events, inbound, outcomes>>
    BY Zenon, <1>2 DEF runtimeVars
  <2>2. RuntimeTypes' /\ AboutToTell'
    BY Zenon, <2>1 DEF RuntimeInv, RuntimeTypes, AboutToTell, HasEntry
  <2>3. AllAccepted
    BY Zenon DEF RuntimeInv
  <2> QED BY Zenon, <2>1, <2>2, <2>3, StoreKeeps DEF AllAccepted
<1> QED BY Zenon, <1>1, <1>2, EnterDurableKeeps, EnterQueryKeeps, ConcludeSuccessKeeps, ConcludeUnknownKeeps,
           ConcludeErrorKeeps, RestartKeeps DEF RuntimeNext

LEMMA RuntimeInvSuffices ==
    ASSUME RuntimeInv
    PROVE  RuntimeAudited
BY Zenon DEF RuntimeInv, AllAccepted, Accepted, PrintOf, CommitsTold, HasEntry, OutcomesTrue, RuntimeAudited

\* Whatever is asked, however often the sink fails and the process is restarted: what the
\* durable service has was accepted in the sink, the commits of the sink are the service's
\* and stand there once, and a success is told only after the event that says so
\* (RuntimeService::handle_with_failpoint, read, list).
THEOREM RuntimeIsAudited ==
    ASSUME RuntimeAssumption
    PROVE  RuntimeSpec => []RuntimeAudited
<1>1. RuntimeInit => RuntimeInv
  BY Zenon, RuntimeInitial
<1>2. RuntimeInv /\ [RuntimeNext]_runtimeVars => RuntimeInv'
  BY Zenon, RuntimeInductive
<1>3. RuntimeInv => RuntimeAudited
  BY Zenon, RuntimeInvSuffices
<1> QED BY <1>1, <1>2, <1>3, PTL DEF RuntimeSpec

=============================================================================
