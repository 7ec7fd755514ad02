-------------------------- MODULE HaServiceProofs ---------------------------
(***************************************************************************)
(* HaService, for any nodes, requests, elections and faults: a request     *)
(* commits at most once, is dispatched on a state that has everything that *)
(* was acknowledged when it was received, and what is acknowledged has     *)
(* taken effect in the log, behind that.                                   *)
(*                                                                         *)
(* The argument follows a request.  Until it is proposed it is in one      *)
(* place: in the hands of one node, in the slot of one peer worker or in   *)
(* one frame.  Proposing it puts it into the log and nowhere else.  So     *)
(* what has been acknowledged can no longer enter the log, and every state *)
(* that is read behind the barrier has it.                                 *)
(***************************************************************************)
EXTENDS HaService, TLAPS

\* The log with what the leader has not committed.
Size == Len(committed) + Len(tail)

Entry(i) == IF i <= Len(committed) THEN committed[i] ELSE tail[i - Len(committed)]

Envelopes == [node : Nodes, req : Requests, base : States, state : States]

Forwards == [from : Nodes, to : Nodes, req : Requests]

RaftTyped ==
  /\ leader \in Nodes \cup {None} /\ elected \subseteq Nodes
  /\ committed \in Seq(Envelopes) /\ tail \in Seq(Envelopes)

NodeTyped ==
  /\ state \in [Nodes -> States \cup {Sealed}]
  /\ durable \in [Nodes -> [state : States, keys : SUBSET States]]
  /\ fenced \in [Nodes -> BOOLEAN] /\ recovery_required \in [Nodes -> BOOLEAN]

\* The steps of a call that has the current state, or is about to.
Working == {"sync", "reconcile", "dispatch", "check", "propose", "replicate", "persist"}

CallTyped ==
  /\ pc \in [Nodes -> {"idle", "route", "forward", "answer"} \cup Working]
  /\ req \in [Nodes -> Requests \cup {NoRequest}]
  /\ origin \in [Nodes -> Nodes \cup {None}] /\ peer \in [Nodes -> Nodes \cup {None}]
  /\ status \in [Nodes -> {"ok", "error"}]
  /\ view \in [Nodes -> Nat]

LinksTyped ==
  /\ frames \subseteq Forwards
  /\ slot \in [Nodes -> Forwards \cup {NoForward}]

ClientsTyped ==
  /\ asked \subseteq Requests
  /\ reply \in [Requests -> {"none", "ok", "error"}]
  /\ before \in [Requests -> SUBSET Requests]

Typed == RaftTyped /\ NodeTyped /\ CallTyped /\ LinksTyped /\ ClientsTyped

-----------------------------------------------------------------------------
(***************************************************************************)
(* Where a request is.                                                     *)
(***************************************************************************)
Unproposed == {"route", "sync", "reconcile", "dispatch", "check", "propose"}

Carries(n, r) == pc[n] \in Unproposed /\ req[n] = r

\* A forward that waits in the slot: the node has not taken it.
Queued(n, r) == slot[n] # NoForward /\ slot[n].req = r /\ (pc[n] = "idle" \/ origin[n] = None)

Logged(i, r) == i \in 1..Size /\ Entry(i).req = r

\* It is in one place at most.
Alone(r) ==
  /\ \A m, n \in Nodes : Carries(m, r) /\ Carries(n, r) => m = n
  /\ \A m, n \in Nodes : Queued(m, r) /\ Queued(n, r) => m = n
  /\ \A f, g \in frames : f.req = r /\ g.req = r => f = g
  /\ \A i, j \in 1..Size : Entry(i).req = r /\ Entry(j).req = r => i = j
  /\ \A m, n \in Nodes : ~(Carries(m, r) /\ Queued(n, r))
  /\ \A n \in Nodes, f \in frames : f.req = r => ~Carries(n, r) /\ ~Queued(n, r)
  /\ \A n \in Nodes, i \in 1..Size : Entry(i).req = r => ~Carries(n, r) /\ ~Queued(n, r)
  /\ \A f \in frames, i \in 1..Size : Entry(i).req = r => f.req # r

\* No node can propose it any more.
Spent(r) ==
  /\ r \in asked
  /\ \A n \in Nodes : ~Carries(n, r) /\ ~Queued(n, r)
  /\ \A f \in frames : f.req # r

\* Nor is it in the part of the log that is not committed.
Done(r) == Spent(r) /\ \A i \in 1..Size : Entry(i).req = r => i <= Len(committed)

Apart == \A r \in Requests : Alone(r)

-----------------------------------------------------------------------------
(***************************************************************************)
(* What a node knows, and what the clients may rely on.                    *)
(***************************************************************************)
\* The effect of a request is in the log, behind what it had to see.
Takes(r) ==
  \E i \in 0..Len(committed) :
    /\ Apply(StateAt(i), r) = StateAt(i)
    /\ \A j \in 1..Len(committed) : committed[j].req \in before[r] => j <= i

\* A call is for a request that was received, or unseals.
Asking(n) ==
  /\ pc[n] # "idle" /\ req[n] # NoRequest => req[n] \in asked
  /\ slot[n] # NoForward => slot[n].req \in asked
  /\ origin[n] # None => req[n] # NoRequest
  /\ pc[n] \notin {"idle", "sync", "reconcile"} => req[n] # NoRequest

\* A call that has proposed its request is the last to have it; one that is about to
\* report success may.
Claims(n) ==
  /\ pc[n] \in {"replicate", "persist"} => Spent(req[n])
  /\ pc[n] = "answer" /\ status[n] = "ok" => Done(req[n]) /\ Takes(req[n])

\* What was acknowledged when the request was received is in what the node has read.
Reads(n) ==
  /\ view[n] <= Len(committed)
  /\ pc[n] = "reconcile" => view[n] > 0
  /\ pc[n] \in {"reconcile", "dispatch"} /\ req[n] # NoRequest =>
       \A i \in 1..Size : Entry(i).req \in before[req[n]] => i <= view[n]
  /\ pc[n] = "dispatch" => state[n] = StateAt(view[n])

\* A node holds states of the log, and an envelope is what its node derived.
Holds(n) ==
  /\ \E i \in 0..Len(committed) : durable[n].state = StateAt(i)
  /\ state[n] # Sealed => \E i \in 0..Len(committed) : state[n] = StateAt(i)
  /\ pc[n] \in Working => state[n] # Sealed
  /\ pc[n] \in {"replicate", "persist"} =>
       \A i \in 1..Size : Entry(i).req = req[n] => Entry(i).state = Apply(state[n], req[n])
  /\ pc[n] = "persist" => \E i \in 1..Len(committed) : committed[i].req = req[n]

\* A put of unknown outcome stops the node until it is unsealed again.
Stopped(n) ==
  fenced[n] => recovery_required[n]
    /\ pc[n] \notin {"dispatch", "check", "propose", "replicate", "persist"}

NodeInv(n) == Asking(n) /\ Claims(n) /\ Reads(n) /\ Holds(n) /\ Stopped(n)

\* What nobody has asked for is nowhere; what was acknowledged when a request was
\* received is before it in the log.
LogInv ==
  /\ \A f \in frames : f.req \in asked
  /\ \A i \in 1..Size : Entry(i).req \in asked
  /\ \A i \in 1..Size : Entry(i).state = Apply(Entry(i).base, Entry(i).req)
  /\ \A i, j \in 1..Size : Entry(j).req \in before[Entry(i).req] => j <= i
  /\ \A r \in asked : \A q \in before[r] : Done(q)
  /\ \A r \in Requests : reply[r] = "ok" => Done(r) /\ Takes(r)

HaInv == Typed /\ Apart /\ LogInv /\ \A n \in Nodes : NodeInv(n)

-----------------------------------------------------------------------------
(***************************************************************************)
(* The log.  A step keeps it, but for the end of what is not committed, or *)
(* adds one envelope.                                                      *)
(***************************************************************************)
LogKept ==
  /\ Size' \in Nat /\ Len(committed)' \in Nat
  /\ Len(committed)' >= Len(committed) /\ Len(committed)' <= Size' /\ Size' <= Size
  /\ \A i \in 1..Size' : Entry(i)' = Entry(i)

LEMMA LogType ==
  ASSUME RaftTyped
  PROVE  /\ Len(committed) \in Nat /\ Len(tail) \in Nat /\ Size \in Nat /\ Len(committed) <= Size
         /\ \A i \in 1..Len(committed) : Entry(i) = committed[i]
         /\ \A i \in 1..Size : Entry(i) \in Envelopes
<1>1. committed \in Seq(Envelopes) /\ tail \in Seq(Envelopes)
  BY Zenon DEF RaftTyped
<1>. QED
  BY <1>1 DEF Size, Entry

LEMMA LogSame ==
  ASSUME RaftTyped, UNCHANGED <<committed, tail>>
  PROVE  LogKept /\ Size' = Size
  BY LogType DEF LogKept, Size, Entry

\* RaftCommit moves the border, Elect cuts the end off.
LEMMA LogCommit ==
  ASSUME RaftTyped, RaftCommit
  PROVE  LogKept /\ committed' \in Seq(Envelopes) /\ tail' \in Seq(Envelopes)
<1>1. committed \in Seq(Envelopes) /\ tail \in Seq(Envelopes) /\ tail # <<>>
  BY Zenon DEF RaftTyped, RaftCommit
<1>2. Head(tail) \in Envelopes /\ Head(tail) = tail[1] /\ Len(tail) >= 1
  BY <1>1
<1>3. /\ committed' \in Seq(Envelopes) /\ tail' \in Seq(Envelopes)
      /\ Len(committed') = Len(committed) + 1 /\ Len(tail') = Len(tail) - 1
      /\ \A i \in 1..Len(committed) : committed'[i] = committed[i]
      /\ committed'[Len(committed) + 1] = tail[1]
      /\ \A i \in 1..Len(tail) - 1 : tail'[i] = tail[i + 1]
  BY <1>1, <1>2 DEF RaftCommit
<1> DEFINE c == Len(committed)
           t == Len(tail)
<1>4. c \in Nat /\ t \in Nat /\ Size = c + t /\ Size' = Size
  BY <1>1, <1>2, <1>3 DEF Size
<1>5. ASSUME NEW i \in 1..Size PROVE Entry(i)' = Entry(i)
  <2>1. CASE i <= c
    BY <1>3, <1>4, <2>1 DEF Entry
  <2>2. CASE i = c + 1
    <3>1. Entry(i)' = committed'[c + 1]
      BY <1>3, <1>4, <2>2 DEF Entry
    <3>2. Entry(i) = tail[1]
      BY <1>4, <2>2 DEF Entry
    <3>. QED
      BY Zenon, <1>3, <3>1, <3>2
  <2>3. CASE i > c + 1
    <3>1. /\ i - (c + 1) \in 1..t - 1 /\ (i - (c + 1)) + 1 = i - c
          /\ ~(i <= c + 1) /\ ~(i <= c)
      BY <1>4, <2>3
    <3>2. Entry(i)' = tail'[i - (c + 1)]
      BY Zenon, <1>3, <3>1 DEF Entry
    <3>3. Entry(i) = tail[i - c]
      BY Zenon, <3>1 DEF Entry
    <3>. QED
      BY Zenon, <1>3, <3>1, <3>2, <3>3
  <2>. QED
    BY <1>4, <2>1, <2>2, <2>3
<1>6. Len(committed)' = c + 1 /\ c + 1 <= Size
  BY <1>2, <1>3, <1>4
<1>7. Size' \in Nat /\ c + 1 \in Nat /\ c + 1 >= c
  BY <1>4
<1>. QED
  BY <1>3, <1>4, <1>5, <1>6, <1>7 DEF LogKept

LEMMA LogElect ==
  ASSUME RaftTyped, NEW n \in Nodes, Elect(n)
  PROVE  LogKept /\ committed' \in Seq(Envelopes) /\ tail' \in Seq(Envelopes)
<1>1. committed \in Seq(Envelopes) /\ tail \in Seq(Envelopes)
  BY Zenon DEF RaftTyped
<1>2. PICK k \in 0..Len(tail) : committed' = committed \o SubSeq(tail, 1, k)
  BY Zenon DEF Elect
<1>3. tail' = <<>> /\ Len(tail') = 0
  BY Zenon DEF Elect
<1>4. /\ SubSeq(tail, 1, k) \in Seq(Envelopes) /\ Len(SubSeq(tail, 1, k)) = k
      /\ \A i \in 1..k : SubSeq(tail, 1, k)[i] = tail[i]
  BY <1>1, <1>2
<1>5. /\ committed' \in Seq(Envelopes) /\ Len(committed') = Len(committed) + k
      /\ \A i \in 1..Len(committed) : committed'[i] = committed[i]
      /\ \A i \in 1..k : committed'[Len(committed) + i] = tail[i]
  BY <1>1, <1>2, <1>4
<1>6. Size' = Len(committed) + k
  BY <1>1, <1>2, <1>3, <1>5 DEF Size
<1>7. ASSUME NEW i \in 1..Size' PROVE Entry(i)' = Entry(i)
  <2>1. CASE i <= Len(committed)
    BY <1>1, <1>2, <1>5, <1>6, <2>1 DEF Entry
  <2>2. CASE i > Len(committed)
    <3>1. i - Len(committed) \in 1..k /\ i = Len(committed) + (i - Len(committed))
      BY <1>1, <1>2, <1>6, <2>2
    <3>. QED
      BY <1>1, <1>2, <1>5, <1>6, <2>2, <3>1 DEF Entry
  <2>. QED
    BY <1>1, <1>2, <1>6, <2>1, <2>2
<1>. QED
  BY <1>1, <1>2, <1>3, <1>5, <1>6, <1>7 DEF LogKept, Size

\* What Propose appends.
LEMMA LogAppend ==
  ASSUME RaftTyped, NEW e \in Envelopes, tail' = Append(tail, e), UNCHANGED committed
  PROVE  /\ tail' \in Seq(Envelopes)
         /\ Size' = Size + 1
         /\ \A i \in 1..Size + 1 : Entry(i)' = IF i = Size + 1 THEN e ELSE Entry(i)
<1>1. committed \in Seq(Envelopes) /\ tail \in Seq(Envelopes)
  BY Zenon DEF RaftTyped
<1>2. /\ tail' \in Seq(Envelopes) /\ Len(tail') = Len(tail) + 1
      /\ \A i \in 1..Len(tail) : tail'[i] = tail[i]
      /\ tail'[Len(tail) + 1] = e
  BY <1>1
<1> DEFINE c == Len(committed)
           t == Len(tail)
<1>3. c \in Nat /\ t \in Nat /\ c' = c /\ Size = c + t /\ Size' = Size + 1
  BY <1>1, <1>2 DEF Size
<1>4. ASSUME NEW i, i = Size + 1 PROVE Entry(i)' = e
  <2>1. ~(i <= c) /\ i - c = t + 1
    BY <1>3, <1>4
  <2>2. Entry(i)' = tail'[i - c]
    BY Zenon, <1>3, <2>1 DEF Entry
  <2>. QED
    BY Zenon, <1>2, <2>1, <2>2
<1>5. ASSUME NEW i \in 1..Size PROVE Entry(i)' = Entry(i)
  <2>1. CASE i <= c
    BY Zenon, <1>3, <2>1 DEF Entry
  <2>2. CASE ~(i <= c)
    <3>1. i - c \in 1..t
      BY <1>3, <2>2
    <3>. QED
      BY Zenon, <1>2, <1>3, <2>2, <3>1 DEF Entry
  <2>. QED
    BY Zenon, <2>1, <2>2
<1>. QED
  BY <1>2, <1>3, <1>4, <1>5

-----------------------------------------------------------------------------
(***************************************************************************)
(* Places.  Most steps only take a request away from where it is.          *)
(***************************************************************************)
Stays == \A r \in Requests : (Spent(r) => Spent(r)') /\ (Done(r) => Done(r)')

Shrinks ==
  /\ LogKept
  /\ frames' \subseteq frames /\ asked \subseteq asked'
  /\ \A n \in Nodes, r \in Requests : Carries(n, r)' => Carries(n, r)
  /\ \A n \in Nodes, r \in Requests : Queued(n, r)' => Queued(n, r)

LEMMA ShrinkApart ==
  ASSUME RaftTyped, Apart, Shrinks
  PROVE  Apart' /\ Stays
<1>1. /\ Size \in Nat /\ Len(committed) \in Nat
      /\ Size' <= Size /\ Len(committed)' >= Len(committed)
      /\ \A i \in 1..Size' : i \in 1..Size /\ Entry(i)' = Entry(i)
  <2>1. Size \in Nat /\ Len(committed) \in Nat
    BY Zenon, LogType
  <2>2. Size' <= Size /\ Len(committed)' >= Len(committed) /\ \A i \in 1..Size' : Entry(i)' = Entry(i)
    BY Zenon DEF Shrinks, LogKept
  <2>3. Size' \in Int
    BY DEF Shrinks, LogKept
  <2>. QED
    BY <2>1, <2>2, <2>3
<1>2. ASSUME NEW r \in Requests PROVE Alone(r)'
  <2>1. Alone(r)
    BY Zenon DEF Apart
  <2>2. (\A m, n \in Nodes : Carries(m, r) /\ Carries(n, r) => m = n)'
    BY Zenon, <2>1 DEF Alone, Shrinks
  <2>3. (\A m, n \in Nodes : Queued(m, r) /\ Queued(n, r) => m = n)'
    BY Zenon, <2>1 DEF Alone, Shrinks
  <2>4. (\A f, g \in frames : f.req = r /\ g.req = r => f = g)'
    BY Zenon, <2>1 DEF Alone, Shrinks
  <2>5. (\A i, j \in 1..Size : Entry(i).req = r /\ Entry(j).req = r => i = j)'
    BY Zenon, <1>1, <2>1 DEF Alone
  <2>6. (\A m, n \in Nodes : ~(Carries(m, r) /\ Queued(n, r)))'
    BY Zenon, <2>1 DEF Alone, Shrinks
  <2>7. (\A n \in Nodes, f \in frames : f.req = r => ~Carries(n, r) /\ ~Queued(n, r))'
    BY Zenon, <2>1 DEF Alone, Shrinks
  <2>8. (\A n \in Nodes, i \in 1..Size : Entry(i).req = r => ~Carries(n, r) /\ ~Queued(n, r))'
    BY Zenon, <1>1, <2>1 DEF Alone, Shrinks
  <2>9. (\A f \in frames, i \in 1..Size : Entry(i).req = r => f.req # r)'
    BY Zenon, <1>1, <2>1 DEF Alone, Shrinks
  <2>. QED
    BY Zenon, <2>2, <2>3, <2>4, <2>5, <2>6, <2>7, <2>8, <2>9 DEF Alone
<1>3. ASSUME NEW r \in Requests, Spent(r) PROVE Spent(r)'
  BY Zenon, <1>3 DEF Spent, Shrinks
<1>4. ASSUME NEW r \in Requests, Done(r) PROVE Done(r)'
  BY <1>1, <1>3, <1>4 DEF Done
<1>. QED
  BY Zenon, <1>2, <1>3, <1>4 DEF Apart, Stays

-----------------------------------------------------------------------------
(***************************************************************************)
(* The values of the model.                                                *)
(***************************************************************************)
LEMMA ApplyTwice ==
  ASSUME HaAssumption, NEW s \in States, NEW r \in Requests
  PROVE  Apply(s, r) \in States /\ Apply(Apply(s, r), r) = Apply(s, r)
  BY Zenon DEF HaAssumption, States, Apply

LEMMA StoredIs ==
  ASSUME NodeTyped, NEW n \in Nodes, NEW s \in States, NEW hasync \in BOOLEAN
  PROVE  /\ Stored(n, s, hasync) \in [state : States, keys : SUBSET States]
         /\ Stored(n, s, hasync).state \in {s, durable[n].state}
<1>1. durable[n] \in [state : States, keys : SUBSET States]
  BY Zenon DEF NodeTyped
<1>2. PICK t \in States, k \in SUBSET States : durable[n] = [state |-> t, keys |-> k]
  BY Zenon, <1>1
<1>3. [durable[n] EXCEPT !.state = s] = [state |-> s, keys |-> k]
  BY <1>2
<1>4. Stored(n, s, hasync) \in {[state |-> s, keys |-> k], durable[n],
                                [state |-> s, keys |-> k \cup {s}]}
  BY Zenon, <1>2, <1>3 DEF Stored
<1>5. k \cup {s} \in SUBSET States
  BY Zenon
<1>. QED
  BY <1>1, <1>2, <1>4, <1>5

LEMMA ForwardType ==
  ASSUME HaAssumption
  PROVE  NoForward \notin Forwards /\ NoForward.from = None
  BY Zenon DEF HaAssumption, NoForward, Forward, Forwards

-----------------------------------------------------------------------------
(***************************************************************************)
(* What a step of another node leaves true.                                *)
(***************************************************************************)
\* The log is cut behind what is committed, or gains a request that could still be
\* proposed.
LogGrows ==
  /\ Size' \in Nat /\ Len(committed)' \in Nat
  /\ Len(committed)' >= Len(committed) /\ Len(committed)' <= Size' /\ Len(committed)' <= Size
  /\ \A i \in 1..Size' : \/ i <= Size /\ Entry(i)' = Entry(i)
                         \/ i > Size /\ ~Spent(Entry(i)'.req)

LEMMA KeptGrows ==
  ASSUME RaftTyped, LogKept
  PROVE  LogGrows
<1>1. Size \in Nat
  BY Zenon, LogType
<1>. QED
  BY <1>1 DEF LogKept, LogGrows

LEMMA StatesKept ==
  ASSUME RaftTyped, LogGrows
  PROVE  /\ \A i \in 1..Len(committed) : committed'[i] = committed[i]
         /\ \A i \in 0..Len(committed) : StateAt(i)' = StateAt(i)
<1>1. /\ Len(committed) \in Nat /\ Size \in Nat /\ Len(committed) <= Size
      /\ Len(committed)' \in Nat /\ Len(committed)' >= Len(committed)
      /\ Size' \in Nat /\ Len(committed)' <= Size'
      /\ \A i \in 1..Size' : i > Size \/ Entry(i)' = Entry(i)
  BY Zenon, LogType DEF LogGrows
<1>2. ASSUME NEW i \in 1..Len(committed) PROVE committed'[i] = committed[i]
  <2>1. i \in 1..Size' /\ ~(i > Size) /\ i <= Len(committed) /\ i <= Len(committed)'
    BY <1>1
  <2>2. Entry(i)' = Entry(i)
    BY Zenon, <1>1, <2>1
  <2>. QED
    BY Zenon, <2>1, <2>2 DEF Entry
<1>3. ASSUME NEW i \in 0..Len(committed) PROVE StateAt(i)' = StateAt(i)
  <2>1. CASE i = 0
    BY Zenon, <2>1 DEF StateAt
  <2>2. CASE i # 0
    <3>1. i \in 1..Len(committed)
      BY <1>1, <2>2
    <3>. QED
      BY Zenon, <1>2, <2>2, <3>1 DEF StateAt
  <2>. QED
    BY Zenon, <2>1, <2>2
<1>. QED
  BY Zenon, <1>2, <1>3

\* What is committed later is behind nothing that was done.
LEMMA LaterNotDone ==
  ASSUME RaftTyped, LogGrows, NEW i \in 1..Size', NEW q, Entry(i)'.req = q, Done(q)
  PROVE  i \in 1..Len(committed) /\ Entry(i)' = Entry(i) /\ committed'[i] = committed[i]
<1>1. Size \in Nat /\ Size' \in Nat /\ Len(committed) \in Nat
  BY Zenon, LogType DEF LogGrows
<1>2. i <= Size /\ Entry(i)' = Entry(i)
  BY Zenon DEF LogGrows, Done
<1>3. i \in 1..Size
  BY <1>1, <1>2
<1>4. i \in 1..Len(committed)
  BY <1>1, <1>2, <1>3 DEF Done
<1>. QED
  BY Zenon, <1>2, <1>4, StatesKept

LEMMA TakesKept ==
  ASSUME RaftTyped, LogGrows, NEW r, before'[r] = before[r],
         \A q \in before[r] : Done(q), Takes(r)
  PROVE  Takes(r)'
<1>1. PICK i \in 0..Len(committed) :
        /\ Apply(StateAt(i), r) = StateAt(i)
        /\ \A j \in 1..Len(committed) : committed[j].req \in before[r] => j <= i
  BY Zenon DEF Takes
<1>2. Len(committed) \in Nat /\ Len(committed)' \in Nat /\ Len(committed)' >= Len(committed)
      /\ Size' \in Nat /\ Len(committed)' <= Size'
  BY Zenon, LogType DEF LogGrows
<1>3. i \in 0..Len(committed)'
  BY <1>2
<1>4. Apply(StateAt(i)', r) = StateAt(i)'
  BY Zenon, <1>1, StatesKept
<1>5. ASSUME NEW j \in 1..Len(committed)', committed'[j].req \in before'[r] PROVE j <= i
  <2>1. j \in 1..Size' /\ Entry(j)' = committed'[j]
    BY <1>2 DEF Entry
  <2>2. Done(committed'[j].req)
    BY Zenon, <1>5
  <2>3. j \in 1..Len(committed) /\ committed'[j] = committed[j]
    BY Zenon, <2>1, <2>2, LaterNotDone
  <2>. QED
    BY Zenon, <1>1, <1>5, <2>3
<1>. QED
  BY Zenon, <1>3, <1>4, <1>5 DEF Takes, Apply

\* The part of the clients that a step leaves alone.
ClientsKept == asked \subseteq asked' /\ \A r \in asked : before'[r] = before[r]

\* A node that takes no step: a forward may come into its slot.
Idles(m) ==
  /\ pc'[m] = pc[m] /\ req'[m] = req[m] /\ origin'[m] = origin[m] /\ status'[m] = status[m]
  /\ view'[m] = view[m] /\ state'[m] = state[m] /\ durable'[m] = durable[m]
  /\ fenced'[m] = fenced[m] /\ recovery_required'[m] = recovery_required[m]
  /\ slot'[m] = slot[m] \/ slot'[m].req \in asked

LEMMA NodeKept ==
  ASSUME Typed, LogInv, LogGrows, Stays, ClientsKept, NEW m \in Nodes, NodeInv(m), Idles(m)
  PROVE  NodeInv(m)'
<1>0. RaftTyped /\ req[m] \in Requests \cup {NoRequest}
  BY Zenon DEF Typed, CallTyped
<1>1. /\ Len(committed) \in Nat /\ Len(committed)' \in Nat /\ Len(committed)' >= Len(committed)
      /\ Size \in Nat /\ Size' \in Nat
      /\ \A i \in 0..Len(committed) : i \in 0..Len(committed)' /\ StateAt(i)' = StateAt(i)
  BY <1>0, LogType, StatesKept DEF LogGrows
<1>2. Asking(m)'
  BY Zenon DEF NodeInv, Asking, Idles, ClientsKept
<1>3. ASSUME pc[m] \notin {"idle", "sync", "reconcile"} \/ (pc[m] # "idle" /\ req[m] # NoRequest)
      PROVE  /\ req[m] \in Requests /\ req[m] \in asked /\ before'[req[m]] = before[req[m]]
             /\ \A q \in before[req[m]] : Done(q)
  BY Zenon, <1>0, <1>3 DEF NodeInv, Asking, ClientsKept, LogInv
<1>4. Claims(m)'
  <2>1. (pc[m] \in {"replicate", "persist"} => Spent(req[m]))'
    BY Zenon, <1>3 DEF NodeInv, Claims, Idles, Stays
  <2>2. (pc[m] = "answer" /\ status[m] = "ok" => Done(req[m]) /\ Takes(req[m]))'
    <3> SUFFICES ASSUME pc'[m] = "answer", status'[m] = "ok"
                 PROVE  Done(req[m])' /\ Takes(req[m])'
      BY Zenon
    <3>1. pc[m] = "answer" /\ status[m] = "ok" /\ req'[m] = req[m]
      BY Zenon DEF Idles
    <3>2. Done(req[m]) /\ Takes(req[m])
      BY Zenon, <3>1 DEF NodeInv, Claims
    <3> DEFINE r == req[m]
    <3>3. r \in Requests /\ before'[r] = before[r] /\ \A q \in before[r] : Done(q)
      BY Zenon, <1>3, <3>1
    <3> HIDE DEF r
    <3>4. \A x : x = r => Done(x)' /\ Takes(x)'
      BY Zenon, <1>0, <3>2, <3>3, TakesKept DEF Stays, r
    <3>. QED
      BY Zenon, <3>1, <3>4 DEF r
  <2>. QED
    BY Zenon, <2>1, <2>2 DEF Claims
<1>5. Reads(m)'
  <2>1. (view[m] <= Len(committed))' /\ (pc[m] = "reconcile" => view[m] > 0)'
    BY <1>1 DEF NodeInv, Reads, Idles, Typed, CallTyped
  <2>2. ASSUME pc'[m] \in {"reconcile", "dispatch"}, req'[m] # NoRequest,
               NEW i \in 1..Size', Entry(i)'.req \in before'[req'[m]]
        PROVE  i <= view'[m]
    <3>1. pc[m] \in {"reconcile", "dispatch"} /\ req[m] # NoRequest /\ req'[m] = req[m] /\ view'[m] = view[m]
      BY Zenon, <2>2 DEF Idles
    <3>2. Done(Entry(i)'.req) /\ Entry(i)'.req \in before[req[m]]
      BY Zenon, <1>3, <2>2, <3>1
    <3>3. i \in 1..Len(committed) /\ Entry(i)' = Entry(i)
      BY Zenon, <1>0, <3>2, LaterNotDone
    <3>4. i \in 1..Size
      BY <1>0, <1>1, <3>3, LogType
    <3>. QED
      BY Zenon, <3>1, <3>2, <3>3, <3>4 DEF NodeInv, Reads
  <2>3. (pc[m] = "dispatch" => state[m] = StateAt(view[m]))'
    <3> SUFFICES ASSUME pc'[m] = "dispatch" PROVE state'[m] = StateAt(view[m])'
      BY Zenon
    <3>1. /\ pc[m] = "dispatch" /\ state'[m] = state[m] /\ view'[m] = view[m]
          /\ view[m] \in 0..Len(committed) /\ state[m] = StateAt(view[m])
      BY <1>1 DEF NodeInv, Reads, Idles, Typed, CallTyped
    <3>2. \A i \in 0..Len(committed) : i = view[m] => StateAt(i)' = state[m]
      BY Zenon, <1>1, <3>1
    <3>. QED
      BY Zenon, <3>1, <3>2 DEF StateAt
  <2>. QED
    BY Zenon, <2>1, <2>2, <2>3 DEF Reads
<1>6. Holds(m)'
  <2>1. (\E i \in 0..Len(committed) : durable[m].state = StateAt(i))'
    BY Zenon, <1>1 DEF NodeInv, Holds, Idles
  <2>2. (state[m] # Sealed => \E i \in 0..Len(committed) : state[m] = StateAt(i))'
    BY Zenon, <1>1 DEF NodeInv, Holds, Idles
  <2>3. (pc[m] \in Working => state[m] # Sealed)'
    BY Zenon DEF NodeInv, Holds, Idles
  <2>4. ASSUME pc'[m] \in {"replicate", "persist"}, NEW i \in 1..Size', Entry(i)'.req = req'[m]
        PROVE  Entry(i)'.state = Apply(state'[m], req'[m])
    <3>1. pc[m] \in {"replicate", "persist"} /\ req'[m] = req[m] /\ state'[m] = state[m]
      BY Zenon, <2>4 DEF Idles
    <3>2. Spent(req[m])
      BY Zenon, <3>1 DEF NodeInv, Claims
    <3>3. i \in 1..Size /\ Entry(i)' = Entry(i)
      BY <1>1, <2>4, <3>1, <3>2 DEF LogGrows
    <3>. QED
      BY Zenon, <2>4, <3>1, <3>3 DEF NodeInv, Holds
  <2>5. (pc[m] = "persist" => \E i \in 1..Len(committed) : committed[i].req = req[m])'
    BY <1>0, <1>1, StatesKept DEF NodeInv, Holds, Idles
  <2>. QED
    BY Zenon, <2>1, <2>2, <2>3, <2>4, <2>5 DEF Holds, Apply
<1>7. Stopped(m)'
  BY Zenon DEF NodeInv, Stopped, Idles
<1>. QED
  BY Zenon, <1>2, <1>4, <1>5, <1>6, <1>7 DEF NodeInv

\* What a step adds to the log, to what is asked and to what is acknowledged.
Additions ==
  /\ \A f \in frames' : f.req \in asked'
  /\ \A i \in 1..Size' : i > Size =>
       /\ Entry(i)'.req \in asked
       /\ Entry(i)'.state = Apply(Entry(i)'.base, Entry(i)'.req)
  /\ \A r \in asked' \ asked : \A q \in before'[r] : Done(q)
  /\ \A r \in Requests : reply'[r] = "ok" => reply[r] = "ok" \/ (Done(r) /\ Takes(r))

LEMMA LogInvKept ==
  ASSUME Typed, Typed', LogInv, LogGrows, Stays, ClientsKept, Additions
  PROVE  LogInv'
<1>0. RaftTyped /\ asked \subseteq Requests /\ before \in [Requests -> SUBSET Requests]
      /\ before' \in [Requests -> SUBSET Requests] /\ asked' \subseteq Requests
  BY Zenon DEF Typed, ClientsTyped
<1>1. /\ Len(committed) \in Nat /\ Size \in Nat /\ Size' \in Nat /\ Len(committed) <= Size
      /\ \A i \in 1..Size' : (i \in 1..Size /\ Entry(i)' = Entry(i)) \/ i > Size
  BY <1>0, LogType DEF LogGrows
<1>2. (\A f \in frames : f.req \in asked)'
  BY Zenon DEF Additions
<1>3. ASSUME NEW i \in 1..Size' PROVE Entry(i)'.req \in asked
  BY Zenon, <1>1 DEF Additions, LogInv
<1>4. ASSUME NEW i \in 1..Size' PROVE Entry(i)'.state = Apply(Entry(i)'.base, Entry(i)'.req)
  BY Zenon, <1>1 DEF Additions, LogInv
<1>5. ASSUME NEW i \in 1..Size', NEW j \in 1..Size', Entry(j)'.req \in before'[Entry(i)'.req]
      PROVE  j <= i
  <2>1. Entry(j)'.req \in before[Entry(i)'.req] /\ Done(Entry(j)'.req)
    BY Zenon, <1>3, <1>5 DEF ClientsKept, LogInv
  <2>2. j \in 1..Len(committed) /\ Entry(j)' = Entry(j)
    BY Zenon, <1>0, <2>1, LaterNotDone
  <2>3. CASE i > Size
    BY <1>1, <2>2, <2>3
  <2>4. CASE i \in 1..Size /\ Entry(i)' = Entry(i)
    <3>1. j \in 1..Size
      BY <1>1, <2>2
    <3>. QED
      BY Zenon, <2>1, <2>2, <2>4, <3>1 DEF LogInv
  <2>. QED
    BY Zenon, <1>1, <2>3, <2>4
<1>6. ASSUME NEW r \in asked', NEW q \in before'[r] PROVE Done(q)'
  <2>1. q \in Requests
    BY Zenon, <1>0
  <2>2. Done(q)
    BY Zenon, <1>6 DEF Additions, ClientsKept, LogInv
  <2>. QED
    BY Zenon, <2>1, <2>2 DEF Stays
<1>7. ASSUME NEW r \in Requests, reply'[r] = "ok" PROVE Done(r)' /\ Takes(r)'
  <2>1. Done(r) /\ Takes(r)
    BY Zenon, <1>7 DEF Additions, LogInv
  <2>2. r \in asked
    BY Zenon, <2>1 DEF Done, Spent
  <2>3. before'[r] = before[r] /\ \A q \in before[r] : Done(q)
    BY Zenon, <2>2 DEF ClientsKept, LogInv
  <2>. QED
    BY Zenon, <1>0, <2>1, <2>3, TakesKept DEF Stays
<1>8. (\A i \in 1..Size : Entry(i).req \in asked)'
  BY Zenon, <1>3 DEF ClientsKept
<1>9. (\A i \in 1..Size : Entry(i).state = Apply(Entry(i).base, Entry(i).req))'
  BY Zenon, <1>4 DEF Apply
<1>10. (\A i, j \in 1..Size : Entry(j).req \in before[Entry(i).req] => j <= i)'
  BY Zenon, <1>5
<1>11. (\A r \in asked : \A q \in before[r] : Done(q))'
  BY Zenon, <1>6
<1>12. (\A r \in Requests : reply[r] = "ok" => Done(r) /\ Takes(r))'
  BY Zenon, <1>7
<1>. QED
  BY Zenon, <1>2, <1>8, <1>9, <1>10, <1>11, <1>12 DEF LogInv

\* The inductive step, from what the moving nodes and the additions keep.
LEMMA StepKeeps ==
  ASSUME HaInv, Typed', Apart', Stays, LogGrows, ClientsKept, Additions,
         \A m \in Nodes : Idles(m) \/ NodeInv(m)'
  PROVE  HaInv'
<1>1. LogInv'
  BY Zenon, LogInvKept DEF HaInv
<1>2. ASSUME NEW m \in Nodes PROVE NodeInv(m)'
  BY Zenon, NodeKept DEF HaInv
<1>. QED
  BY Zenon, <1>1, <1>2 DEF HaInv

-----------------------------------------------------------------------------
(***************************************************************************)
(* Steps of the call that holds a node, with nothing sent or logged.       *)
(***************************************************************************)
Inner(n) ==
  /\ UNCHANGED <<committed, tail, req, origin, frames, slot, asked, reply, before>>
  /\ \A m \in Nodes : m # n => Idles(m)
  /\ pc[n] # "idle"
  /\ pc'[n] \in Unproposed => pc[n] \in Unproposed
  /\ pc'[n] = "idle" => req[n] = NoRequest

LEMMA InnerLog ==
  ASSUME HaInv, NEW n \in Nodes, Inner(n)
  PROVE  /\ Apart' /\ Stays /\ LogGrows /\ ClientsKept /\ Additions
         /\ Size' = Size /\ Len(committed)' = Len(committed)
         /\ \A i \in 1..Size : Entry(i)' = Entry(i)
         /\ \A i : StateAt(i)' = StateAt(i)
         /\ \A r : Takes(r)' <=> Takes(r)
<1>0. Typed /\ RaftTyped /\ Apart /\ LogInv /\ NodeInv(n)
  BY Zenon DEF HaInv, Typed
<1>1. UNCHANGED <<committed, tail, req, origin, frames, slot, asked, reply, before>>
  BY Zenon DEF Inner
<1>2. LogKept /\ Size' = Size
  BY Zenon, <1>0, <1>1, LogSame
<1>3. /\ Len(committed)' = Len(committed)
      /\ \A i \in 1..Size : Entry(i)' = Entry(i)
      /\ \A i : StateAt(i)' = StateAt(i)
      /\ \A r : Takes(r)' <=> Takes(r)
  BY Zenon, <1>1, <1>2 DEF LogKept, StateAt, Takes
<1>4. \A m \in Nodes : m # n => pc'[m] = pc[m]
  BY Zenon DEF Inner, Idles
<1>5. ASSUME NEW m \in Nodes, NEW r \in Requests, Carries(m, r)' PROVE Carries(m, r)
  BY Zenon, <1>1, <1>4, <1>5 DEF Carries, Inner
<1>6. ASSUME NEW m \in Nodes, NEW r \in Requests, Queued(m, r)' PROVE Queued(m, r)
  BY Zenon, <1>0, <1>1, <1>4, <1>6 DEF Queued, Inner, NodeInv, Asking
<1>7. Shrinks
  BY Zenon, <1>1, <1>2, <1>5, <1>6 DEF Shrinks
<1>8. Apart' /\ Stays
  BY Zenon, <1>0, <1>7, ShrinkApart
<1>9. LogGrows
  BY Zenon, <1>0, <1>2, KeptGrows
<1>10. Size \in Nat
  BY Zenon, <1>0, LogType
<1>11. ClientsKept
  BY Zenon, <1>1 DEF ClientsKept
<1>12. Additions
  <2>1. \A i \in 1..Size' : ~(i > Size)
    BY <1>2, <1>10
  <2>. QED
    BY Zenon, <1>0, <1>1, <2>1 DEF Additions, LogInv
<1>. QED
  BY Zenon, <1>2, <1>3, <1>8, <1>9, <1>11, <1>12

LEMMA InnerKeeps ==
  ASSUME HaInv, Typed', NEW n \in Nodes, Inner(n), NodeInv(n)'
  PROVE  HaInv'
<1>1. \A m \in Nodes : Idles(m) \/ NodeInv(m)'
  BY Zenon DEF Inner
<1>. QED
  BY Zenon, <1>1, InnerLog, StepKeeps

\* Steps that change the place in the code and the response alone.
PcStep(n, to, s) ==
  /\ pc' = [pc EXCEPT ![n] = to] /\ status' = [status EXCEPT ![n] = s]
  /\ UNCHANGED <<leader, elected, committed, tail, state, durable, fenced, recovery_required,
                 req, origin, peer, view, frames, slot, asked, reply, before>>

PcTable(n, to, s) ==
  \/ pc[n] \in {"route", "forward", "check", "propose", "replicate"} /\ to = "answer" /\ s = "error"
  \/ pc[n] = "dispatch" /\ to = "answer" /\ s = "ok" /\ Apply(state[n], req[n]) = state[n]
  \/ pc[n] = "route" /\ to = "sync" /\ state[n] # Sealed
  \/ pc[n] = "dispatch" /\ to = "check"
  \/ pc[n] = "check" /\ to = "propose"
  \/ pc[n] = "replicate" /\ to = "persist" /\ Replicated(n)

LEMMA PcKeeps ==
  ASSUME HaAssumption, HaInv, NEW n \in Nodes, NEW to, NEW s \in {"ok", "error"},
         PcStep(n, to, s), PcTable(n, to, s)
  PROVE  HaInv'
<1>0. Typed /\ RaftTyped /\ Apart /\ LogInv /\ NodeInv(n)
  BY Zenon DEF HaInv, Typed
<1>1. /\ UNCHANGED <<leader, elected, committed, tail, state, durable, fenced, recovery_required,
                     req, origin, peer, view, frames, slot, asked, reply, before>>
      /\ pc'[n] = to /\ status'[n] = s
      /\ \A m \in Nodes : m # n => pc'[m] = pc[m] /\ status'[m] = status[m]
  BY Zenon, <1>0 DEF PcStep, Typed, CallTyped
<1>2. Typed'
  <2>1. CallTyped'
    BY Zenon, <1>0, <1>1 DEF PcStep, PcTable, Typed, CallTyped, Working
  <2>2. RaftTyped' /\ NodeTyped' /\ LinksTyped' /\ ClientsTyped'
    BY Zenon, <1>0, <1>1 DEF Typed, RaftTyped, NodeTyped, LinksTyped, ClientsTyped
  <2>. QED
    BY Zenon, <2>1, <2>2 DEF Typed
<1>3. Inner(n)
  BY Zenon, <1>1 DEF Inner, Idles, PcTable, Unproposed
<1>4. /\ Stays /\ Size' = Size /\ Len(committed)' = Len(committed)
      /\ \A i \in 1..Size : Entry(i)' = Entry(i)
      /\ \A i : StateAt(i)' = StateAt(i)
      /\ \A r : Takes(r)' <=> Takes(r)
  BY Zenon, <1>3, InnerLog
<1>5. req[n] \in Requests /\ req[n] \in asked /\ Alone(req[n])
  BY Zenon, <1>0 DEF PcTable, NodeInv, Asking, Typed, CallTyped, Apart
<1>6. Asking(n)'
  BY Zenon, <1>0, <1>1, <1>5 DEF NodeInv, Asking, HaAssumption
<1>7. Claims(n)'
  <2>1. CASE to \in {"sync", "check", "propose"} \/ (to = "answer" /\ s = "error")
    BY Zenon, <1>1, <2>1 DEF Claims
  <2>2. CASE to = "answer" /\ s = "ok"
    <3>1. pc[n] = "dispatch" /\ Apply(state[n], req[n]) = state[n]
      BY Zenon, <2>2 DEF PcTable
    <3>2. Carries(n, req[n])
      BY Zenon, <3>1 DEF Carries, Unproposed
    <3>3. \A m \in Nodes : m # n => ~Carries(m, req[n])
      BY Zenon, <1>5, <3>2 DEF Alone
    <3>4. /\ \A m \in Nodes : ~Queued(m, req[n])
          /\ \A f \in frames : f.req # req[n]
          /\ \A i \in 1..Size : Entry(i).req # req[n]
      BY Zenon, <1>5, <3>2 DEF Alone
    <3>5. Done(req[n])'
      <4>1. \A m \in Nodes : ~Carries(m, req[n])'
        BY Zenon, <1>1, <2>2, <3>3 DEF Carries, Unproposed
      <4>2. \A m \in Nodes : ~Queued(m, req[n])'
        BY Zenon, <1>1, <2>2, <3>1, <3>4 DEF Queued
      <4>. QED
        BY Zenon, <1>1, <1>4, <1>5, <3>4, <4>1, <4>2 DEF Done, Spent
    <3>6. Takes(req[n])
      <4>1. view[n] \in 0..Len(committed) /\ StateAt(view[n]) = state[n]
        BY <1>0, <3>1, LogType DEF NodeInv, Reads, Typed, CallTyped
      <4>2. ASSUME NEW j \in 1..Len(committed), committed[j].req \in before[req[n]] PROVE j <= view[n]
        <5>1. j \in 1..Size /\ Entry(j) = committed[j]
          BY <1>0, LogType
        <5>. QED
          BY Zenon, <1>0, <1>5, <3>1, <4>2, <5>1 DEF NodeInv, Reads, HaAssumption
      <4>. QED
        BY Zenon, <3>1, <4>1, <4>2 DEF Takes
    <3>7. Takes(req[n])'
      BY Zenon, <1>1, <3>6 DEF Takes, StateAt
    <3>. QED
      BY Zenon, <1>1, <2>2, <3>5, <3>7 DEF Claims
  <2>3. CASE to = "persist"
    <3>1. pc[n] = "replicate"
      BY Zenon, <2>3 DEF PcTable
    <3>2. Spent(req[n])'
      BY Zenon, <1>0, <1>1, <1>4, <1>5, <3>1 DEF NodeInv, Claims, Stays, Spent
    <3>. QED
      BY Zenon, <1>1, <2>3, <3>2 DEF Claims
  <2>. QED
    BY Zenon, <2>1, <2>2, <2>3 DEF PcTable
<1>8. Reads(n)'
  BY Zenon, <1>0, <1>1, <1>4 DEF NodeInv, Reads, PcTable
<1>9. Holds(n)'
  <2>1. (pc[n] = "persist" => \E i \in 1..Len(committed) : committed[i].req = req[n])'
    BY Zenon, <1>1 DEF PcTable, Replicated
  <2>2. (pc[n] \in Working => state[n] # Sealed)'
    BY Zenon, <1>0, <1>1 DEF NodeInv, Holds, PcTable, Working
  <2>3. (\E i \in 0..Len(committed) : durable[n].state = StateAt(i))'
    BY Zenon, <1>0, <1>1, <1>4 DEF NodeInv, Holds
  <2>4. (state[n] # Sealed => \E i \in 0..Len(committed) : state[n] = StateAt(i))'
    BY Zenon, <1>0, <1>1, <1>4 DEF NodeInv, Holds
  <2>5. (pc[n] \in {"replicate", "persist"} =>
          \A i \in 1..Size : Entry(i).req = req[n] => Entry(i).state = Apply(state[n], req[n]))'
    BY Zenon, <1>0, <1>1, <1>4 DEF NodeInv, Holds, PcTable, Apply
  <2>. QED
    BY Zenon, <2>1, <2>2, <2>3, <2>4, <2>5 DEF Holds
<1>10. Stopped(n)'
  BY Zenon, <1>0, <1>1 DEF NodeInv, Stopped, PcTable
<1>. QED
  BY Zenon, <1>2, <1>3, <1>6, <1>7, <1>8, <1>9, <1>10, InnerKeeps DEF NodeInv

LEMMA SyncKeeps ==
  ASSUME HaAssumption, HaInv, NEW n \in Nodes, Sync(n)
  PROVE  HaInv'
<1>0. Typed /\ RaftTyped /\ Apart /\ LogInv /\ NodeInv(n)
  BY Zenon DEF HaInv, Typed
<1>1. UNCHANGED <<leader, elected, committed, tail, state, durable, fenced, req, origin, peer, frames, slot,
                  asked, reply, before>>
  BY Zenon DEF Sync, raft, links, clients
<1>2. /\ pc[n] = "sync" /\ pc' = [pc EXCEPT ![n] = pc'[n]] /\ status' = [status EXCEPT ![n] = status'[n]]
      /\ view' = [view EXCEPT ![n] = view'[n]]
      /\ recovery_required' = [recovery_required EXCEPT ![n] = recovery_required'[n]]
      /\ recovery_required'[n] \in BOOLEAN /\ (recovery_required[n] => recovery_required'[n])
      /\ view'[n] = view[n] \/ view'[n] = Len(committed)
      /\ \/ pc'[n] = "idle" /\ req[n] = NoRequest /\ status'[n] = status[n]
         \/ pc'[n] = "answer" /\ req[n] # NoRequest /\ status'[n] = "error"
         \/ /\ pc'[n] = "dispatch" /\ req[n] # NoRequest /\ ~recovery_required'[n] /\ status'[n] = status[n]
            /\ view'[n] = Len(committed) /\ (committed = <<>> \/ state[n] = Latest.state)
         \/ pc'[n] = "reconcile" /\ status'[n] = status[n] /\ view'[n] = Len(committed) /\ committed # <<>>
  <2>0. /\ DOMAIN pc = Nodes /\ DOMAIN status = Nodes /\ DOMAIN view = Nodes /\ DOMAIN recovery_required = Nodes
        /\ pc = [pc EXCEPT ![n] = pc[n]] /\ status = [status EXCEPT ![n] = status[n]]
        /\ view = [view EXCEPT ![n] = view[n]]
        /\ recovery_required = [recovery_required EXCEPT ![n] = recovery_required[n]]
        /\ recovery_required[n] \in BOOLEAN
    BY Zenon, <1>0 DEF Typed, CallTyped, NodeTyped
  <2>1. pc[n] = "sync"
    BY Zenon DEF Sync
  <2>2. CASE leader # n
    <3>1. FenceUnseal(n) /\ NotCurrent(n, "sync") /\ view' = view
      BY Zenon, <2>2 DEF Sync
    <3>2. /\ recovery_required' = [recovery_required EXCEPT ![n] = recovery_required'[n]]
          /\ recovery_required'[n] \in BOOLEAN /\ (recovery_required[n] => recovery_required'[n])
      BY Zenon, <2>0, <3>1 DEF FenceUnseal
    <3>3. CASE req[n] = NoRequest
      BY <2>0, <2>1, <3>1, <3>2, <3>3 DEF NotCurrent, Goto
    <3>4. CASE req[n] # NoRequest
      BY <2>0, <2>1, <3>1, <3>2, <3>4 DEF NotCurrent, Goto, Respond
    <3>. QED
      BY Zenon, <3>3, <3>4
  <2>3. CASE leader = n
    <3>1. view' = [view EXCEPT ![n] = Len(committed)] /\ recovery_required' = recovery_required
      BY Zenon, <2>3 DEF Sync
    <3>2. view'[n] = Len(committed)
      BY Zenon, <2>0, <3>1
    <3>3. CASE committed = <<>> \/ state[n] = Latest.state
      <4>1. Current(n, "sync")
        BY Zenon, <2>3, <3>3 DEF Sync
      <4>2. CASE req[n] = NoRequest
        BY Zenon, <2>0, <2>1, <3>1, <3>2, <4>1, <4>2 DEF Current, Goto
      <4>3. CASE req[n] # NoRequest /\ recovery_required'[n]
        BY <2>0, <2>1, <3>1, <3>2, <4>1, <4>3 DEF Current, Goto, Respond
      <4>4. CASE req[n] # NoRequest /\ ~recovery_required'[n]
        BY Zenon, <2>0, <2>1, <3>1, <3>2, <3>3, <4>1, <4>4 DEF Current, Goto
      <4>. QED
        BY Zenon, <4>2, <4>3, <4>4
    <3>4. CASE ~(committed = <<>> \/ state[n] = Latest.state)
      <4>1. Goto(n, "sync", "reconcile") /\ status' = status
        BY Zenon, <2>3, <3>4 DEF Sync
      <4>. QED
        BY Zenon, <2>0, <2>1, <3>1, <3>2, <3>4, <4>1 DEF Goto
    <3>. QED
      BY Zenon, <3>3, <3>4
  <2>. QED
    BY Zenon, <2>2, <2>3
<1>3. /\ Len(committed) \in Nat /\ Size \in Nat /\ Len(committed) <= Size
      /\ \A i \in 1..Len(committed) : Entry(i) = committed[i]
  BY Zenon, <1>0, LogType
<1>4. Typed'
  <2>0. /\ pc'[n] \in {"idle", "route", "forward", "answer"} \cup Working
        /\ status'[n] \in {"ok", "error"} /\ view'[n] \in Nat
    BY Zenon, <1>0, <1>2, <1>3 DEF Typed, CallTyped, Working
  <2>1. CallTyped'
    BY Zenon, <1>0, <1>1, <1>2, <2>0 DEF Typed, CallTyped
  <2>2. NodeTyped'
    BY Zenon, <1>0, <1>1, <1>2 DEF Typed, NodeTyped
  <2>3. RaftTyped' /\ LinksTyped' /\ ClientsTyped'
    BY Zenon, <1>0, <1>1 DEF Typed, RaftTyped, LinksTyped, ClientsTyped
  <2>. QED
    BY Zenon, <2>1, <2>2, <2>3 DEF Typed
<1>5. \A m \in Nodes : m # n => Idles(m)
  BY <1>0, <1>1, <1>2 DEF Idles, Typed, CallTyped, NodeTyped
<1>6. Inner(n)
  BY Zenon, <1>1, <1>2, <1>5 DEF Inner, Unproposed
<1>7. /\ Size' = Size /\ Len(committed)' = Len(committed)
      /\ \A i \in 1..Size : Entry(i)' = Entry(i)
      /\ \A i : StateAt(i)' = StateAt(i)
  BY Zenon, <1>6, InnerLog
<1>8. Asking(n)' /\ Stopped(n)'
  BY Zenon, <1>0, <1>1, <1>2 DEF NodeInv, Asking, Stopped
<1>9. Claims(n)'
  BY Zenon, <1>2 DEF Claims
<1>10. Reads(n)'
  <2>1. (view[n] <= Len(committed))'
    BY <1>0, <1>1, <1>2, <1>3 DEF NodeInv, Reads
  <2>2. (pc[n] = "reconcile" => view[n] > 0)'
    <3>1. committed # <<>> => Len(committed) > 0
      BY <1>0 DEF RaftTyped
    <3>. QED
      BY Zenon, <1>2, <3>1
  <2>3. ASSUME pc'[n] \in {"reconcile", "dispatch"}, req'[n] # NoRequest,
               NEW i \in 1..Size', Entry(i)'.req \in before'[req'[n]]
        PROVE  i <= view'[n]
    <3>1. req[n] # NoRequest /\ req[n] \in asked /\ i \in 1..Size /\ Entry(i).req \in before[req[n]]
      BY Zenon, <1>0, <1>1, <1>2, <1>7, <2>3 DEF NodeInv, Asking
    <3>2. Done(Entry(i).req)
      BY Zenon, <1>0, <3>1 DEF LogInv
    <3>3. i <= Len(committed)
      BY Zenon, <3>1, <3>2 DEF Done
    <3>. QED
      BY Zenon, <1>2, <2>3, <3>3
  <2>4. (pc[n] = "dispatch" => state[n] = StateAt(view[n]))'
    <3> SUFFICES ASSUME pc'[n] = "dispatch" PROVE state[n] = StateAt(Len(committed))
      BY Zenon, <1>1, <1>2 DEF StateAt
    <3>1. CASE committed = <<>>
      <4>1. Len(committed) = 0
        BY Zenon, <3>1
      <4>2. \E i \in 0..Len(committed) : state[n] = StateAt(i)
        BY Zenon, <1>0, <1>2 DEF NodeInv, Holds, Working
      <4>. QED
        BY <4>1, <4>2
    <3>2. CASE committed # <<>>
      <4>1. Len(committed) # 0
        BY <1>0, <3>2 DEF RaftTyped
      <4>. QED
        BY Zenon, <1>2, <3>2, <4>1 DEF StateAt, Latest
    <3>. QED
      BY Zenon, <3>1, <3>2
  <2>. QED
    BY Zenon, <2>1, <2>2, <2>3, <2>4 DEF Reads
<1>11. Holds(n)'
  BY Zenon, <1>0, <1>1, <1>2, <1>7 DEF NodeInv, Holds, Working
<1>. QED
  BY Zenon, <1>4, <1>6, <1>8, <1>9, <1>10, <1>11, InnerKeeps DEF NodeInv

\* A put stores the state, or leaves the one before.
LEMMA PutIs ==
  ASSUME NodeTyped, NEW n \in Nodes, NEW s \in States, NEW hasync \in BOOLEAN,
         PutApplied(n, s, hasync) \/ PutUnknown(n, s, hasync) \/ PutRefused(n)
  PROVE  /\ durable' = [durable EXCEPT ![n] = durable'[n]]
         /\ durable'[n] \in [state : States, keys : SUBSET States]
         /\ durable'[n].state \in {s, durable[n].state}
         /\ fenced' = [fenced EXCEPT ![n] = fenced'[n]] /\ fenced'[n] \in BOOLEAN
         /\ PutApplied(n, s, hasync) => ~fenced'[n]
         /\ PutRefused(n) => fenced'[n] = fenced[n]
<1>1. /\ durable \in [Nodes -> [state : States, keys : SUBSET States]] /\ fenced \in [Nodes -> BOOLEAN]
      /\ durable[n] \in [state : States, keys : SUBSET States]
  BY Zenon DEF NodeTyped
<1>2. /\ Stored(n, s, hasync) \in [state : States, keys : SUBSET States]
      /\ Stored(n, s, hasync).state \in {s, durable[n].state}
  BY Zenon, StoredIs
<1>3. \E d \in {durable[n], Stored(n, s, hasync)} : durable' = [durable EXCEPT ![n] = d]
  <2>1. CASE PutApplied(n, s, hasync)
    BY Zenon, <2>1 DEF PutApplied
  <2>2. CASE PutUnknown(n, s, hasync)
    BY Zenon, <2>2 DEF PutUnknown
  <2>3. CASE PutRefused(n)
    <3>1. durable' = [durable EXCEPT ![n] = durable[n]]
      BY Zenon, <1>1, <2>3 DEF PutRefused
    <3>. QED
      BY Zenon, <3>1
  <2>. QED
    BY Zenon, <2>1, <2>2, <2>3
<1>4. PICK d \in {durable[n], Stored(n, s, hasync)} : durable' = [durable EXCEPT ![n] = d]
  BY Zenon, <1>3
<1>5. durable'[n] = d
  BY Zenon, <1>1, <1>4
<1>6. fenced' = [fenced EXCEPT ![n] = fenced'[n]] /\ fenced'[n] \in BOOLEAN
  BY Zenon, <1>1 DEF PutApplied, PutUnknown, PutRefused
<1>7. (PutApplied(n, s, hasync) => ~fenced'[n]) /\ (PutRefused(n) => fenced'[n] = fenced[n])
  BY Zenon, <1>1 DEF PutApplied, PutRefused
<1>. QED
  BY Zenon, <1>1, <1>2, <1>4, <1>5, <1>6, <1>7

LEMMA ReconcileKeeps ==
  ASSUME HaAssumption, HaInv, NEW n \in Nodes, Reconcile(n)
  PROVE  HaInv'
<1> DEFINE s == committed[view[n]].state
<1>0. Typed /\ RaftTyped /\ NodeTyped /\ Apart /\ LogInv /\ NodeInv(n)
  BY Zenon DEF HaInv, Typed
<1>1. /\ UNCHANGED <<leader, elected, committed, tail, req, origin, peer, view, frames, slot,
                     asked, reply, before>>
      /\ pc[n] = "reconcile"
  BY Zenon DEF Reconcile, raft, links, clients
<1>2. /\ view[n] \in 1..Len(committed) /\ s \in States /\ StateAt(view[n]) = s
      /\ state[n] \in States /\ state[n] # Sealed
  <2>1. Len(committed) \in Nat /\ view[n] \in Nat /\ view[n] <= Len(committed) /\ view[n] > 0
    BY Zenon, <1>0, <1>1, LogType DEF NodeInv, Reads, Typed, CallTyped
  <2>2. view[n] \in 1..Len(committed)
    BY <2>1
  <2>3. committed[view[n]] \in Envelopes
    BY <1>0, <2>2 DEF RaftTyped
  <2>4. state[n] \in States /\ state[n] # Sealed
    BY Zenon, <1>0, <1>1 DEF NodeInv, Holds, Working, NodeTyped
  <2>. QED
    BY <2>1, <2>2, <2>3, <2>4 DEF Envelopes, StateAt
<1> HIDE DEF s
<1>3. /\ pc' = [pc EXCEPT ![n] = pc'[n]] /\ status' = [status EXCEPT ![n] = status'[n]]
      /\ state' = [state EXCEPT ![n] = state'[n]] /\ state'[n] \in {state[n], s}
      /\ recovery_required' = [recovery_required EXCEPT ![n] = recovery_required'[n]]
      /\ recovery_required'[n] \in BOOLEAN
      /\ durable' = [durable EXCEPT ![n] = durable'[n]]
      /\ durable'[n] \in [state : States, keys : SUBSET States]
      /\ durable'[n].state \in {s, durable[n].state}
      /\ fenced' = [fenced EXCEPT ![n] = fenced'[n]] /\ fenced'[n] \in BOOLEAN
      /\ fenced'[n] => recovery_required'[n] /\ pc'[n] # "dispatch"
      /\ \/ pc'[n] = "idle" /\ req[n] = NoRequest /\ status'[n] = status[n]
         \/ pc'[n] = "answer" /\ req[n] # NoRequest /\ status'[n] = "error"
         \/ pc'[n] = "dispatch" /\ req[n] # NoRequest /\ state'[n] = s /\ status'[n] = status[n]
  <2>0. /\ DOMAIN pc = Nodes /\ DOMAIN status = Nodes /\ DOMAIN state = Nodes /\ DOMAIN recovery_required = Nodes
        /\ status = [status EXCEPT ![n] = status[n]] /\ state = [state EXCEPT ![n] = state[n]]
        /\ recovery_required[n] \in BOOLEAN /\ (fenced[n] => recovery_required[n])
    BY Zenon, <1>0 DEF Typed, CallTyped, NodeTyped, NodeInv, Stopped
  <2>1. CASE /\ PutApplied(n, s, TRUE)
             /\ state' = [state EXCEPT ![n] = s]
             /\ recovery_required' = [recovery_required EXCEPT ![n] = FALSE]
             /\ Current(n, "reconcile")
    <3>1. /\ durable' = [durable EXCEPT ![n] = durable'[n]]
          /\ durable'[n] \in [state : States, keys : SUBSET States]
          /\ durable'[n].state \in {s, durable[n].state}
          /\ fenced' = [fenced EXCEPT ![n] = fenced'[n]] /\ fenced'[n] \in BOOLEAN /\ ~fenced'[n]
      BY Zenon, <1>0, <1>2, <2>1, PutIs
    <3>2. state'[n] = s /\ ~recovery_required'[n]
      BY Zenon, <2>0, <2>1
    <3>3. /\ pc' = [pc EXCEPT ![n] = pc'[n]] /\ status' = [status EXCEPT ![n] = status'[n]]
          /\ \/ pc'[n] = "idle" /\ req[n] = NoRequest /\ status'[n] = status[n]
             \/ pc'[n] = "dispatch" /\ req[n] # NoRequest /\ status'[n] = status[n]
      BY Zenon, <2>0, <2>1, <3>2 DEF Current, Goto
    <3>. QED
      BY Zenon, <2>0, <2>1, <3>1, <3>2, <3>3
  <2>2. CASE /\ (PutUnknown(n, s, TRUE) /\ recovery_required' = [recovery_required EXCEPT ![n] = TRUE])
                 \/ (PutRefused(n) /\ FenceUnseal(n))
             /\ NotCurrent(n, "reconcile") /\ UNCHANGED state
    <3>1. /\ durable' = [durable EXCEPT ![n] = durable'[n]]
          /\ durable'[n] \in [state : States, keys : SUBSET States]
          /\ durable'[n].state \in {s, durable[n].state}
          /\ fenced' = [fenced EXCEPT ![n] = fenced'[n]] /\ fenced'[n] \in BOOLEAN
          /\ PutRefused(n) => fenced'[n] = fenced[n]
      BY Zenon, <1>0, <1>2, <2>2, PutIs
    <3>2. /\ recovery_required' = [recovery_required EXCEPT ![n] = recovery_required'[n]]
          /\ recovery_required'[n] \in BOOLEAN
          /\ fenced'[n] => recovery_required'[n]
      BY Zenon, <2>0, <2>2, <3>1 DEF FenceUnseal
    <3>3. /\ pc' = [pc EXCEPT ![n] = pc'[n]] /\ status' = [status EXCEPT ![n] = status'[n]]
          /\ \/ pc'[n] = "idle" /\ req[n] = NoRequest /\ status'[n] = status[n]
             \/ pc'[n] = "answer" /\ req[n] # NoRequest /\ status'[n] = "error"
      BY Zenon, <2>0, <2>2 DEF NotCurrent, Goto, Respond
    <3>. QED
      BY Zenon, <2>0, <2>2, <3>1, <3>2, <3>3
  <2>. QED
    BY Zenon, <2>1, <2>2 DEF Reconcile, s
<1>4. Typed'
  <2>0. /\ pc'[n] \in {"idle", "route", "forward", "answer"} \cup Working
        /\ status'[n] \in {"ok", "error"}
    BY Zenon, <1>0, <1>3 DEF Typed, CallTyped, Working
  <2>1. CallTyped'
    BY <1>0, <1>1, <1>3, <2>0 DEF Typed, CallTyped
  <2>2. NodeTyped'
    BY <1>0, <1>1, <1>2, <1>3 DEF NodeTyped
  <2>3. RaftTyped' /\ LinksTyped' /\ ClientsTyped'
    BY Zenon, <1>0, <1>1 DEF Typed, RaftTyped, LinksTyped, ClientsTyped
  <2>. QED
    BY Zenon, <2>1, <2>2, <2>3 DEF Typed
<1>5. \A m \in Nodes : m # n => Idles(m)
  BY <1>0, <1>1, <1>3 DEF Idles, Typed, CallTyped, NodeTyped
<1>6. Inner(n)
  BY Zenon, <1>1, <1>3, <1>5 DEF Inner, Unproposed
<1>7. /\ Size' = Size /\ Len(committed)' = Len(committed)
      /\ \A i \in 1..Size : Entry(i)' = Entry(i)
      /\ \A i : StateAt(i)' = StateAt(i)
  BY Zenon, <1>6, InnerLog
<1>8. Asking(n)' /\ Stopped(n)'
  BY Zenon, <1>0, <1>1, <1>3 DEF NodeInv, Asking, Stopped
<1>9. Claims(n)'
  BY Zenon, <1>3 DEF Claims
<1>10. Reads(n)'
  <2>1. (pc[n] = "dispatch" => state[n] = StateAt(view[n]))'
    BY Zenon, <1>1, <1>2, <1>3, <1>7
  <2>. QED
    BY Zenon, <1>0, <1>1, <1>3, <1>7, <2>1 DEF NodeInv, Reads
<1>11. Holds(n)'
  <2>1. view[n] \in 0..Len(committed)
    BY <1>2
  <2>2. (\E i \in 0..Len(committed) : durable[n].state = StateAt(i))'
    BY Zenon, <1>0, <1>2, <1>3, <1>7, <2>1 DEF NodeInv, Holds
  <2>3. (\E i \in 0..Len(committed) : state[n] = StateAt(i))'
    BY Zenon, <1>0, <1>2, <1>3, <1>7, <2>1 DEF NodeInv, Holds
  <2>4. state'[n] # Sealed
    BY Zenon, <1>2, <1>3 DEF HaAssumption, States
  <2>. QED
    BY Zenon, <1>3, <2>2, <2>3, <2>4 DEF Holds
<1>. QED
  BY Zenon, <1>4, <1>6, <1>8, <1>9, <1>10, <1>11, InnerKeeps DEF NodeInv

LEMMA PersistKeeps ==
  ASSUME HaAssumption, HaInv, NEW n \in Nodes, Persist(n)
  PROVE  HaInv'
<1> DEFINE s == Apply(state[n], req[n])
<1>0. Typed /\ RaftTyped /\ NodeTyped /\ Apart /\ LogInv /\ NodeInv(n)
  BY Zenon DEF HaInv, Typed
<1>1. /\ UNCHANGED <<leader, elected, committed, tail, req, origin, peer, view, frames, slot,
                     asked, reply, before>>
      /\ pc[n] = "persist"
  BY Zenon DEF Persist, raft, links, clients
<1>2. /\ state[n] \in States /\ req[n] \in Requests /\ req[n] \in asked
      /\ s \in States /\ Apply(s, req[n]) = s /\ ~fenced[n] /\ s # Sealed
  <2>1. state[n] \in States /\ req[n] \in Requests /\ req[n] \in asked /\ ~fenced[n]
    BY Zenon, <1>0, <1>1 DEF NodeInv, Holds, Asking, Stopped, Working, NodeTyped, Typed, CallTyped
  <2>2. s \in States /\ Apply(s, req[n]) = s
    BY Zenon, <2>1, ApplyTwice
  <2>. QED
    BY Zenon, <2>1, <2>2 DEF HaAssumption, States
<1> HIDE DEF s
<1>3. /\ pc' = [pc EXCEPT ![n] = "answer"] /\ status' = [status EXCEPT ![n] = status'[n]]
      /\ state' = [state EXCEPT ![n] = state'[n]] /\ state'[n] \in {state[n], s}
      /\ recovery_required' = [recovery_required EXCEPT ![n] = recovery_required'[n]]
      /\ recovery_required'[n] \in BOOLEAN
      /\ durable' = [durable EXCEPT ![n] = durable'[n]]
      /\ durable'[n] \in [state : States, keys : SUBSET States]
      /\ durable'[n].state \in {s, durable[n].state}
      /\ fenced' = [fenced EXCEPT ![n] = fenced'[n]] /\ fenced'[n] \in BOOLEAN
      /\ fenced'[n] => recovery_required'[n]
      /\ status'[n] \in {"ok", "error"}
  <2>0. /\ DOMAIN pc = Nodes /\ DOMAIN status = Nodes /\ DOMAIN state = Nodes /\ DOMAIN recovery_required = Nodes
        /\ state = [state EXCEPT ![n] = state[n]]
        /\ recovery_required = [recovery_required EXCEPT ![n] = recovery_required[n]]
        /\ recovery_required[n] \in BOOLEAN
    BY Zenon, <1>0 DEF Typed, CallTyped, NodeTyped
  <2>1. CASE /\ PutApplied(n, s, FALSE)
             /\ state' = [state EXCEPT ![n] = s]
             /\ Respond(n, "persist", "ok")
             /\ UNCHANGED recovery_required
    <3>1. /\ durable' = [durable EXCEPT ![n] = durable'[n]]
          /\ durable'[n] \in [state : States, keys : SUBSET States]
          /\ durable'[n].state \in {s, durable[n].state}
          /\ fenced' = [fenced EXCEPT ![n] = fenced'[n]] /\ fenced'[n] \in BOOLEAN /\ ~fenced'[n]
      BY Zenon, <1>0, <1>2, <2>1, PutIs
    <3>2. pc' = [pc EXCEPT ![n] = "answer"] /\ status' = [status EXCEPT ![n] = "ok"]
      BY Zenon, <2>1 DEF Respond, Goto
    <3>. QED
      BY Zenon, <2>0, <2>1, <3>1, <3>2
  <2>2. CASE /\ PutUnknown(n, s, FALSE) \/ PutRefused(n)
             /\ recovery_required' = [recovery_required EXCEPT ![n] = TRUE]
             /\ Respond(n, "persist", "error")
             /\ UNCHANGED state
    <3>1. /\ durable' = [durable EXCEPT ![n] = durable'[n]]
          /\ durable'[n] \in [state : States, keys : SUBSET States]
          /\ durable'[n].state \in {s, durable[n].state}
          /\ fenced' = [fenced EXCEPT ![n] = fenced'[n]] /\ fenced'[n] \in BOOLEAN
      BY Zenon, <1>0, <1>2, <2>2, PutIs
    <3>2. pc' = [pc EXCEPT ![n] = "answer"] /\ status' = [status EXCEPT ![n] = "error"]
      BY Zenon, <2>2 DEF Respond, Goto
    <3>. QED
      BY Zenon, <2>0, <2>2, <3>1, <3>2
  <2>. QED
    BY Zenon, <2>1, <2>2 DEF Persist, s
<1>4. pc'[n] = "answer" /\ \A m \in Nodes : m # n => pc'[m] = pc[m]
  BY Zenon, <1>0, <1>3 DEF Typed, CallTyped
<1>5. Typed'
  <2>1. CallTyped'
    BY Zenon, <1>0, <1>1, <1>3 DEF Typed, CallTyped
  <2>2. NodeTyped'
    BY <1>0, <1>1, <1>2, <1>3 DEF NodeTyped
  <2>3. RaftTyped' /\ LinksTyped' /\ ClientsTyped'
    BY Zenon, <1>0, <1>1 DEF Typed, RaftTyped, LinksTyped, ClientsTyped
  <2>. QED
    BY Zenon, <2>1, <2>2, <2>3 DEF Typed
<1>6. \A m \in Nodes : m # n => Idles(m)
  BY <1>0, <1>1, <1>3 DEF Idles, Typed, CallTyped, NodeTyped
<1>7. Inner(n)
  BY Zenon, <1>1, <1>4, <1>6 DEF Inner, Unproposed
<1>8. /\ Size' = Size /\ Len(committed)' = Len(committed) /\ Stays
      /\ \A i \in 1..Size : Entry(i)' = Entry(i)
      /\ \A i : StateAt(i)' = StateAt(i)
      /\ \A r : Takes(r)' <=> Takes(r)
  BY Zenon, <1>7, InnerLog
<1>9. Asking(n)' /\ Stopped(n)' /\ Reads(n)'
  BY Zenon, <1>0, <1>1, <1>2, <1>3, <1>4, <1>8 DEF NodeInv, Asking, Stopped, Reads
<1>10. PICK i \in 1..Len(committed) : committed[i].req = req[n]
  BY Zenon, <1>0, <1>1 DEF NodeInv, Holds
<1>11. i \in 1..Size /\ Entry(i) = committed[i] /\ Entry(i).req = req[n] /\ i \in 0..Len(committed) /\ i # 0
  BY <1>0, <1>10, LogType
<1>12. StateAt(i) = s
  <2>1. Entry(i).state = Apply(state[n], req[n])
    BY Zenon, <1>0, <1>1, <1>11 DEF NodeInv, Holds
  <2>. QED
    BY Zenon, <1>11, <2>1 DEF s, StateAt
<1>13. Claims(n)'
  <2>1. Done(req[n])
    <3>1. Spent(req[n])
      BY Zenon, <1>0, <1>1 DEF NodeInv, Claims
    <3>2. \A j \in 1..Size : Entry(j).req = req[n] => j = i
      BY Zenon, <1>0, <1>2, <1>11 DEF Apart, Alone
    <3>. QED
      BY <1>10, <3>1, <3>2 DEF Done
  <2>2. Takes(req[n])
    <3>1. ASSUME NEW j \in 1..Len(committed), committed[j].req \in before[req[n]] PROVE j <= i
      <4>1. j \in 1..Size /\ Entry(j) = committed[j]
        BY <1>0, LogType
      <4>. QED
        BY Zenon, <1>0, <1>11, <3>1, <4>1 DEF LogInv
    <3>. QED
      BY Zenon, <1>2, <1>11, <1>12, <3>1 DEF Takes
  <2>3. \A r \in Requests : r = req[n] => Done(r)' /\ Takes(r)'
    BY Zenon, <1>8, <2>1, <2>2 DEF Stays
  <2>. QED
    BY Zenon, <1>1, <1>2, <1>4, <2>3 DEF Claims
<1>14. Holds(n)'
  <2>1. (\E j \in 0..Len(committed) : durable[n].state = StateAt(j))'
    BY Zenon, <1>0, <1>3, <1>8, <1>11, <1>12 DEF NodeInv, Holds
  <2>2. (state[n] # Sealed => \E j \in 0..Len(committed) : state[n] = StateAt(j))'
    BY Zenon, <1>0, <1>3, <1>8, <1>11, <1>12 DEF NodeInv, Holds
  <2>. QED
    BY Zenon, <1>4, <2>1, <2>2 DEF Holds, Working
<1>. QED
  BY Zenon, <1>5, <1>7, <1>9, <1>13, <1>14, InnerKeeps DEF NodeInv

LEMMA PcSteps ==
  ASSUME HaAssumption, HaInv, NEW n \in Nodes,
         \/ Route(n) /\ pc'[n] # "forward"
         \/ GiveUp(n) \/ Dispatch(n) \/ CheckBase(n) \/ Receipt(n) \/ LoseLeadership(n)
         \/ Propose(n) /\ leader # n
  PROVE  HaInv'
<1>0. /\ DOMAIN pc = Nodes /\ status = [status EXCEPT ![n] = status[n]] /\ status[n] \in {"ok", "error"}
  BY Zenon DEF HaInv, Typed, CallTyped
<1>1. SUFFICES \E to, s : s \in {"ok", "error"} /\ PcStep(n, to, s) /\ PcTable(n, to, s)
  BY Zenon, PcKeeps
<1>2. CASE Route(n) /\ pc'[n] # "forward"
  <2>1. CASE Respond(n, "route", "error")
    <3>0. pc'[n] = "answer"
      BY Zenon, <1>0, <2>1 DEF Respond, Goto
    <3>1. UNCHANGED <<peer, frames>>
      BY Zenon, <1>0, <1>2, <2>1, <3>0 DEF Route, Respond, Goto
    <3>2. PcStep(n, "answer", "error") /\ pc[n] = "route"
      BY Zenon, <1>2, <2>1, <3>1 DEF Route, Respond, Goto, PcStep, raft, node, clients
    <3>. QED
      BY Zenon, <3>2 DEF PcTable
  <2>2. CASE state[n] # Sealed /\ Goto(n, "route", "sync") /\ UNCHANGED status
    <3>1. pc'[n] = "sync"
      BY Zenon, <1>0, <2>2 DEF Goto
    <3>2. UNCHANGED <<peer, frames>>
      BY Zenon, <1>2, <2>2, <3>1, <1>0 DEF Route, Respond, Goto
    <3>3. PcStep(n, "sync", status[n]) /\ pc[n] = "route"
      BY Zenon, <1>0, <1>2, <2>2, <3>2 DEF Route, Goto, PcStep, raft, node, clients
    <3>. QED
      BY Zenon, <1>0, <2>2, <3>3 DEF PcTable
  <2>3. ASSUME Goto(n, "route", "forward") PROVE FALSE
    BY Zenon, <1>0, <1>2, <2>3 DEF Goto
  <2>. QED
    BY Zenon, <1>2, <2>1, <2>2, <2>3 DEF Route
<1>3. CASE GiveUp(n)
  <2>1. PcStep(n, "answer", "error") /\ pc[n] = "forward"
    BY Zenon, <1>3 DEF GiveUp, Respond, Goto, PcStep, raft, node, links, clients
  <2>. QED
    BY Zenon, <2>1 DEF PcTable
<1>4. CASE Dispatch(n)
  <2>1. CASE Apply(state[n], req[n]) = state[n]
    <3>1. PcStep(n, "answer", "ok") /\ pc[n] = "dispatch"
      BY Zenon, <1>4, <2>1 DEF Dispatch, Respond, Goto, PcStep, raft, node, links, clients
    <3>. QED
      BY Zenon, <2>1, <3>1 DEF PcTable
  <2>2. CASE Apply(state[n], req[n]) # state[n]
    <3>1. PcStep(n, "check", status[n]) /\ pc[n] = "dispatch"
      BY Zenon, <1>0, <1>4, <2>2 DEF Dispatch, Goto, PcStep, raft, node, links, clients
    <3>. QED
      BY Zenon, <1>0, <3>1 DEF PcTable
  <2>. QED
    BY Zenon, <2>1, <2>2
<1>5. CASE CheckBase(n)
  <2>1. CASE leader = n /\ (committed = <<>> \/ Latest.state = state[n])
    <3>1. PcStep(n, "propose", status[n]) /\ pc[n] = "check"
      BY Zenon, <1>0, <1>5, <2>1 DEF CheckBase, Goto, PcStep, raft, node, links, clients
    <3>. QED
      BY Zenon, <1>0, <3>1 DEF PcTable
  <2>2. CASE ~(leader = n /\ (committed = <<>> \/ Latest.state = state[n]))
    <3>1. PcStep(n, "answer", "error") /\ pc[n] = "check"
      BY Zenon, <1>5, <2>2 DEF CheckBase, Respond, Goto, PcStep, raft, node, links, clients
    <3>. QED
      BY Zenon, <3>1 DEF PcTable
  <2>. QED
    BY Zenon, <2>1, <2>2
<1>6. CASE Receipt(n)
  <2>1. PcStep(n, "persist", status[n]) /\ pc[n] = "replicate" /\ Replicated(n)
    BY Zenon, <1>0, <1>6 DEF Receipt, Goto, PcStep, raft, node, call, links, clients
  <2>. QED
    BY Zenon, <1>0, <2>1 DEF PcTable
<1>7. CASE LoseLeadership(n)
  <2>1. PcStep(n, "answer", "error") /\ pc[n] = "replicate"
    BY Zenon, <1>7 DEF LoseLeadership, Respond, Goto, PcStep, raft, node, links, clients
  <2>. QED
    BY Zenon, <2>1 DEF PcTable
<1>8. CASE Propose(n) /\ leader # n
  <2>1. PcStep(n, "answer", "error") /\ pc[n] = "propose"
    BY Zenon, <1>8 DEF Propose, Respond, Goto, PcStep, raft, node, links, clients
  <2>. QED
    BY Zenon, <2>1 DEF PcTable
<1>. QED
  BY Zenon, <1>2, <1>3, <1>4, <1>5, <1>6, <1>7, <1>8

-----------------------------------------------------------------------------
(***************************************************************************)
(* Steps that move a request from one place to another.                    *)
(***************************************************************************)
\* All but q are where they were, or gone.
OthersShrink(q) ==
  /\ asked \subseteq asked'
  /\ \A n \in Nodes, r \in Requests : r # q => (Carries(n, r)' => Carries(n, r)) /\ (Queued(n, r)' => Queued(n, r))
  /\ \A f \in frames' : f.req # q => f \in frames
  /\ \A i \in 1..Size' : Entry(i)'.req # q => i \in 1..Size /\ Entry(i)' = Entry(i)

LEMMA MoveApart ==
  ASSUME Apart, NEW q \in Requests, Alone(q)', ~Spent(q), OthersShrink(q),
         Len(committed) \in Nat, Len(committed)' \in Nat, Size \in Nat, Size' \in Nat,
         Len(committed)' >= Len(committed)
  PROVE  Apart' /\ Stays
<1>1. ASSUME NEW r \in Requests, r # q
      PROVE  /\ \A n \in Nodes : (Carries(n, r)' => Carries(n, r)) /\ (Queued(n, r)' => Queued(n, r))
             /\ \A f \in frames' : f.req = r => f \in frames
             /\ \A i \in 1..Size' : Entry(i)'.req = r => i \in 1..Size /\ Entry(i)' = Entry(i)
  BY Zenon, <1>1 DEF OthersShrink
<1>2. ASSUME NEW r \in Requests, r # q PROVE Alone(r)'
  <2>1. Alone(r)
    BY Zenon DEF Apart
  <2>2. (\A m, n \in Nodes : Carries(m, r) /\ Carries(n, r) => m = n)'
    BY Zenon, <1>1, <1>2, <2>1 DEF Alone
  <2>3. (\A m, n \in Nodes : Queued(m, r) /\ Queued(n, r) => m = n)'
    BY Zenon, <1>1, <1>2, <2>1 DEF Alone
  <2>4. (\A f, g \in frames : f.req = r /\ g.req = r => f = g)'
    BY Zenon, <1>1, <1>2, <2>1 DEF Alone
  <2>5. (\A i, j \in 1..Size : Entry(i).req = r /\ Entry(j).req = r => i = j)'
    BY Zenon, <1>1, <1>2, <2>1 DEF Alone
  <2>6. (\A m, n \in Nodes : ~(Carries(m, r) /\ Queued(n, r)))'
    BY Zenon, <1>1, <1>2, <2>1 DEF Alone
  <2>7. (\A n \in Nodes, f \in frames : f.req = r => ~Carries(n, r) /\ ~Queued(n, r))'
    BY Zenon, <1>1, <1>2, <2>1 DEF Alone
  <2>8. (\A n \in Nodes, i \in 1..Size : Entry(i).req = r => ~Carries(n, r) /\ ~Queued(n, r))'
    BY <1>1, <1>2, <2>1 DEF Alone
  <2>9. (\A f \in frames, i \in 1..Size : Entry(i).req = r => f.req # r)'
    BY Zenon, <1>1, <1>2, <2>1 DEF Alone
  <2>. QED
    BY Zenon, <2>2, <2>3, <2>4, <2>5, <2>6, <2>7, <2>8, <2>9 DEF Alone
<1>3. ASSUME NEW r \in Requests, Spent(r) PROVE Spent(r)'
  <2>1. r # q
    BY Zenon, <1>3
  <2>. QED
    BY Zenon, <1>1, <1>3, <2>1 DEF Spent, OthersShrink
<1>4. ASSUME NEW r \in Requests, Done(r) PROVE Done(r)'
  <2>1. r # q /\ Spent(r)' /\ \A i \in 1..Size : Entry(i).req = r => i <= Len(committed)
    BY Zenon, <1>3, <1>4 DEF Done
  <2>2. \A i \in 1..Size' : Entry(i)'.req = r => i <= Len(committed)'
    BY <1>1, <2>1
  <2>. QED
    BY Zenon, <2>1, <2>2 DEF Done
<1>. QED
  BY Zenon, <1>2, <1>3, <1>4 DEF Apart, Stays

LEMMA MoveKeeps ==
  ASSUME HaInv, Typed', NEW q \in Requests, Alone(q)', ~Spent(q), OthersShrink(q),
         UNCHANGED <<committed, tail, reply>>, ClientsKept,
         \A f \in frames' : f.req \in asked',
         \A r \in asked' \ asked : \A x \in before'[r] : Done(x),
         \A m \in Nodes : Idles(m) \/ NodeInv(m)'
  PROVE  HaInv'
<1>0. Typed /\ RaftTyped /\ Apart /\ LogInv
  BY Zenon DEF HaInv, Typed
<1>1. LogKept /\ Size' = Size /\ Len(committed)' = Len(committed)
  BY Zenon, <1>0, LogSame
<1>2. Len(committed) \in Nat /\ Size \in Nat
  BY Zenon, <1>0, LogType
<1>3. Apart' /\ Stays
  <2>1. Len(committed)' \in Nat /\ Size' \in Nat /\ Len(committed)' >= Len(committed)
    BY <1>1, <1>2
  <2>. QED
    BY Zenon, <1>0, <1>2, <2>1, MoveApart
<1>4. LogGrows
  BY Zenon, <1>0, <1>1, KeptGrows
<1>5. Additions
  BY <1>1, <1>2 DEF Additions
<1>. QED
  BY Zenon, <1>3, <1>4, <1>5, StepKeeps

\* A request enters a node.
LEMMA EnterNode ==
  ASSUME HaInv, NEW n \in Nodes, NEW r \in Requests, NEW from \in Nodes \cup {None},
         Enter(n, r, from), r \in asked', UNCHANGED slot, asked \subseteq asked', r # NoRequest
  PROVE  /\ NodeInv(n)' /\ RaftTyped' /\ NodeTyped' /\ CallTyped'
         /\ pc[n] = "idle" /\ pc'[n] = "route" /\ req'[n] = r /\ origin'[n] = from
         /\ \A m \in Nodes : m # n => Idles(m)
         /\ UNCHANGED <<committed, tail>>
<1>0. Typed /\ RaftTyped /\ NodeInv(n)
  BY Zenon DEF HaInv, Typed
<1>1. UNCHANGED <<leader, elected, committed, tail, state, durable, fenced, recovery_required, peer, status, view>>
  BY Zenon DEF Enter, raft, node
<1>2. /\ pc[n] = "idle" /\ pc' = [pc EXCEPT ![n] = "route"]
      /\ req' = [req EXCEPT ![n] = r] /\ origin' = [origin EXCEPT ![n] = from]
  BY Zenon DEF Enter, Goto
<1>3. pc'[n] = "route" /\ req'[n] = r /\ origin'[n] = from
  BY Zenon, <1>0, <1>2 DEF Typed, CallTyped
<1>4. \A m \in Nodes : m # n => Idles(m)
  BY Zenon, <1>0, <1>1, <1>2 DEF Idles, Typed, CallTyped
<1>5. CallTyped'
  BY Zenon, <1>0, <1>1, <1>2 DEF Typed, CallTyped
<1>6. RaftTyped' /\ NodeTyped'
  BY Zenon, <1>0, <1>1 DEF Typed, RaftTyped, NodeTyped
<1>7. Asking(n)'
  BY Zenon, <1>0, <1>3 DEF NodeInv, Asking
<1>8. Claims(n)' /\ Reads(n)' /\ Stopped(n)'
  BY Zenon, <1>0, <1>1, <1>3 DEF NodeInv, Claims, Reads, Stopped
<1>9. Holds(n)'
  BY Zenon, <1>0, <1>1, <1>3 DEF NodeInv, Holds, Working, StateAt
<1>. QED
  BY Zenon, <1>1, <1>2, <1>3, <1>4, <1>5, <1>6, <1>7, <1>8, <1>9 DEF NodeInv

\* What nobody has asked for is nowhere.
LEMMA NowhereYet ==
  ASSUME HaAssumption, HaInv, NEW r \in Requests, r \notin asked
  PROVE  /\ \A m \in Nodes : ~Carries(m, r) /\ ~Queued(m, r)
         /\ \A f \in frames : f.req # r
         /\ \A i \in 1..Size : Entry(i).req # r
<1>1. \A m \in Nodes : Asking(m)
  BY Zenon DEF HaInv, NodeInv
<1>2. \A m \in Nodes : ~Carries(m, r) /\ ~Queued(m, r)
  BY Zenon, <1>1 DEF Asking, Carries, Queued, Unproposed, HaAssumption
<1>. QED
  BY Zenon, <1>2 DEF HaInv, LogInv

LEMMA ReceiveKeeps ==
  ASSUME HaAssumption, HaInv, NEW n \in Nodes, NEW r \in Requests, Receive(n, r)
  PROVE  HaInv'
<1>0. Typed /\ RaftTyped /\ Apart /\ LogInv /\ r # NoRequest
  BY Zenon DEF HaInv, Typed, HaAssumption
<1>1. /\ r \notin asked /\ asked' = asked \cup {r} /\ before' = [before EXCEPT ![r] = Acknowledged]
      /\ Enter(n, r, None) /\ UNCHANGED <<frames, slot, reply>>
  BY Zenon DEF Receive, links
<1>2. /\ NodeInv(n)' /\ RaftTyped' /\ NodeTyped' /\ CallTyped'
      /\ pc[n] = "idle" /\ pc'[n] = "route" /\ req'[n] = r /\ origin'[n] = None
      /\ \A m \in Nodes : m # n => Idles(m)
      /\ UNCHANGED <<committed, tail>>
  BY Zenon, <1>0, <1>1, EnterNode
<1>3. Typed'
  BY Zenon, <1>0, <1>1, <1>2 DEF Typed, LinksTyped, ClientsTyped, Acknowledged
<1>4. /\ \A m \in Nodes : ~Carries(m, r) /\ ~Queued(m, r)
      /\ \A f \in frames : f.req # r
      /\ \A i \in 1..Size : Entry(i).req # r
  BY Zenon, <1>1, NowhereYet
<1>5. Size' = Size /\ \A i : Entry(i)' = Entry(i)
  BY Zenon, <1>2 DEF Size, Entry
<1>6. \A m \in Nodes, x \in Requests : Carries(m, x)' => (m = n /\ x = r) \/ (m # n /\ Carries(m, x))
  BY Zenon, <1>2 DEF Carries, Idles
<1>7. \A m \in Nodes, x \in Requests : Queued(m, x)' => Queued(m, x)
  BY Zenon, <1>1, <1>2 DEF Queued, Idles
<1>8. Alone(r)'
  BY Zenon, <1>1, <1>4, <1>5, <1>6, <1>7 DEF Alone
<1>9. OthersShrink(r)
  BY Zenon, <1>1, <1>5, <1>6, <1>7 DEF OthersShrink
<1>10. ~Spent(r)
  BY Zenon, <1>1 DEF Spent
<1>11. ClientsKept
  BY Zenon, <1>0, <1>1 DEF ClientsKept, Typed, ClientsTyped
<1>12. \A x \in asked' \ asked : \A y \in before'[x] : Done(y)
  BY Zenon, <1>0, <1>1 DEF Typed, ClientsTyped, Acknowledged, LogInv
<1>13. \A f \in frames' : f.req \in asked'
  BY Zenon, <1>0, <1>1 DEF LogInv
<1>. QED
  BY Zenon, <1>1, <1>2, <1>3, <1>8, <1>9, <1>10, <1>11, <1>12, <1>13, MoveKeeps

LEMMA TakeForwardKeeps ==
  ASSUME HaAssumption, HaInv, NEW n \in Nodes, TakeForward(n)
  PROVE  HaInv'
<1>0. Typed /\ RaftTyped /\ Apart /\ LogInv /\ NodeInv(n)
  BY Zenon DEF HaInv, Typed
<1>1. /\ slot[n] # NoForward /\ Enter(n, slot[n].req, slot[n].from) /\ UNCHANGED <<frames, slot, asked, reply, before>>
  BY Zenon DEF TakeForward, links, clients
<1>2. PICK r \in Requests, from \in Nodes :
        /\ r = slot[n].req /\ from = slot[n].from /\ r \in asked
        /\ r # NoRequest /\ from # None
  <2>1. slot[n] \in Forwards
    BY Zenon, <1>0, <1>1 DEF Typed, LinksTyped
  <2>. QED
    BY Zenon, <1>0, <1>1, <2>1 DEF Forwards, NodeInv, Asking, HaAssumption
<1>3. /\ NodeInv(n)' /\ RaftTyped' /\ NodeTyped' /\ CallTyped'
      /\ pc[n] = "idle" /\ pc'[n] = "route" /\ req'[n] = r /\ origin'[n] = from
      /\ \A m \in Nodes : m # n => Idles(m)
      /\ UNCHANGED <<committed, tail>>
  BY <1>1, <1>2, EnterNode
<1>4. Typed'
  BY Zenon, <1>0, <1>1, <1>3 DEF Typed, LinksTyped, ClientsTyped
<1>5. Queued(n, r)
  BY Zenon, <1>1, <1>2, <1>3 DEF Queued
<1>6. Size' = Size /\ \A i : Entry(i)' = Entry(i)
  BY Zenon, <1>3 DEF Size, Entry
<1>7. \A m \in Nodes, x \in Requests : Carries(m, x)' => (m = n /\ x = r) \/ (m # n /\ Carries(m, x))
  BY Zenon, <1>3 DEF Carries, Idles
<1>8. \A m \in Nodes, x \in Requests : Queued(m, x)' => m # n /\ Queued(m, x)
  BY Zenon, <1>1, <1>2, <1>3 DEF Queued, Idles
<1>9. /\ \A m \in Nodes : ~Carries(m, r) /\ (m # n => ~Queued(m, r))
      /\ \A f \in frames : f.req # r
      /\ \A i \in 1..Size : Entry(i).req # r
  <2>1. Alone(r)
    BY Zenon, <1>0, <1>2 DEF Apart
  <2>. QED
    BY Zenon, <1>5, <2>1 DEF Alone
<1>10. Alone(r)'
  BY Zenon, <1>1, <1>6, <1>7, <1>8, <1>9 DEF Alone
<1>11. OthersShrink(r)
  BY Zenon, <1>1, <1>6, <1>7, <1>8 DEF OthersShrink
<1>12. ~Spent(r)
  BY Zenon, <1>5 DEF Spent
<1>13. ClientsKept /\ (\A x \in asked' \ asked : \A y \in before'[x] : Done(y)) /\ \A f \in frames' : f.req \in asked'
  BY Zenon, <1>0, <1>1 DEF ClientsKept, LogInv
<1>. QED
  BY Zenon, <1>1, <1>2, <1>3, <1>4, <1>10, <1>11, <1>12, <1>13, MoveKeeps

LEMMA RouteForwardKeeps ==
  ASSUME HaAssumption, HaInv, NEW n \in Nodes, Route(n), pc'[n] = "forward"
  PROVE  HaInv'
<1>0. Typed /\ RaftTyped /\ Apart /\ LogInv /\ NodeInv(n) /\ DOMAIN pc = Nodes
  BY Zenon DEF HaInv, Typed, CallTyped
<1>1. PICK b \in Believed :
        /\ b # n /\ b # None /\ origin[n] = None /\ state[n] # Sealed
        /\ pc[n] = "route" /\ pc' = [pc EXCEPT ![n] = "forward"]
        /\ peer' = [peer EXCEPT ![n] = b]
        /\ frames' = frames \cup {Forward(n, b, req[n])}
        /\ UNCHANGED status
        /\ UNCHANGED <<raft, node, req, origin, view, slot, clients, faults>>
  BY Zenon, <1>0 DEF Route, Respond, Goto
<1>2. UNCHANGED <<leader, elected, committed, tail, state, durable, fenced, recovery_required, req, origin,
                  status, view, slot, asked, reply, before>>
  BY Zenon, <1>1 DEF raft, node, clients
<1>3. PICK r \in Requests : r = req[n] /\ r \in asked
  BY Zenon, <1>0, <1>1 DEF NodeInv, Asking, Typed, CallTyped
<1>4. b \in Nodes /\ Forward(n, b, r) \in Forwards /\ Forward(n, b, r).req = r
  <2>1. b \in Nodes
    BY Zenon, <1>0, <1>1 DEF Believed, RaftTyped
  <2>. QED
    BY Zenon, <2>1 DEF Forward, Forwards
<1>5. Typed'
  <2>1. LinksTyped'
    BY Zenon, <1>0, <1>1, <1>2, <1>3, <1>4 DEF Typed, LinksTyped
  <2>2. CallTyped'
    BY Zenon, <1>0, <1>1, <1>2, <1>4 DEF Typed, CallTyped
  <2>3. RaftTyped' /\ NodeTyped' /\ ClientsTyped'
    BY Zenon, <1>0, <1>2 DEF Typed, RaftTyped, NodeTyped, ClientsTyped
  <2>. QED
    BY Zenon, <2>1, <2>2, <2>3 DEF Typed
<1>6. \A m \in Nodes : m # n => Idles(m)
  BY Zenon, <1>0, <1>1, <1>2 DEF Idles
<1>7. NodeInv(n)'
  <2>1. Asking(n)'
    BY Zenon, <1>0, <1>1, <1>2, <1>3 DEF NodeInv, Asking
  <2>2. Claims(n)' /\ Reads(n)' /\ Stopped(n)'
    BY Zenon, <1>0, <1>2 DEF NodeInv, Claims, Reads, Stopped
  <2>3. Holds(n)'
    BY Zenon, <1>0, <1>2 DEF NodeInv, Holds, Working, StateAt
  <2>. QED
    BY Zenon, <2>1, <2>2, <2>3 DEF NodeInv
<1>8. Carries(n, r)
  BY Zenon, <1>1, <1>3 DEF Carries, Unproposed
<1>9. Size' = Size /\ \A i : Entry(i)' = Entry(i)
  BY Zenon, <1>2 DEF Size, Entry
<1>10. \A m \in Nodes, x \in Requests : Carries(m, x)' => m # n /\ Carries(m, x)
  BY Zenon, <1>0, <1>1, <1>2 DEF Carries, Unproposed
<1>11. \A m \in Nodes, x \in Requests : Queued(m, x)' => Queued(m, x)
  BY Zenon, <1>0, <1>1, <1>2 DEF Queued
<1>12. /\ \A m \in Nodes : ~Queued(m, r) /\ (m # n => ~Carries(m, r))
       /\ \A f \in frames : f.req # r
       /\ \A i \in 1..Size : Entry(i).req # r
  <2>1. Alone(r)
    BY Zenon, <1>0 DEF Apart
  <2>. QED
    BY Zenon, <1>8, <2>1 DEF Alone
<1>13. \A f \in frames' : f = Forward(n, b, r) \/ (f \in frames /\ f.req # r)
  BY Zenon, <1>1, <1>3, <1>12
<1>14. Alone(r)'
  BY Zenon, <1>9, <1>10, <1>11, <1>12, <1>13 DEF Alone
<1>15. OthersShrink(r)
  BY Zenon, <1>2, <1>4, <1>9, <1>10, <1>11, <1>13 DEF OthersShrink
<1>16. ~Spent(r)
  BY Zenon, <1>8 DEF Spent
<1>17. ClientsKept /\ (\A x \in asked' \ asked : \A y \in before'[x] : Done(y)) /\ \A f \in frames' : f.req \in asked'
  BY Zenon, <1>0, <1>2, <1>3, <1>4, <1>13 DEF ClientsKept, LogInv
<1>. QED
  BY Zenon, <1>2, <1>5, <1>6, <1>7, <1>14, <1>15, <1>16, <1>17, MoveKeeps

LEMMA DeliverKeeps ==
  ASSUME HaAssumption, HaInv, NEW f \in frames, Deliver(f) \/ LoseFrame(f)
  PROVE  HaInv'
<1>0. Typed /\ RaftTyped /\ Apart /\ LogInv
  BY Zenon DEF HaInv, Typed
<1>1. UNCHANGED <<leader, elected, committed, tail, state, durable, fenced, recovery_required, pc, req, origin,
                  peer, status, view, asked, reply, before>>
  BY Zenon DEF Deliver, LoseFrame, raft, node, call, clients
<1>2. frames' = frames \ {f} /\ (slot' = slot \/ (slot[f.to] = NoForward /\ slot' = [slot EXCEPT ![f.to] = f]))
  BY Zenon DEF Deliver, LoseFrame
<1>3. PICK r \in Requests : r = f.req /\ r \in asked
  BY Zenon, <1>0 DEF Typed, LinksTyped, Forwards, LogInv
<1>4. f \in Forwards /\ f.to \in Nodes
  BY Zenon, <1>0 DEF Typed, LinksTyped, Forwards
<1>5. Typed'
  <2>1. LinksTyped'
    BY Zenon, <1>0, <1>2, <1>4 DEF Typed, LinksTyped
  <2>2. RaftTyped' /\ NodeTyped' /\ CallTyped' /\ ClientsTyped'
    BY Zenon, <1>0, <1>1 DEF Typed, RaftTyped, NodeTyped, CallTyped, ClientsTyped
  <2>. QED
    BY Zenon, <2>1, <2>2 DEF Typed
<1>6. \A m \in Nodes : slot'[m] = slot[m] \/ (m = f.to /\ slot'[m] = f)
  BY Zenon, <1>0, <1>2, <1>4 DEF Typed, LinksTyped
<1>7. \A m \in Nodes : Idles(m)
  BY Zenon, <1>1, <1>3, <1>6 DEF Idles
<1>8. Size' = Size /\ \A i : Entry(i)' = Entry(i)
  BY Zenon, <1>1 DEF Size, Entry
<1>9. \A m \in Nodes, x \in Requests : Carries(m, x)' => Carries(m, x)
  BY Zenon, <1>1 DEF Carries
<1>10. \A m \in Nodes, x \in Requests : Queued(m, x)' => Queued(m, x) \/ (m = f.to /\ x = r)
  BY Zenon, <1>1, <1>3, <1>6 DEF Queued
<1>11. /\ \A m \in Nodes : ~Queued(m, r) /\ ~Carries(m, r)
       /\ \A g \in frames : g.req = r => g = f
       /\ \A i \in 1..Size : Entry(i).req # r
  <2>1. Alone(r)
    BY Zenon, <1>0 DEF Apart
  <2>. QED
    BY Zenon, <1>3, <2>1 DEF Alone
<1>12. \A g \in frames' : g \in frames /\ g.req # r
  BY Zenon, <1>2, <1>11
<1>13. Alone(r)'
  BY Zenon, <1>8, <1>9, <1>10, <1>11, <1>12 DEF Alone
<1>14. OthersShrink(r)
  BY Zenon, <1>1, <1>8, <1>9, <1>10, <1>12 DEF OthersShrink
<1>15. ~Spent(r)
  BY Zenon, <1>3 DEF Spent
<1>16. ClientsKept /\ (\A x \in asked' \ asked : \A y \in before'[x] : Done(y)) /\ \A g \in frames' : g.req \in asked'
  BY Zenon, <1>0, <1>1, <1>12 DEF ClientsKept, LogInv
<1>. QED
  BY Zenon, <1>1, <1>5, <1>7, <1>13, <1>14, <1>15, <1>16, MoveKeeps

\* A request that is proposed is in the log and nowhere else.
LEMMA ProposeKeeps ==
  ASSUME HaAssumption, HaInv, NEW n \in Nodes, Propose(n), leader = n
  PROVE  HaInv'
<1>0. Typed /\ RaftTyped /\ Apart /\ LogInv /\ NodeInv(n) /\ DOMAIN pc = Nodes
  BY Zenon DEF HaInv, Typed, CallTyped
<1>1. /\ pc[n] = "propose" /\ pc' = [pc EXCEPT ![n] = "replicate"]
      /\ tail' = Append(tail, Envelope(n, req[n], state[n], Apply(state[n], req[n])))
      /\ UNCHANGED <<leader, elected, committed, state, durable, fenced, recovery_required, req, origin, peer,
                     status, view, frames, slot, asked, reply, before>>
  BY Zenon DEF Propose, Goto, node, links, clients
<1>2. PICK r \in Requests : r = req[n] /\ r \in asked
  BY Zenon, <1>0, <1>1 DEF NodeInv, Asking, Typed, CallTyped
<1>3. state[n] \in States /\ state[n] # Sealed /\ Apply(state[n], r) \in States
  <2>1. state[n] \in States /\ state[n] # Sealed
    BY Zenon, <1>0, <1>1 DEF NodeInv, Holds, Working, Typed, NodeTyped
  <2>. QED
    BY Zenon, <2>1, ApplyTwice
<1>4. PICK e \in Envelopes : /\ e = Envelope(n, r, state[n], Apply(state[n], r))
                             /\ e.req = r /\ e.base = state[n] /\ e.state = Apply(state[n], r)
  <2>1. Envelope(n, r, state[n], Apply(state[n], r)) \in Envelopes
    BY Zenon, <1>3 DEF Envelope, Envelopes
  <2>. QED
    BY Zenon, <2>1 DEF Envelope
<1>5. /\ tail' \in Seq(Envelopes) /\ Size' = Size + 1
      /\ \A i \in 1..Size + 1 : Entry(i)' = IF i = Size + 1 THEN e ELSE Entry(i)
  BY Zenon, <1>0, <1>1, <1>2, <1>4, LogAppend
<1>6. Size \in Nat /\ Len(committed) \in Nat /\ Len(committed) <= Size /\ Len(committed)' = Len(committed)
  BY Zenon, <1>0, <1>1, LogType
<1>7. \A i \in 1..Size' : (i \in 1..Size /\ Entry(i)' = Entry(i)) \/ (i = Size + 1 /\ Entry(i)' = e)
  BY <1>5, <1>6
<1>8. Typed'
  <2>1. RaftTyped'
    BY Zenon, <1>0, <1>1, <1>5 DEF RaftTyped
  <2>2. CallTyped'
    BY Zenon, <1>0, <1>1 DEF Typed, CallTyped, Working
  <2>3. NodeTyped' /\ LinksTyped' /\ ClientsTyped'
    BY Zenon, <1>0, <1>1 DEF Typed, NodeTyped, LinksTyped, ClientsTyped
  <2>. QED
    BY Zenon, <2>1, <2>2, <2>3 DEF Typed
<1>9. pc'[n] = "replicate" /\ \A m \in Nodes : m # n => Idles(m)
  BY Zenon, <1>0, <1>1 DEF Idles
<1>10. Carries(n, r)
  BY Zenon, <1>1, <1>2 DEF Carries, Unproposed
<1>11. \A m \in Nodes, x \in Requests : Carries(m, x)' => m # n /\ Carries(m, x)
  BY Zenon, <1>1, <1>9 DEF Carries, Unproposed, Idles
<1>12. \A m \in Nodes, x \in Requests : Queued(m, x)' => Queued(m, x)
  BY Zenon, <1>1, <1>9 DEF Queued, Idles
<1>13. /\ \A m \in Nodes : ~Queued(m, r) /\ (m # n => ~Carries(m, r))
       /\ \A f \in frames : f.req # r
       /\ \A i \in 1..Size : Entry(i).req # r
  <2>1. Alone(r)
    BY Zenon, <1>0 DEF Apart
  <2>. QED
    BY Zenon, <1>10, <2>1 DEF Alone
<1>14. \A i \in 1..Size' : Entry(i)'.req = r => i = Size + 1
  BY Zenon, <1>7, <1>13
<1>15. Alone(r)'
  BY Zenon, <1>1, <1>11, <1>12, <1>13, <1>14 DEF Alone
<1>16. OthersShrink(r)
  BY Zenon, <1>1, <1>4, <1>7, <1>11, <1>12 DEF OthersShrink
<1>17. ~Spent(r)
  BY Zenon, <1>10 DEF Spent
<1>18. Apart' /\ Stays
  <2>1. Len(committed)' \in Nat /\ Size' \in Nat /\ Len(committed)' >= Len(committed)
    BY <1>5, <1>6
  <2>. QED
    BY Zenon, <1>0, <1>6, <1>15, <1>16, <1>17, <2>1, MoveApart
<1>19. LogGrows
  <2>1. Size' \in Nat /\ Len(committed)' \in Nat /\ Len(committed)' >= Len(committed)
        /\ Len(committed)' <= Size' /\ Len(committed)' <= Size
    BY <1>5, <1>6
  <2>2. \A i \in 1..Size' : \/ i <= Size /\ Entry(i)' = Entry(i)
                            \/ i > Size /\ ~Spent(Entry(i)'.req)
    BY <1>4, <1>6, <1>7, <1>17
  <2>. QED
    BY Zenon, <2>1, <2>2 DEF LogGrows
<1>20. ClientsKept
  BY Zenon, <1>1 DEF ClientsKept
<1>21. Additions
  <2>1. \A i \in 1..Size' : i > Size => Entry(i)' = e
    BY <1>6, <1>7
  <2>. QED
    BY Zenon, <1>0, <1>1, <1>2, <1>4, <2>1 DEF Additions, LogInv
<1>22. NodeInv(n)'
  <2>1. Asking(n)' /\ Stopped(n)'
    BY Zenon, <1>0, <1>1, <1>9 DEF NodeInv, Asking, Stopped
  <2>2. Reads(n)'
    BY Zenon, <1>0, <1>1, <1>9 DEF NodeInv, Reads
  <2>3. Claims(n)'
    <3>1. \A m \in Nodes : ~Carries(m, r)' /\ ~Queued(m, r)'
      BY Zenon, <1>11, <1>12, <1>13
    <3>2. Spent(r)'
      BY Zenon, <1>1, <1>2, <1>13, <3>1 DEF Spent
    <3>. QED
      BY Zenon, <1>1, <1>2, <1>9, <3>2 DEF Claims
  <2>4. Holds(n)'
    <3>1. ASSUME NEW i \in 1..Size', Entry(i)'.req = req'[n] PROVE Entry(i)'.state = Apply(state[n], req[n])'
      <4>1. i = Size + 1
        BY Zenon, <1>1, <1>2, <1>14, <3>1
      <4>2. Entry(i)' = e
        BY <1>6, <1>7, <4>1
      <4>. QED
        BY Zenon, <1>1, <1>2, <1>4, <4>2 DEF Apply
    <3>2. (\E i \in 0..Len(committed) : durable[n].state = StateAt(i))'
      BY Zenon, <1>0, <1>1 DEF NodeInv, Holds, StateAt
    <3>3. (state[n] # Sealed => \E i \in 0..Len(committed) : state[n] = StateAt(i))'
      BY Zenon, <1>0, <1>1 DEF NodeInv, Holds, StateAt
    <3>. QED
      BY Zenon, <1>1, <1>3, <1>9, <3>1, <3>2, <3>3 DEF Holds
  <2>. QED
    BY Zenon, <2>1, <2>2, <2>3, <2>4 DEF NodeInv
<1>. QED
  BY Zenon, <1>8, <1>9, <1>18, <1>19, <1>20, <1>21, <1>22, StepKeeps

-----------------------------------------------------------------------------
(***************************************************************************)
(* Steps that end a call, and those of Raft.                               *)
(***************************************************************************)
\* Requests only leave places.
LEMMA ShrinkKeeps ==
  ASSUME HaInv, Typed', Shrinks, UNCHANGED <<asked, before>>,
         \A r \in Requests : reply'[r] = "ok" => reply[r] = "ok" \/ (Done(r) /\ Takes(r)),
         Stays => \A m \in Nodes : Idles(m) \/ NodeInv(m)'
  PROVE  HaInv'
<1>0. Typed /\ RaftTyped /\ Apart /\ LogInv
  BY Zenon DEF HaInv, Typed
<1>1. Apart' /\ Stays
  BY Zenon, <1>0, ShrinkApart
<1>2. LogKept /\ frames' \subseteq frames
  BY Zenon DEF Shrinks
<1>3. LogGrows
  BY Zenon, <1>0, <1>2, KeptGrows
<1>4. ClientsKept
  BY Zenon DEF ClientsKept
<1>5. Additions
  <2>1. \A i \in 1..Size' : ~(i > Size)
    <3>1. Size \in Nat /\ Size' \in Nat /\ Size' <= Size
      BY Zenon, <1>0, <1>2, LogType DEF LogKept
    <3>. QED
      BY <3>1
  <2>. QED
    BY Zenon, <1>0, <1>2, <2>1 DEF Additions, LogInv
<1>. QED
  BY Zenon, <1>1, <1>3, <1>4, <1>5, StepKeeps

\* A node at rest keeps its memory and its store.
LEMMA RestNode ==
  ASSUME HaInv, NEW n \in Nodes, pc'[n] \in {"idle", "answer"},
         pc'[n] = "answer" => /\ req[n] # NoRequest /\ pc[n] # "idle"
                              /\ status'[n] = "ok" => Done(req[n])' /\ Takes(req[n])',
         slot'[n] \in {slot[n], NoForward}, fenced'[n] => recovery_required'[n],
         UNCHANGED <<committed, tail, state, durable, req, origin, view, asked>>
  PROVE  NodeInv(n)'
<1>0. NodeInv(n)
  BY Zenon DEF HaInv
<1>1. Asking(n)'
  BY Zenon, <1>0 DEF NodeInv, Asking
<1>2. Claims(n)'
  BY Zenon DEF Claims
<1>3. Reads(n)' /\ Stopped(n)'
  BY Zenon, <1>0 DEF NodeInv, Reads, Stopped
<1>4. Holds(n)'
  BY Zenon, <1>0 DEF NodeInv, Holds, Working, StateAt
<1>. QED
  BY Zenon, <1>1, <1>2, <1>3, <1>4 DEF NodeInv

LEMMA SendKeeps ==
  ASSUME HaAssumption, HaInv, NEW n \in Nodes, pc[n] = "answer",
         NEW s \in {"ok", "error"}, s = "ok" => status[n] = "ok", Send(n, s),
         recovery_required' \in [Nodes -> BOOLEAN],
         \A m \in Nodes : recovery_required'[m] = recovery_required[m] \/ (m = n /\ recovery_required'[m]),
         UNCHANGED <<leader, elected, committed, tail, state, durable, fenced, req, origin, peer, view,
                     frames, asked, before>>
  PROVE  HaInv'
<1>0. Typed /\ RaftTyped /\ Apart /\ LogInv /\ NodeInv(n) /\ DOMAIN pc = Nodes /\ DOMAIN status = Nodes
  BY Zenon DEF HaInv, Typed, CallTyped
<1>1. req[n] \in Requests /\ req[n] \in asked /\ (s = "ok" => Done(req[n]) /\ Takes(req[n]))
  BY Zenon, <1>0 DEF NodeInv, Asking, Claims, Typed, CallTyped
<1>2. /\ pc'[n] = "idle" /\ slot'[n] \in {slot[n], NoForward}
      /\ origin[n] # None => slot'[n] = NoForward
      /\ \A m \in Nodes : m # n =>
           /\ slot'[m] = slot[m]
           /\ \/ pc'[m] = pc[m] /\ status'[m] = status[m]
              \/ pc[m] = "forward" /\ req[m] = req[n] /\ pc'[m] = "answer" /\ status'[m] = s
      /\ reply' = reply \/ reply' = [reply EXCEPT ![req[n]] = s]
      /\ CallTyped' /\ LinksTyped'
  <2>1. CASE origin[n] = None
    <3>1. /\ reply' = [reply EXCEPT ![req[n]] = s]
          /\ pc' = [pc EXCEPT ![n] = "idle"] /\ UNCHANGED <<slot, status>>
      BY Zenon, <2>1 DEF Send
    <3>2. CallTyped' /\ LinksTyped'
      BY Zenon, <1>0, <3>1 DEF Typed, CallTyped, LinksTyped
    <3>. QED
      BY Zenon, <1>0, <2>1, <3>1, <3>2
  <2>2. CASE origin[n] # None
    <3>1. PICK m \in Nodes : m = origin[n]
      BY Zenon, <1>0, <2>2 DEF Typed, CallTyped
    <3>2. /\ slot' = [slot EXCEPT ![n] = NoForward] /\ reply' = reply
          /\ pc' = [pc EXCEPT ![n] = "idle", ![m] = IF pc[m] = "forward" /\ req[m] = req[n] THEN "answer" ELSE @]
          /\ status' = [status EXCEPT ![m] = IF pc[m] = "forward" /\ req[m] = req[n] THEN s ELSE @]
      BY Zenon, <2>2, <3>1 DEF Send
    <3>3. /\ pc'[n] = "idle"
          /\ \A x \in Nodes : x # n =>
               \/ pc'[x] = pc[x] /\ status'[x] = status[x]
               \/ pc[x] = "forward" /\ req[x] = req[n] /\ pc'[x] = "answer" /\ status'[x] = s
      BY <1>0, <3>2
    <3>4. slot'[n] = NoForward /\ \A x \in Nodes : x # n => slot'[x] = slot[x]
      BY Zenon, <1>0, <3>2 DEF Typed, LinksTyped
    <3>5. CallTyped'
      BY Zenon, <1>0, <3>2 DEF Typed, CallTyped
    <3>6. LinksTyped'
      BY Zenon, <1>0, <3>2 DEF Typed, LinksTyped
    <3>. QED
      BY Zenon, <3>2, <3>3, <3>4, <3>5, <3>6
  <2>. QED
    BY Zenon, <2>1, <2>2
<1>3. Typed'
  <2>1. RaftTyped' /\ NodeTyped'
    BY Zenon, <1>0 DEF Typed, RaftTyped, NodeTyped
  <2>2. ClientsTyped'
    BY <1>0, <1>2 DEF Typed, ClientsTyped
  <2>. QED
    BY Zenon, <1>2, <2>1, <2>2 DEF Typed
<1>4. Shrinks
  <2>1. LogKept
    BY Zenon, <1>0, LogSame
  <2>2. \A m \in Nodes, r \in Requests : Carries(m, r)' => Carries(m, r)
    BY Zenon, <1>2 DEF Carries, Unproposed
  <2>3. \A m \in Nodes, r \in Requests : Queued(m, r)' => Queued(m, r)
    BY Zenon, <1>2 DEF Queued
  <2>. QED
    BY Zenon, <2>1, <2>2, <2>3 DEF Shrinks
<1>5. \A r \in Requests : reply'[r] = "ok" => reply[r] = "ok" \/ (Done(r) /\ Takes(r))
  BY Zenon, <1>0, <1>1, <1>2 DEF Typed, ClientsTyped
<1>6. ASSUME Stays, NEW m \in Nodes PROVE Idles(m) \/ NodeInv(m)'
  <2>1. fenced'[m] => recovery_required'[m]
    BY Zenon DEF HaInv, NodeInv, Stopped
  <2>2. CASE m = n
    BY Zenon, <1>2, <2>1, <2>2, RestNode
  <2>3. CASE m # n /\ pc'[m] = pc[m] /\ status'[m] = status[m]
    BY Zenon, <1>2, <2>3 DEF Idles
  <2>4. CASE m # n /\ pc[m] = "forward" /\ req[m] = req[n] /\ pc'[m] = "answer" /\ status'[m] = s
    <3>1. \A r \in Requests : r = req[n] /\ s = "ok" => Done(r)' /\ Takes(r)'
      BY Zenon, <1>1, <1>6 DEF Stays, Takes, StateAt
    <3>2. status'[m] = "ok" => Done(req[m])' /\ Takes(req[m])'
      BY Zenon, <1>1, <2>4, <3>1
    <3>3. req[m] # NoRequest
      BY Zenon, <1>1, <2>4 DEF HaAssumption
    <3>. QED
      BY Zenon, <1>2, <2>1, <2>4, <3>2, <3>3, RestNode
  <2>. QED
    BY Zenon, <1>2, <2>2, <2>3, <2>4
<1>. QED
  BY Zenon, <1>3, <1>4, <1>5, <1>6, ShrinkKeeps

LEMMA AnswerKeeps ==
  ASSUME HaAssumption, HaInv, NEW n \in Nodes, Answer(n) \/ AnswerUnaudited(n)
  PROVE  HaInv'
<1>0. /\ recovery_required \in [Nodes -> BOOLEAN] /\ status[n] \in {"ok", "error"}
  BY Zenon DEF HaInv, Typed, NodeTyped, CallTyped
<1>1. CASE Answer(n)
  <2>1. /\ pc[n] = "answer" /\ Send(n, status[n]) /\ recovery_required' = recovery_required
        /\ UNCHANGED <<leader, elected, committed, tail, state, durable, fenced, req, origin, peer, view,
                       frames, asked, before>>
    BY Zenon, <1>1 DEF Answer, raft, node
  <2>. QED
    BY Zenon, <1>0, <2>1, SendKeeps
<1>2. CASE AnswerUnaudited(n)
  <2>1. /\ pc[n] = "answer" /\ Send(n, "error")
        /\ recovery_required' = [recovery_required EXCEPT ![n] = TRUE]
        /\ UNCHANGED <<leader, elected, committed, tail, state, durable, fenced, req, origin, peer, view,
                       frames, asked, before>>
    BY Zenon, <1>2 DEF AnswerUnaudited, raft
  <2>2. /\ recovery_required' \in [Nodes -> BOOLEAN]
        /\ \A m \in Nodes : recovery_required'[m] = recovery_required[m] \/ (m = n /\ recovery_required'[m])
    BY Zenon, <1>0, <2>1
  <2>. QED
    BY Zenon, <2>1, <2>2, SendKeeps
<1>. QED
  BY Zenon, <1>1, <1>2

LEMMA UnsealKeeps ==
  ASSUME HaAssumption, HaInv, NEW n \in Nodes, Unseal(n)
  PROVE  HaInv'
<1>0. Typed /\ RaftTyped /\ Apart /\ LogInv /\ NodeInv(n)
  BY Zenon DEF HaInv, Typed
<1>1. PICK to \in {"sync", "idle"} : pc[n] = "idle" /\ pc' = [pc EXCEPT ![n] = to]
  BY Zenon DEF Unseal, Goto
<1>2. /\ state' = [state EXCEPT ![n] = durable[n].state] /\ fenced' = [fenced EXCEPT ![n] = FALSE]
      /\ recovery_required' = [recovery_required EXCEPT ![n] = FALSE]
      /\ req' = [req EXCEPT ![n] = NoRequest] /\ origin' = [origin EXCEPT ![n] = None]
      /\ UNCHANGED <<leader, elected, committed, tail, durable, peer, status, view, frames, slot, asked, reply, before>>
  BY Zenon DEF Unseal, raft, links, clients
<1>3. durable[n].state \in States /\ durable[n].state # Sealed
  <2>1. durable[n].state \in States
    BY Zenon, <1>0 DEF Typed, NodeTyped
  <2>. QED
    BY Zenon, <2>1 DEF HaAssumption, States
<1>4. Typed'
  <2>1. CallTyped'
    BY Zenon, <1>0, <1>1, <1>2 DEF Typed, CallTyped, Working
  <2>2. NodeTyped'
    BY Zenon, <1>0, <1>2, <1>3 DEF Typed, NodeTyped
  <2>3. RaftTyped' /\ LinksTyped' /\ ClientsTyped'
    BY Zenon, <1>0, <1>2 DEF Typed, RaftTyped, LinksTyped, ClientsTyped
  <2>. QED
    BY Zenon, <2>1, <2>2, <2>3 DEF Typed
<1>5. /\ pc'[n] = to /\ state'[n] = durable[n].state /\ ~fenced'[n] /\ req'[n] = NoRequest /\ origin'[n] = None
      /\ \A m \in Nodes : m # n => Idles(m)
  BY Zenon, <1>0, <1>1, <1>2 DEF Idles, Typed, CallTyped, NodeTyped
<1>6. Shrinks
  <2>1. LogKept
    BY Zenon, <1>0, <1>2, LogSame
  <2>2. \A m \in Nodes, r \in Requests : Carries(m, r)' => Carries(m, r)
    BY <1>5 DEF Carries, Idles, HaAssumption
  <2>3. \A m \in Nodes, r \in Requests : Queued(m, r)' => Queued(m, r)
    BY Zenon, <1>1, <1>2, <1>5 DEF Queued, Idles
  <2>. QED
    BY Zenon, <1>2, <2>1, <2>2, <2>3 DEF Shrinks
<1>7. NodeInv(n)'
  <2>1. Asking(n)'
    BY Zenon, <1>0, <1>2, <1>5 DEF NodeInv, Asking
  <2>2. Claims(n)' /\ Stopped(n)'
    BY Zenon, <1>5 DEF Claims, Stopped
  <2>3. Reads(n)'
    BY Zenon, <1>0, <1>2, <1>5 DEF NodeInv, Reads
  <2>4. Holds(n)'
    BY Zenon, <1>0, <1>2, <1>3, <1>5 DEF NodeInv, Holds, StateAt
  <2>. QED
    BY Zenon, <2>1, <2>2, <2>3, <2>4 DEF NodeInv
<1>8. \A m \in Nodes : Idles(m) \/ NodeInv(m)'
  BY Zenon, <1>5, <1>7
<1>. QED
  BY Zenon, <1>2, <1>4, <1>6, <1>8, ShrinkKeeps

\* A put that a crash cuts off stores a state of the log, or nothing.
LEMMA CrashStores ==
  ASSUME HaAssumption, HaInv, NEW n \in Nodes, NEW d \in AfterCrash(n)
  PROVE  /\ d \in [state : States, keys : SUBSET States]
         /\ \E i \in 0..Len(committed) : d.state = StateAt(i)
<1>0. Typed /\ RaftTyped /\ NodeTyped /\ NodeInv(n) /\ Len(committed) \in Nat
  BY Zenon, LogType DEF HaInv, Typed
<1>1. durable[n] \in [state : States, keys : SUBSET States] /\ \E i \in 0..Len(committed) : durable[n].state = StateAt(i)
  BY Zenon, <1>0 DEF NodeTyped, NodeInv, Holds
<1>2. CASE d = durable[n]
  BY Zenon, <1>1, <1>2
<1>3. CASE pc[n] = "persist" /\ d = Stored(n, Apply(state[n], req[n]), FALSE)
  <2>1. state[n] \in States /\ req[n] \in Requests
    BY Zenon, <1>0, <1>3 DEF NodeInv, Holds, Asking, Working, NodeTyped, Typed, CallTyped
  <2>2. Apply(state[n], req[n]) \in States
    BY Zenon, <2>1, ApplyTwice
  <2>3. PICK i \in 1..Len(committed) : committed[i].req = req[n]
    BY Zenon, <1>0, <1>3 DEF NodeInv, Holds
  <2>4. i \in 1..Size /\ Entry(i) = committed[i] /\ i \in 0..Len(committed) /\ i # 0
    BY <1>0, LogType
  <2>5. StateAt(i) = Apply(state[n], req[n])
    BY Zenon, <1>0, <1>3, <2>3, <2>4 DEF NodeInv, Holds, StateAt
  <2>6. d \in [state : States, keys : SUBSET States] /\ d.state \in {Apply(state[n], req[n]), durable[n].state}
    BY Zenon, <1>0, <1>3, <2>2, StoredIs
  <2>. QED
    BY Zenon, <1>1, <2>4, <2>5, <2>6
<1>4. CASE pc[n] = "reconcile" /\ d = Stored(n, committed[view[n]].state, TRUE)
  <2>1. view[n] \in Nat /\ view[n] <= Len(committed) /\ view[n] > 0
    BY Zenon, <1>0, <1>4 DEF NodeInv, Reads, Typed, CallTyped
  <2>2. view[n] \in 1..Len(committed) /\ view[n] \in 0..Len(committed) /\ view[n] # 0
    BY <1>0, <2>1
  <2>3. committed[view[n]] \in Envelopes
    BY <1>0, <2>2 DEF RaftTyped
  <2>4. committed[view[n]].state \in States /\ committed[view[n]].state = StateAt(view[n])
    BY Zenon, <2>2, <2>3 DEF Envelopes, StateAt
  <2>5. d \in [state : States, keys : SUBSET States] /\ d.state \in {committed[view[n]].state, durable[n].state}
    BY Zenon, <1>0, <1>4, <2>4, StoredIs
  <2>. QED
    BY Zenon, <1>1, <2>2, <2>4, <2>5
<1>. QED
  BY Zenon, <1>2, <1>3, <1>4 DEF AfterCrash

LEMMA CrashKeeps ==
  ASSUME HaAssumption, HaInv, NEW n \in Nodes, Crash(n)
  PROVE  HaInv'
<1>0. Typed /\ RaftTyped /\ Apart /\ LogInv /\ NodeInv(n)
  BY Zenon DEF HaInv, Typed
<1>1. PICK d \in AfterCrash(n) : durable' = [durable EXCEPT ![n] = d]
  BY Zenon DEF Crash
<1>2. d \in [state : States, keys : SUBSET States] /\ \E i \in 0..Len(committed) : d.state = StateAt(i)
  BY Zenon, CrashStores
<1>3. /\ state' = [state EXCEPT ![n] = Sealed] /\ fenced' = [fenced EXCEPT ![n] = FALSE]
      /\ recovery_required' = [recovery_required EXCEPT ![n] = FALSE]
      /\ pc' = [pc EXCEPT ![n] = "idle"] /\ slot' = [slot EXCEPT ![n] = NoForward]
      /\ leader' \in {None, leader}
      /\ UNCHANGED <<elected, committed, tail, req, origin, peer, status, view, frames, asked, before>>
  BY Zenon DEF Crash, call
<1>4. \A r \in Requests : reply'[r] = "ok" => reply[r] = "ok"
  BY Zenon, <1>0 DEF Crash, Typed, ClientsTyped
<1>5. reply' \in [Requests -> {"none", "ok", "error"}]
  BY Zenon, <1>0 DEF Crash, Typed, ClientsTyped
<1>6. Typed'
  <2>1. CallTyped' /\ RaftTyped' /\ LinksTyped'
    BY Zenon, <1>0, <1>3 DEF Typed, CallTyped, RaftTyped, LinksTyped
  <2>2. NodeTyped'
    BY Zenon, <1>0, <1>1, <1>2, <1>3 DEF Typed, NodeTyped
  <2>3. ClientsTyped'
    BY Zenon, <1>0, <1>3, <1>5 DEF Typed, ClientsTyped
  <2>. QED
    BY Zenon, <2>1, <2>2, <2>3 DEF Typed
<1>7. /\ pc'[n] = "idle" /\ state'[n] = Sealed /\ durable'[n] = d /\ ~fenced'[n] /\ slot'[n] = NoForward
      /\ \A m \in Nodes : m # n => Idles(m) /\ slot'[m] = slot[m]
  BY Zenon, <1>0, <1>1, <1>3 DEF Idles, Typed, CallTyped, NodeTyped, LinksTyped
<1>8. Shrinks
  <2>1. LogKept
    BY Zenon, <1>0, <1>3, LogSame
  <2>2. \A m \in Nodes, r \in Requests : Carries(m, r)' => Carries(m, r)
    BY Zenon, <1>7 DEF Carries, Idles, Unproposed
  <2>3. \A m \in Nodes, r \in Requests : Queued(m, r)' => Queued(m, r)
    BY Zenon, <1>7 DEF Queued, Idles
  <2>. QED
    BY Zenon, <1>3, <2>1, <2>2, <2>3 DEF Shrinks
<1>9. NodeInv(n)'
  <2>1. Asking(n)'
    BY Zenon, <1>0, <1>3, <1>7 DEF NodeInv, Asking
  <2>2. Claims(n)' /\ Stopped(n)'
    BY Zenon, <1>7 DEF Claims, Stopped
  <2>3. Reads(n)'
    BY Zenon, <1>0, <1>3, <1>7 DEF NodeInv, Reads
  <2>4. Holds(n)'
    BY Zenon, <1>2, <1>3, <1>7 DEF Holds, StateAt, Working
  <2>. QED
    BY Zenon, <2>1, <2>2, <2>3, <2>4 DEF NodeInv
<1>10. \A m \in Nodes : Idles(m) \/ NodeInv(m)'
  BY Zenon, <1>7, <1>9
<1>. QED
  BY Zenon, <1>3, <1>4, <1>6, <1>8, <1>10, ShrinkKeeps

LEMMA RaftKeeps ==
  ASSUME HaAssumption, HaInv, RaftCommit \/ \E n \in Nodes : Elect(n)
  PROVE  HaInv'
<1>0. Typed /\ RaftTyped /\ Apart /\ LogInv
  BY Zenon DEF HaInv, Typed
<1>1. LogKept /\ committed' \in Seq(Envelopes) /\ tail' \in Seq(Envelopes)
  BY Zenon, <1>0, LogCommit, LogElect
<1>2. /\ UNCHANGED <<state, durable, fenced, recovery_required, pc, req, origin, peer, status, view,
                     frames, slot, asked, reply, before>>
      /\ leader' \in Nodes \cup {None} /\ elected' \subseteq Nodes
  <2>1. CASE RaftCommit
    BY Zenon, <1>0, <2>1 DEF RaftCommit, node, call, links, clients, RaftTyped
  <2>2. CASE \E n \in Nodes : Elect(n)
    BY Zenon, <1>0, <2>2 DEF Elect, node, call, links, clients, RaftTyped
  <2>. QED
    BY Zenon, <2>1, <2>2
<1>3. Typed'
  <2>1. RaftTyped'
    BY Zenon, <1>1, <1>2 DEF RaftTyped
  <2>2. NodeTyped' /\ CallTyped' /\ LinksTyped' /\ ClientsTyped'
    BY Zenon, <1>0, <1>2 DEF Typed, NodeTyped, CallTyped, LinksTyped, ClientsTyped
  <2>. QED
    BY Zenon, <2>1, <2>2 DEF Typed
<1>4. Shrinks
  BY Zenon, <1>1, <1>2 DEF Shrinks, Carries, Queued
<1>5. \A m \in Nodes : Idles(m)
  BY Zenon, <1>2 DEF Idles
<1>. QED
  BY Zenon, <1>2, <1>3, <1>4, <1>5, ShrinkKeeps

-----------------------------------------------------------------------------
(***************************************************************************)
(* The invariant, and what it says.                                        *)
(***************************************************************************)
LEMMA InitInv ==
  ASSUME HaAssumption, Init
  PROVE  HaInv
<1>1. /\ leader \in Nodes /\ elected = {leader} /\ committed = <<>> /\ tail = <<>>
      /\ Len(committed) = 0 /\ Size = 0
  BY DEF Init, Size
<1>2. Typed
  <2>1. RaftTyped
    BY <1>1 DEF RaftTyped
  <2>2. NodeTyped
    BY Zenon DEF Init, NodeTyped, States
  <2>3. CallTyped
    BY Zenon DEF Init, CallTyped
  <2>4. LinksTyped /\ ClientsTyped
    BY Zenon DEF Init, LinksTyped, ClientsTyped
  <2>. QED
    BY Zenon, <2>1, <2>2, <2>3, <2>4 DEF Typed
<1>3. \A n \in Nodes, r \in Requests : ~Carries(n, r) /\ ~Queued(n, r)
  BY Zenon DEF Init, Carries, Queued, Unproposed
<1>4. Apart
  BY <1>1, <1>3 DEF Apart, Alone, Init
<1>5. LogInv
  BY <1>1 DEF LogInv, Init
<1>6. ASSUME NEW n \in Nodes PROVE NodeInv(n)
  <2>1. /\ pc[n] = "idle" /\ state[n] = {} /\ durable[n].state = {} /\ ~fenced[n] /\ slot[n] = NoForward
        /\ origin[n] = None /\ view[n] = 0
    BY Zenon DEF Init
  <2>2. Asking(n) /\ Claims(n) /\ Stopped(n)
    BY Zenon, <2>1 DEF Asking, Claims, Stopped
  <2>3. Reads(n)
    BY <1>1, <2>1 DEF Reads
  <2>4. Holds(n)
    BY <1>1, <2>1 DEF Holds, StateAt, Working
  <2>. QED
    BY Zenon, <2>2, <2>3, <2>4 DEF NodeInv
<1>. QED
  BY Zenon, <1>2, <1>4, <1>5, <1>6 DEF HaInv

LEMMA NextInv ==
  ASSUME HaAssumption, HaInv, Next
  PROVE  HaInv'
<1>1. ASSUME NEW n \in Nodes, Step(n) PROVE HaInv'
  <2>1. CASE Route(n)
    BY Zenon, <2>1, PcSteps, RouteForwardKeeps
  <2>2. CASE Propose(n)
    BY Zenon, <2>2, PcSteps, ProposeKeeps
  <2>3. CASE GiveUp(n) \/ Dispatch(n) \/ CheckBase(n) \/ Receipt(n) \/ LoseLeadership(n)
    BY Zenon, <2>3, PcSteps
  <2>4. CASE Sync(n) \/ Reconcile(n) \/ Persist(n) \/ Answer(n)
    BY Zenon, <2>4, SyncKeeps, ReconcileKeeps, PersistKeeps, AnswerKeeps
  <2>. QED
    BY Zenon, <1>1, <2>1, <2>2, <2>3, <2>4 DEF Step
<1>2. ASSUME NEW n \in Nodes,
             \/ \E r \in Requests : Receive(n, r)
             \/ TakeForward(n) \/ AnswerUnaudited(n) \/ Unseal(n) \/ Crash(n)
      PROVE  HaInv'
  BY Zenon, <1>2, ReceiveKeeps, TakeForwardKeeps, AnswerKeeps, UnsealKeeps, CrashKeeps
<1>3. ASSUME NEW f \in frames, Deliver(f) \/ LoseFrame(f) PROVE HaInv'
  BY Zenon, <1>3, DeliverKeeps
<1>4. CASE Raft
  BY Zenon, <1>4, RaftKeeps DEF Raft
<1>. QED
  BY Zenon, <1>1, <1>2, <1>3, <1>4 DEF Next, Transport

LEMMA StutterInv ==
  ASSUME HaInv, UNCHANGED vars
  PROVE  HaInv'
<1>1. UNCHANGED <<leader, elected, committed, tail, state, durable, fenced, recovery_required, pc, req, origin,
                  peer, status, view, frames, slot, asked, reply, before>>
  BY Zenon DEF vars, raft, node, call, links, clients
<1>2. Typed /\ RaftTyped
  BY Zenon DEF HaInv, Typed
<1>3. Typed'
  BY Zenon, <1>1, <1>2 DEF Typed, RaftTyped, NodeTyped, CallTyped, LinksTyped, ClientsTyped
<1>4. Shrinks
  BY Zenon, <1>1, <1>2, LogSame DEF Shrinks, Carries, Queued
<1>5. \A m \in Nodes : Idles(m)
  BY Zenon, <1>1 DEF Idles
<1>. QED
  BY Zenon, <1>1, <1>3, <1>4, <1>5, ShrinkKeeps

\* Service::handle_inner, sync_from_ha and commit_state together keep the invariant,
\* whatever fails.
THEOREM ClusterInvariant ==
  ASSUME HaAssumption
  PROVE  Spec => []HaInv
<1>1. Init => HaInv
  BY Zenon, InitInv
<1>2. HaInv /\ [Next]_vars => HaInv'
  BY Zenon, NextInv, StutterInv
<1>. QED
  BY <1>1, <1>2, PTL DEF Spec

LEMMA InvReads ==
  HaInv => NoStaleRead /\ AckedTakeEffect
<1> SUFFICES ASSUME HaInv PROVE NoStaleRead /\ AckedTakeEffect
  BY Zenon
<1>0. Typed /\ RaftTyped /\ LogInv /\ \A n \in Nodes : NodeInv(n)
  BY Zenon DEF HaInv, Typed
<1>1. NoStaleRead
  <2> SUFFICES ASSUME NEW n \in Nodes, pc[n] = "dispatch"
               PROVE  /\ state[n] = StateAt(view[n])
                      /\ \A i \in 1..Len(committed) : committed[i].req \in before[req[n]] => i <= view[n]
    BY Zenon DEF NoStaleRead
  <2>1. /\ state[n] = StateAt(view[n])
        /\ \A i \in 1..Size : Entry(i).req \in before[req[n]] => i <= view[n]
    BY Zenon, <1>0 DEF NodeInv, Reads, Asking
  <2>2. ASSUME NEW i \in 1..Len(committed), committed[i].req \in before[req[n]] PROVE i <= view[n]
    <3>1. i \in 1..Size /\ Entry(i) = committed[i]
      BY <1>0, LogType
    <3>. QED
      BY Zenon, <2>1, <2>2, <3>1
  <2>. QED
    BY Zenon, <2>1, <2>2
<1>2. AckedTakeEffect
  BY Zenon, <1>0 DEF AckedTakeEffect, Acknowledged, LogInv, Takes
<1>. QED
  BY Zenon, <1>1, <1>2

LEMMA InvOnce ==
  HaInv => OnceOnly /\ LocalFollowsCommitted /\ FencedServesNothing
<1> SUFFICES ASSUME HaInv PROVE OnceOnly /\ LocalFollowsCommitted /\ FencedServesNothing
  BY Zenon
<1>0. Typed /\ RaftTyped /\ Apart /\ \A n \in Nodes : NodeInv(n)
  BY Zenon DEF HaInv, Typed
<1>1. ASSUME NEW i \in 1..Len(committed), NEW j \in 1..Len(committed), committed[i].req = committed[j].req
      PROVE  i = j
  <2>1. /\ i \in 1..Size /\ j \in 1..Size /\ Entry(i) = committed[i] /\ Entry(j) = committed[j]
        /\ Entry(i) \in Envelopes
    BY <1>0, LogType
  <2>2. Entry(i).req \in Requests
    BY Zenon, <2>1 DEF Envelopes
  <2>. QED
    BY Zenon, <1>0, <1>1, <2>1, <2>2 DEF Apart, Alone
<1>2. LocalFollowsCommitted
  BY Zenon, <1>0 DEF LocalFollowsCommitted, NodeInv, Holds
<1>3. FencedServesNothing
  BY Zenon, <1>0 DEF FencedServesNothing, NodeInv, Stopped
<1>. QED
  BY Zenon, <1>1, <1>2, <1>3 DEF OnceOnly

\* sync_from_ha at every request: a request is dispatched on a state that has every
\* write acknowledged before the request was received, by whatever node.
THEOREM ReadsAreCurrent ==
  ASSUME HaAssumption
  PROVE  Spec => []NoStaleRead
<1>1. Spec => []HaInv
  BY Zenon, ClusterInvariant
<1>. QED
  BY <1>1, InvReads, PTL

\* persist and commit_state, through elections, crashes and lost answers: what is
\* acknowledged has taken effect in the log, behind everything that was acknowledged
\* when the request was received.
THEOREM AcknowledgedTakeEffect ==
  ASSUME HaAssumption
  PROVE  Spec => []AckedTakeEffect
<1>1. Spec => []HaInv
  BY Zenon, ClusterInvariant
<1>. QED
  BY <1>1, InvReads, PTL

\* commit_state, forward_request and persist_local: a request commits at most once,
\* however it is forwarded and times out; memory and the local store of a node hold
\* states that Raft has committed; a node whose last put is unknown dispatches nothing.
THEOREM CommitsAtMostOnce ==
  ASSUME HaAssumption
  PROVE  Spec => [](OnceOnly /\ LocalFollowsCommitted /\ FencedServesNothing)
<1>1. Spec => []HaInv
  BY Zenon, ClusterInvariant
<1>. QED
  BY <1>1, InvOnce, PTL
=============================================================================
