------------------------------ MODULE HaService -----------------------------
(***************************************************************************)
(* Requests to a cluster of servers: Service::handle_inner, sync_from_ha,  *)
(* persist, persist_local and activate_barrier of service.rs, commit_state *)
(* and forward_request of ha.rs, the forward handler of http.rs.           *)
(*                                                                         *)
(* The application state is a set of items and a digest is the state: a    *)
(* request adds items and removes items, in one commit: the commit that    *)
(* counts a use of a limited token before the dispatch takes the same path *)
(* and is left out.  A node serves one request at a time, under the mutex  *)
(* around its Service, and keeps it while it waits for a leader it         *)
(* forwarded to.                                                           *)
(*                                                                         *)
(* Raft is external: a leader, the committed envelopes, and the tail the   *)
(* leader has appended and not committed.  A new leader commits the part   *)
(* of the tail its log has and drops the rest.  What a node takes for the  *)
(* leader is a metric and can be stale; ensure_linearizable succeeds only  *)
(* on the leader, and client_write appends only there.  The store of a     *)
(* node is what DurableService promises: a put is applied, refused, or     *)
(* applied or not with the caller told that it cannot be known.            *)
(***************************************************************************)
EXTENDS Integers, Sequences, FiniteSets

CONSTANTS Nodes, None, Requests, NoRequest, Items, Sealed,
          Faults,         \* bound: kinds of fault, among the names in Fault(_)
          MaxFaults,      \* bound: how many
          MaxElections    \* bound: elections

\* What the constants must be.
HaAssumption ==
  /\ None \notin Nodes /\ NoRequest \notin Requests /\ \A s \in SUBSET Items : s # Sealed
  /\ \A r \in Requests : r.add \subseteq Items /\ r.remove \subseteq Items
  /\ Faults \subseteq {"crash", "unknown", "rejected", "audit", "network"}
  /\ MaxFaults \in Nat /\ MaxElections \in Nat

VARIABLES leader,     \* external: the leader of the current term, or None
          elected,    \* external: every leader so far
          committed,  \* external: the envelopes, in log order
          tail,       \* external: appended by the leader, not committed
          elections

VARIABLES state,              \* Service.state, or Sealed
          durable,            \* the store of the node: "state", and the hasync- keys
          fenced,             \* DurableService.unresolved
          recovery_required,
          pc,                 \* the step of the call that holds the service mutex
          req,                \* its request; NoRequest: it is an unseal
          origin,             \* the node that forwarded it, or None
          peer,               \* the leader the node forwards to
          status              \* of the response

VARIABLES frames,     \* forwarded requests in transit
          slot,       \* the forward a peer worker of the node holds, waiting or served
          asked,      \* requests received from clients
          reply,      \* what the client was told
          before,     \* what had been acknowledged when the request was received
          view,       \* how many envelopes the served state stands for
          faults

raft == <<leader, elected, committed, tail, elections>>
node == <<state, durable, fenced, recovery_required>>
call == <<req, origin, peer, status, view>>
links == <<frames, slot>>
clients == <<asked, reply, before>>
vars == <<raft, node, pc, call, links, clients, faults>>

Envelope(n, r, base, s) == [node |-> n, req |-> r, base |-> base, state |-> s]

Apply(s, r) == (s \cup r.add) \ r.remove

Forward(from, to, r) == [from |-> from, to |-> to, req |-> r]

NoForward == Forward(None, None, NoRequest)

\* What latest_committed_state returns, if anything is committed.
Latest == committed[Len(committed)]

Acknowledged == {r \in Requests : reply[r] = "ok"}

Goto(n, from, to) == pc[n] = from /\ pc' = [pc EXCEPT ![n] = to]

\* Each use takes one of the faults the run allows.
Fault(kind) == kind \in Faults /\ faults < MaxFaults /\ faults' = faults + 1

\* What current_leader can say.
Believed == elected \cup {None}

-----------------------------------------------------------------------------
(***************************************************************************)
(* A request enters a node, under its service mutex.                       *)
(***************************************************************************)
Enter(n, r, from) ==
  /\ Goto(n, "idle", "route")
  /\ req' = [req EXCEPT ![n] = r]
  /\ origin' = [origin EXCEPT ![n] = from]
  /\ UNCHANGED <<raft, node, peer, status, view, faults>>

Receive(n, r) ==
  /\ r \notin asked
  /\ asked' = asked \cup {r}
  /\ before' = [before EXCEPT ![r] = Acknowledged]
  /\ Enter(n, r, None)
  /\ UNCHANGED <<links, reply>>

\* The peer worker that waited for the mutex gets it.
TakeForward(n) ==
  /\ slot[n] # NoForward
  /\ Enter(n, slot[n].req, slot[n].from)
  /\ UNCHANGED <<links, clients>>

\* The response of a call, up to its audit record.
Respond(n, from, s) ==
  /\ Goto(n, from, "answer")
  /\ status' = [status EXCEPT ![n] = s]

\* Mutant: the leader dispatches on what it has in memory.
RouteUnsynced(n) ==
  \E b \in Believed :
    /\ IF state[n] = Sealed \/ b # n
       THEN Respond(n, "route", "error")
       ELSE Goto(n, "route", "dispatch") /\ UNCHANGED status
    /\ UNCHANGED <<raft, node, req, origin, peer, view, links, clients, faults>>

\* handle_inner: only the leader goes on; a client's request is forwarded once.
Route(n) ==
  \E b \in Believed :
    /\ IF state[n] = Sealed \/ b = None \/ (b # n /\ origin[n] # None)
       THEN Respond(n, "route", "error") /\ UNCHANGED <<peer, frames>>
       ELSE IF b = n
       THEN Goto(n, "route", "sync") /\ UNCHANGED <<status, peer, frames>>
       ELSE /\ Goto(n, "route", "forward")
            /\ peer' = [peer EXCEPT ![n] = b]
            /\ frames' = frames \cup {Forward(n, b, req[n])}
            /\ UNCHANGED status
    /\ UNCHANGED <<raft, node, req, origin, view, slot, clients, faults>>

\* A peer worker accepts the frame: one forward at a time may wait.  Otherwise it
\* drops the connection.
Deliver(f) ==
  /\ f \in frames
  /\ frames' = frames \ {f}
  /\ slot' = IF slot[f.to] = NoForward THEN [slot EXCEPT ![f.to] = f] ELSE slot
  /\ UNCHANGED <<raft, node, pc, call, clients, faults>>

\* The connection fails before the frame is read.
LoseFrame(f) ==
  /\ Fault("network")
  /\ f \in frames
  /\ frames' = frames \ {f}
  /\ UNCHANGED <<raft, node, pc, call, slot, clients>>

\* Mutant: the exchange has no read timeout.
GiveUpClosed(n) ==
  /\ pc[n] = "forward"
  /\ slot[peer[n]].req # req[n] /\ Forward(n, peer[n], req[n]) \notin frames
  /\ Respond(n, "forward", "error")
  /\ UNCHANGED <<raft, node, req, origin, peer, view, links, clients, faults>>

\* Mutant: a forward that times out is sent again.
GiveUpRetries(n) ==
  /\ pc[n] = "forward"
  /\ frames' = frames \cup {Forward(n, peer[n], req[n])}
  /\ UNCHANGED <<raft, node, pc, call, slot, clients, faults>>

\* exchange times out, or finds its connection closed.
GiveUp(n) ==
  /\ Respond(n, "forward", "error")
  /\ UNCHANGED <<raft, node, req, origin, peer, view, links, clients, faults>>

-----------------------------------------------------------------------------
(***************************************************************************)
(* persist_local: DurableService::put of the whole state.                  *)
(***************************************************************************)
\* A put under the key hasync-<digest> is a duplicate the second time; persist draws
\* its key at random.
Stored(n, s, hasync) ==
  LET d == durable[n]
  IN  IF ~hasync THEN [d EXCEPT !.state = s]
      ELSE IF s \in d.keys THEN d
      ELSE [state |-> s, keys |-> d.keys \cup {s}]

PutApplied(n, s, hasync) ==
  /\ ~fenced[n]
  /\ durable' = [durable EXCEPT ![n] = Stored(n, s, hasync)]
  /\ UNCHANGED <<fenced, faults>>

PutUnknown(n, s, hasync) ==
  /\ ~fenced[n]
  /\ Fault("unknown")
  /\ fenced' = [fenced EXCEPT ![n] = TRUE]
  /\ \E d \in {durable[n], Stored(n, s, hasync)} : durable' = [durable EXCEPT ![n] = d]

PutRefused(n) ==
  /\ \/ fenced[n] /\ UNCHANGED faults
     \/ Fault("rejected")
  /\ UNCHANGED <<durable, fenced>>

-----------------------------------------------------------------------------
(***************************************************************************)
(* sync_from_ha, in a request and at the end of activate_barrier.          *)
(***************************************************************************)
\* The state is current: a request is dispatched unless recovery is required.
Current(n, from) ==
  IF req[n] = NoRequest THEN Goto(n, from, "idle") /\ UNCHANGED status
  ELSE IF recovery_required'[n] THEN Respond(n, from, "error")
  ELSE Goto(n, from, "dispatch") /\ UNCHANGED status

\* It is not: a request answers 503.
NotCurrent(n, from) ==
  IF req[n] = NoRequest THEN Goto(n, from, "idle") /\ UNCHANGED status
  ELSE Respond(n, from, "error")

\* An unseal that fails here leaves recovery_required behind.
FenceUnseal(n) ==
  recovery_required' = [recovery_required EXCEPT ![n] = @ \/ req[n] = NoRequest]

\* latest_committed_state: behind the barrier the state machine has every envelope.
Sync(n) ==
  /\ pc[n] = "sync"
  /\ IF leader # n
     THEN FenceUnseal(n) /\ NotCurrent(n, "sync") /\ UNCHANGED view
     ELSE /\ view' = [view EXCEPT ![n] = Len(committed)]
          /\ UNCHANGED recovery_required
          /\ IF committed = <<>> \/ state[n] = Latest.state
             THEN Current(n, "sync")
             ELSE Goto(n, "sync", "reconcile") /\ UNCHANGED status
  /\ UNCHANGED <<raft, state, durable, fenced, req, origin, peer, links, clients, faults>>

\* The envelope read is stored, then served.
Reconcile(n) ==
  /\ pc[n] = "reconcile"
  /\ LET s == committed[view[n]].state
     IN  \/ /\ PutApplied(n, s, TRUE)
            /\ state' = [state EXCEPT ![n] = s]
            /\ recovery_required' = [recovery_required EXCEPT ![n] = FALSE]
            /\ Current(n, "reconcile")
         \/ /\ PutUnknown(n, s, TRUE)
            /\ recovery_required' = [recovery_required EXCEPT ![n] = TRUE]
            /\ NotCurrent(n, "reconcile") /\ UNCHANGED state
         \/ /\ PutRefused(n)
            /\ FenceUnseal(n)
            /\ NotCurrent(n, "reconcile") /\ UNCHANGED state
  /\ UNCHANGED <<raft, req, origin, peer, view, links, clients>>

-----------------------------------------------------------------------------
(***************************************************************************)
(* dispatch, commit_state and persist.                                     *)
(***************************************************************************)
\* A request that changes nothing commits nothing.
Dispatch(n) ==
  /\ pc[n] = "dispatch"
  /\ IF Apply(state[n], req[n]) = state[n]
     THEN Respond(n, "dispatch", "ok")
     ELSE Goto(n, "dispatch", "check") /\ UNCHANGED status
  /\ UNCHANGED <<raft, node, req, origin, peer, view, links, clients, faults>>

\* commit_state, up to the comparison of the base.
CheckBase(n) ==
  /\ IF leader = n /\ (committed = <<>> \/ Latest.state = state[n])
     THEN Goto(n, "check", "propose") /\ UNCHANGED status
     ELSE Respond(n, "check", "error")
  /\ UNCHANGED <<raft, node, req, origin, peer, view, links, clients, faults>>

\* replicate: client_write appends on the leader, and fails elsewhere.
Propose(n) ==
  /\ pc[n] = "propose"
  /\ IF leader = n
     THEN /\ Goto(n, "propose", "replicate")
          /\ tail' = Append(tail, Envelope(n, req[n], state[n], Apply(state[n], req[n])))
          /\ UNCHANGED status
     ELSE Respond(n, "propose", "error") /\ UNCHANGED tail
  /\ UNCHANGED <<leader, elected, committed, elections>>
  /\ UNCHANGED <<node, req, origin, peer, view, links, clients, faults>>

Replicated(n) == \E i \in 1..Len(committed) : committed[i].node = n /\ committed[i].req = req[n]

\* client_write returns with the committed entry.
Receipt(n) ==
  /\ Replicated(n)
  /\ Goto(n, "replicate", "persist")
  /\ UNCHANGED <<raft, node, call, links, clients, faults>>

\* Mutant: an entry that was appended is taken for committed.
LoseLeadershipAsCommit(n) ==
  /\ leader # n
  /\ Goto(n, "replicate", "persist")
  /\ UNCHANGED <<raft, node, call, links, clients, faults>>

\* client_write returns an error: the leadership is gone, or was for a time.  The entry
\* is in the log or not.
LoseLeadership(n) ==
  /\ leader # n \/ (tail = <<>> /\ ~Replicated(n))
  /\ Respond(n, "replicate", "error")
  /\ UNCHANGED <<raft, node, req, origin, peer, view, links, clients, faults>>

\* Mutant: memory moves on whether or not the store did.
PersistMemory(n) ==
  /\ pc[n] = "persist"
  /\ LET s == Apply(state[n], req[n])
     IN  /\ PutApplied(n, s, FALSE) \/ PutRefused(n)
         /\ state' = [state EXCEPT ![n] = s]
         /\ Respond(n, "persist", "ok")
  /\ UNCHANGED <<recovery_required, raft, req, origin, peer, view, links, clients>>

\* persist_local after the commit, then memory.
Persist(n) ==
  /\ pc[n] = "persist"
  /\ LET s == Apply(state[n], req[n])
     IN  \/ /\ PutApplied(n, s, FALSE)
            /\ state' = [state EXCEPT ![n] = s]
            /\ Respond(n, "persist", "ok")
            /\ UNCHANGED recovery_required
         \/ /\ PutUnknown(n, s, FALSE) \/ PutRefused(n)
            /\ recovery_required' = [recovery_required EXCEPT ![n] = TRUE]
            /\ Respond(n, "persist", "error")
            /\ UNCHANGED state
  /\ UNCHANGED <<raft, req, origin, peer, view, links, clients>>

-----------------------------------------------------------------------------
(***************************************************************************)
(* The response leaves the node.                                           *)
(***************************************************************************)
\* To the client, or to the node that forwarded the request if it still waits.
Send(n, s) ==
  IF origin[n] = None
  THEN /\ reply' = [reply EXCEPT ![req[n]] = s]
       /\ pc' = [pc EXCEPT ![n] = "idle"]
       /\ UNCHANGED <<slot, status>>
  ELSE LET m == origin[n]
           waits == pc[m] = "forward" /\ req[m] = req[n]
       IN  /\ slot' = [slot EXCEPT ![n] = NoForward]
           /\ pc' = [pc EXCEPT ![n] = "idle", ![m] = IF waits THEN "answer" ELSE @]
           /\ status' = [status EXCEPT ![m] = IF waits THEN s ELSE @]
           /\ UNCHANGED reply

Answer(n) ==
  /\ pc[n] = "answer"
  /\ Send(n, status[n])
  /\ UNCHANGED <<raft, node, req, origin, peer, view, frames, asked, before, faults>>

\* The audit of the response fails: 503, and recovery is required.
AnswerUnaudited(n) ==
  /\ Fault("audit")
  /\ pc[n] = "answer"
  /\ Send(n, "error")
  /\ recovery_required' = [recovery_required EXCEPT ![n] = TRUE]
  /\ UNCHANGED <<raft, state, durable, fenced, req, origin, peer, view, frames, asked, before>>

-----------------------------------------------------------------------------
(***************************************************************************)
(* Unseal and crash.                                                       *)
(***************************************************************************)
\* activate_barrier reopens the store; a node that takes itself for the leader syncs.
Unseal(n) ==
  /\ state[n] = Sealed \/ recovery_required[n]
  /\ \E b \in Believed : Goto(n, "idle", IF b = n THEN "sync" ELSE "idle")
  /\ state' = [state EXCEPT ![n] = durable[n].state]
  /\ fenced' = [fenced EXCEPT ![n] = FALSE]
  /\ recovery_required' = [recovery_required EXCEPT ![n] = FALSE]
  /\ req' = [req EXCEPT ![n] = NoRequest]
  /\ origin' = [origin EXCEPT ![n] = None]
  /\ UNCHANGED <<raft, durable, peer, status, view, links, clients, faults>>

\* What the store of a killed node holds: a put that was running happened or not.
AfterCrash(n) ==
  {durable[n]}
    \cup (IF pc[n] = "persist" /\ ~fenced[n]
          THEN {Stored(n, Apply(state[n], req[n]), FALSE)} ELSE {})
    \cup (IF pc[n] = "reconcile" /\ ~fenced[n]
          THEN {Stored(n, committed[view[n]].state, TRUE)} ELSE {})

\* The process is killed and started again, sealed.  Its client gets no answer, nor
\* does the node that forwarded to it.
Crash(n) ==
  /\ Fault("crash")
  /\ state' = [state EXCEPT ![n] = Sealed]
  /\ \E d \in AfterCrash(n) : durable' = [durable EXCEPT ![n] = d]
  /\ fenced' = [fenced EXCEPT ![n] = FALSE]
  /\ recovery_required' = [recovery_required EXCEPT ![n] = FALSE]
  /\ pc' = [pc EXCEPT ![n] = "idle"]
  /\ slot' = [slot EXCEPT ![n] = NoForward]
  /\ leader' = IF leader = n THEN None ELSE leader
  /\ reply' = IF pc[n] # "idle" /\ req[n] # NoRequest /\ origin[n] = None
              THEN [reply EXCEPT ![req[n]] = "error"] ELSE reply
  /\ UNCHANGED <<elected, committed, tail, elections, call, frames, asked, before>>

-----------------------------------------------------------------------------
(***************************************************************************)
(* External: Raft.                                                         *)
(***************************************************************************)
RaftCommit ==
  /\ leader # None /\ tail # <<>>
  /\ committed' = Append(committed, Head(tail))
  /\ tail' = Tail(tail)
  /\ UNCHANGED <<leader, elected, elections, node, pc, call, links, clients, faults>>

Elect(n) ==
  /\ leader # n /\ elections < MaxElections
  /\ leader' = n
  /\ elected' = elected \cup {n}
  /\ elections' = elections + 1
  /\ \E k \in 0..Len(tail) : committed' = committed \o SubSeq(tail, 1, k)
  /\ tail' = <<>>
  /\ UNCHANGED <<node, pc, call, links, clients, faults>>

-----------------------------------------------------------------------------
\* A cluster whose nodes have been unsealed with the same state.
Init ==
  /\ leader \in Nodes /\ elected = {leader}
  /\ committed = <<>> /\ tail = <<>> /\ elections = 0
  /\ state = [n \in Nodes |-> {}]
  /\ durable = [n \in Nodes |-> [state |-> {}, keys |-> {}]]
  /\ fenced = [n \in Nodes |-> FALSE]
  /\ recovery_required = [n \in Nodes |-> FALSE]
  /\ pc = [n \in Nodes |-> "idle"]
  /\ req = [n \in Nodes |-> NoRequest]
  /\ origin = [n \in Nodes |-> None]
  /\ peer = [n \in Nodes |-> None]
  /\ status = [n \in Nodes |-> "error"]
  /\ view = [n \in Nodes |-> 0]
  /\ frames = {}
  /\ slot = [n \in Nodes |-> NoForward]
  /\ asked = {}
  /\ reply = [r \in Requests |-> "none"]
  /\ before = [r \in Requests |-> {}]
  /\ faults = 0

\* The call that holds the mutex of a node takes its next step.
Step(n) ==
  \/ Route(n) \/ GiveUp(n) \/ Sync(n) \/ Reconcile(n) \/ Dispatch(n) \/ CheckBase(n)
  \/ Propose(n) \/ Receipt(n) \/ LoseLeadership(n) \/ Persist(n) \/ Answer(n)

Transport == \E f \in frames : Deliver(f)

Raft == RaftCommit \/ \E n \in Nodes : Elect(n)

Next ==
  \/ \E n \in Nodes :
       \/ \E r \in Requests : Receive(n, r)
       \/ TakeForward(n)
       \/ Step(n)
       \/ AnswerUnaudited(n)
       \/ Unseal(n)
       \/ Crash(n)
  \/ Transport
  \/ \E f \in frames : LoseFrame(f)
  \/ Raft

Spec == Init /\ [][Next]_vars

-----------------------------------------------------------------------------
(***************************************************************************)
(* Properties.                                                             *)
(***************************************************************************)
States == SUBSET Items

\* Type invariant.
TypeOK ==
  /\ leader \in Nodes \cup {None} /\ elected \subseteq Nodes
  /\ \A i \in 1..Len(committed) : committed[i].state \in States
  /\ Len(tail) <= Cardinality(Nodes)
  /\ elections \in 0..MaxElections /\ faults \in 0..MaxFaults
  /\ DOMAIN state = Nodes /\ \A n \in Nodes : state[n] = Sealed \/ state[n] \in States
  /\ durable \in [Nodes -> [state : States, keys : SUBSET States]]
  /\ fenced \in [Nodes -> BOOLEAN] /\ recovery_required \in [Nodes -> BOOLEAN]
  /\ pc \in [Nodes -> {"idle", "route", "forward", "sync", "reconcile", "dispatch", "check",
                       "propose", "replicate", "persist", "answer"}]
  /\ req \in [Nodes -> Requests \cup {NoRequest}]
  /\ origin \in [Nodes -> Nodes \cup {None}] /\ peer \in [Nodes -> Nodes \cup {None}]
  /\ status \in [Nodes -> {"ok", "error"}]
  /\ \A n \in Nodes : view[n] \in 0..Len(committed)
  /\ \A f \in frames : f.from \in Nodes /\ f.to \in Nodes /\ f.req \in asked
  /\ \A n \in Nodes : slot[n] = NoForward \/ slot[n].to = n
  /\ asked \subseteq Requests /\ reply \in [Requests -> {"none", "ok", "error"}]
  /\ before \in [Requests -> SUBSET Requests]

\* The application state after the first i envelopes.
StateAt(i) == IF i = 0 THEN {} ELSE committed[i].state

\* A node's memory and its local store only ever hold a state that Raft has committed
\* (persist commits before persist_local): a crash cannot leave a write on one node
\* that the cluster does not have.
LocalFollowsCommitted ==
  \A n \in Nodes :
    /\ \E i \in 0..Len(committed) : durable[n].state = StateAt(i)
    /\ state[n] = Sealed \/ \E i \in 0..Len(committed) : state[n] = StateAt(i)

\* A request is dispatched on a state that has every write acknowledged before the
\* request was received, by whatever node (sync_from_ha at every request).
NoStaleRead ==
  \A n \in Nodes : pc[n] = "dispatch" =>
    /\ state[n] = StateAt(view[n])
    /\ \A i \in 1..Len(committed) : committed[i].req \in before[req[n]] => i <= view[n]

\* What is acknowledged is in the log, at a place behind everything acknowledged when
\* the request was received.
AckedTakeEffect ==
  \A r \in Acknowledged : \E i \in 0..Len(committed) :
    /\ Apply(StateAt(i), r) = StateAt(i)
    /\ \A j \in 1..Len(committed) : committed[j].req \in before[r] => j <= i

\* However a request is forwarded, times out and is answered, it commits at most once:
\* no layer replays a write whose answer it did not get.
OnceOnly ==
  \A i, j \in 1..Len(committed) : committed[i].req = committed[j].req => i = j

\* While the outcome of a put to the local store is unknown the node dispatches nothing.
FencedServesNothing ==
  \A n \in Nodes : fenced[n] => pc[n] \notin {"dispatch", "check", "propose", "replicate", "persist"}

\* A node at rest that is ready to serve has the state it would serve in its store.
Reconciled ==
  \A n \in Nodes :
    (pc[n] = "idle" /\ state[n] # Sealed /\ ~recovery_required[n]) => durable[n].state = state[n]

\* An envelope is committed on the state it was derived from ("A leader refuses to
\* commit if Raft already contains a different current application digest").
ExactBase == \A i \in 1..Len(committed) : committed[i].base = StateAt(i - 1)

=============================================================================
