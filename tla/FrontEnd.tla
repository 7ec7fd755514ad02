------------------------------- MODULE FrontEnd -------------------------------
(***************************************************************************)
(* The threads of a cluster of heptabao-server processes: the HTTPS accept *)
(* loop with its bounded request workers, the one mutex around the         *)
(* service, the fixed pool of peer workers that serves Raft frames and     *)
(* forwarded requests, and the forward slot.  A request worker holds the   *)
(* service mutex while it waits for another node, so the waits of several  *)
(* nodes can close a circle.                                               *)
(*                                                                         *)
(* External: who each node takes for the leader (`view'), the clients, the *)
(* network, and timeouts, which fire whenever a peer or client is slow.    *)
(* What the service does to its state is HaService's subject; here it      *)
(* holds the mutex, asks the other nodes, and lets go.  A read fails when  *)
(* no quorum confirms it in time; a write has no timeout: only a quorum    *)
(* ends it, and without one the mutex is never let go.                     *)
(***************************************************************************)
EXTENDS Integers, FiniteSets, Functions, TLC

CONSTANTS Nodes, Clients, Workers,
          NoOne,                   \* model value: no leader, no holder, no client
          Raw,                     \* what clients send
          MaxConnections, MaxRequests, MaxViews, MaxExits

VARIABLES up,                      \* processes that run
          view,                    \* the leader each node knows of
          conn,                    \* the request worker of each client's connection
          service,                 \* who holds the service mutex of a node, and in which step
          slot,                    \* the forward slot of a node is taken
          forward,                 \* the forward of each client: none, sent, taken, refused, answered
          peer,                    \* what each peer worker does
          asked, answered,         \* Raft frames that await a worker, and answers to a holder
          spent                    \* view changes and exits that happened

frontVars == <<up, view, conn, service, slot, forward, peer, asked, answered, spent>>

------------------------------------------------------------------------------
(* read_request: what is read, over the parts of a raw request.                *)

Methods == {"GET", "POST", "PUT", "DELETE", "LIST", "SCAN", "PATCH", "HEAD"}
Parameters == {"version", "depth", "limit", "list", "after", "exclude_deleted"}
Bad == [status |-> 400]

\* Headers are a function of their names; `repeated' says a name came twice.
HeadersRead(raw) ==
    /\ raw.headersEnd /\ raw.method \in Methods /\ raw.api
    /\ ~raw.repeated /\ "host" \in DOMAIN raw.headers
    /\ {"transfer-encoding", "expect"} \cap DOMAIN raw.headers = {}

\* The body is as long as was announced, and neither cut short nor followed by anything.
BodyRead(raw) ==
    /\ raw.received = raw.length
    /\ raw.length > 0 => raw.json = "object"

\* A query names known parameters, each with a value, and none that the body has.
QueryRead(raw) ==
    /\ DOMAIN raw.query \subseteq Parameters
    /\ DOMAIN raw.query \cap DOMAIN raw.body = {}
    /\ \A k \in DOMAIN raw.query \cap {"version", "depth", "limit"} : raw.query[k] = "number"

\* What the service is given: the body's members and the query's, less a `list' that made
\* the method LIST.
ReadRequest(raw) ==
    LET object == raw.body @@ raw.query
        lists == raw.method = "GET" /\ "list" \in DOMAIN object
    IN CASE ~HeadersRead(raw) -> Bad
         [] HeadersRead(raw) /\ raw.unimplemented -> [status |-> 501]
         [] HeadersRead(raw) /\ ~raw.unimplemented /\ raw.tooLarge -> [status |-> 413]
         [] OTHER -> IF ~BodyRead(raw) \/ ~QueryRead(raw) \/ (lists /\ object["list"] \notin {"true", "false"})
                     THEN Bad
                     ELSE [status |-> 200,
                           method |-> IF lists /\ object["list"] = "true" THEN "LIST" ELSE raw.method,
                           object |-> IF lists /\ object["list"] = "true"
                                      THEN Restrict(object, DOMAIN object \ {"list"}) ELSE object]

------------------------------------------------------------------------------
(* Request workers                                                             *)

Idle == [node |-> NoOne, phase |-> "closed", to |-> NoOne]
At(n) == {c \in Clients : conn[c].node = n}
Free == [who |-> NoOne, step |-> "free"]
Rest == [kind |-> "idle", with |-> NoOne]

\* The loop counts the connection before it spawns its worker; one too many is dropped.  A
\* peer over its rate is turned away by the worker.
Accept(c, n) ==
    /\ conn[c].phase = "closed" /\ n \in up /\ spent.requests[c] < MaxRequests
    /\ Cardinality(At(n)) < MaxConnections
    /\ \E phase \in {"reading", "rejecting"} : conn' = [conn EXCEPT ![c] = [node |-> n, phase |-> phase, to |-> NoOne]]
    /\ spent' = [spent EXCEPT !.requests[c] = @ + 1]
    /\ UNCHANGED <<up, view, service, slot, forward, peer, asked, answered>>

Read(c, raw) ==
    /\ conn[c].phase = "reading"
    /\ conn' = [conn EXCEPT ![c].phase = IF ReadRequest(raw).status = 200 THEN "waiting" ELSE "rejecting"]
    /\ UNCHANGED <<up, view, service, slot, forward, peer, asked, answered, spent>>

ReadTimesOut(c) ==
    /\ conn[c].phase = "reading"
    /\ conn' = [conn EXCEPT ![c].phase = "rejecting"]
    /\ UNCHANGED <<up, view, service, slot, forward, peer, asked, answered, spent>>

\* The worker cannot set its timeouts, start TLS or draw an attempt id: it closes unheard.
WorkerReturns(c) ==
    /\ conn[c].phase = "reading"
    /\ conn' = [conn EXCEPT ![c] = Idle]
    /\ UNCHANGED <<up, view, service, slot, forward, peer, asked, answered, spent>>

\* audited_wire_rejection: the mutex is taken, two events are audited, the mutex is let go.
Reject(c) ==
    /\ conn[c].phase = "rejecting" /\ service[conn[c].node] = Free
    /\ conn' = [conn EXCEPT ![c].phase = "writing"]
    /\ UNCHANGED <<up, view, service, slot, forward, peer, asked, answered, spent>>

Lock(c) ==
    /\ conn[c].phase = "waiting" /\ service[conn[c].node] = Free
    /\ conn' = [conn EXCEPT ![c].phase = "serving"]
    /\ service' = [service EXCEPT ![conn[c].node] = [who |-> c, step |-> "entered"]]
    /\ UNCHANGED <<up, view, slot, forward, peer, asked, answered, spent>>

Write(c) ==
    /\ conn[c].phase = "writing"
    /\ conn' = [conn EXCEPT ![c] = Idle]
    /\ UNCHANGED <<up, view, service, slot, forward, peer, asked, answered, spent>>

------------------------------------------------------------------------------
(* The holder of the mutex                                                     *)

\* The holder of node n answers and lets the mutex go: a request worker writes, a peer
\* worker sends the response, frees the slot and returns to the pool.  A peer worker that
\* still has the request worker's forward has nobody left to answer.
LetGo(n) ==
    LET who == service[n].who
        w == CHOOSE x \in Workers : peer[n][x].kind = "holding"
    IN /\ service' = [service EXCEPT ![n] = Free]
       /\ IF who \in Clients
          THEN /\ conn' = [conn EXCEPT ![who].phase = "writing"]
               /\ forward' = [forward EXCEPT ![who] = "none"]
               /\ peer' = [m \in Nodes |-> [x \in Workers |->
                             IF peer[m][x].with = who THEN [peer[m][x] EXCEPT !.with = NoOne] ELSE peer[m][x]]]
               /\ UNCHANGED slot
          ELSE /\ peer' = [peer EXCEPT ![n][w] = Rest]
               /\ slot' = [slot EXCEPT ![n] = FALSE]
               /\ forward' = [c \in Clients |-> IF peer[n][w].with = c THEN "answered" ELSE forward[c]]
               /\ UNCHANGED conn

\* handle_inner: what concerns this node alone (its health, its seal, a node that is sealed)
\* is answered before anybody asks for the leader.
AnswerAlone(n) ==
    /\ service[n].step = "entered"
    /\ LetGo(n)
    /\ UNCHANGED <<up, view, asked, answered, spent>>

\* handle_inner: no leader known, or a forward that reached a standby, is answered at once.
RefuseRoute(n) ==
    /\ service[n].step = "entered"
    /\ view[n] = NoOne \/ (view[n] # n /\ service[n].who \notin Clients)
    /\ LetGo(n)
    /\ UNCHANGED <<up, view, asked, answered, spent>>

\* The holder sends frames to the others and awaits answers to these.
Ask(n, step) ==
    /\ service' = [service EXCEPT ![n].step = step]
    /\ asked' = [m \in Nodes |-> IF m \in up \ {n} THEN asked[m] \cup {n} ELSE asked[m]]
    /\ answered' = [answered EXCEPT ![n] = {}]
    /\ UNCHANGED <<up, view, conn, slot, forward, peer, spent>>

Quorum(n) == 2 * (Cardinality(answered[n]) + 1) > Cardinality(Nodes)

Conclude(n) ==
    /\ LetGo(n)
    /\ asked' = [m \in Nodes |-> asked[m] \ {n}] /\ answered' = [answered EXCEPT ![n] = {}]
    /\ UNCHANGED <<up, view, spent>>

\* sync_from_ha: the leader confirms its lead with the others, holding the mutex.
Serve(n) == service[n].step = "entered" /\ view[n] = n /\ Ask(n, "confirming")

\* ensure_linearizable fails when a quorum did not answer in time.
ReadFails(n) == service[n].step = "confirming" /\ ~Quorum(n) /\ Conclude(n)

\* A read, or a request that is refused, is answered; a write is handed to the log.  (The
\* code confirms once more before it does, and a request that also spends a use of its
\* token writes twice: the same waits again, with nothing let go in between.)
Confirmed(n) ==
    /\ service[n].step = "confirming" /\ Quorum(n)
    /\ Conclude(n) \/ Ask(n, "committing")

\* client_write: a quorum has the entry, or told of a leader that overruled it.  There is
\* no other way on.
Committed(n) == service[n].step = "committing" /\ Quorum(n) /\ Conclude(n)

\* forward_request, under the service mutex and the HA mutex.
Send(n) ==
    /\ service[n].step = "entered" /\ view[n] \notin {n, NoOne} /\ service[n].who \in Clients
    /\ service' = [service EXCEPT ![n].step = "forwarding"]
    /\ forward' = [forward EXCEPT ![service[n].who] = IF view[n] \in up THEN "sent" ELSE "refused"]
    /\ conn' = [conn EXCEPT ![service[n].who].to = view[n]]
    /\ UNCHANGED <<up, view, slot, peer, asked, answered, spent>>

Returned(n) ==
    /\ service[n].step = "forwarding" /\ forward[service[n].who] \in {"answered", "refused"}
    /\ LetGo(n)
    /\ UNCHANGED <<up, view, asked, answered, spent>>

\* Mutant: the exchange with the leader has no read timeout.
GiveUpNever(n) ==
    /\ service[n].step = "forwarding" /\ forward[service[n].who] = "sent"
    /\ view[n] \notin up
    /\ LetGo(n)

\* The exchange times out; a worker that took the frame goes on without its client.
GiveUp(n) ==
    /\ service[n].step = "forwarding" /\ forward[service[n].who] \in {"sent", "taken"}
    /\ LetGo(n)

ForwardTimesOut(n) ==
    /\ GiveUp(n)
    /\ UNCHANGED <<up, view, asked, answered, spent>>

------------------------------------------------------------------------------
(* Peer workers: each serves one frame at a time.  They are alike, so the one   *)
(* that accepts a frame stands for any that could.                             *)

Accepts(w, n) ==
    /\ n \in up /\ \E x \in Workers : peer[n][x].kind = "idle"
    /\ w = CHOOSE x \in Workers : peer[n][x].kind = "idle"

\* Mutant: a worker that finds the slot taken waits for the service all the same.
SlotTaken(n) == FALSE

SlotBusy(n) == slot[n]

TakeForward(w, n, c) ==
    /\ Accepts(w, n) /\ forward[c] = "sent" /\ conn[c].to = n
    /\ \/ /\ SlotBusy(n)
          /\ forward' = [forward EXCEPT ![c] = "refused"]
          /\ UNCHANGED <<peer, slot>>
       \/ /\ ~SlotBusy(n)
          /\ forward' = [forward EXCEPT ![c] = "taken"]
          /\ peer' = [peer EXCEPT ![n][w] = [kind |-> "waiting", with |-> c]]
          /\ slot' = [slot EXCEPT ![n] = TRUE]
    /\ UNCHANGED <<up, view, conn, service, asked, answered, spent>>

\* handle_forwarded locks the service like any request.
LockForward(w, n) ==
    /\ peer[n][w].kind = "waiting" /\ service[n] = Free
    /\ peer' = [peer EXCEPT ![n][w].kind = "holding"]
    /\ service' = [service EXCEPT ![n] = [who |-> w, step |-> "entered"]]
    /\ UNCHANGED <<up, view, conn, slot, forward, asked, answered, spent>>

\* A Raft frame is answered by whichever worker is idle: RaftRpcService::handle needs
\* neither mutex and waits for nobody.
AnswerRaft(w, n, from) ==
    /\ Accepts(w, n) /\ from \in asked[n]
    /\ asked' = [asked EXCEPT ![n] = @ \ {from}]
    /\ answered' = [answered EXCEPT ![from] = @ \cup {n}]
    /\ UNCHANGED <<up, view, conn, service, slot, forward, peer, spent>>

------------------------------------------------------------------------------
(* Around them                                                                 *)

ViewChanges(n, leader) ==
    /\ n \in up /\ leader # view[n] /\ spent.views < MaxViews
    /\ view' = [view EXCEPT ![n] = leader]
    /\ spent' = [spent EXCEPT !.views = @ + 1]
    /\ UNCHANGED <<up, conn, service, slot, forward, peer, asked, answered>>

\* A worker that cannot be spawned ends the accept loop, and the process with all its threads.
SpawnFails(n) ==
    /\ n \in up /\ spent.exits < MaxExits
    /\ up' = up \ {n}
    /\ conn' = [c \in Clients |-> IF conn[c].node = n THEN Idle ELSE conn[c]]
    /\ service' = [service EXCEPT ![n] = Free] /\ slot' = [slot EXCEPT ![n] = FALSE]
    /\ forward' = [c \in Clients |-> IF conn[c].node = n THEN "none"
                                     ELSE IF conn[c].to = n /\ forward[c] \in {"sent", "taken"} THEN "refused"
                                     ELSE forward[c]]
    /\ peer' = [m \in Nodes |-> [w \in Workers |->
                  IF m = n THEN Rest
                  ELSE IF peer[m][w].with \in At(n) THEN [peer[m][w] EXCEPT !.with = NoOne] ELSE peer[m][w]]]
    /\ asked' = [m \in Nodes |-> IF m = n THEN {} ELSE asked[m] \ {n}]
    /\ answered' = [answered EXCEPT ![n] = {}]
    /\ spent' = [spent EXCEPT !.exits = @ + 1]
    /\ UNCHANGED view

FrontInit ==
    /\ up = Nodes
    /\ \E leader \in Nodes : view = [n \in Nodes |-> leader]
    /\ conn = [c \in Clients |-> Idle]
    /\ service = [n \in Nodes |-> Free] /\ slot = [n \in Nodes |-> FALSE]
    /\ forward = [c \in Clients |-> "none"]
    /\ peer = [n \in Nodes |-> [w \in Workers |-> Rest]]
    /\ asked = [n \in Nodes |-> {}] /\ answered = [n \in Nodes |-> {}]
    /\ spent = [views |-> 0, exits |-> 0, requests |-> [c \in Clients |-> 0]]

Step(c) ==
    \/ \E raw \in Raw : Read(c, raw)
    \/ ReadTimesOut(c) \/ WorkerReturns(c) \/ Reject(c) \/ Lock(c) \/ Write(c)

Holder(n) ==
    \/ AnswerAlone(n) \/ RefuseRoute(n) \/ Serve(n) \/ ReadFails(n) \/ Confirmed(n) \/ Committed(n)
    \/ Send(n) \/ Returned(n) \/ ForwardTimesOut(n)

PeerWork(w, n) ==
    \/ \E c \in Clients : TakeForward(w, n, c)
    \/ \E from \in Nodes : AnswerRaft(w, n, from)
    \/ LockForward(w, n)

\* A thread goes on.
Progress ==
    \/ \E c \in Clients : Step(c)
    \/ \E n \in Nodes : Holder(n) \/ \E w \in Workers : PeerWork(w, n)

FrontNext ==
    \/ Progress
    \/ \E c \in Clients, n \in Nodes : Accept(c, n)
    \/ \E n \in Nodes : SpawnFails(n) \/ \E leader \in Nodes \cup {NoOne} : ViewChanges(n, leader)

FrontSpec == FrontInit /\ [][FrontNext]_frontVars

\* However many forwards wait for the service, at most one peer worker of a node waits with
\* them: the others answer Raft, which the holder of another node's mutex may be waiting for.
\* The slot is taken exactly while that one is there (HaProcess::start, forward_slots).
ConsensusServed ==
    \A n \in Nodes :
        LET waiting == {w \in Workers : peer[n][w].kind \in {"waiting", "holding"}}
        IN /\ Cardinality(waiting) <= 1
           /\ slot[n] <=> waiting # {}

==============================================================================
