------------------------------- MODULE P0Server -------------------------------
(***************************************************************************)
(* The P0 development server: a listener that admits a bounded number of   *)
(* connections, one worker thread per connection, a registry of the        *)
(* request ids that clients choose, the state behind one lock that is only *)
(* ever tried, and an audit file every step of a request is recorded in.   *)
(*                                                                         *)
(* A request stands for its parsed form: a path under /v1/secret/ is       *)
(* "secret" with its key, a body is the kind of thing it parses to.        *)
(* A connection carries one request.                                       *)
(*                                                                         *)
(* External: the clients, the sockets and the file system under the audit  *)
(* file (a record is kept, lost, or kept although the write reported       *)
(* failure).                                                               *)
(***************************************************************************)
EXTENDS Integers, Sequences, FiniteSets, FiniteSetsExt, Functions

CONSTANTS NoId,              \* model value: no client request id, no lock holder
          Connections, Requests, \* the requests clients send: [id, host, method, path, query, key, body, token]
          MaxConnections, MaxIds, Ttl, Timeout,
          MaxClock, MaxFaults \* bounds

VARIABLES server,            \* ServerState
          conns,             \* the connections and what their workers hold
          active,            \* active_connections
          registry,          \* RequestIdRegistry: id -> expiry
          lock,              \* the worker that holds the server's lock
          clock,
          faults,            \* audit records that may still fail
          trail,             \* [Connections -> the audit events recorded about it]
          changes            \* history: the connections in the order they changed the state

p0Vars == <<server, conns, active, registry, lock, clock, faults, trail, changes>>

------------------------------------------------------------------------------
(* Requests *)

RequiresAuthentication(op) == op \notin {"health", "init", "seal-status", "unseal"}
AllowedWhileSealed(op) == op \in {"health", "init", "seal-status", "unseal"}

OperationBodyIsValid(op, body) ==
    CASE op = "init" -> body = "{}"
      [] op \in {"unseal", "write"} -> body # "empty"
      [] OTHER -> body = "empty"

\* parse_secret_field: bodies other than a single field of the right name do not parse.
ParsesSecret(body) == body \in {"good", "other"}

ClassifyOperation(r) ==
    CASE r.query -> "UnsupportedQuery"
      [] ~r.query /\ r.method = "GET" /\ r.path \in {"health", "seal-status"} -> r.path
      [] ~r.query /\ r.method \in {"PUT", "POST"} /\ r.path \in {"init", "seal", "unseal"} -> r.path
      [] ~r.query /\ r.method = "GET" /\ r.path = "secret" -> "read"
      [] ~r.query /\ r.method = "LIST" /\ r.path = "secret" -> "list"
      [] ~r.query /\ r.method \in {"PUT", "POST"} /\ r.path = "secret" -> "write"
      [] ~r.query /\ r.method = "DELETE" /\ r.path = "secret" -> "delete"
      [] OTHER -> "UnknownOperation"

Errors == {"DeadlineExceeded", "UnknownOperation", "UnsupportedQuery", "HeadTooLarge", "BodyTooLarge",
           "InvalidHeader", "IncompleteHead", "ContentLengthMismatch", "ContentLengthExceeded"}

ProtocolStatus(error) ==
    CASE error = "DeadlineExceeded" -> 408
      [] error = "UnknownOperation" -> 404
      [] error \in {"HeadTooLarge", "BodyTooLarge"} -> 413
      [] OTHER -> 400

\* validate_at: the operation, or an error.
ValidateAt(c, now) ==
    IF now >= conns[c].deadline THEN "DeadlineExceeded" ELSE ClassifyOperation(conns[c].request)

\* What a worker has read so far: a head that ends or does not, and a body next to
\* the length the head declares.
NothingRead == [head |-> "partial", body |-> "short"]
Inputs == [head : {"partial", "malformed", "long", "whole"}, body : {"short", "exact", "excess", "long"}]
Follows(input, before) == before.head # "partial" => input.head = before.head

ParseHttpRequest(input) ==
    CASE input.head = "partial" -> "IncompleteHead"
      [] input.head = "malformed" -> "InvalidHeader"
      [] input.head = "long" -> "HeadTooLarge"
      [] input.body = "long" -> "BodyTooLarge"
      [] input.body = "short" -> "ContentLengthMismatch"
      [] input.body = "excess" -> "ContentLengthExceeded"
      [] OTHER -> "ok"

------------------------------------------------------------------------------
(* The audit file *)

Event(op, phase, commit) == [operation |-> op, phase |-> phase, commit |-> commit]
RejectedEvent(op) == Event(op, "rejected", "not attempted")
AcceptedEvent(op) == Event(op, "accepted", "not attempted")
ResponseEvent(op, committed) ==
    IF committed THEN Event(op, "committed", "committed") ELSE Event(op, "prepared", "not committed")

\* What recording an event may come to: the line is in the file and synced, it is
\* not there, or it is there and the caller is told that it failed.
Record(events, event, f) ==
    {[ok |-> TRUE, events |-> Append(events, event), faults |-> f]}
    \cup (IF f = 0 THEN {} ELSE {[ok |-> FALSE, events |-> e, faults |-> f - 1] : e \in {events, Append(events, event)}})

------------------------------------------------------------------------------
(* Answers and the operations *)

Answer(status, committed, reference) ==
    [status |-> status, committed |-> committed, reference |-> reference]
Json(status) == Answer(status, FALSE, FALSE)

Unchanged(status) == [server |-> server, answer |-> Json(status)]
Changed(status, s) ==
    [server |-> [s EXCEPT !.generation = @ + 1], answer |-> Answer(status, TRUE, FALSE)]

Health == Unchanged(IF ~server.initialized THEN 501 ELSE IF server.sealed THEN 503 ELSE 200)
Initialize ==
    IF server.initialized THEN Unchanged(400)
    ELSE Changed(200, [server EXCEPT !.initialized = TRUE, !.sealed = TRUE])
SealStatus == Unchanged(200)
Seal == Changed(204, [server EXCEPT !.sealed = TRUE])
Unseal(body) ==
    IF ~ParsesSecret(body) THEN Unchanged(400)
    ELSE IF body # "good" THEN Unchanged(400)
    ELSE Changed(200, [server EXCEPT !.sealed = FALSE])
KvRead(key) == Unchanged(IF key \in DOMAIN server.kv THEN 200 ELSE 404)
KvWrite(key, body) ==
    IF ~ParsesSecret(body) THEN Unchanged(400)
    ELSE Changed(204, [server EXCEPT !.kv = [k \in DOMAIN @ \cup {key} |-> IF k = key THEN body ELSE @[k]]])

KvDelete(key) ==
    IF key \in DOMAIN server.kv
    THEN Changed(204, [server EXCEPT !.kv = Restrict(@, DOMAIN @ \ {key})])
    ELSE Unchanged(204)
KvList == Unchanged(200)

Dispatch(op, r) ==
    CASE op = "health" -> Health
      [] op = "init" -> Initialize
      [] op = "seal-status" -> SealStatus
      [] op = "seal" -> Seal
      [] op = "unseal" -> Unseal(r.body)
      [] op = "read" -> KvRead(r.key)
      [] op = "write" -> KvWrite(r.key, r.body)
      [] op = "list" -> KvList
      [] op = "delete" -> KvDelete(r.key)

\* The refusal of a request before it is dispatched, or 0.
Refusal(op, r) ==
    IF ~OperationBodyIsValid(op, r.body) THEN 400
    ELSE IF server.sealed /\ ~AllowedWhileSealed(op) THEN 503
    ELSE IF ~server.initialized /\ op \notin {"health", "init", "seal-status"} THEN 503
    ELSE IF RequiresAuthentication(op) /\ ~r.token THEN 403 ELSE 0

\* reject_before_dispatch: the ways it may end.
RejectBeforeDispatch(events, op, status) ==
    {[server |-> server, answer |-> Json(IF rec.ok THEN status ELSE 503), events |-> rec.events,
      faults |-> rec.faults] : rec \in Record(events, RejectedEvent(op), faults)}

\* The answer once the response event has been recorded, or has not.
Responded(done, rec) ==
    [server |-> done.server, events |-> rec.events, faults |-> rec.faults,
     answer |-> IF rec.ok THEN done.answer
                ELSE IF done.answer.committed THEN Answer(503, TRUE, TRUE) ELSE Json(503)]

\* Dispatch between its two audit events.
DispatchAudited(events, op, r) ==
    UNION {IF ~acc.ok THEN {[server |-> server, answer |-> Json(503), events |-> acc.events,
                             faults |-> acc.faults]}
           ELSE {Responded(Dispatch(op, r), rec) :
                    rec \in Record(acc.events, ResponseEvent(op, Dispatch(op, r).answer.committed), acc.faults)} :
           acc \in Record(events, AcceptedEvent(op), faults)}

\* P0Server::handle: the ways it may end.
Handled(c, now) ==
    LET r == conns[c].request
        op == ValidateAt(c, now)
    IN IF op \in Errors THEN RejectBeforeDispatch(trail[c], "none", ProtocolStatus(op))
       ELSE IF Refusal(op, r) # 0 THEN RejectBeforeDispatch(trail[c], op, Refusal(op, r))
       ELSE DispatchAudited(trail[c], op, r)

------------------------------------------------------------------------------
(* Workers *)

Live(c) == conns[c].stage \in {"reading", "parsed", "claimed", "locked", "answering"}

\* serve_one returned an error: the rejection is recorded and answered, and the guard dropped.
Reject(c, status) ==
    /\ \E rec \in Record(trail[c], RejectedEvent("none"), faults) :
          /\ trail' = [trail EXCEPT ![c] = rec.events] /\ faults' = rec.faults
          /\ conns' = [conns EXCEPT ![c].stage = "done", ![c].input = NothingRead, ![c].request = NoId,
                                      ![c].deadline = 0,
                                      ![c].answer = Json(IF rec.ok THEN status ELSE 503)]
    /\ active' = active - 1
    /\ UNCHANGED <<server, lock, clock, changes>>

RecordWorkerSpawnFailure(c) ==
    /\ \E rec \in Record(trail[c], RejectedEvent("none"), faults) : trail' = [trail EXCEPT ![c] = rec.events] /\ faults' = rec.faults
    /\ conns' = [conns EXCEPT ![c].stage = "done"]
    /\ active' = active

\* The listener takes a connection: at the limit it is turned away without a worker.
TurnAway(c) ==
    /\ active >= MaxConnections
    /\ \E rec \in Record(trail[c], RejectedEvent("none"), faults) :
          /\ trail' = [trail EXCEPT ![c] = rec.events] /\ faults' = rec.faults
          /\ conns' = [conns EXCEPT ![c].stage = "done", ![c].answer = Json(IF rec.ok THEN 429 ELSE 503)]
    /\ active' = active

Spawn(c) ==
    /\ active < MaxConnections
    /\ conns' = [conns EXCEPT ![c].stage = "reading", ![c].deadline = clock + Timeout]
    /\ active' = active + 1
    /\ UNCHANGED <<trail, faults>>

Incoming(c) ==
    /\ conns[c].stage = "new"
    /\ TurnAway(c) \/ Spawn(c) \/ (active < MaxConnections /\ RecordWorkerSpawnFailure(c))
    /\ UNCHANGED <<server, registry, lock, clock, changes>>

\* read_request: it reads on while the head or the body is not all there.
ReadRequest(c) ==
    /\ conns[c].stage = "reading" /\ clock < conns[c].deadline
    /\ \E input \in Inputs :
          /\ Follows(input, conns[c].input)
          /\ \/ /\ ParseHttpRequest(input) \in {"IncompleteHead", "ContentLengthMismatch"}
                /\ conns' = [conns EXCEPT ![c].input = [input EXCEPT !.body = "short"]]
                /\ UNCHANGED <<server, active, lock, clock, faults, trail, changes>>
             \/ /\ ParseHttpRequest(input) \in {"InvalidHeader", "HeadTooLarge", "BodyTooLarge", "ContentLengthExceeded"}
                /\ Reject(c, ProtocolStatus(ParseHttpRequest(input)))
             \/ /\ ParseHttpRequest(input) = "ok"
                /\ \E r \in Requests :
                      conns' = [conns EXCEPT ![c].stage = "parsed", ![c].request = r, ![c].input = NothingRead]
                /\ UNCHANGED <<server, active, lock, clock, faults, trail, changes>>
    /\ UNCHANGED registry

\* The client closed or the read failed, or the time to read in is over.
ReadFails(c) ==
    /\ conns[c].stage = "reading"
    /\ Reject(c, ProtocolStatus(IF clock >= conns[c].deadline THEN "DeadlineExceeded"
                                ELSE ParseHttpRequest(conns[c].input)))
    /\ UNCHANGED registry

Retained == {i \in DOMAIN registry : registry[i] > clock}

\* RequestIdRegistry::claim.
Claim(c) ==
    LET id == conns[c].request.id
    IN IF id \in Retained THEN Reject(c, 409) /\ registry' = Restrict(registry, Retained)
       ELSE IF Cardinality(Retained) >= MaxIds THEN Reject(c, 503) /\ registry' = Restrict(registry, Retained)
       ELSE /\ registry' = [i \in Retained \cup {id} |-> IF i = id THEN clock + Ttl ELSE registry[i]]
            /\ conns' = [conns EXCEPT ![c].stage = "claimed", ![c].id = id, ![c].claimed = clock]
            /\ UNCHANGED <<server, active, lock, clock, faults, trail, changes>>

\* The Host header and the id, once the request is read.
Identify(c) ==
    /\ conns[c].stage = "parsed"
    /\ \/ ~conns[c].request.host /\ Reject(c, 400) /\ UNCHANGED registry
       \/ conns[c].request.host /\ conns[c].request.id = "short" /\ Reject(c, 400) /\ UNCHANGED registry
       \/ /\ conns[c].request.host /\ conns[c].request.id = NoId
          /\ conns' = [conns EXCEPT ![c].stage = "claimed"]
          /\ UNCHANGED <<server, active, registry, lock, clock, faults, trail, changes>>
       \/ conns[c].request.host /\ conns[c].request.id \notin {NoId, "short"} /\ Claim(c)

\* try_lock never waits.
TryLock(c) ==
    /\ conns[c].stage = "claimed" /\ lock = NoId
    /\ lock' = c
    /\ conns' = [conns EXCEPT ![c].stage = "locked", ![c].tick = clock]
    /\ UNCHANGED <<server, active, registry, clock, faults, trail, changes>>

StateBusy(c) == conns[c].stage = "claimed" /\ lock # NoId /\ Reject(c, 503) /\ UNCHANGED registry

Handle(c) ==
    /\ conns[c].stage = "locked"
    /\ \E end \in Handled(c, conns[c].tick) :
          /\ server' = end.server
          /\ trail' = [trail EXCEPT ![c] = end.events] /\ faults' = end.faults
          /\ conns' = [conns EXCEPT ![c].stage = "answering", ![c].request = NoId, ![c].deadline = 0,
                                      ![c].tick = 0, ![c].answer = end.answer]
          /\ changes' = IF end.server.generation # server.generation THEN Append(changes, c) ELSE changes
    /\ lock' = NoId
    /\ UNCHANGED <<active, registry, clock>>

Delivered(c) ==
    /\ conns[c].stage = "answering"
    /\ conns' = [conns EXCEPT ![c].stage = "done"]
    /\ active' = active - 1
    /\ UNCHANGED <<server, registry, lock, clock, faults, trail, changes>>

\* Mutant: a delivery that failed is recorded as if nothing had been committed.
RecordDeliveryFailureBefore(c) == ResponseEvent("any", FALSE)

RecordDeliveryFailure(c) == ResponseEvent("any", conns[c].answer.committed)

DeliveryFails(c) ==
    /\ conns[c].stage = "answering"
    /\ \E rec \in Record(trail[c], RecordDeliveryFailure(c), faults) : trail' = [trail EXCEPT ![c] = rec.events] /\ faults' = rec.faults
    /\ conns' = [conns EXCEPT ![c].stage = "done", ![c].answer = NoId]
    /\ active' = active - 1
    /\ UNCHANGED <<server, registry, lock, clock, changes>>

ClockTicks ==
    /\ clock < MaxClock
    /\ clock' = clock + 1
    /\ UNCHANGED <<server, conns, active, registry, lock, faults, trail, changes>>

------------------------------------------------------------------------------
Fresh == [initialized |-> FALSE, sealed |-> TRUE, kv |-> <<>>, generation |-> 0]

\* The server has just started, or has been initialized, unsealed and written once.
P0Init ==
    /\ server \in {Fresh, [initialized |-> TRUE, sealed |-> FALSE, kv |-> [k \in {"a"} |-> "good"], generation |-> 3]}
    /\ conns = [c \in Connections |-> [stage |-> "new", input |-> NothingRead, request |-> NoId, id |-> NoId, deadline |-> 0, claimed |-> 0,
                                       tick |-> 0, answer |-> NoId]]
    /\ active = 0 /\ registry = <<>> /\ lock = NoId /\ clock = 1 /\ faults = MaxFaults
    /\ trail = [c \in Connections |-> <<>>] /\ changes = <<>>

P0Next ==
    \/ \E c \in Connections :
          \/ Incoming(c) \/ ReadRequest(c) \/ ReadFails(c) \/ Identify(c) \/ TryLock(c) \/ StateBusy(c)
          \/ Handle(c) \/ Delivered(c) \/ DeliveryFails(c)
    \/ ClockTicks

P0Spec == P0Init /\ [][P0Next]_p0Vars

------------------------------------------------------------------------------
Recorded(c, phase) == \E i \in 1..Len(trail[c]) : trail[c][i].phase = phase

\* The audit file and the answers account for what happened to the state: a request
\* that changed it was recorded as accepted first and is never recorded as rejected
\* or not committed; unless its commit is recorded too, its caller is answered that it
\* committed, with a reference to reconcile by, or the answer was lost on the way; and
\* nothing is recorded or answered as committed that changed nothing
\* (P0Server::handle and record_delivery_failure).
CommitsAccounted ==
    \A c \in Connections :
        LET changed == c \in Range(changes)
        IN /\ changed => /\ trail[c][1].phase = "accepted"
                         /\ ~Recorded(c, "rejected") /\ ~Recorded(c, "prepared")
                         /\ Recorded(c, "committed") \/ conns[c].answer = NoId \/ conns[c].answer.reference
           /\ Recorded(c, "committed") => changed
           /\ conns[c].answer # NoId => conns[c].answer.committed = changed

\* Two requests admitted under one client id are a lifetime of the registry apart, so
\* that no id is served twice within the deadline of its first request; and the
\* listener's count is the number of its workers, within the limit, whatever way they
\* end (RequestIdRegistry::claim, ConnectionGuard, record_worker_spawn_failure).
AdmittedApart ==
    /\ \A c, d \in Connections :
          c # d /\ conns[c].id = conns[d].id /\ conns[c].id # NoId
          => conns[c].claimed - conns[d].claimed \notin (1 - Ttl)..(Ttl - 1)
    /\ active = Cardinality({c \in Connections : Live(c)}) /\ active <= MaxConnections
===============================================================================
