---------------------------- MODULE RuntimeService ----------------------------
(***************************************************************************)
(* The runtime service: the only way to the durable service, through       *)
(* authentication, authorization and an audit event before the durable     *)
(* service is entered and another before its caller is told.               *)
(*                                                                         *)
(* External: the callers, the authenticator and the authorizer (what they  *)
(* say may change between a call and its retry), the audit sink (an append *)
(* that fails may have kept the event), and the durable service, which     *)
(* answers a request it has seen as a duplicate or a conflict and whose    *)
(* unknown outcomes are decided when it is opened again.                   *)
(***************************************************************************)
EXTENDS Integers, Sequences, FiniteSets

CONSTANTS Idle,                \* model value: no call
          InboundRequests,     \* [caller, id, kind, digest, content]: what is asked, by whom, and
                               \* the authorization digest the authorizer gives it
          MaxAudited           \* bound on the events of the sink

VARIABLES durable,             \* [seen, generation, fenced, limbo] of the durable service
          events,              \* the audit events, in order
          inbound,             \* the call in progress
          outcomes             \* history: <<caller, request, what they were told, generation>>

runtimeVars == <<durable, events, inbound, outcomes>>

------------------------------------------------------------------------------
(* request_fingerprint does not cover the content, the binding of the durable service does. *)
RequestFingerprint(r) == <<r.caller, r.id, r.kind, r.digest>>
Binding(r) == <<r.kind, r.digest, r.content>>

\* A call in progress: admitted, or past the durable service with what that answered.
Calls ==
    [request : InboundRequests, at : {"admitted", "entered"}, generation : Nat,
     result : {"none", "Committed", "Duplicate", "Read", "OutcomeUnknown", "RecoveryRequired",
               "DurableRejected"}]

RuntimeAssumption == Idle \notin Calls

AuditEvent(stage, r, generation) ==
    [stage |-> stage, fingerprint |-> RequestFingerprint(r), generation |-> generation]

\* Whether the sink says it took the event, and the events it then has.
Appended(event) ==
    {<<TRUE, Append(events, event)>>, <<FALSE, events>>, <<FALSE, Append(events, event)>>}

Told(r, what, generation) == outcomes' = outcomes \cup {<<r.caller, r.id, what, generation>>}
Room == Len(events) < MaxAudited

\* Authenticated, authorized and audited; a request refused on the way changes nothing.
Admit(r) ==
    \E a \in Appended(AuditEvent("accepted", r, 0)) :
       /\ events' = a[2]
       /\ IF a[1] THEN inbound' = [request |-> r, at |-> "admitted", result |-> "none", generation |-> 0]
                  ELSE inbound' = Idle
       /\ UNCHANGED <<durable, outcomes>>

Handle(r) == inbound = Idle /\ Room /\ r.kind \in {"put", "delete"} /\ Admit(r)

\* admit_query: read and list pass the same checks.
AdmitQuery(r) == inbound = Idle /\ Room /\ r.kind \in {"read", "list"} /\ Admit(r)

------------------------------------------------------------------------------
(* The durable service, and what its errors come to (map_durable_error) *)

Key(r) == <<r.caller, r.id>>
Concluded(what, generation) == inbound' = [inbound EXCEPT !.at = "entered", !.result = what, !.generation = generation]
Seen(r) == {s \in durable.seen : s.key = Key(r)}
Committed(r) ==
    [durable EXCEPT !.seen = @ \cup {[key |-> Key(r), binding |-> Binding(r), generation |-> durable.generation + 1]},
                    !.generation = @ + 1]

EnterDurable ==
    LET r == inbound.request
    IN /\ inbound # Idle /\ inbound.at = "admitted" /\ r.kind \in {"put", "delete"}
       /\ \/ /\ durable.fenced
             /\ Concluded("RecoveryRequired", 0) /\ UNCHANGED durable
          \/ /\ ~durable.fenced
             /\ \E s \in Seen(r) : IF s.binding = Binding(r) THEN Concluded("Duplicate", s.generation)
                                                             ELSE Concluded("DurableRejected", 0)
             /\ UNCHANGED durable
          \/ /\ ~durable.fenced /\ Seen(r) = {}
             /\ Concluded("Committed", durable.generation + 1) /\ durable' = Committed(r)
          \/ /\ ~durable.fenced /\ Seen(r) = {}
             /\ Concluded("OutcomeUnknown", 0)
             /\ durable' = [durable EXCEPT !.fenced = TRUE, !.limbo = {r}]
          \/ /\ ~durable.fenced
             /\ Concluded("DurableRejected", 0) /\ UNCHANGED durable
       /\ UNCHANGED <<events, outcomes>>

EnterQuery ==
    /\ inbound # Idle /\ inbound.at = "admitted" /\ inbound.request.kind \in {"read", "list"}
    /\ Concluded(IF durable.fenced THEN "RecoveryRequired" ELSE "Read", durable.generation)
    /\ UNCHANGED <<durable, events, outcomes>>

------------------------------------------------------------------------------
(* What the caller is told *)

\* Mutant: a duplicate is audited as the commit it repeats.
StageOfRepeated(result) == IF result = "Read" THEN "completed" ELSE "committed"

StageOf(result) ==
    CASE result = "Committed" -> "committed"
      [] result = "Duplicate" -> "duplicate"
      [] result = "Read" -> "completed"

\* A success is told only when its own event is in the sink; a commit whose event
\* failed is told as unknown, a read is withheld.
ConcludeSuccess ==
    /\ inbound # Idle /\ inbound.at = "entered" /\ inbound.result \in {"Committed", "Duplicate", "Read"} /\ Room
    /\ \E a \in Appended(AuditEvent(StageOf(inbound.result), inbound.request, inbound.generation)) :
          /\ events' = a[2]
          /\ IF a[1] THEN Told(inbound.request, inbound.result, inbound.generation)
             ELSE Told(inbound.request, IF inbound.result = "Read" THEN "Withheld" ELSE "OutcomeUnknown", 0)
    /\ inbound' = Idle /\ UNCHANGED durable

\* An unknown outcome is audited as well as it can be.
ConcludeUnknown ==
    /\ inbound # Idle /\ inbound.at = "entered" /\ inbound.result = "OutcomeUnknown" /\ Room
    /\ \E a \in Appended(AuditEvent("unknown", inbound.request, 0)) : events' = a[2]
    /\ Told(inbound.request, "OutcomeUnknown", 0)
    /\ inbound' = Idle /\ UNCHANGED durable

ConcludeError ==
    /\ inbound # Idle /\ inbound.at = "entered" /\ inbound.result \in {"RecoveryRequired", "DurableRejected"}
    /\ Told(inbound.request, inbound.result, 0)
    /\ inbound' = Idle /\ UNCHANGED <<durable, events>>

\* The process dies, or is restarted to recover: what was in doubt turns out one way.
Restart ==
    /\ inbound # Idle \/ durable.fenced
    /\ inbound' = Idle
    /\ \/ durable' = [durable EXCEPT !.fenced = FALSE, !.limbo = {}]
       \/ \E r \in durable.limbo : durable' = [Committed(r) EXCEPT !.fenced = FALSE, !.limbo = {}]
    /\ UNCHANGED <<events, outcomes>>

RuntimeInit ==
    /\ durable = [seen |-> {}, generation |-> 0, fenced |-> FALSE, limbo |-> {}]
    /\ events = <<>> /\ inbound = Idle /\ outcomes = {}

RuntimeNext ==
    \/ \E r \in InboundRequests : Handle(r) \/ AdmitQuery(r)
    \/ EnterDurable \/ EnterQuery \/ ConcludeSuccess \/ ConcludeUnknown \/ ConcludeError \/ Restart

RuntimeSpec == RuntimeInit /\ [][RuntimeNext]_runtimeVars

------------------------------------------------------------------------------
Audited(stage, key, generation) ==
    \E i \in 1..Len(events) : /\ events[i].stage = stage /\ events[i].generation = generation
                              /\ <<events[i].fingerprint[1], events[i].fingerprint[2]>> = key

\* The sink tells the story of the store: whatever the durable service has of a request
\* was accepted in the sink under the same authorization; a commit is audited as one at
\* most once, and at the generation the service gives it; and a caller is told of a
\* commit, of a duplicate or of data only after the sink has the event that says so
\* (RuntimeService::handle_with_failpoint, read, list).
RuntimeAudited ==
    /\ \A s \in durable.seen : \E i \in 1..Len(events) :
          events[i].stage = "accepted" /\ events[i].fingerprint = <<s.key[1], s.key[2], s.binding[1], s.binding[2]>>
    /\ \A i, j \in 1..Len(events) :
          events[i].stage = "committed" =>
             /\ \E s \in durable.seen : /\ s.generation = events[i].generation
                                        /\ s.key = <<events[i].fingerprint[1], events[i].fingerprint[2]>>
             /\ events[j] = events[i] => i = j
    /\ \A o \in outcomes :
          /\ o[3] \in {"Committed", "Duplicate", "Read"} => Audited(StageOf(o[3]), <<o[1], o[2]>>, o[4])
          /\ o[3] = "Duplicate" => \E s \in durable.seen : s.key = <<o[1], o[2]>> /\ s.generation = o[4]
===============================================================================
