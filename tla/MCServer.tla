------------------------------ MODULE MCServer -------------------------------
(***************************************************************************)
(* The parts of a running server around its state: the audit stream, under *)
(* kills and I/O errors or under losses of power, the path of a forwarded  *)
(* request through two nodes, and the connections and peer workers of the  *)
(* front end. A behaviour exercises one of them, which `part' names; the   *)
(* variables of the others are not used.                                   *)
(***************************************************************************)
EXTENDS HaService, TLC

CONSTANTS Unused, Configs, MaxSegments, MaxSequence, Clients, Workers, NoOne, Raw,
          MaxConnections, MaxRequests, MaxViews, MaxExits, Members, n1, n2, x, y

VARIABLES part, active, archives, manifestFile, staged, keyFile, stable, manifest,
          audit_sequence, audit_failed, config, doing, then, after, acked, failures,
          up, leaderView, conn, service, peerSlot, forward, peerWork, admitted, answered,
          spent

AR == INSTANCE AuditRotation WITH Faults <- {"kill", "io"}, MaxFaults <- 3, pc <- doing,
               faults <- failures
AP == INSTANCE AuditRotation WITH Faults <- {"power"}, MaxFaults <- 3, pc <- doing,
               faults <- failures
FE == INSTANCE FrontEnd WITH Nodes <- Members, view <- leaderView, slot <- peerSlot, peer <- peerWork,
               asked <- admitted

-----------------------------------------------------------------------------
\* Two configurations to restart under: short segments of which one stays, and longer ones of
\* which two do.
MCConfigs == {[segment |-> 1, retained |-> 1], [segment |-> 2, retained |-> 2]}

\* Two writes of which one undoes the other: a repetition shows.
Pair == {[id |-> 1, add |-> {x}, remove |-> {}], [id |-> 2, add |-> {}, remove |-> {x}]}

\* A request that reaches the service, and one whose body is longer than announced.
Plain ==
    [headersEnd |-> TRUE, method |-> "GET", api |-> TRUE, repeated |-> FALSE,
     headers |-> [h \in {"host"} |-> "x"], unimplemented |-> FALSE, tooLarge |-> FALSE,
     length |-> 0, received |-> 0, json |-> "none", body |-> [k \in {} |-> "x"],
     query |-> [k \in {"list"} |-> "true"]]
SomeRaw == {Plain, [Plain EXCEPT !.received = 1]}

ASSUME AR!AuditAssumption /\ AP!AuditAssumption /\ HaAssumption

-----------------------------------------------------------------------------
auditVars == <<active, archives, manifestFile, staged, keyFile, stable, manifest,
               audit_sequence, audit_failed, config, doing, then, after, acked, failures>>
frontVars == <<up, leaderView, conn, service, peerSlot, forward, peerWork, admitted,
               answered, spent>>
allVars == <<part, auditVars, vars, frontVars>>

\* The parts that a behaviour leaves alone.
NoAudit ==
    /\ active = Unused /\ archives = Unused /\ manifestFile = Unused /\ staged = Unused
    /\ keyFile = Unused /\ stable = Unused /\ manifest = Unused
    /\ audit_sequence = Unused /\ audit_failed = Unused /\ config = Unused
    /\ doing = Unused /\ then = Unused /\ after = Unused /\ acked = Unused
    /\ failures = Unused

NoRequests == Init /\ leader = n1

NoFront ==
    /\ up = Unused /\ leaderView = Unused /\ conn = Unused /\ service = Unused
    /\ peerSlot = Unused /\ forward = Unused /\ peerWork = Unused /\ admitted = Unused
    /\ answered = Unused /\ spent = Unused

MCInit ==
    \/ part = "audit" /\ AR!Init /\ NoRequests /\ NoFront
    \/ part = "power" /\ AP!Init /\ NoRequests /\ NoFront
    \/ part = "forward" /\ Init /\ NoAudit /\ NoFront
    \/ part = "front" /\ FE!FrontInit /\ leaderView[n1] = n1 /\ NoAudit /\ NoRequests

MCNext ==
    \/ part = "audit" /\ AR!Next /\ UNCHANGED <<part, vars, frontVars>>
    \/ part = "power" /\ AP!Next /\ UNCHANGED <<part, vars, frontVars>>
    \/ part = "forward" /\ Next /\ UNCHANGED <<part, auditVars, frontVars>>
    \/ part = "front" /\ FE!FrontNext /\ UNCHANGED <<part, auditVars, vars>>

MCSpec ==
    /\ MCInit /\ [][MCNext]_allVars
    \* The server runs the call it is in to its end, and is restarted when down.
    /\ WF_allVars(part = "audit" /\ AR!Progress /\ UNCHANGED <<part, vars, frontVars>>)
    /\ WF_allVars(part = "power" /\ AP!Progress /\ UNCHANGED <<part, vars, frontVars>>)
    \* A call that can go on does: no step of it waits for more than a timeout, but for the
    \* commit of its entry, which a leader with a quorum reaches.
    /\ \A n \in Nodes : WF_allVars(part = "forward" /\ Step(n)
                                   /\ UNCHANGED <<part, auditVars, frontVars>>)
    /\ WF_allVars(part = "forward" /\ RaftCommit /\ UNCHANGED <<part, auditVars, frontVars>>)
    \* Some thread that can go on does. An exchange, a read of a socket and the
    \* confirmation of a read have timeouts, the commit of an entry has none. The clients
    \* send finitely many requests, so that no thread is passed over for ever.
    /\ WF_allVars(part = "front" /\ FE!Progress /\ UNCHANGED <<part, auditVars, vars>>)

-----------------------------------------------------------------------------
\* Wherever a kill, an I/O error or a loss of power falls, the audit stream opens again,
\* its records are consecutive, and every reported one that was not evicted is there; after
\* a loss of power too (audit_rotation.rs, rotate and recover).
NoRecordLost ==
    /\ part \in {"audit", "power"} => AR!TypeOK /\ AR!Recoverable /\ AR!NoRecordLost
    /\ part = "power" => AR!RecoverableFromDisk

\* A retained archive is never touched, and records leave the stream oldest first and only
\* beyond the configured number (audit_rotation.rs, rotate and remove_garbage).
RetainedArchivesFixed ==
    [][part = "audit" => AR!RetainedArchivesFixed /\ AR!EvictsOnlyBeyondRetention]_allVars

\* A server that is restarted audits again (service.rs, open_audit).
AuditsAgain == []<>(part \in {"audit", "power"} => AR!AuditsOrTorn)

\* Every client gets an answer, even when nodes forward to each other at once and each
\* holds the mutex the other's request waits for (service.rs, forward_request).
Answered ==
    \A r \in Requests :
        (part = "forward" /\ r \in asked) ~> (part = "forward" => reply[r] # "none")

\* At most one peer worker of a node waits for its service, the others answer Raft
\* (ha.rs, HaProcess::start).
ConsensusServed == part = "front" => FE!ConsensusServed

QuorumLost == part = "front" /\ 2 * Cardinality(up) <= Cardinality(Members)

\* Every accepted connection is closed in the end, unless so many nodes stopped that the
\* others are no quorum: then a write waits for its entry without a bound and keeps the
\* service mutex from all others (http.rs, serve_inner; ha.rs, commit_state).
ConnectionsClose ==
    \A c \in Clients :
        (part = "front" /\ conn[c].phase # "closed")
            ~> (part = "front" => \/ conn[c].phase = "closed"
                                  \/ QuorumLost)
=============================================================================
