---------------------------- MODULE JournaledCore ----------------------------
(***************************************************************************)
(* The journaled composition: FileGenerationStore (immutable generation    *)
(* bundles and a CURRENT record), FileDurableJournal (chained entry files  *)
(* and a TAIL record), the OperationLedger kept in the journal, and        *)
(* JournaledDurableCore, which records what it is about to do in the       *)
(* ledger before it does it to the store.  A call is a sequence of file    *)
(* steps; the process is killed, a step fails or the power is cut between  *)
(* or inside any two of them, and what the next process finds in the two   *)
(* directories is all it has to decide from.                               *)
(*                                                                         *)
(* Digests, tags and sealed envelopes are abstracted to the operation      *)
(* whose state they authenticate: a bundle holds the operation that wrote  *)
(* it, Absent, or Torn when its write was cut.                             *)
(***************************************************************************)
EXTENDS Integers, Sequences, FiniteSets, SequencesExt

CONSTANTS Ops,         \* operation identities
          Absent, Torn, \* model values
          Trouble,     \* the kinds of trouble a behaviour may meet, chosen at the start
          MaxGenerations, \* bound: generations of the store
          MaxRecords,  \* MAX_JOURNAL_RECORDS
          MaxFaults,   \* bound: kills, failed steps and losses of power
          MaxNotes     \* bound: calls that record a response, a delivery or a reconciliation

VARIABLES trouble,     \* which faults this behaviour meets
          disk,        \* the two directories, as a process sees them
          kept,        \* the part of them that a loss of power leaves
          engine,      \* FileGenerationStore: Absent when not open, else its current generation
          ledger,      \* FileDurableJournal and OperationLedger: Absent when not open
          call,        \* the call in progress
          told,        \* what the caller was last told of each operation
          faults, notes

jcVars == <<trouble, disk, kept, engine, ledger, call, told, faults, notes>>

Generations == 1..MaxGenerations
Idle == [kind |-> "idle"]
NoRecord == [gen |-> 0, op |-> Absent]

-----------------------------------------------------------------------------
(* The ledger: phases of a durable mutation and their events. *)

Blocking == {"Accepted", "IntentCommitted"}
StateKept == {"StateCommitted", "ResponseAudited", "ResponseAuditFailed", "Delivered", "DeliveryFailed"}

AllowedTransition == [
    Accepted            |-> {"Rejected", "IntentCommitted"},
    IntentCommitted     |-> {"StateCommitted", "Aborted"},
    StateCommitted      |-> {"ResponseAudited", "ResponseAuditFailed"},
    ResponseAudited     |-> {"Delivered", "DeliveryFailed"},
    ResponseAuditFailed |-> {"Reconciled"},
    DeliveryFailed      |-> {"Reconciled"},
    Rejected            |-> {}, Aborted |-> {}, Delivered |-> {}, Reconciled |-> {}]

\* An event names its operation, its phase, the phase before and the target
\* generation (0: none), which validate_event_shape ties to the phase.
Event(op, before, phase, gen) == [op |-> op, before |-> before, phase |-> phase, gen |-> gen]

ValidShape(e) ==
    /\ (e.phase = "Accepted") = (e.before = "none")
    /\ e.phase \in StateKept \cup {"IntentCommitted", "Aborted"} => e.gen # 0
    /\ e.phase \in {"Accepted", "Rejected"} => e.gen = 0

ValidTransition(previous, e) ==
    /\ ValidShape(e)
    /\ IF previous = Absent
       THEN e.phase = "Accepted"
       ELSE /\ e.phase # "Accepted" /\ e.before = previous.phase
            /\ previous.gen # 0 => e.gen = previous.gen
            /\ e.phase \in AllowedTransition[previous.phase]

\* The operations after the replay of a sequence of events; Torn when one of
\* them does not follow from the others, which OperationLedger::open refuses.
Replayed(events) ==
    FoldLeft(LAMBDA ops, e :
                 IF ops # Torn /\ e # Torn /\ ValidTransition(ops[e.op], e) THEN [ops EXCEPT ![e.op] = e] ELSE Torn,
             [op \in Ops |-> Absent], events)

Unresolved(ops) == {op \in Ops : ops[op] # Absent /\ ops[op].phase \in Blocking}

-----------------------------------------------------------------------------
(* The directories. *)

Empty == [store   |-> [marker |-> FALSE, cur |-> NoRecord, bundles |-> [g \in Generations |-> Absent], tmp |-> FALSE],
          journal |-> [marker |-> FALSE, tail |-> 0, entries |-> <<>>, tmp |-> FALSE]]

Untouched(s) == ~s.marker /\ s.cur = NoRecord /\ ~s.tmp /\ \A g \in Generations : s.bundles[g] = Absent

\* The bundle that CURRENT names is there and has the digest CURRENT binds.
CurrentValid(s) == s.cur # NoRecord /\ s.bundles[s.cur.gen] = s.cur.op

MatchesMemory(s, gen) ==
    IF gen = 0 THEN Untouched(s) ELSE s.marker /\ CurrentValid(s) /\ s.cur.gen = gen

\* validate_layout: no temporary file, every committed entry and at most the
\* next one; the entries are written in order, so there is nothing else.
LayoutValid(j) == j.marker /\ ~j.tmp /\ Len(j.entries) \in {j.tail, j.tail + 1}

HasOrphan(j) == Len(j.entries) = j.tail + 1

Committed(j) == SubSeq(j.entries, 1, j.tail)

-----------------------------------------------------------------------------
(* The file steps of a call.  A call is a record of what it is doing (kind, *)
(* op, gen), the event it is appending, and the file step it is at.         *)

Call(kind, op, gen, event, at) == [kind |-> kind, op |-> op, gen |-> gen, event |-> event, at |-> at]

\* What step `at' of call c does when it succeeds.
Done(d, c) ==
    CASE c.at = "entry"          -> [d EXCEPT !.journal.entries = Append(@, c.event)]
      [] c.at \in {"tail_tmp", "orphan_tmp", "init_tmp"} -> [d EXCEPT !.journal.tmp = TRUE]
      [] c.at \in {"tail_link", "orphan_link"} -> [d EXCEPT !.journal.tmp = FALSE, !.journal.tail = @ + 1]
      [] c.at = "init_link"      -> [d EXCEPT !.journal.tmp = FALSE, !.journal.marker = TRUE]
      [] c.at = "bundle"         -> [d EXCEPT !.store.bundles[c.gen] = c.op]
      [] c.at \in {"current_tmp", "marker_tmp"} -> [d EXCEPT !.store.tmp = TRUE]
      [] c.at = "current_link"   -> [d EXCEPT !.store.tmp = FALSE, !.store.cur = [gen |-> c.gen, op |-> c.op]]
      [] c.at = "marker_link"    -> [d EXCEPT !.store.tmp = FALSE, !.store.marker = TRUE]
      [] OTHER                   -> d

\* What it may leave behind when it fails or is cut: a new file is absent,
\* torn or whole, and the removal of a temporary file may fail as well.
Partial(d, c) ==
    {d} \cup
    CASE c.at = "entry"  -> {[d EXCEPT !.journal.entries = Append(@, x)] : x \in {Torn, c.event}}
      [] c.at = "bundle" -> {[d EXCEPT !.store.bundles[c.gen] = x] : x \in {Torn, c.op}}
      [] c.at \in {"tail_tmp", "orphan_tmp", "init_tmp", "tail_link", "orphan_link", "init_link"} ->
             {[d EXCEPT !.journal.tmp = b] : b \in BOOLEAN}
      [] c.at \in {"current_tmp", "marker_tmp", "current_link", "marker_link"} ->
             {[d EXCEPT !.store.tmp = b] : b \in BOOLEAN}
      [] OTHER -> {}

\* A sync makes the whole directory durable; write_new_file_and_sync_parent
\* syncs within its step.
Synced(k, d, c) ==
    CASE trouble = "process" -> d
      [] c.at \in {"entry", "tail_sync", "orphan_sync", "init_sync"} -> [k EXCEPT !.journal = d.journal]
      [] c.at \in {"bundle", "current_sync", "marker_sync"} -> [k EXCEPT !.store = d.store]
      [] OTHER -> k

\* What a loss of power leaves: of each unsynced change either version, and
\* the temporary file of a rename that is lost.
Surviving(k, d) ==
    {[store   |-> [marker |-> m, cur |-> c, bundles |-> b, tmp |-> t],
      journal |-> [marker |-> jm, tail |-> jt, entries |-> je, tmp |-> u]] :
        m \in {k.store.marker, d.store.marker}, c \in {k.store.cur, d.store.cur},
        b \in {k.store.bundles, d.store.bundles},
        t \in {k.store.tmp, d.store.tmp} \cup {<<k.store.marker, k.store.cur>> # <<d.store.marker, d.store.cur>>},
        jm \in {k.journal.marker, d.journal.marker}, jt \in {k.journal.tail, d.journal.tail},
        je \in {k.journal.entries, d.journal.entries},
        u \in {k.journal.tmp, d.journal.tmp} \cup {<<k.journal.marker, k.journal.tail>> # <<d.journal.marker, d.journal.tail>>}}

-----------------------------------------------------------------------------
(* Appending to the ledger. *)

Appendable(l) ==
    /\ LayoutValid(disk.journal) /\ ~HasOrphan(disk.journal)
    /\ disk.journal.tail = l.tail /\ l.tail < MaxRecords

\* OperationLedger::record begins.  An append that is refused counts as one
\* whose outcome is unknown: the journal provider classifies no failure.
Record(kind, op, gen, phase, l) ==
    LET before == IF l.ops[op] = Absent THEN "none" ELSE l.ops[op].phase
        event  == Event(op, before, phase, gen)
    IN  IF ~l.writable \/ ~ValidTransition(l.ops[op], event)
        THEN ledger' = l /\ call' = Idle
        ELSE IF Appendable(l)
             THEN ledger' = l /\ call' = Call(kind, op, gen, event, "entry")
             ELSE ledger' = [l EXCEPT !.writable = FALSE] /\ call' = Idle

Recorded(c) == [ledger EXCEPT !.tail = @ + 1, !.ops[c.op] = c.event]

Loaded(j) == [tail |-> j.tail, ops |-> Replayed(Committed(j)), writable |-> TRUE]

-----------------------------------------------------------------------------
Quiet == call = Idle
Calm == UNCHANGED <<trouble, faults>>

(* Opening the store. *)

CreateStore ==
    /\ Quiet /\ engine = Absent /\ Untouched(disk.store)
    /\ engine' = 0
    /\ Calm /\ UNCHANGED <<disk, kept, ledger, call, told, notes>>

ReopenStore ==
    /\ Quiet /\ engine = Absent /\ disk.store.marker /\ CurrentValid(disk.store)
    /\ engine' = disk.store.cur.gen
    /\ Calm /\ UNCHANGED <<disk, kept, ledger, call, told, notes>>

AdoptLegacy ==
    /\ Quiet /\ engine = Absent
    /\ ~disk.store.tmp /\ ~disk.store.marker /\ CurrentValid(disk.store)
    /\ call' = Call("adopt", Absent, disk.store.cur.gen, Absent, "marker_tmp")
    /\ Calm /\ UNCHANGED <<disk, kept, engine, ledger, told, notes>>

(* Opening the journal and the ledger in it. *)

CreateJournal ==
    /\ Quiet /\ ledger = Absent /\ disk.journal = Empty.journal
    /\ call' = Call("create", Absent, 0, Absent, "init_tmp")
    /\ Calm /\ UNCHANGED <<disk, kept, engine, ledger, told, notes>>

\* recover_authoritative: publish the tail of a whole orphan, then replay.
Replay(op) ==
    /\ LayoutValid(disk.journal)
    /\ \/ /\ HasOrphan(disk.journal) /\ Last(disk.journal.entries) # Torn
          /\ call' = Call("replay", op, 0, Absent, "orphan_tmp") /\ UNCHANGED ledger
       \/ /\ ~HasOrphan(disk.journal) /\ Replayed(Committed(disk.journal)) # Torn
          /\ ledger' = Loaded(disk.journal)
          /\ call' = IF op = Absent THEN Idle ELSE Call("decide", op, 0, Absent, "decide")

OpenLedger ==
    /\ Quiet /\ ledger = Absent /\ Replay(Absent)
    /\ Calm /\ UNCHANGED <<disk, kept, engine, told, notes>>

RecoverLedger ==
    /\ Quiet /\ ledger # Absent /\ ~ledger.writable /\ Replay(Absent)
    /\ Calm /\ UNCHANGED <<disk, kept, engine, told, notes>>

-----------------------------------------------------------------------------
(* The calls of JournaledDurableCore. *)

Open == engine # Absent /\ ledger # Absent

\* prepare_persist: the caller's generation is current, in memory and on disk.
Prepared == engine < MaxGenerations /\ MatchesMemory(disk.store, engine)

\* The refusals that leave everything as it is are not steps.
PersistMutation(op) ==
    /\ Quiet /\ Open /\ ledger.writable
    /\ ledger.ops[op] = Absent /\ Unresolved(ledger.ops) = {}
    /\ Prepared
    /\ Record("persist", op, 0, "Accepted", ledger)
    /\ Calm /\ UNCHANGED <<disk, kept, engine, told, notes>>

\* record_rejected_before_dispatch, record_response_audited and _failure_after_commit,
\* record_delivery and reconcile: one transition each, refused by the table.
RecordPhase(op, phase) ==
    /\ Quiet /\ Open /\ ledger.writable /\ notes < MaxNotes
    /\ ledger.ops[op] # Absent
    /\ phase \in AllowedTransition[ledger.ops[op].phase] \ {"IntentCommitted", "StateCommitted", "Aborted"}
    /\ Record("note", op, ledger.ops[op].gen, phase, ledger)
    /\ notes' = notes + 1
    /\ Calm /\ UNCHANGED <<disk, kept, engine, told>>

RecoverDurableIntent(op) ==
    /\ Quiet /\ Open
    /\ IF ledger.writable
       THEN call' = Call("decide", op, 0, Absent, "decide") /\ UNCHANGED ledger
       ELSE Replay(op)
    /\ Calm /\ UNCHANGED <<disk, kept, engine, told, notes>>

\* Mutant: a whole bundle that CURRENT does not name yet is taken for a commit.
VerdictUnpublished(s, gen, op) ==
    CASE s.tmp \/ (gen > 1 /\ ~s.marker) \/ (gen = 1 /\ s.marker /\ s.cur = NoRecord)
             \/ (s.cur # NoRecord /\ ~CurrentValid(s)) -> "corrupt"
      [] s.cur.gen = gen -> IF s.cur.op # op THEN "conflict" ELSE IF s.marker THEN "committed" ELSE "unmarked"
      [] s.cur.gen = gen - 1 -> CASE s.bundles[gen] = Absent -> "absent"
                                  [] s.bundles[gen] = Torn   -> "corrupt"
                                  [] s.bundles[gen] = op     -> "committed"
                                  [] OTHER                   -> "conflict"
      [] OTHER -> "conflict"

\* recover_commit: what the directory says of the intent to write generation gen.
Verdict(s, gen, op) ==
    CASE s.tmp \/ (gen > 1 /\ ~s.marker) \/ (gen = 1 /\ s.marker /\ s.cur = NoRecord)
             \/ (s.cur # NoRecord /\ ~CurrentValid(s)) -> "corrupt"
      [] s.cur.gen = gen -> IF s.cur.op # op THEN "conflict" ELSE IF s.marker THEN "committed" ELSE "unmarked"
      [] s.cur.gen = gen - 1 -> CASE s.bundles[gen] = Absent -> "absent"
                                  [] s.bundles[gen] = Torn   -> "corrupt"
                                  [] s.bundles[gen] = op     -> "orphan"
                                  [] OTHER                   -> "conflict"
      [] OTHER -> "conflict"

\* recover_durable_intent once the ledger is authoritative.
Decide ==
    /\ call.kind = "decide"
    /\ LET e == ledger.ops[call.op]
           v == Verdict(disk.store, e.gen, call.op)
       IN  CASE e = Absent -> call' = Idle /\ UNCHANGED <<engine, ledger, told>>
             [] e # Absent /\ e.phase \in {"StateCommitted", "Aborted"} ->
                    /\ told' = [told EXCEPT ![call.op] = IF e.phase = "Aborted" THEN "aborted" ELSE "committed"]
                    /\ call' = Idle /\ UNCHANGED <<engine, ledger>>
             [] e # Absent /\ e.phase = "IntentCommitted" ->
                    /\ UNCHANGED told
                    /\ \/ v \in {"corrupt", "conflict"} /\ call' = Idle /\ UNCHANGED <<engine, ledger>>
                       \/ /\ v = "committed" /\ engine' = e.gen
                          /\ Record("recover", call.op, e.gen, "StateCommitted", ledger)
                       \/ /\ v = "absent" /\ engine' = e.gen - 1
                          /\ Record("recover", call.op, e.gen, "Aborted", ledger)
                       \/ /\ v \in {"unmarked", "orphan"}
                          /\ call' = Call("recover", call.op, e.gen, Absent,
                                          IF v = "orphan" THEN "current_tmp" ELSE "marker_tmp")
                          /\ UNCHANGED <<engine, ledger>>
             [] OTHER -> call' = Idle /\ UNCHANGED <<engine, ledger, told>>
    /\ Calm /\ UNCHANGED <<disk, kept, notes>>

-----------------------------------------------------------------------------
(* The file steps of the call in progress. *)

Following == [
    entry |-> "tail_tmp", tail_tmp |-> "tail_link", tail_link |-> "tail_sync",
    orphan_tmp |-> "orphan_link", orphan_link |-> "orphan_sync",
    init_tmp |-> "init_link", init_link |-> "init_sync",
    bundle |-> "current_tmp", current_tmp |-> "current_link", current_link |-> "current_sync",
    marker_tmp |-> "marker_link", marker_link |-> "marker_sync"]

FileStep ==
    /\ call.kind \notin {"idle", "decide"}
    /\ disk' = Done(disk, call)
    /\ kept' = Synced(kept, disk', call)

\* A step in the middle of an append or of a replacement.  The first
\* generation is followed by the marker that says the store is initialised.
Advance ==
    /\ call # Idle
    /\ call.at \in DOMAIN Following \/ (call.at = "current_sync" /\ call.gen = 1)
    /\ FileStep
    /\ call' = [call EXCEPT !.at = IF call.at = "current_sync" THEN "marker_tmp" ELSE Following[call.at]]
    /\ Calm /\ UNCHANGED <<engine, ledger, told, notes>>

\* commit: the store is as it was prepared and has no bundle of the generation.
CommitPrepared(c, l) ==
    /\ ledger' = l
    /\ call' = IF MatchesMemory(disk.store, engine) /\ disk.store.bundles[engine + 1] = Absent
               THEN Call("persist", c.op, engine + 1, Absent, "bundle")
               ELSE Idle

\* The append is complete: the call goes on to its next record or its answer.
AppendDone ==
    /\ call # Idle /\ call.at = "tail_sync" /\ FileStep
    /\ LET l == Recorded(call)
           phase == call.event.phase
       IN  \/ /\ phase = "Accepted" /\ UNCHANGED told
              /\ IF l.tail < MaxRecords
                 THEN /\ ledger' = l
                      /\ call' = Call("persist", call.op, engine + 1,
                                      Event(call.op, "Accepted", "IntentCommitted", engine + 1), "entry")
                 ELSE ledger' = [l EXCEPT !.writable = FALSE] /\ call' = Idle
           \/ phase = "IntentCommitted" /\ CommitPrepared(call, l) /\ UNCHANGED told
           \/ /\ phase \notin {"Accepted", "IntentCommitted"}
              /\ ledger' = l /\ call' = Idle
              /\ told' = CASE phase = "StateCommitted" -> [told EXCEPT ![call.op] = "committed"]
                           [] phase = "Aborted"        -> [told EXCEPT ![call.op] = "aborted"]
                           [] phase = "Rejected"       -> [told EXCEPT ![call.op] = "rejected"]
                           [] OTHER                    -> told
    /\ Calm /\ UNCHANGED <<engine, notes>>

\* CURRENT (and the marker) are published: the generation is current in memory
\* and the commit is recorded.
PublishDone ==
    /\ call # Idle /\ call.kind \in {"persist", "recover"}
    /\ call.at = "marker_sync" \/ (call.at = "current_sync" /\ call.gen > 1)
    /\ FileStep
    /\ engine' = call.gen
    /\ Record(call.kind, call.op, call.gen, "StateCommitted", ledger)
    /\ Calm /\ UNCHANGED <<told, notes>>

AdoptDone ==
    /\ call # Idle /\ call.kind = "adopt" /\ call.at = "marker_sync" /\ FileStep
    /\ engine' = call.gen /\ call' = Idle
    /\ Calm /\ UNCHANGED <<ledger, told, notes>>

\* The marker of a new journal is published, or the tail of an orphan.
JournalDone ==
    /\ call # Idle /\ call.at \in {"init_sync", "orphan_sync"} /\ FileStep
    /\ Replayed(Committed(disk.journal)) # Torn
    /\ ledger' = Loaded(disk.journal)
    /\ call' = IF call.op = Absent THEN Idle ELSE Call("decide", call.op, 0, Absent, "decide")
    /\ Calm /\ UNCHANGED <<engine, told, notes>>

-----------------------------------------------------------------------------
(* Faults. *)

\* A step returns an error: the call ends there.  A failed append fences the
\* ledger; a failed opening opens nothing.
Fail ==
    /\ trouble # "power" /\ faults < MaxFaults /\ call.kind \notin {"idle", "decide"}
    /\ disk' \in Partial(disk, call)
    /\ kept' = IF trouble = "process" THEN disk' ELSE kept
    /\ ledger' = IF call.at \in {"entry", "tail_tmp", "tail_link", "tail_sync"}
                 THEN [ledger EXCEPT !.writable = FALSE] ELSE ledger
    /\ call' = Idle /\ faults' = faults + 1
    /\ UNCHANGED <<trouble, engine, told, notes>>

Kill ==
    /\ trouble # "power" /\ faults < MaxFaults
    /\ engine # Absent \/ ledger # Absent \/ ~Quiet
    /\ disk' \in IF call.kind \in {"idle", "decide"} THEN {disk} ELSE Partial(disk, call)
    /\ kept' = IF trouble = "process" THEN disk' ELSE kept
    /\ engine' = Absent /\ ledger' = Absent /\ call' = Idle /\ faults' = faults + 1
    /\ UNCHANGED <<trouble, told, notes>>

LosePower ==
    /\ trouble # "process" /\ faults < MaxFaults
    /\ \E d \in IF call.kind \in {"idle", "decide"} THEN {disk} ELSE Partial(disk, call) :
           disk' \in Surviving(kept, d)
    /\ kept' = disk'
    /\ engine' = Absent /\ ledger' = Absent /\ call' = Idle /\ faults' = faults + 1
    /\ UNCHANGED <<trouble, told, notes>>

-----------------------------------------------------------------------------
JCInit ==
    /\ trouble \in Trouble
    /\ disk = Empty /\ kept = Empty
    /\ engine = Absent /\ ledger = Absent /\ call = Idle
    /\ told = [op \in Ops |-> "none"] /\ faults = 0 /\ notes = 0

JCNext ==
    \/ CreateStore \/ ReopenStore \/ AdoptLegacy
    \/ CreateJournal \/ OpenLedger \/ RecoverLedger
    \/ \E op \in Ops : \/ PersistMutation(op)
                       \/ RecoverDurableIntent(op)
                       \/ \E phase \in DOMAIN AllowedTransition : RecordPhase(op, phase)
    \/ Decide \/ Advance \/ AppendDone \/ PublishDone \/ AdoptDone \/ JournalDone
    \/ Fail \/ Kill \/ LosePower

JCSpec == JCInit /\ [][JCNext]_jcVars

-----------------------------------------------------------------------------
(* Properties. *)

\* The generation that CURRENT has reached for operation op; 0 if none.
Served(s, op) == IF \E g \in 1..s.cur.gen : s.bundles[g] = op
                 THEN CHOOSE g \in 1..s.cur.gen : s.bundles[g] = op ELSE 0

Known == IF disk.journal.entries # <<>> /\ Last(disk.journal.entries) = Torn
         THEN Replayed(Front(disk.journal.entries)) ELSE Replayed(disk.journal.entries)

\* The ledger tells what the store holds, wherever the process dies, or the
\* power goes, but not when the one follows the other (`trouble'): its
\* entries replay; an operation it has as committed is served at the generation
\* it names; one it has as rejected or aborted is not served; and a served
\* operation has at least its intent recorded, with that generation.
LedgerTellsStore ==
    /\ Known # Torn
    /\ \A op \in Ops :
         LET e == Known[op]
             g == Served(disk.store, op)
         IN  /\ g # 0 => e # Absent /\ e.gen = g /\ e.phase \notin {"Accepted", "Rejected", "Aborted"}
             /\ e # Absent /\ e.phase \in StateKept \cup {"Reconciled"} => g = e.gen

\* What a caller was told stays true: a mutation reported committed is served
\* and one reported aborted or rejected is not, and no operation is served twice.
ToldStaysTrue ==
    \A op \in Ops :
        /\ told[op] = "committed" => Served(disk.store, op) # 0
        /\ told[op] \in {"aborted", "rejected"} => Served(disk.store, op) = 0
        /\ Cardinality({g \in 1..disk.store.cur.gen : disk.store.bundles[g] = op}) <= 1

\* An open intent can always be decided from the directory: unless a
\* temporary file or a torn bundle is left, recover_commit finds neither a
\* conflict nor a corrupt store; and at most one operation is undecided.
IntentDecidable ==
    /\ Known # Torn => Cardinality(Unresolved(Known)) <= 1
    /\ Known # Torn /\ Quiet => \A op \in Unresolved(Known) :
         Known[op].phase = "IntentCommitted" /\ ~disk.store.tmp /\ disk.store.bundles[Known[op].gen] # Torn
             => Verdict(disk.store, Known[op].gen, op) \notin {"corrupt", "conflict"}

=============================================================================
