------------------------------ MODULE Migration ------------------------------
(***************************************************************************)
(* DurableMigrationJournal: the record of a migration (phase, writers,     *)
(* fences, the state of every object, the operation identifiers used) kept *)
(* in a current and a previous file, and the controller and copy adapter   *)
(* that use it.  Every transition builds a candidate record, validates it  *)
(* and replaces the files step by step; the process is killed, a step      *)
(* fails or the power is cut anywhere.                                     *)
(*                                                                         *)
(* Digests, profiles and identifiers are abstracted: an object's target    *)
(* digest is the fact that it was copied, and an envelope (checksummed or  *)
(* authenticated) is the record it holds, or Torn.  The controller and the *)
(* adapter are external and do what the crate's documentation asks of      *)
(* them: a call that returns an error is followed by reopening the         *)
(* journal, an intent is carried out at most once and by the process that  *)
(* was given it, and reconciliation reads the target.                      *)
(***************************************************************************)
EXTENDS Integers, Sequences, FiniteSets, FiniteSetsExt, Functions

CONSTANTS Objects,       \* the inventory: 1..n, in the order of the identifiers
          CopyOps,       \* operation identifiers
          Nothing, Ruined,  \* model values: no file or record; a file that does not decode
          Hazards,       \* the kinds of trouble a behaviour may meet, chosen at the start
          MaxReceipt,    \* bound: generations of writer receipts
          MaxTroubles    \* bound: kills, failed steps and losses of power

VARIABLES hazard,        \* which faults this behaviour meets
          deps,          \* the dependencies of each object
          files,         \* the journal directory: current, previous and temporary file
          durable,       \* what of it a loss of power leaves
          record,        \* the journal's record in memory; Nothing when it is not open
          replacing,        \* the replacement in progress: its record, intent and next step
          acked,         \* the last record whose commit was reported
          intents,       \* CopyIntents handed to the adapter and not carried out
          copied,        \* the operations that copied each object to the target
          troubles

migrationVars == <<hazard, deps, files, durable, record, replacing, acked, intents, copied, troubles>>

-----------------------------------------------------------------------------
(* The inventory. *)

\* execution_order: repeatedly the least object whose dependencies are out.
ExecutionOrder(d) ==
    LET order[n \in 0..Cardinality(Objects)] ==
            IF n = 0 THEN <<>>
            ELSE LET done  == order[n - 1]
                     ready == {o \in Objects \ Range(done) : d[o] \subseteq Range(done)}
                 IN  IF ready = {} THEN done ELSE Append(done, Min(ready))
    IN  order[Cardinality(Objects)]

Inventory(d) == (\A o \in Objects : o \notin d[o]) /\ Len(ExecutionOrder(d)) = Cardinality(Objects)

-----------------------------------------------------------------------------
(* The record and its validation. *)

Phases == {"Planned", "SourceFenced", "Copying", "CutoverReady", "TargetActive", "TargetFenced",
           "RolledBack", "FailedClosed"}
ObjectStates == [state : {"Pending", "IntentPersisted", "OutcomeUnknown", "Verified", "FailedClosed"},
                 op : CopyOps \cup {Nothing}, attempt : Nat]
Records == [generation : Nat, phase : Phases, source : BOOLEAN, target : BOOLEAN,
            sourceFence : Nat, activation : Nat, targetFence : Nat, reactivation : Nat,
            objects : [Objects -> ObjectStates], used : SUBSET CopyOps]

\* No file and a ruined file differ from each other and from every record.
MigrationAssumption == Nothing # Ruined /\ Nothing \notin Records /\ Ruined \notin Records

Pending == [state |-> "Pending", op |-> Nothing, attempt |-> 0]

NewRecord == [generation |-> 1, phase |-> "Planned", source |-> TRUE, target |-> FALSE,
              sourceFence |-> 0, activation |-> 0, targetFence |-> 0, reactivation |-> 0,
              objects |-> [o \in Objects |-> Pending], used |-> {}]

InState(r, states) == {o \in Objects : r.objects[o].state \in states}
Unresolved(r) == InState(r, {"IntentPersisted", "OutcomeUnknown"})
AllVerified(r) == InState(r, {"Verified"}) = Objects

\* The operation of an object was recorded as used, and its attempts counted.
ValidObject(r, s) ==
    CASE s.state = "Pending"      -> IF s.op = Nothing THEN s.attempt = 0 ELSE s.attempt > 0 /\ s.op \in r.used
      [] s.state = "FailedClosed" -> TRUE
      [] OTHER                    -> s.attempt > 0 /\ s.op \in r.used

\* The states the objects may be in, phase by phase.
ValidPhase(r) ==
    /\ r.phase = "Planned" => \A o \in Objects : r.objects[o] = Pending
    /\ r.phase \in {"CutoverReady", "TargetActive", "TargetFenced"} => AllVerified(r)
    /\ r.phase = "RolledBack" => Unresolved(r) = {}
    /\ r.phase = "FailedClosed" => InState(r, {"FailedClosed"}) # {}

Valid(r) ==
    /\ r.generation # 0 /\ ~(r.source /\ r.target)
    /\ r.source = (r.phase \in {"Planned", "RolledBack"})
    /\ r.target = (r.phase = "TargetActive")
    /\ r.phase # "Planned" => r.sourceFence > 0
    /\ r.phase \in {"TargetActive", "TargetFenced"} => r.activation > 0
    /\ r.phase = "TargetFenced" => r.targetFence > 0
    /\ r.phase = "RolledBack" => r.reactivation > 0
    /\ \A o \in Objects : ValidObject(r, r.objects[o])
    /\ ValidPhase(r)

\* A file decodes when its checksum or authentication code, which cover the
\* whole record, agree with it and the record is valid.
Decodes(x) == x # Ruined /\ (x # Nothing => Valid(x))

\* select_generation over the two files; Nothing when open refuses.
Selected(f) ==
    IF ~Decodes(f.cur) \/ ~Decodes(f.prev) THEN Nothing
    ELSE IF f.cur = Nothing THEN f.prev
    ELSE IF f.prev = Nothing \/ f.cur = f.prev \/ f.cur.generation > f.prev.generation THEN f.cur
    ELSE Nothing

-----------------------------------------------------------------------------
(* Replacing the files: persist_initial and persist_replace. *)

NotSaving == [at |-> "idle"]

\* What the next step of a replacement does.
After(f, s) ==
    CASE s.at = "first"  -> [f EXCEPT !.cur = s.rec]
      [] s.at = "tmp"    -> [f EXCEPT !.tmp = s.rec]
      [] s.at = "drop"   -> [f EXCEPT !.prev = Nothing]
      [] s.at = "keep"   -> [f EXCEPT !.prev = f.cur, !.cur = Nothing]
      [] s.at = "link"   -> [f EXCEPT !.cur = f.tmp, !.tmp = Nothing]
      [] OTHER           -> f

\* What it may leave when it is cut or fails.  A failed rename of the new
\* file puts the previous one back, if that works.
Cut(f, s) ==
    {f} \cup CASE s.at = "first" -> {[f EXCEPT !.cur = x] : x \in {Ruined, s.rec}}
               [] s.at = "tmp"   -> {[f EXCEPT !.tmp = x] : x \in {Ruined, s.rec}}
               [] OTHER          -> {}

PutBack(f, s) == IF s.at = "link" /\ f.prev # Nothing /\ f.cur = Nothing
                 THEN {[f EXCEPT !.cur = f.prev, !.prev = Nothing]} ELSE {}

StepAfter(f, at) ==
    CASE at = "first"    -> "linksync"
      [] at = "tmp"      -> IF f.cur = Nothing THEN "link" ELSE IF f.prev # Nothing THEN "drop" ELSE "keep"
      [] at = "drop"     -> "dropsync"
      [] at = "dropsync" -> "keep"
      [] at = "keep"     -> "keepsync"
      [] at = "keepsync" -> "link"
      [] at = "link"     -> "linksync"

\* A new name may be lost without its directory sync, a rename as a whole.
Remaining(k, f) ==
    {x \in {[cur |-> c[1], prev |-> c[2], tmp |-> t] :
               c \in {<<k.cur, k.prev>>, <<f.cur, f.prev>>}, t \in {k.tmp, f.tmp, f.cur}} :
        x.tmp = Nothing \/ x.tmp # x.cur}

-----------------------------------------------------------------------------
Free == replacing = NotSaving
World == UNCHANGED <<hazard, deps, acked, copied, troubles>>

CreateNew ==
    /\ Free /\ record = Nothing /\ files.cur = Nothing /\ files.prev = Nothing
    /\ replacing' = [at |-> "first", rec |-> NewRecord, intent |-> Nothing]
    /\ World /\ UNCHANGED <<files, durable, record, intents>>

Open ==
    /\ Free /\ record = Nothing /\ Selected(files) # Nothing
    /\ record' = Selected(files)
    /\ World /\ UNCHANGED <<files, durable, replacing, intents>>

\* commit: the candidate is validated and its replacement begins.  A
\* temporary file left under the name of the new generation refuses it.
Commit(candidate, intent) ==
    LET r == [candidate EXCEPT !.generation = record.generation + 1]
    IN  /\ Valid(r) /\ files.tmp = Nothing
        /\ replacing' = [at |-> "tmp", rec |-> r, intent |-> intent]
        /\ World /\ UNCHANGED <<files, durable, record>>

SaveStep ==
    /\ ~Free /\ replacing.at # "linksync"
    /\ files' = After(files, replacing)
    /\ durable' = IF hazard = "process" \/ replacing.at \in {"dropsync", "keepsync"} THEN files' ELSE durable
    /\ replacing' = [replacing EXCEPT !.at = StepAfter(files, replacing.at)]
    /\ World /\ UNCHANGED <<record, intents>>

SaveDone ==
    /\ ~Free /\ replacing.at = "linksync"
    /\ durable' = files /\ record' = replacing.rec /\ acked' = replacing.rec /\ replacing' = NotSaving
    /\ intents' = IF replacing.intent = Nothing THEN intents ELSE intents \cup {replacing.intent}
    /\ UNCHANGED <<hazard, deps, files, copied, troubles>>

-----------------------------------------------------------------------------
(* The transitions. *)

Ready == Free /\ record # Nothing
At(phases) == Ready /\ record.phase \in phases
ToState(o, state, op, attempt) ==
    [record EXCEPT !.objects[o] = [state |-> state, op |-> op, attempt |-> attempt]]

FenceSource(g) ==
    /\ At({"Planned"})
    /\ Commit([record EXCEPT !.phase = "SourceFenced", !.source = FALSE, !.sourceFence = g], Nothing)
    /\ UNCHANGED intents

BeginObject(o, op) ==
    /\ At({"SourceFenced", "Copying"}) /\ ~record.source /\ ~record.target
    /\ op \notin record.used
    /\ \A d \in deps[o] : record.objects[d].state = "Verified"
    /\ record.objects[o].state = "Pending"
    /\ Commit([ToState(o, "IntentPersisted", op, record.objects[o].attempt + 1)
                  EXCEPT !.phase = "Copying", !.used = @ \cup {op}], <<o, op>>)
    /\ UNCHANGED intents

\* The controller gives up the operation before it calls this.
MarkOutcomeUnknown(o, op) ==
    /\ At({"Copying"}) /\ record.objects[o].state = "IntentPersisted" /\ record.objects[o].op = op
    /\ Commit(ToState(o, "OutcomeUnknown", op, record.objects[o].attempt), Nothing)
    /\ intents' = intents \ {<<o, op>>}

\* The target's digest is the expected one: the object was copied.
ConfirmCommitted(o, op) ==
    /\ At({"Copying"}) /\ o \in Unresolved(record) /\ record.objects[o].op = op
    /\ copied[o] # {}
    /\ Commit(ToState(o, "Verified", op, record.objects[o].attempt), Nothing)
    /\ intents' = intents \ {<<o, op>>}

\* Mutant: an intent may be declared not committed without the explicit
\* unknown state.
ConfirmNotCommittedEarly(o, op) ==
    /\ At({"Copying"}) /\ o \in Unresolved(record) /\ record.objects[o].op = op
    /\ copied[o] = {}
    /\ Commit(ToState(o, "Pending", op, record.objects[o].attempt), Nothing)
    /\ UNCHANGED intents

ConfirmNotCommitted(o, op) ==
    /\ At({"Copying"}) /\ record.objects[o].state = "OutcomeUnknown" /\ record.objects[o].op = op
    /\ copied[o] = {}
    /\ Commit(ToState(o, "Pending", op, record.objects[o].attempt), Nothing)
    /\ UNCHANGED intents

FailObject(o) ==
    /\ At({"SourceFenced", "Copying", "CutoverReady"})
    /\ record.objects[o].state \notin {"Verified", "FailedClosed"}
    /\ LET op == IF o \in Unresolved(record) THEN record.objects[o].op ELSE Nothing
       IN  Commit([ToState(o, "FailedClosed", op, 0)
                      EXCEPT !.phase = "FailedClosed", !.source = FALSE, !.target = FALSE], Nothing)
    /\ UNCHANGED intents

VerifyCopy ==
    /\ At({"Copying"}) /\ ~record.source /\ ~record.target /\ AllVerified(record)
    /\ Commit([record EXCEPT !.phase = "CutoverReady"], Nothing)
    /\ UNCHANGED intents

ActivateTarget(g) ==
    /\ At({"CutoverReady"}) /\ ~record.source /\ ~record.target
    /\ Commit([record EXCEPT !.phase = "TargetActive", !.target = TRUE, !.activation = g], Nothing)
    /\ UNCHANGED intents

FenceTarget(g) ==
    /\ At({"TargetActive"}) /\ g > record.activation
    /\ Commit([record EXCEPT !.phase = "TargetFenced", !.target = FALSE, !.targetFence = g], Nothing)
    /\ UNCHANGED intents

\* Mutant: the phase is not checked, and a migration that failed closed is rolled back.
RollbackAnywhere(g) ==
    /\ Ready /\ ~record.target
    /\ g > record.sourceFence /\ Unresolved(record) = {}
    /\ Commit([record EXCEPT !.phase = "RolledBack", !.source = TRUE, !.reactivation = g], Nothing)
    /\ UNCHANGED intents

Rollback(g) ==
    /\ At({"SourceFenced", "Copying", "CutoverReady", "TargetFenced"}) /\ ~record.target
    /\ g > record.sourceFence /\ Unresolved(record) = {}
    /\ Commit([record EXCEPT !.phase = "RolledBack", !.source = TRUE, !.reactivation = g], Nothing)
    /\ UNCHANGED intents

-----------------------------------------------------------------------------
(* The adapter, and the faults. *)

Copy(o, op) ==
    /\ <<o, op>> \in intents
    /\ copied' = [copied EXCEPT ![o] = @ \cup {op}]
    /\ intents' = intents \ {<<o, op>>}
    /\ UNCHANGED <<hazard, deps, files, durable, record, replacing, acked, troubles>>

\* The controller drops the journal when a call fails, as it must.
SaveFails ==
    /\ hazard = "process" /\ troubles < MaxTroubles /\ ~Free
    /\ files' \in Cut(files, replacing) \cup PutBack(files, replacing)
    /\ durable' = files' /\ record' = Nothing /\ replacing' = NotSaving /\ troubles' = troubles + 1
    /\ UNCHANGED <<hazard, deps, acked, intents, copied>>

KillController ==
    /\ hazard = "process" /\ troubles < MaxTroubles /\ (record # Nothing \/ ~Free)
    /\ files' \in Cut(files, replacing)
    /\ durable' = files' /\ record' = Nothing /\ replacing' = NotSaving /\ intents' = {}
    /\ troubles' = troubles + 1
    /\ UNCHANGED <<hazard, deps, acked, copied>>

LosePower ==
    /\ hazard = "power" /\ troubles < MaxTroubles /\ (record # Nothing \/ ~Free)
    /\ \E f \in Cut(files, replacing) : files' \in Remaining(durable, f)
    /\ durable' = files' /\ record' = Nothing /\ replacing' = NotSaving /\ intents' = {}
    /\ troubles' = troubles + 1
    /\ UNCHANGED <<hazard, deps, acked, copied>>

-----------------------------------------------------------------------------
MigrationInit ==
    /\ hazard \in Hazards
    /\ deps \in {d \in [Objects -> SUBSET Objects] : Inventory(d)}
    /\ files = [cur |-> Nothing, prev |-> Nothing, tmp |-> Nothing] /\ durable = files
    /\ record = Nothing /\ replacing = NotSaving /\ acked = Nothing
    /\ intents = {} /\ copied = [o \in Objects |-> {}] /\ troubles = 0

MigrationNext ==
    \/ CreateNew \/ Open \/ SaveStep \/ SaveDone \/ VerifyCopy
    \/ \E g \in 1..MaxReceipt : FenceSource(g) \/ ActivateTarget(g) \/ FenceTarget(g) \/ Rollback(g)
    \/ \E o \in Objects : \/ FailObject(o)
                          \/ \E op \in CopyOps : \/ BeginObject(o, op) \/ MarkOutcomeUnknown(o, op)
                                                 \/ ConfirmCommitted(o, op) \/ ConfirmNotCommitted(o, op)
                                                 \/ Copy(o, op)
    \/ SaveFails \/ KillController \/ LosePower

MigrationSpec == MigrationInit /\ [][MigrationNext]_migrationVars

-----------------------------------------------------------------------------
(* Properties. *)

\* Once a commit was reported the journal opens again wherever it is cut, on
\* that record or on the one that was being written, never on an older one or
\* on a different one of the same generation.
MigrationRecoverable ==
    acked # Nothing => LET r == Selected(files) IN
        /\ r # Nothing /\ r.generation >= acked.generation
        /\ r.generation = acked.generation => r = acked

\* No object is copied twice, none before its dependencies, and none is taken
\* for verified that was not copied, whatever is retried after a restart.
EachCopiedOnce ==
    \A o \in Objects :
        /\ Cardinality(copied[o]) <= 1
        /\ copied[o] # {} => \A d \in deps[o] : copied[d] # {}
        /\ \A r \in {record, acked, Selected(files)} \ {Nothing} :
             r.objects[o].state = "Verified" => copied[o] # {}

\* A migration copies every object once and behind its dependencies, and opens again on
\* the record it reported last, wherever it is cut (migration, durable.rs).
CopiedOnce == EachCopiedOnce /\ MigrationRecoverable

\* The record on disk as the state of a migration's authority.
OnDisk == Selected(durable)
Authority == INSTANCE MigrationAuthority WITH
    phase         <- IF OnDisk # Nothing THEN OnDisk.phase ELSE "Planned",
    source_writer <- IF OnDisk # Nothing THEN OnDisk.source ELSE TRUE,
    target_writer <- IF OnDisk # Nothing THEN OnDisk.target ELSE FALSE

\* The durable record of a migration follows MigrationState: across restarts too, the
\* phases and the writers change only as that machine lets them, and never overlap
\* (migration, lib.rs and durable_auth.rs).
FollowsMigrationState == Authority!AuthoritySpec
=============================================================================
