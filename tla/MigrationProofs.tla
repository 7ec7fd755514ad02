---------------------------- MODULE MigrationProofs ----------------------------
(***************************************************************************)
(* A migration copies every object once, opens again on the record it      *)
(* reported last, and follows MigrationState, for any inventory, any       *)
(* operations and any number of kills, failed steps and losses of power.   *)
(*                                                                         *)
(* The invariant says what the journal directory holds at every step of a  *)
(* replacement, both as the process sees it and as a loss of power leaves  *)
(* it: it opens on the record in memory or on the one being written, and   *)
(* on no other.  These are the live records.  What is copied, and what may *)
(* still be copied by an intent, agrees with every live record, so that no *)
(* restart brings back one that would let an object be copied again.       *)
(***************************************************************************)
EXTENDS Migration, FiniteSetTheorems, TLAPS

Saving == replacing # NotSaving
Steps == {"first", "tmp", "drop", "dropsync", "keep", "keepsync", "link", "linksync"}
GoodRecord(r) == r \in Records /\ Valid(r)

\* The directory opens on the record; it was never written, or its first write was cut.
OpensOn(f, r) ==
    /\ GoodRecord(r)
    /\ \/ f.cur = r /\ (f.prev = Nothing \/ (GoodRecord(f.prev) /\ f.prev.generation < r.generation))
       \/ f.cur = Nothing /\ f.prev = r
Blank(f) == f.cur \in {Nothing, Ruined} /\ f.prev = Nothing
Found(f) == (Blank(f) /\ acked = Nothing) \/ OpensOn(f, Selected(f))

\* The phases and writers of a record follow those of another, as MigrationState lets them.
Follows(r, x) ==
    \/ x.phase = r.phase /\ x.source = r.source /\ x.target = r.target
    \/ r.phase = "Planned" /\ x.phase = "SourceFenced" /\ ~x.source /\ x.target = r.target
    \/ r.phase = "SourceFenced" /\ x.phase = "Copying" /\ x.source = r.source /\ x.target = r.target
    \/ r.phase = "Copying" /\ x.phase = "CutoverReady" /\ x.source = r.source /\ x.target = r.target
    \/ r.phase = "CutoverReady" /\ x.phase = "TargetActive" /\ ~r.source /\ x.source = r.source /\ x.target
    \/ r.phase = "TargetActive" /\ x.phase = "TargetFenced" /\ x.source = r.source /\ ~x.target
    \/ /\ r.phase \in {"SourceFenced", "Copying", "CutoverReady", "TargetFenced"} /\ x.phase = "RolledBack"
       /\ ~r.target /\ x.source /\ x.target = r.target
    \/ x.phase = "FailedClosed" /\ ~x.source /\ ~x.target

\* The directory at each step of a replacement of the record in memory.
Replaced(f, k, at, old, new) ==
    /\ at = "tmp" => OpensOn(f, old) /\ k = f
    /\ at # "tmp" => OpensOn(k, old) \/ (at = "linksync" /\ OpensOn(k, new))
    /\ at \in {"drop", "dropsync", "keep", "keepsync", "link"} => f.tmp = new
    /\ at = "drop" => OpensOn(f, old) /\ f.cur = old
    /\ at \in {"dropsync", "keep"} => f.cur = old /\ f.prev = Nothing
    /\ at \in {"keepsync", "link"} => f.cur = Nothing /\ f.prev = old
    /\ at = "linksync" => f.cur = new /\ f.prev = old

\* And of the first record.
Founded(f, k, at, new) ==
    /\ at \in {"first", "linksync"} /\ f.prev = Nothing /\ k.prev = Nothing
    /\ at = "first" => f.cur = Nothing /\ k.cur = Nothing
    /\ at = "linksync" => f.cur = new /\ k.cur \in {Nothing, new}

Directory ==
    /\ Found(files) /\ Found(durable)
    /\ hazard = "process" => durable = files
    /\ ~Saving => durable = files /\ (record # Nothing => OpensOn(files, record))
    /\ Saving /\ record = Nothing => /\ replacing.rec = NewRecord /\ acked = Nothing
                                     /\ Founded(files, durable, replacing.at, replacing.rec)
    /\ Saving /\ record # Nothing => /\ replacing.at # "first"
                                     /\ replacing.rec.generation = record.generation + 1
                                     /\ Follows(record, replacing.rec)
                                     /\ Replaced(files, durable, replacing.at, record, replacing.rec)

\* The records that may be in memory after a restart or at the end of the replacement.
Live == ({record, Selected(files), Selected(durable)} \cup IF Saving THEN {replacing.rec} ELSE {}) \ {Nothing}

Newest(r) == acked # Nothing => r = acked \/ r.generation > acked.generation
Accounted(r) ==
    \A o \in Objects :
        /\ r.objects[o].state = "Verified" => copied[o] # {}
        /\ copied[o] # {} => r.objects[o].state # "Pending"
        /\ \A op \in CopyOps : <<o, op>> \in intents => /\ r.objects[o].state \in {"IntentPersisted", "FailedClosed"}
                                                     /\ r.objects[o].op = op

\* An object that an intent may copy was not copied, and its dependencies were.
Copyable(o) == copied[o] = {} /\ \A d \in deps[o] : copied[d] # {}
Unstarted == intents = {} /\ \A o \in Objects : copied[o] = {}
Copies ==
    /\ Blank(files) \/ Blank(durable) => Unstarted
    /\ \A o \in Objects : copied[o] = {} \/ \E op \in CopyOps : copied[o] = {op}
    /\ \A o \in Objects : copied[o] # {} => \A d \in deps[o] : copied[d] # {}
    /\ acked # Nothing => \A o \in Objects : acked.objects[o].state = "Verified" => copied[o] # {}
    /\ \A o \in Objects, op \in CopyOps : <<o, op>> \in intents => Copyable(o)
    /\ \A o \in Objects, op, other \in CopyOps : <<o, op>> \in intents /\ <<o, other>> \in intents => op = other
    /\ Saving /\ replacing.intent # Nothing =>
         \E o \in Objects, op \in CopyOps :
            /\ replacing.intent = <<o, op>> /\ Copyable(o) /\ \A other \in CopyOps : <<o, other>> \notin intents
            /\ replacing.rec.objects[o].state = "IntentPersisted" /\ replacing.rec.objects[o].op = op

Contents == Records \cup {Nothing, Ruined}
Directories == [cur : Contents, prev : Contents, tmp : Contents]
MigrationTypes ==
    /\ deps \in [Objects -> SUBSET Objects]
    /\ files \in Directories /\ durable \in Directories
    /\ record \in Records \cup {Nothing} /\ acked \in Records \cup {Nothing}
    /\ replacing \in [at : Steps, rec : Records, intent : (Objects \X CopyOps) \cup {Nothing}] \cup {NotSaving}
    /\ Saving => Valid(replacing.rec)
    /\ record # Nothing => Valid(record)
    /\ copied \in [Objects -> SUBSET CopyOps] /\ intents \subseteq Objects \X CopyOps

MigrationInv ==
    /\ MigrationTypes /\ Directory /\ Copies
    /\ \A r \in Live : Newest(r) /\ Accounted(r)
-----------------------------------------------------------------------------
(* What a directory opens on. *)

LEMMA SelectedOn ==
    ASSUME MigrationAssumption, NEW f, NEW r, OpensOn(f, r)
    PROVE  Selected(f) = r /\ r # Nothing /\ r # Ruined /\ ~Blank(f)
<1>1. r \in Records /\ Valid(r) /\ r # Nothing /\ r # Ruined
  BY Zenon DEF OpensOn, GoodRecord, MigrationAssumption
<1>2. Decodes(r) /\ Decodes(Nothing)
  BY Zenon, <1>1 DEF Decodes, MigrationAssumption
<1>3. CASE f.cur = Nothing /\ f.prev = r
  BY Zenon, <1>1, <1>2, <1>3 DEF Selected, Blank
<1>4. CASE f.cur = r /\ f.prev = Nothing
  BY Zenon, <1>1, <1>2, <1>4 DEF Selected, Blank
<1>5. CASE f.cur = r /\ GoodRecord(f.prev) /\ f.prev.generation < r.generation
  <2>1. Decodes(f.prev) /\ f.prev # Nothing
    BY Zenon, <1>5 DEF GoodRecord, Decodes, MigrationAssumption
  <2>2. r.generation > f.prev.generation
    BY Zenon, <1>1, <1>5 DEF GoodRecord, Records
  <2> QED BY Zenon, <1>1, <1>2, <1>5, <2>1, <2>2 DEF Selected, Blank
<1> QED BY Zenon, <1>3, <1>4, <1>5 DEF OpensOn

LEMMA SelectedBlank ==
    ASSUME MigrationAssumption, NEW f, Blank(f)
    PROVE  Selected(f) = Nothing
BY Zenon DEF Blank, Selected, Decodes, MigrationAssumption

\* A directory that is found opens on a live record or is blank.
LEMMA SelectedFound ==
    ASSUME MigrationAssumption, NEW f, Found(f)
    PROVE  /\ Selected(f) \in Records \cup {Nothing}
           /\ Selected(f) = Nothing => Blank(f) /\ acked = Nothing
           /\ Selected(f) # Nothing => OpensOn(f, Selected(f))
<1>1. CASE Blank(f) /\ acked = Nothing
  BY Zenon, <1>1, SelectedBlank
<1>2. CASE OpensOn(f, Selected(f))
  BY Zenon, <1>2, SelectedOn DEF OpensOn, GoodRecord
<1> QED BY Zenon, <1>1, <1>2 DEF Found

LEMMA FoundOn ==
    ASSUME MigrationAssumption, NEW f, NEW r, OpensOn(f, r)
    PROVE  Found(f)
BY SelectedOn DEF Found

LEMMA NewRecordGood ==
    /\ NewRecord \in Records /\ Valid(NewRecord)
    /\ \A o \in Objects : NewRecord.objects[o].state = "Pending"
    /\ NewRecord.phase = "Planned" /\ NewRecord.source /\ ~NewRecord.target
<1>1. Pending \in ObjectStates /\ Pending.state = "Pending" /\ Pending.op = Nothing /\ Pending.attempt = 0
  BY Zenon DEF Pending, ObjectStates
<1>2. /\ NewRecord \in Records /\ NewRecord.generation = 1 /\ NewRecord.phase = "Planned"
      /\ NewRecord.source = TRUE /\ NewRecord.target = FALSE
      /\ \A o \in Objects : NewRecord.objects[o] = Pending
  BY Zenon, <1>1 DEF NewRecord, Records, Phases
<1>3. \A o \in Objects : ValidObject(NewRecord, NewRecord.objects[o])
  BY Zenon, <1>1, <1>2 DEF ValidObject
<1>4. ValidPhase(NewRecord)
  BY Zenon, <1>2 DEF ValidPhase
<1>5. Valid(NewRecord)
  <2>1. NewRecord.generation # 0
    BY <1>2
  <2>2. ~(NewRecord.source /\ NewRecord.target)
    BY Zenon, <1>2
  <2>3. NewRecord.source = (NewRecord.phase \in {"Planned", "RolledBack"})
    BY Zenon, <1>2
  <2>4. NewRecord.target = (NewRecord.phase = "TargetActive")
    BY Zenon, <1>2
  <2> QED BY Zenon, <1>2, <1>3, <1>4, <2>1, <2>2, <2>3, <2>4 DEF Valid
<1> QED BY Zenon, <1>1, <1>2, <1>5

-----------------------------------------------------------------------------
(* The records a transition makes. *)

LEMMA NextGeneration ==
    ASSUME NEW c \in Records, NEW g \in Nat
    PROVE  LET r == [c EXCEPT !.generation = g]
           IN  /\ r \in Records /\ r.generation = g /\ r.phase = c.phase /\ r.source = c.source
               /\ r.target = c.target /\ r.objects = c.objects
<1>1. PICK r : r = [c EXCEPT !.generation = g]
  BY Zenon
<1>2. /\ r \in Records /\ r.generation = g /\ r.phase = c.phase /\ r.source = c.source
      /\ r.target = c.target /\ r.objects = c.objects
  BY Zenon, <1>1 DEF Records
<1> QED BY Zenon, <1>1, <1>2

LEMMA ObjectChanged ==
    ASSUME record \in Records, NEW o \in Objects, NEW state, NEW op, NEW attempt,
           [state |-> state, op |-> op, attempt |-> attempt] \in ObjectStates
    PROVE  LET r == ToState(o, state, op, attempt)
           IN  /\ r \in Records /\ r.generation = record.generation /\ r.phase = record.phase
               /\ r.source = record.source /\ r.target = record.target
               /\ r.objects[o].state = state /\ r.objects[o].op = op
               /\ \A other \in Objects \ {o} : r.objects[other] = record.objects[other]
<1>1. PICK x \in ObjectStates : x = [state |-> state, op |-> op, attempt |-> attempt]
  BY Zenon
<1>2. PICK r : r = [record EXCEPT !.objects[o] = x]
  BY Zenon
<1>3. /\ r \in Records /\ r.generation = record.generation /\ r.phase = record.phase
      /\ r.source = record.source /\ r.target = record.target
      /\ r.objects = [record.objects EXCEPT ![o] = x] /\ record.objects \in [Objects -> ObjectStates]
  BY Zenon, <1>2 DEF Records
<1>4. r.objects[o] = x /\ \A other \in Objects \ {o} : r.objects[other] = record.objects[other]
  BY Zenon, <1>3
<1> QED BY <1>1, <1>2, <1>3, <1>4 DEF ToState

-----------------------------------------------------------------------------
(* Opening, the steps of a replacement, and the faults leave live records    *)
(* only.                                                                     *)

LEMMA NothingNew ==
    ASSUME MigrationInv, MigrationTypes', Directory', Live' \subseteq Live,
           UNCHANGED <<deps, acked, copied>>, intents' \subseteq intents,
           Saving' => Saving /\ replacing'.intent = replacing.intent /\ replacing'.rec = replacing.rec,
           (Blank(files) \/ Blank(durable))' => Blank(files) \/ Blank(durable)
    PROVE  MigrationInv'
<1>1. ASSUME NEW r \in Live' PROVE Newest(r)' /\ Accounted(r)'
  BY DEF MigrationInv, Newest, Accounted
<1>2. Copies'
  <2>1. (Blank(files) \/ Blank(durable) => Unstarted)'
    BY Zenon DEF MigrationInv, Copies, Unstarted
  <2>2. \A o : Copyable(o) => Copyable(o)'
    BY Zenon DEF Copyable
  <2>3. (\A o \in Objects, op \in CopyOps : <<o, op>> \in intents => Copyable(o))'
    BY Zenon, <2>2 DEF MigrationInv, Copies
  <2>4. (\A o \in Objects, op, other \in CopyOps : <<o, op>> \in intents /\ <<o, other>> \in intents => op = other)'
    BY Zenon DEF MigrationInv, Copies
  <2>5. /\ (\A o \in Objects : copied[o] = {} \/ \E op \in CopyOps : copied[o] = {op})'
        /\ (\A o \in Objects : copied[o] # {} => \A d \in deps[o] : copied[d] # {})'
        /\ (acked # Nothing => \A o \in Objects : acked.objects[o].state = "Verified" => copied[o] # {})'
    BY Zenon DEF MigrationInv, Copies
  <2>6. ASSUME Saving', replacing'.intent # Nothing
        PROVE  (\E o \in Objects, op \in CopyOps :
                  /\ replacing.intent = <<o, op>> /\ Copyable(o) /\ \A other \in CopyOps : <<o, other>> \notin intents
                  /\ replacing.rec.objects[o].state = "IntentPersisted" /\ replacing.rec.objects[o].op = op)'
    <3>1. PICK o \in Objects, op \in CopyOps :
            /\ replacing.intent = <<o, op>> /\ Copyable(o) /\ \A other \in CopyOps : <<o, other>> \notin intents
            /\ replacing.rec.objects[o].state = "IntentPersisted" /\ replacing.rec.objects[o].op = op
      BY Zenon, <2>6 DEF MigrationInv, Copies
    <3> QED BY Zenon, <2>2, <2>6, <3>1
  <2> QED BY Zenon, <2>1, <2>3, <2>4, <2>5, <2>6 DEF Copies
<1> QED BY Zenon, <1>1, <1>2 DEF MigrationInv

LEMMA OpenKeeps ==
    ASSUME MigrationAssumption, MigrationInv, Open
    PROVE  MigrationInv'
<1>1. /\ ~Saving /\ record = Nothing /\ Selected(files) # Nothing /\ record' = Selected(files)
      /\ UNCHANGED <<hazard, deps, files, durable, replacing, acked, intents, copied>>
  BY Zenon DEF Open, Free, Saving, World
<1>2. OpensOn(files, Selected(files))
  BY Zenon, <1>1, SelectedFound DEF MigrationInv, Directory
<1>3. MigrationTypes'
  BY Zenon, <1>1, <1>2 DEF MigrationInv, MigrationTypes, Saving, OpensOn, GoodRecord
<1>4. Directory'
  BY Zenon, <1>1, <1>2 DEF MigrationInv, Directory, Saving, Found
<1>5. Live' \subseteq Live
  BY Zenon, <1>1 DEF Live, Saving
<1> QED BY Zenon, <1>1, <1>3, <1>4, <1>5, NothingNew DEF Saving, Blank

\* A fault leaves the directory with a pair of files that it had, or ruins the first one.
LEMMA StopKeeps ==
    ASSUME MigrationAssumption, MigrationInv, files' \in Directories, durable' = files',
           record' = Nothing, replacing' = NotSaving, intents' \subseteq intents,
           UNCHANGED <<hazard, deps, acked, copied>>,
           \/ Blank(files') /\ acked = Nothing /\ (Blank(files) \/ Blank(durable))
           \/ \E r \in Live : OpensOn(files', r)
    PROVE  MigrationInv'
<1>1. ~Saving'
  BY Zenon DEF Saving
<1>2. MigrationTypes'
  BY Zenon, <1>1 DEF MigrationInv, MigrationTypes
<1>3. Found(files)'
  BY Zenon, FoundOn DEF Found
<1>4. Directory'
  BY Zenon, <1>1, <1>3 DEF Directory, Found
<1>5. Live' \subseteq Live
  BY Zenon, <1>1, SelectedOn, SelectedBlank DEF Live
<1>6. (Blank(files) \/ Blank(durable))' => Blank(files) \/ Blank(durable)
  BY Zenon, SelectedOn
<1> QED BY Zenon, <1>1, <1>2, <1>4, <1>5, <1>6, NothingNew

\* What a fault may leave.
Left(f) ==
    \/ Blank(f) /\ acked = Nothing /\ (Blank(files) \/ Blank(durable))
    \/ \E r \in Live : OpensOn(f, r)

LEMMA FoundIsLeft ==
    ASSUME MigrationAssumption, MigrationInv
    PROVE  Left(files) /\ Left(durable)
<1>1. Found(files) /\ Found(durable)
  BY Zenon DEF MigrationInv, Directory
<1>2. Selected(files) # Nothing => Selected(files) \in Live
  BY Zenon DEF Live
<1>3. Selected(durable) # Nothing => Selected(durable) \in Live
  BY Zenon DEF Live
<1> QED BY Zenon, <1>1, <1>2, <1>3, SelectedFound DEF Left

LEMMA SamePair ==
    ASSUME NEW f, NEW g, f.cur = g.cur, f.prev = g.prev, Left(g)
    PROVE  Left(f)
<1>1. \A r : OpensOn(g, r) => OpensOn(f, r)
  BY Zenon DEF OpensOn
<1>2. Blank(g) => Blank(f)
  BY Zenon DEF Blank
<1> QED BY Zenon, <1>1, <1>2 DEF Left

LEMMA SavingFacts ==
    ASSUME MigrationAssumption, MigrationInv, Saving
    PROVE  /\ GoodRecord(replacing.rec) /\ replacing.rec \in Live /\ replacing.rec # Nothing
           /\ replacing.at \in Steps /\ replacing \in [at : Steps, rec : Records, intent : (Objects \X CopyOps) \cup {Nothing}]
           /\ record # Nothing => GoodRecord(record) /\ record \in Live
<1>1. replacing \in [at : Steps, rec : Records, intent : (Objects \X CopyOps) \cup {Nothing}]
  BY Zenon DEF MigrationInv, MigrationTypes, Saving
<1>2. replacing.at \in Steps /\ replacing.rec \in Records
  BY Zenon, <1>1
<1> QED BY Zenon, <1>1, <1>2 DEF MigrationInv, MigrationTypes, Live, GoodRecord, MigrationAssumption

LEMMA CutLeaves ==
    ASSUME MigrationAssumption, MigrationInv, NEW f \in Cut(files, replacing)
    PROVE  f \in Directories /\ Left(f)
<1>1. files \in Directories
  BY Zenon DEF MigrationInv, MigrationTypes
<1>2. CASE f = files
  BY Zenon, <1>1, <1>2, FoundIsLeft
<1>3. CASE f # files
  <2>1. replacing.at \in {"first", "tmp"}
    BY Zenon, <1>3 DEF Cut
  <2>2. Saving
    BY <2>1 DEF Saving, NotSaving
  <2>3. PICK x \in {Ruined, replacing.rec} : f = (IF replacing.at = "first" THEN [files EXCEPT !.cur = x] ELSE [files EXCEPT !.tmp = x])
    BY Zenon, <1>3, <2>1 DEF Cut
  <2>4. x \in Contents
    BY Zenon, <2>2, SavingFacts DEF Contents, GoodRecord
  <2>5. CASE replacing.at = "first"
    <3>1. f \in Directories /\ f.cur = x /\ f.prev = files.prev
      BY Zenon, <1>1, <2>3, <2>4, <2>5 DEF Directories
    <3>2. files.prev = Nothing /\ acked = Nothing /\ files.cur = Nothing
      <4>1. record = Nothing
        BY Zenon, <2>2, <2>5 DEF MigrationInv, Directory
      <4> QED BY Zenon, <2>2, <2>5, <4>1 DEF MigrationInv, Directory, Founded
    <3>3. CASE x = Ruined
      BY Zenon, <3>1, <3>2, <3>3 DEF Left, Blank
    <3>4. CASE x = replacing.rec
      <4>1. OpensOn(f, replacing.rec) /\ replacing.rec \in Live
        BY Zenon, <2>2, <3>1, <3>2, <3>4, SavingFacts DEF OpensOn
      <4> QED BY Zenon, <3>1, <4>1 DEF Left
    <3> QED BY Zenon, <3>3, <3>4
  <2>6. CASE replacing.at = "tmp"
    <3>1. f \in Directories /\ f.cur = files.cur /\ f.prev = files.prev
      BY Zenon, <1>1, <2>3, <2>4, <2>6 DEF Directories
    <3> QED BY Zenon, <3>1, FoundIsLeft, SamePair
  <2> QED BY Zenon, <2>1, <2>5, <2>6
<1> QED BY Zenon, <1>2, <1>3

LEMMA SaveFailsKeeps ==
    ASSUME MigrationAssumption, MigrationInv, SaveFails
    PROVE  MigrationInv'
<1>1. /\ Saving /\ files' \in Cut(files, replacing) \cup PutBack(files, replacing) /\ durable' = files'
      /\ record' = Nothing /\ replacing' = NotSaving /\ UNCHANGED <<hazard, deps, acked, intents, copied>>
  BY Zenon DEF SaveFails, Saving, Free
<1>2. CASE files' \in Cut(files, replacing)
  BY Zenon, <1>1, <1>2, CutLeaves, StopKeeps DEF Left
<1>3. CASE files' \in PutBack(files, replacing)
  <2>1. /\ replacing.at = "link" /\ files' = [files EXCEPT !.cur = files.prev, !.prev = Nothing]
    BY Zenon, <1>3 DEF PutBack
  <2>2. record # Nothing /\ files.prev = record
    <3>1. record # Nothing
      BY Zenon, <1>1, <2>1 DEF MigrationInv, Directory, Founded
    <3> QED BY Zenon, <1>1, <2>1, <3>1 DEF MigrationInv, Directory, Replaced
  <2>3. files' \in Directories /\ files'.cur = record /\ files'.prev = Nothing
    BY Zenon, <2>1, <2>2 DEF MigrationInv, MigrationTypes, Directories, Contents
  <2>4. OpensOn(files', record) /\ record \in Live
    BY Zenon, <1>1, <2>2, <2>3, SavingFacts DEF OpensOn
  <2> QED BY Zenon, <1>1, <2>3, <2>4, StopKeeps
<1> QED BY Zenon, <1>1, <1>2, <1>3

LEMMA KillKeeps ==
    ASSUME MigrationAssumption, MigrationInv, KillController
    PROVE  MigrationInv'
<1>1. /\ files' \in Cut(files, replacing) /\ durable' = files' /\ record' = Nothing /\ replacing' = NotSaving
      /\ intents' = {} /\ UNCHANGED <<hazard, deps, acked, copied>>
  BY Zenon DEF KillController
<1> QED BY Zenon, <1>1, CutLeaves, StopKeeps DEF Left

LEMMA PowerKeeps ==
    ASSUME MigrationAssumption, MigrationInv, LosePower
    PROVE  MigrationInv'
<1>1. PICK f \in Cut(files, replacing) : files' \in Remaining(durable, f)
  BY Zenon DEF LosePower
<1>2. /\ durable' = files' /\ record' = Nothing /\ replacing' = NotSaving
      /\ intents' = {} /\ UNCHANGED <<hazard, deps, acked, copied>>
  BY Zenon DEF LosePower
<1>3. PICK c \in {<<durable.cur, durable.prev>>, <<f.cur, f.prev>>}, t \in {durable.tmp, f.tmp, f.cur} :
         files' = [cur |-> c[1], prev |-> c[2], tmp |-> t]
  BY <1>1 DEF Remaining
<1>4. f \in Directories /\ durable \in Directories /\ Left(f) /\ Left(durable)
  BY Zenon, CutLeaves, FoundIsLeft DEF MigrationInv, MigrationTypes
<1>5. /\ c[1] \in Contents /\ c[2] \in Contents /\ t \in Contents
      /\ files'.cur = c[1] /\ files'.prev = c[2]
  BY <1>3, <1>4 DEF Directories
<1>6. files' \in Directories
  BY Zenon, <1>3, <1>5 DEF Directories
<1>7. Left(files')
  BY <1>3, <1>4, <1>5, SamePair
<1> QED BY Zenon, <1>2, <1>6, <1>7, StopKeeps DEF Left

-----------------------------------------------------------------------------
(* The steps of a replacement. *)

\* A step that leaves the directory, and what a loss of power leaves of it, as the next
\* stage of the replacement has it.
LEMMA Stepped ==
    ASSUME MigrationAssumption, MigrationInv, Saving, record # Nothing,
           NEW at \in Steps \ {"first"}, replacing' = [replacing EXCEPT !.at = at],
           files' \in Directories, durable' \in {files', durable}, hazard = "process" => durable' = files',
           UNCHANGED <<hazard, deps, record, acked, intents, copied>>,
           OpensOn(files', record) \/ (at = "linksync" /\ OpensOn(files', replacing.rec)),
           OpensOn(durable, record), at # "tmp",
           at \in {"drop", "dropsync", "keep", "keepsync", "link"} => files'.tmp = replacing.rec,
           at = "drop" => files'.cur = record,
           at \in {"dropsync", "keep"} => files'.cur = record /\ files'.prev = Nothing,
           at \in {"keepsync", "link"} => files'.cur = Nothing /\ files'.prev = record,
           at = "linksync" => files'.cur = replacing.rec /\ files'.prev = record
    PROVE  MigrationInv'
<1>1. replacing \in [at : Steps, rec : Records, intent : (Objects \X CopyOps) \cup {Nothing}]
  BY Zenon, SavingFacts
<1>2. /\ replacing' \in [at : Steps, rec : Records, intent : (Objects \X CopyOps) \cup {Nothing}]
      /\ replacing'.at = at /\ replacing'.rec = replacing.rec /\ replacing'.intent = replacing.intent
  BY Zenon, <1>1
<1>3. Saving'
  <2>1. "idle" \notin Steps
    BY Zenon DEF Steps
  <2> QED BY Zenon, <1>2, <2>1 DEF Saving, NotSaving
<1>4. MigrationTypes'
  BY Zenon, <1>2, <1>3 DEF MigrationInv, MigrationTypes, Saving
<1>5. /\ \E r \in {record, replacing.rec} : OpensOn(files', r)
      /\ \E r \in {record, replacing.rec} : OpensOn(durable', r)
  BY Zenon
<1>6. Found(files)' /\ Found(durable)'
  BY Zenon, <1>5, FoundOn DEF Found
<1>7. Replaced(files', durable', at, record, replacing.rec)
  BY Zenon DEF Replaced
<1>8. Directory'
  <2>1. replacing.rec.generation = record.generation + 1 /\ Follows(record, replacing.rec)
    BY Zenon DEF MigrationInv, Directory
  <2>2. Follows(record', replacing'.rec)
    BY Zenon, <1>2, <2>1
  <2> QED BY Zenon, <1>2, <1>3, <1>6, <1>7, <2>1, <2>2 DEF Directory
<1>9. Live' \subseteq Live
  <2>1. Selected(files)' \in {record, replacing.rec} /\ Selected(durable)' \in {record, replacing.rec}
    BY Zenon, <1>5, SelectedOn
  <2> QED BY Zenon, <1>2, <1>3, <2>1 DEF Live
<1>10. ~Blank(files') /\ ~Blank(durable')
  BY Zenon, <1>5, SelectedOn
<1> QED BY Zenon, <1>2, <1>3, <1>4, <1>8, <1>9, <1>10, NothingNew

LEMMA SaveStepKeeps ==
    ASSUME MigrationAssumption, MigrationInv, SaveStep
    PROVE  MigrationInv'
<1>1. /\ Saving /\ replacing.at # "linksync" /\ files' = After(files, replacing)
      /\ durable' = (IF hazard = "process" \/ replacing.at \in {"dropsync", "keepsync"} THEN files' ELSE durable)
      /\ replacing' = [replacing EXCEPT !.at = StepAfter(files, replacing.at)]
      /\ UNCHANGED <<hazard, deps, record, acked, intents, copied>>
  BY Zenon DEF SaveStep, Free, Saving, World
<1>2. /\ files \in Directories /\ durable \in Directories /\ replacing.rec \in Contents
      /\ durable' \in {files', durable} /\ (hazard = "process" => durable' = files')
  BY Zenon, <1>1, SavingFacts DEF MigrationInv, MigrationTypes, Contents, GoodRecord
<1>3. CASE record = Nothing
  <2>1. /\ replacing.at = "first" /\ replacing.rec = NewRecord /\ acked = Nothing
        /\ files.prev = Nothing /\ durable.prev = Nothing /\ durable.cur = Nothing
    BY Zenon, <1>1, <1>3 DEF MigrationInv, Directory, Founded
  <2>2. files' = [files EXCEPT !.cur = replacing.rec] /\ replacing' = [replacing EXCEPT !.at = "linksync"]
    BY Zenon, <1>1, <2>1 DEF After, StepAfter
  <2>3. files' \in Directories /\ files'.cur = replacing.rec /\ files'.prev = Nothing
    BY Zenon, <1>2, <2>1, <2>2 DEF Directories
  <2>4. replacing \in [at : Steps, rec : Records, intent : (Objects \X CopyOps) \cup {Nothing}]
    BY Zenon, <1>1, SavingFacts
  <2>5. /\ replacing' \in [at : Steps, rec : Records, intent : (Objects \X CopyOps) \cup {Nothing}]
        /\ replacing'.at = "linksync" /\ replacing'.rec = replacing.rec /\ replacing'.intent = replacing.intent
    BY Zenon, <2>2, <2>4 DEF Steps
  <2>6. Saving'
    BY <2>5 DEF Saving, NotSaving
  <2>7. MigrationTypes'
    BY Zenon, <1>1, <1>2, <2>3, <2>5, <2>6 DEF MigrationInv, MigrationTypes
  <2>8. OpensOn(files', replacing.rec)
    BY Zenon, <1>1, <2>3, SavingFacts DEF OpensOn
  <2>9. OpensOn(durable', replacing.rec) \/ (durable' = durable /\ Blank(durable))
    BY Zenon, <1>2, <2>1, <2>8 DEF Blank
  <2>10. Found(files)' /\ Found(durable)'
    BY Zenon, <1>1, <2>1, <2>8, <2>9, FoundOn DEF Found
  <2>11. Founded(files', durable', "linksync", replacing.rec)
    BY Zenon, <1>2, <2>1, <2>3 DEF Founded
  <2>12. Directory'
    BY Zenon, <1>1, <1>2, <1>3, <2>1, <2>5, <2>6, <2>10, <2>11 DEF Directory
  <2>13. Live' \subseteq Live
    <3>1. Selected(files)' = replacing.rec /\ Selected(durable)' \in {Nothing, replacing.rec}
      BY Zenon, <2>8, <2>9, SelectedOn, SelectedBlank
    <3> QED BY Zenon, <1>1, <1>3, <2>5, <2>6, <3>1 DEF Live
  <2>14. Blank(durable)
    BY Zenon, <2>1 DEF Blank
  <2> QED BY Zenon, <1>1, <2>5, <2>7, <2>12, <2>13, <2>14, NothingNew
<1>4. CASE record # Nothing
  <2>1. Replaced(files, durable, replacing.at, record, replacing.rec)
    BY Zenon, <1>1, <1>4 DEF MigrationInv, Directory
  <2>2. GoodRecord(record) /\ GoodRecord(replacing.rec) /\ replacing.rec # Nothing /\ record # Nothing
    BY Zenon, <1>1, <1>4, SavingFacts
  <2>3. replacing.at \in Steps \ {"first", "linksync"}
    BY Zenon, <1>1, <1>4, SavingFacts DEF MigrationInv, Directory
  <2>4. CASE replacing.at = "tmp"
    <3>1. OpensOn(files, record) /\ durable = files /\ files' = [files EXCEPT !.tmp = replacing.rec]
      BY Zenon, <1>1, <2>1, <2>4 DEF Replaced, After
    <3>2. files' \in Directories /\ files'.tmp = replacing.rec /\ files'.cur = files.cur /\ files'.prev = files.prev
      BY Zenon, <1>2, <3>1 DEF Directories
    <3>3. OpensOn(files', record)
      BY Zenon, <3>1, <3>2 DEF OpensOn
    <3>4. CASE files.cur = Nothing
      <4>1. replacing' = [replacing EXCEPT !.at = "link"] /\ files.prev = record
        BY Zenon, <1>1, <2>2, <2>4, <3>1, <3>4 DEF StepAfter, OpensOn
      <4> QED BY Zenon, <1>1, <1>2, <1>4, <3>1, <3>2, <3>3, <3>4, <4>1, Stepped DEF Steps
    <3>5. CASE files.cur # Nothing /\ files.prev # Nothing
      <4>1. replacing' = [replacing EXCEPT !.at = "drop"] /\ files.cur = record
        BY Zenon, <1>1, <2>2, <2>4, <3>1, <3>5 DEF StepAfter, OpensOn
      <4> QED BY Zenon, <1>1, <1>2, <1>4, <3>1, <3>2, <3>3, <4>1, Stepped DEF Steps
    <3>6. CASE files.cur # Nothing /\ files.prev = Nothing
      <4>1. replacing' = [replacing EXCEPT !.at = "keep"] /\ files.cur = record
        BY Zenon, <1>1, <2>2, <2>4, <3>1, <3>6 DEF StepAfter, OpensOn
      <4> QED BY Zenon, <1>1, <1>2, <1>4, <3>1, <3>2, <3>3, <3>6, <4>1, Stepped DEF Steps
    <3> QED BY Zenon, <3>4, <3>5, <3>6
  <2>5. CASE replacing.at = "drop"
    <3>1. /\ files.cur = record /\ files.tmp = replacing.rec /\ OpensOn(durable, record)
          /\ files' = [files EXCEPT !.prev = Nothing] /\ replacing' = [replacing EXCEPT !.at = "dropsync"]
      BY Zenon, <1>1, <2>1, <2>5 DEF Replaced, After, StepAfter
    <3>2. files' \in Directories /\ files'.tmp = replacing.rec /\ files'.cur = record /\ files'.prev = Nothing
      BY Zenon, <1>2, <3>1 DEF Directories, Contents
    <3>3. OpensOn(files', record)
      BY Zenon, <2>2, <3>2 DEF OpensOn
    <3> QED BY Zenon, <1>1, <1>2, <1>4, <3>1, <3>2, <3>3, Stepped DEF Steps
  <2>6. CASE replacing.at = "dropsync"
    <3>1. /\ files.cur = record /\ files.prev = Nothing /\ files.tmp = replacing.rec /\ OpensOn(durable, record)
          /\ files' = files /\ replacing' = [replacing EXCEPT !.at = "keep"]
      BY Zenon, <1>1, <2>1, <2>6 DEF Replaced, After, StepAfter
    <3>2. OpensOn(files', record)
      BY Zenon, <2>2, <3>1 DEF OpensOn
    <3> QED BY Zenon, <1>1, <1>2, <1>4, <3>1, <3>2, Stepped DEF Steps
  <2>7. CASE replacing.at = "keep"
    <3>1. /\ files.cur = record /\ files.tmp = replacing.rec /\ OpensOn(durable, record)
          /\ files' = [files EXCEPT !.prev = files.cur, !.cur = Nothing] /\ replacing' = [replacing EXCEPT !.at = "keepsync"]
      BY Zenon, <1>1, <2>1, <2>7 DEF Replaced, After, StepAfter
    <3>2. files' \in Directories /\ files'.tmp = replacing.rec /\ files'.cur = Nothing /\ files'.prev = record
      BY Zenon, <1>2, <3>1 DEF Directories, Contents
    <3>3. OpensOn(files', record)
      BY Zenon, <2>2, <3>2 DEF OpensOn
    <3> QED BY Zenon, <1>1, <1>2, <1>4, <3>1, <3>2, <3>3, Stepped DEF Steps
  <2>8. CASE replacing.at = "keepsync"
    <3>1. /\ files.cur = Nothing /\ files.prev = record /\ files.tmp = replacing.rec /\ OpensOn(durable, record)
          /\ files' = files /\ replacing' = [replacing EXCEPT !.at = "link"]
      BY Zenon, <1>1, <2>1, <2>8 DEF Replaced, After, StepAfter
    <3>2. OpensOn(files', record)
      BY Zenon, <2>2, <3>1 DEF OpensOn
    <3> QED BY Zenon, <1>1, <1>2, <1>4, <3>1, <3>2, Stepped DEF Steps
  <2>9. CASE replacing.at = "link"
    <3>1. /\ files.prev = record /\ files.tmp = replacing.rec /\ OpensOn(durable, record)
          /\ files' = [files EXCEPT !.cur = files.tmp, !.tmp = Nothing] /\ replacing' = [replacing EXCEPT !.at = "linksync"]
      BY Zenon, <1>1, <2>1, <2>9 DEF Replaced, After, StepAfter
    <3>2. files' \in Directories /\ files'.cur = replacing.rec /\ files'.prev = record
      BY Zenon, <1>2, <3>1 DEF Directories, Contents
    <3>3. record.generation < replacing.rec.generation
      <4>1. replacing.rec.generation = record.generation + 1 /\ record.generation \in Nat
        BY Zenon, <1>1, <1>4, <2>2 DEF MigrationInv, Directory, GoodRecord, Records
      <4> QED BY <4>1
    <3>4. OpensOn(files', replacing.rec)
      BY Zenon, <2>2, <3>2, <3>3 DEF OpensOn
    <3> QED BY Zenon, <1>1, <1>2, <1>4, <3>1, <3>2, <3>4, Stepped DEF Steps
  <2> QED BY Zenon, <2>3, <2>4, <2>5, <2>6, <2>7, <2>8, <2>9 DEF Steps
<1> QED BY Zenon, <1>3, <1>4

LEMMA SaveDoneKeeps ==
    ASSUME MigrationAssumption, MigrationInv, SaveDone
    PROVE  MigrationInv'
<1>1. /\ Saving /\ replacing.at = "linksync" /\ durable' = files /\ record' = replacing.rec /\ acked' = replacing.rec
      /\ replacing' = NotSaving
      /\ intents' = (IF replacing.intent = Nothing THEN intents ELSE intents \cup {replacing.intent})
      /\ UNCHANGED <<hazard, deps, files, copied>> /\ ~Saving'
  BY Zenon DEF SaveDone, Saving, Free
<1>2. PICK r : r = replacing.rec
  BY Zenon
<1>3. GoodRecord(r) /\ r \in Records /\ r \in Live /\ r # Nothing
  BY Zenon, <1>1, <1>2, SavingFacts DEF GoodRecord
<1>4. OpensOn(files, r)
  <2>1. CASE record = Nothing
    BY Zenon, <1>1, <1>2, <1>3, <2>1 DEF MigrationInv, Directory, Founded, OpensOn
  <2>2. CASE record # Nothing
    <3>1. files.cur = r /\ files.prev = record
      BY Zenon, <1>1, <1>2, <2>2 DEF MigrationInv, Directory, Replaced
    <3>2. record.generation < r.generation /\ GoodRecord(record)
      <4>1. r.generation = record.generation + 1 /\ GoodRecord(record)
        BY Zenon, <1>1, <1>2, <2>2, SavingFacts DEF MigrationInv, Directory
      <4>2. record.generation \in Nat
        BY Zenon, <4>1 DEF GoodRecord, Records
      <4> QED BY <4>1, <4>2
    <3> QED BY Zenon, <1>3, <3>1, <3>2 DEF OpensOn
  <2> QED BY Zenon, <2>1, <2>2
<1>5. Selected(files) = r /\ ~Blank(files)
  BY Zenon, <1>4, SelectedOn
<1>6. Live' = {r}
  BY Zenon, <1>1, <1>2, <1>3, <1>5 DEF Live
<1>7. Directory'
  BY Zenon, <1>1, <1>2, <1>4, <1>5 DEF MigrationInv, Directory, Found
<1>8. MigrationTypes'
  <2>1. replacing.intent \in (Objects \X CopyOps) \cup {Nothing}
    BY Zenon, <1>1, SavingFacts
  <2> QED BY Zenon, <1>1, <1>2, <1>3, <2>1 DEF MigrationInv, MigrationTypes, GoodRecord
<1>9. Newest(r)' /\ Accounted(r)
  BY Zenon, <1>1, <1>2, <1>3 DEF Newest, MigrationInv
<1>10. CASE replacing.intent = Nothing
  <2>1. Accounted(r)'
    BY Zenon, <1>1, <1>9, <1>10 DEF Accounted
  <2>2. Copies'
    BY <1>1, <1>2, <1>5, <1>9, <1>10 DEF MigrationInv, Copies, Accounted, Copyable
  <2> QED BY Zenon, <1>6, <1>7, <1>8, <1>9, <2>1, <2>2 DEF MigrationInv
<1>11. CASE replacing.intent # Nothing
  <2>1. PICK o \in Objects, op \in CopyOps :
          /\ replacing.intent = <<o, op>> /\ Copyable(o) /\ \A other \in CopyOps : <<o, other>> \notin intents
          /\ r.objects[o].state = "IntentPersisted" /\ r.objects[o].op = op
    BY Zenon, <1>1, <1>2, <1>11 DEF MigrationInv, Copies
  <2>2. intents' = intents \cup {<<o, op>>}
    BY Zenon, <1>1, <1>11, <2>1
  <2>3. Accounted(r)'
    BY Zenon, <1>1, <1>9, <2>1, <2>2 DEF Accounted, Copyable
  <2>4. \A q \in Objects : Copyable(q)' <=> Copyable(q)
    BY Zenon, <1>1 DEF Copyable
  <2>5. Copies'
    <3>1. (\A q \in Objects, p \in CopyOps : <<q, p>> \in intents => Copyable(q))'
      BY Zenon, <2>1, <2>2, <2>4 DEF MigrationInv, Copies
    <3>2. (\A q \in Objects, p, other \in CopyOps : <<q, p>> \in intents /\ <<q, other>> \in intents => p = other)'
      BY Zenon, <2>1, <2>2 DEF MigrationInv, Copies
    <3>3. /\ (\A q \in Objects : copied[q] = {} \/ \E p \in CopyOps : copied[q] = {p})'
          /\ (\A q \in Objects : copied[q] # {} => \A d \in deps[q] : copied[d] # {})'
      BY Zenon, <1>1 DEF MigrationInv, Copies
    <3>4. \A q \in Objects : r.objects[q].state = "Verified" => copied[q] # {}
      BY Zenon, <1>9 DEF Accounted
    <3> QED BY Zenon, <1>1, <1>2, <1>5, <3>1, <3>2, <3>3, <3>4 DEF Copies
  <2> QED BY Zenon, <1>6, <1>7, <1>8, <1>9, <2>3, <2>5 DEF MigrationInv
<1> QED BY Zenon, <1>10, <1>11

-----------------------------------------------------------------------------
(* A replacement begins. *)

LEMMA CreateKeeps ==
    ASSUME MigrationAssumption, MigrationInv, CreateNew
    PROVE  MigrationInv'
<1>1. /\ ~Saving /\ record = Nothing /\ files.cur = Nothing /\ files.prev = Nothing
      /\ replacing' = [at |-> "first", rec |-> NewRecord, intent |-> Nothing]
      /\ UNCHANGED <<hazard, deps, files, durable, record, acked, intents, copied>>
  BY Zenon DEF CreateNew, Free, Saving, World
<1>2. /\ replacing' \in [at : Steps, rec : Records, intent : (Objects \X CopyOps) \cup {Nothing}]
      /\ replacing'.at = "first" /\ replacing'.rec = NewRecord /\ replacing'.intent = Nothing
  BY Zenon, <1>1, NewRecordGood DEF Steps
<1>3. Saving'
  BY <1>2 DEF Saving, NotSaving
<1>4. Blank(files) /\ durable = files /\ Selected(files) = Nothing /\ acked = Nothing
  <2>1. Blank(files) /\ durable = files
    BY Zenon, <1>1 DEF Blank, MigrationInv, Directory
  <2> QED BY Zenon, <2>1, SelectedBlank, SelectedFound DEF MigrationInv, Directory
<1>5. Unstarted
  BY Zenon, <1>4 DEF MigrationInv, Copies
<1>6. MigrationTypes'
  BY Zenon, <1>1, <1>2, <1>3, NewRecordGood DEF MigrationInv, MigrationTypes
<1>7. Directory'
  <2>1. Founded(files, durable, "first", NewRecord)
    BY Zenon, <1>1, <1>4 DEF Founded
  <2>2. Found(files)' /\ Found(durable)'
    BY Zenon, <1>1, <1>4 DEF Found
  <2> QED BY Zenon, <1>1, <1>2, <1>3, <1>4, <2>1, <2>2 DEF Directory
<1>8. Live' \subseteq {NewRecord}
  BY Zenon, <1>1, <1>2, <1>3, <1>4 DEF Live
<1>9. Newest(NewRecord)' /\ Accounted(NewRecord)'
  BY Zenon, <1>1, <1>4, <1>5, NewRecordGood DEF Newest, Accounted, Unstarted
<1>10. Copies'
  BY Zenon, <1>1, <1>2, <1>4, <1>5 DEF MigrationInv, Copies, Unstarted, Copyable
<1> QED BY Zenon, <1>6, <1>7, <1>8, <1>9, <1>10 DEF MigrationInv

\* commit, for a candidate that agrees with what was copied and what may be.
LEMMA CommitKeeps ==
    ASSUME MigrationAssumption, MigrationInv, Ready,
           NEW candidate \in Records, candidate.generation = record.generation, Follows(record, candidate),
           NEW intent \in (Objects \X CopyOps) \cup {Nothing}, Commit(candidate, intent),
           intents' \subseteq intents, Accounted(candidate)',
           intent # Nothing =>
              \E o \in Objects, op \in CopyOps :
                 /\ intent = <<o, op>> /\ Copyable(o) /\ \A other \in CopyOps : <<o, other>> \notin intents
                 /\ candidate.objects[o].state = "IntentPersisted" /\ candidate.objects[o].op = op
    PROVE  MigrationInv'
<1>1. ~Saving /\ record # Nothing /\ record \in Records /\ record.generation \in Nat
  <2>1. ~Saving /\ record # Nothing /\ record \in Records
    BY Zenon DEF Ready, Free, Saving, MigrationInv, MigrationTypes
  <2> QED BY Zenon, <2>1 DEF Records
<1>2. PICK g \in Nat : g = record.generation + 1
  BY <1>1
<1>3. PICK r : r = [candidate EXCEPT !.generation = g]
  BY Zenon
<1>4. /\ r \in Records /\ r.generation = g /\ r.phase = candidate.phase /\ r.source = candidate.source
      /\ r.target = candidate.target /\ r.objects = candidate.objects
  BY Zenon, <1>3, NextGeneration
<1>5. /\ Valid(r) /\ replacing' = [at |-> "tmp", rec |-> r, intent |-> intent]
      /\ UNCHANGED <<hazard, deps, acked, copied, files, durable, record>>
  BY Zenon, <1>2, <1>3 DEF Commit, World
<1>6. /\ replacing' \in [at : Steps, rec : Records, intent : (Objects \X CopyOps) \cup {Nothing}]
      /\ replacing'.at = "tmp" /\ replacing'.rec = r /\ replacing'.intent = intent
  BY Zenon, <1>4, <1>5 DEF Steps
<1>7. Saving'
  BY <1>6 DEF Saving, NotSaving
<1>8. MigrationTypes'
  BY Zenon, <1>5, <1>6, <1>7 DEF MigrationInv, MigrationTypes
<1>9. durable = files /\ OpensOn(files, record) /\ Selected(files) = record
  BY Zenon, <1>1, SelectedOn DEF MigrationInv, Directory
<1>10. Directory'
  <2>1. Found(files)' /\ Found(durable)'
    BY Zenon, <1>5, <1>9 DEF Found
  <2>2. Follows(record, r)
    BY Zenon, <1>4 DEF Follows
  <2>3. Replaced(files, durable, "tmp", record, r)
    BY Zenon, <1>9 DEF Replaced
  <2> QED BY Zenon, <1>1, <1>2, <1>4, <1>5, <1>6, <1>7, <1>9, <2>1, <2>2, <2>3 DEF MigrationInv, Directory
<1>11. Live = {record} /\ Live' = {record, r} \ {Nothing}
  <2>1. Selected(files) = record /\ Selected(durable) = record
    BY Zenon, <1>9
  <2>2. Selected(files)' = record' /\ Selected(durable)' = record' /\ record' = record
    BY Zenon, <1>5, <2>1
  <2>3. replacing'.rec = r
    BY Zenon, <1>5
  <2>4. Live = {record}
    BY Zenon, <1>1, <2>1 DEF Live
  <2>5. Live' = {record, r} \ {Nothing}
    BY Zenon, <1>7, <2>2, <2>3 DEF Live
  <2> QED BY Zenon, <2>4, <2>5
<1>12. Newest(record)' /\ Accounted(record)'
  BY <1>5, <1>11 DEF MigrationInv, Newest, Accounted
<1>13. Newest(r)'
  <2>1. acked # Nothing => acked.generation \in Nat
    BY Zenon DEF MigrationInv, MigrationTypes, Records
  <2>2. Newest(record)
    BY Zenon, <1>11 DEF MigrationInv
  <2> QED BY <1>1, <1>2, <1>4, <1>5, <2>1, <2>2 DEF Newest
<1>14. Accounted(r)'
  BY <1>4 DEF Accounted
<1>15. Copies'
  <2>1. ~Blank(files)' /\ ~Blank(durable)'
    BY Zenon, <1>5, <1>9, SelectedOn
  <2>2. \A o : Copyable(o) => Copyable(o)'
    BY Zenon, <1>5 DEF Copyable
  <2>3. (\A o \in Objects, op \in CopyOps : <<o, op>> \in intents => Copyable(o))'
    BY Zenon, <2>2 DEF MigrationInv, Copies
  <2>4. (\A o \in Objects, op, other \in CopyOps : <<o, op>> \in intents /\ <<o, other>> \in intents => op = other)'
    BY Zenon DEF MigrationInv, Copies
  <2>5. /\ (\A o \in Objects : copied[o] = {} \/ \E op \in CopyOps : copied[o] = {op})'
        /\ (\A o \in Objects : copied[o] # {} => \A d \in deps[o] : copied[d] # {})'
        /\ (acked # Nothing => \A o \in Objects : acked.objects[o].state = "Verified" => copied[o] # {})'
    BY Zenon, <1>5 DEF MigrationInv, Copies
  <2>6. ASSUME replacing'.intent # Nothing
        PROVE  (\E o \in Objects, op \in CopyOps :
                  /\ replacing.intent = <<o, op>> /\ Copyable(o) /\ \A other \in CopyOps : <<o, other>> \notin intents
                  /\ replacing.rec.objects[o].state = "IntentPersisted" /\ replacing.rec.objects[o].op = op)'
    <3>1. PICK o \in Objects, op \in CopyOps :
            /\ intent = <<o, op>> /\ Copyable(o) /\ \A other \in CopyOps : <<o, other>> \notin intents
            /\ candidate.objects[o].state = "IntentPersisted" /\ candidate.objects[o].op = op
      BY Zenon, <1>6, <2>6
    <3> QED BY Zenon, <1>4, <1>6, <2>2, <3>1
  <2> QED BY Zenon, <2>1, <2>3, <2>4, <2>5, <2>6 DEF Copies
<1>16. ASSUME NEW x \in Live' PROVE Newest(x)' /\ Accounted(x)'
  <2>1. CASE x = record
    BY <1>5, <1>12, <2>1 DEF Newest, Accounted
  <2>2. CASE x = r
    BY Zenon, <1>13, <1>14, <2>2
  <2> QED BY Zenon, <1>11, <2>1, <2>2
<1> QED BY Zenon, <1>8, <1>10, <1>15, <1>16 DEF MigrationInv

-----------------------------------------------------------------------------
(* The transitions. *)

LEMMA MemoryRecord ==
    ASSUME MigrationInv, Ready
    PROVE  /\ record \in Records /\ Accounted(record) /\ record.objects \in [Objects -> ObjectStates]
           /\ deps \in [Objects -> SUBSET Objects] /\ copied \in [Objects -> SUBSET CopyOps]
<1>1. record \in Records /\ record \in Live
  BY Zenon DEF MigrationInv, MigrationTypes, Ready, Live
<1> QED BY Zenon, <1>1 DEF MigrationInv, MigrationTypes, Records

\* A transition that changes no object.
LEMMA PhaseKeeps ==
    ASSUME MigrationAssumption, MigrationInv, Ready,
           NEW candidate \in Records, candidate.generation = record.generation, candidate.objects = record.objects,
           Follows(record, candidate), Commit(candidate, Nothing), UNCHANGED intents
    PROVE  MigrationInv'
<1>1. Accounted(candidate)'
  BY MemoryRecord DEF Accounted, Commit, World
<1> QED BY Zenon, <1>1, CommitKeeps

LEMMA FenceSourceKeeps ==
    ASSUME MigrationAssumption, MigrationInv, NEW g \in Nat, FenceSource(g)
    PROVE  MigrationInv'
<1>1. Ready /\ record.phase = "Planned" /\ UNCHANGED intents
  BY Zenon DEF FenceSource, At
<1>2. PICK c : c = [record EXCEPT !.phase = "SourceFenced", !.source = FALSE, !.sourceFence = g]
  BY Zenon
<1>3. record \in Records
  BY Zenon, <1>1, MemoryRecord
<1>4. /\ c \in Records /\ c.generation = record.generation /\ c.objects = record.objects
      /\ c.phase = "SourceFenced" /\ ~c.source /\ c.target = record.target
  BY Zenon, <1>2, <1>3 DEF Records, Phases
<1>5. Commit(c, Nothing)
  BY Zenon, <1>2 DEF FenceSource
<1>6. Follows(record, c)
  BY Zenon, <1>1, <1>4 DEF Follows
<1> QED BY Zenon, <1>1, <1>4, <1>5, <1>6, PhaseKeeps

LEMMA VerifyKeeps ==
    ASSUME MigrationAssumption, MigrationInv, VerifyCopy
    PROVE  MigrationInv'
<1>1. Ready /\ record.phase = "Copying" /\ UNCHANGED intents
  BY Zenon DEF VerifyCopy, At
<1>2. PICK c : c = [record EXCEPT !.phase = "CutoverReady"]
  BY Zenon
<1>3. record \in Records
  BY Zenon, <1>1, MemoryRecord
<1>4. /\ c \in Records /\ c.generation = record.generation /\ c.objects = record.objects
      /\ c.phase = "CutoverReady" /\ c.source = record.source /\ c.target = record.target
  BY Zenon, <1>2, <1>3 DEF Records, Phases
<1>5. Commit(c, Nothing)
  BY Zenon, <1>2 DEF VerifyCopy
<1>6. Follows(record, c)
  BY Zenon, <1>1, <1>4 DEF Follows
<1> QED BY Zenon, <1>1, <1>4, <1>5, <1>6, PhaseKeeps

LEMMA ActivateKeeps ==
    ASSUME MigrationAssumption, MigrationInv, NEW g \in Nat, ActivateTarget(g)
    PROVE  MigrationInv'
<1>1. Ready /\ record.phase = "CutoverReady" /\ ~record.source /\ UNCHANGED intents
  BY Zenon DEF ActivateTarget, At
<1>2. PICK c : c = [record EXCEPT !.phase = "TargetActive", !.target = TRUE, !.activation = g]
  BY Zenon
<1>3. record \in Records
  BY Zenon, <1>1, MemoryRecord
<1>4. /\ c \in Records /\ c.generation = record.generation /\ c.objects = record.objects
      /\ c.phase = "TargetActive" /\ c.source = record.source /\ c.target
  BY Zenon, <1>2, <1>3 DEF Records, Phases
<1>5. Commit(c, Nothing)
  BY Zenon, <1>2 DEF ActivateTarget
<1>6. Follows(record, c)
  BY Zenon, <1>1, <1>4 DEF Follows
<1> QED BY Zenon, <1>1, <1>4, <1>5, <1>6, PhaseKeeps

LEMMA FenceTargetKeeps ==
    ASSUME MigrationAssumption, MigrationInv, NEW g \in Nat, FenceTarget(g)
    PROVE  MigrationInv'
<1>1. Ready /\ record.phase = "TargetActive" /\ UNCHANGED intents
  BY Zenon DEF FenceTarget, At
<1>2. PICK c : c = [record EXCEPT !.phase = "TargetFenced", !.target = FALSE, !.targetFence = g]
  BY Zenon
<1>3. record \in Records
  BY Zenon, <1>1, MemoryRecord
<1>4. /\ c \in Records /\ c.generation = record.generation /\ c.objects = record.objects
      /\ c.phase = "TargetFenced" /\ c.source = record.source /\ ~c.target
  BY Zenon, <1>2, <1>3 DEF Records, Phases
<1>5. Commit(c, Nothing)
  BY Zenon, <1>2 DEF FenceTarget
<1>6. Follows(record, c)
  BY Zenon, <1>1, <1>4 DEF Follows
<1> QED BY Zenon, <1>1, <1>4, <1>5, <1>6, PhaseKeeps

LEMMA RollbackKeeps ==
    ASSUME MigrationAssumption, MigrationInv, NEW g \in Nat, Rollback(g)
    PROVE  MigrationInv'
<1>1. /\ Ready /\ record.phase \in {"SourceFenced", "Copying", "CutoverReady", "TargetFenced"} /\ ~record.target
      /\ UNCHANGED intents
  BY Zenon DEF Rollback, At
<1>2. PICK c : c = [record EXCEPT !.phase = "RolledBack", !.source = TRUE, !.reactivation = g]
  BY Zenon
<1>3. record \in Records
  BY Zenon, <1>1, MemoryRecord
<1>4. /\ c \in Records /\ c.generation = record.generation /\ c.objects = record.objects
      /\ c.phase = "RolledBack" /\ c.source /\ c.target = record.target
  BY Zenon, <1>2, <1>3 DEF Records, Phases
<1>5. Commit(c, Nothing)
  BY Zenon, <1>2 DEF Rollback
<1>6. Follows(record, c)
  BY Zenon, <1>1, <1>4 DEF Follows
<1> QED BY Zenon, <1>1, <1>4, <1>5, <1>6, PhaseKeeps

\* A transition of one object, in place.
LEMMA ObjectKeeps ==
    ASSUME MigrationAssumption, MigrationInv, Ready, NEW o \in Objects,
           NEW state, NEW op, NEW attempt, [state |-> state, op |-> op, attempt |-> attempt] \in ObjectStates,
           Commit(ToState(o, state, op, attempt), Nothing), intents' \subseteq intents,
           state = "Verified" => copied[o] # {}, copied[o] # {} => state # "Pending",
           \A other \in CopyOps : <<o, other>> \in intents' =>
              state \in {"IntentPersisted", "FailedClosed"} /\ op = other
    PROVE  MigrationInv'
<1>1. PICK c : c = ToState(o, state, op, attempt)
  BY Zenon
<1>2. /\ c \in Records /\ c.generation = record.generation /\ c.phase = record.phase
      /\ c.source = record.source /\ c.target = record.target
      /\ c.objects[o].state = state /\ c.objects[o].op = op
      /\ \A other \in Objects \ {o} : c.objects[other] = record.objects[other]
  BY <1>1, MemoryRecord, ObjectChanged
<1>3. Follows(record, c) /\ Commit(c, Nothing)
  BY Zenon, <1>1, <1>2 DEF Follows
<1>4. UNCHANGED copied
  BY Zenon DEF Commit, World
<1>5. ASSUME NEW q \in Objects
      PROVE  (/\ c.objects[q].state = "Verified" => copied[q] # {}
              /\ copied[q] # {} => c.objects[q].state # "Pending"
              /\ \A p \in CopyOps : <<q, p>> \in intents => /\ c.objects[q].state \in {"IntentPersisted", "FailedClosed"}
                                                         /\ c.objects[q].op = p)'
  <2>1. CASE q = o
    BY Zenon, <1>2, <1>4, <2>1
  <2>2. CASE q # o
    BY <1>2, <1>4, <2>2, MemoryRecord DEF Accounted
  <2> QED BY Zenon, <2>1, <2>2
<1>6. Accounted(c)'
  BY Zenon, <1>5 DEF Accounted
<1> QED BY Zenon, <1>2, <1>3, <1>6, CommitKeeps

LEMMA UnknownKeeps ==
    ASSUME MigrationAssumption, MigrationInv, NEW o \in Objects, NEW op \in CopyOps, MarkOutcomeUnknown(o, op)
    PROVE  MigrationInv'
<1>1. /\ Ready /\ record.objects[o].op = op /\ intents' = intents \ {<<o, op>>}
      /\ Commit(ToState(o, "OutcomeUnknown", op, record.objects[o].attempt), Nothing)
  BY Zenon DEF MarkOutcomeUnknown, At
<1>2. [state |-> "OutcomeUnknown", op |-> op, attempt |-> record.objects[o].attempt] \in ObjectStates
  BY Zenon, <1>1, MemoryRecord DEF ObjectStates
<1>3. \A other \in CopyOps : <<o, other>> \notin intents'
  BY Zenon, <1>1, MemoryRecord DEF Accounted
<1> QED BY <1>1, <1>2, <1>3, ObjectKeeps

LEMMA CommittedKeeps ==
    ASSUME MigrationAssumption, MigrationInv, NEW o \in Objects, NEW op \in CopyOps, ConfirmCommitted(o, op)
    PROVE  MigrationInv'
<1>1. /\ Ready /\ record.objects[o].op = op /\ intents' = intents \ {<<o, op>>} /\ copied[o] # {}
      /\ Commit(ToState(o, "Verified", op, record.objects[o].attempt), Nothing)
  BY Zenon DEF ConfirmCommitted, At
<1>2. [state |-> "Verified", op |-> op, attempt |-> record.objects[o].attempt] \in ObjectStates
  BY Zenon, <1>1, MemoryRecord DEF ObjectStates
<1>3. \A other \in CopyOps : <<o, other>> \notin intents'
  BY Zenon, <1>1, MemoryRecord DEF Accounted
<1> QED BY <1>1, <1>2, <1>3, ObjectKeeps

LEMMA NotCommittedKeeps ==
    ASSUME MigrationAssumption, MigrationInv, NEW o \in Objects, NEW op \in CopyOps, ConfirmNotCommitted(o, op)
    PROVE  MigrationInv'
<1>1. /\ Ready /\ record.objects[o].state = "OutcomeUnknown" /\ UNCHANGED intents /\ copied[o] = {}
      /\ Commit(ToState(o, "Pending", op, record.objects[o].attempt), Nothing)
  BY Zenon DEF ConfirmNotCommitted, At
<1>2. [state |-> "Pending", op |-> op, attempt |-> record.objects[o].attempt] \in ObjectStates
  BY Zenon, <1>1, MemoryRecord DEF ObjectStates
<1>3. \A other \in CopyOps : <<o, other>> \notin intents'
  BY Zenon, <1>1, MemoryRecord DEF Accounted
<1>4. intents' \subseteq intents /\ "Pending" # "Verified"
  BY Zenon, <1>1
<1> QED BY Zenon, <1>1, <1>2, <1>3, <1>4, ObjectKeeps

LEMMA BeginKeeps ==
    ASSUME MigrationAssumption, MigrationInv, NEW o \in Objects, NEW op \in CopyOps, BeginObject(o, op)
    PROVE  MigrationInv'
<1>1. /\ Ready /\ record.phase \in {"SourceFenced", "Copying"} /\ record.objects[o].state = "Pending"
      /\ \A d \in deps[o] : record.objects[d].state = "Verified"
      /\ UNCHANGED intents
  BY Zenon DEF BeginObject, At
<1>2. PICK n \in Nat : n = record.objects[o].attempt + 1
  <2>1. record.objects[o].attempt \in Nat
    BY Zenon, <1>1, MemoryRecord DEF ObjectStates
  <2> QED BY <2>1
<1>3. [state |-> "IntentPersisted", op |-> op, attempt |-> n] \in ObjectStates
  BY Zenon, <1>2 DEF ObjectStates
<1>4. PICK b : b = ToState(o, "IntentPersisted", op, n)
  BY Zenon
<1>5. /\ b \in Records /\ b.generation = record.generation /\ b.phase = record.phase
      /\ b.source = record.source /\ b.target = record.target
      /\ b.objects[o].state = "IntentPersisted" /\ b.objects[o].op = op
      /\ \A other \in Objects \ {o} : b.objects[other] = record.objects[other]
  BY <1>1, <1>3, <1>4, MemoryRecord, ObjectChanged
<1>6. PICK c : c = [b EXCEPT !.phase = "Copying", !.used = @ \cup {op}]
  BY Zenon
<1>7. /\ c \in Records /\ c.generation = record.generation /\ c.objects = b.objects
      /\ c.phase = "Copying" /\ c.source = record.source /\ c.target = record.target
  <2>1. /\ c \in Records /\ c.generation = b.generation /\ c.objects = b.objects
        /\ c.phase = "Copying" /\ c.source = b.source /\ c.target = b.target
    BY Zenon, <1>5, <1>6 DEF Records, Phases
  <2> QED BY Zenon, <1>5, <2>1
<1>8. Commit(c, <<o, op>>) /\ UNCHANGED <<copied, deps>>
  BY Zenon, <1>2, <1>4, <1>6 DEF BeginObject, Commit, World
<1>9. Follows(record, c)
  BY Zenon, <1>1, <1>7 DEF Follows
<1>10. copied[o] = {} /\ \A other \in CopyOps : <<o, other>> \notin intents
  BY Zenon, <1>1, MemoryRecord DEF Accounted
<1>11. Copyable(o)
  <2>1. ASSUME NEW d \in deps[o] PROVE copied[d] # {}
    <3>1. d \in Objects
      BY Zenon, <1>1, MemoryRecord
    <3> QED BY Zenon, <1>1, <3>1, MemoryRecord DEF Accounted
  <2> QED BY Zenon, <1>10, <2>1 DEF Copyable
<1>12. ASSUME NEW q \in Objects
       PROVE  (/\ c.objects[q].state = "Verified" => copied[q] # {}
               /\ copied[q] # {} => c.objects[q].state # "Pending"
               /\ \A p \in CopyOps : <<q, p>> \in intents => /\ c.objects[q].state \in {"IntentPersisted", "FailedClosed"}
                                                          /\ c.objects[q].op = p)'
  <2>1. CASE q = o
    BY Zenon, <1>1, <1>5, <1>7, <1>8, <1>10, <2>1
  <2>2. CASE q # o
    BY <1>1, <1>5, <1>7, <1>8, <2>2, MemoryRecord DEF Accounted
  <2> QED BY Zenon, <2>1, <2>2
<1>13. Accounted(c)'
  BY Zenon, <1>12 DEF Accounted
<1>14. c.objects[o].state = "IntentPersisted" /\ c.objects[o].op = op
  BY Zenon, <1>5, <1>7
<1> QED BY Zenon, <1>1, <1>7, <1>8, <1>9, <1>10, <1>11, <1>13, <1>14, CommitKeeps

LEMMA FailKeeps ==
    ASSUME MigrationAssumption, MigrationInv, NEW o \in Objects, FailObject(o)
    PROVE  MigrationInv'
<1>1. PICK op : op = IF o \in Unresolved(record) THEN record.objects[o].op ELSE Nothing
  BY Zenon
<1>2. PICK b : b = ToState(o, "FailedClosed", op, 0)
  BY Zenon
<1>3. PICK c : c = [b EXCEPT !.phase = "FailedClosed", !.source = FALSE, !.target = FALSE]
  BY Zenon
<1>4. /\ Ready /\ record.objects[o].state \notin {"Verified", "FailedClosed"} /\ UNCHANGED intents
      /\ Commit(c, Nothing) /\ UNCHANGED copied
  BY Zenon, <1>1, <1>2, <1>3 DEF FailObject, At, Commit, World
<1>5. [state |-> "FailedClosed", op |-> op, attempt |-> 0] \in ObjectStates
  BY Zenon, <1>1, <1>4, MemoryRecord DEF ObjectStates
<1>6. /\ b \in Records /\ b.generation = record.generation
      /\ b.objects[o].state = "FailedClosed" /\ b.objects[o].op = op
      /\ \A other \in Objects \ {o} : b.objects[other] = record.objects[other]
  BY <1>2, <1>4, <1>5, MemoryRecord, ObjectChanged
<1>7. /\ c \in Records /\ c.generation = b.generation /\ c.objects = b.objects
      /\ c.phase = "FailedClosed" /\ ~c.source /\ ~c.target
  BY Zenon, <1>3, <1>6 DEF Records, Phases
<1>8. Follows(record, c)
  BY Zenon, <1>7 DEF Follows
<1>9. \A p \in CopyOps : <<o, p>> \in intents => op = p
  BY Zenon, <1>1, <1>4, MemoryRecord DEF Accounted, Unresolved, InState
<1>10. ASSUME NEW q \in Objects
       PROVE  (/\ c.objects[q].state = "Verified" => copied[q] # {}
               /\ copied[q] # {} => c.objects[q].state # "Pending"
               /\ \A p \in CopyOps : <<q, p>> \in intents => /\ c.objects[q].state \in {"IntentPersisted", "FailedClosed"}
                                                          /\ c.objects[q].op = p)'
  <2>1. CASE q = o
    BY Zenon, <1>4, <1>6, <1>7, <1>9, <2>1
  <2>2. CASE q # o
    BY <1>4, <1>6, <1>7, <2>2, MemoryRecord DEF Accounted
  <2> QED BY Zenon, <2>1, <2>2
<1>11. Accounted(c)'
  BY Zenon, <1>10 DEF Accounted
<1> QED BY Zenon, <1>4, <1>6, <1>7, <1>8, <1>11, CommitKeeps

LEMMA CopyKeeps ==
    ASSUME MigrationAssumption, MigrationInv, NEW o \in Objects, NEW op \in CopyOps, Copy(o, op)
    PROVE  MigrationInv'
<1>1. /\ <<o, op>> \in intents /\ copied' = [copied EXCEPT ![o] = @ \cup {op}] /\ intents' = intents \ {<<o, op>>}
      /\ UNCHANGED <<hazard, deps, files, durable, record, replacing, acked>>
  BY Zenon DEF Copy
<1>2. Copyable(o) /\ copied \in [Objects -> SUBSET CopyOps] /\ deps \in [Objects -> SUBSET Objects]
  BY Zenon, <1>1 DEF MigrationInv, Copies, MigrationTypes
<1>3. copied'[o] = {op} /\ copied[o] = {} /\ \A q \in Objects : q # o => copied'[q] = copied[q]
  BY Zenon, <1>1, <1>2 DEF Copyable
<1>4. \A other \in CopyOps : <<o, other>> \notin intents'
  BY Zenon, <1>1 DEF MigrationInv, Copies
<1>5. \A q \in Objects : copied[q] # {} => copied'[q] # {}
  BY Zenon, <1>3
<1>6. MigrationTypes'
  BY Zenon, <1>1, <1>2 DEF MigrationInv, MigrationTypes, Saving
<1>7. Directory'
  BY Zenon, <1>1 DEF MigrationInv, Directory, Saving, Found
<1>8. Live' = Live
  BY Zenon, <1>1 DEF Live, Saving
<1>9. ASSUME NEW r \in Live PROVE Newest(r)' /\ Accounted(r)'
  <2>1. Newest(r) /\ Accounted(r)
    BY Zenon DEF MigrationInv
  <2>2. Newest(r)'
    BY Zenon, <1>1, <2>1 DEF Newest
  <2>3. ASSUME NEW q \in Objects
        PROVE  (/\ r.objects[q].state = "Verified" => copied[q] # {}
                /\ copied[q] # {} => r.objects[q].state # "Pending"
                /\ \A p \in CopyOps : <<q, p>> \in intents => /\ r.objects[q].state \in {"IntentPersisted", "FailedClosed"}
                                                           /\ r.objects[q].op = p)'
    <3>1. CASE q = o
      BY Zenon, <1>1, <1>3, <1>4, <2>1, <3>1 DEF Accounted
    <3>2. CASE q # o
      BY Zenon, <1>1, <1>3, <2>1, <3>2 DEF Accounted
    <3> QED BY Zenon, <3>1, <3>2
  <2> QED BY Zenon, <2>2, <2>3 DEF Accounted
<1>10. \A q \in Objects : q # o /\ Copyable(q) => Copyable(q)'
  BY Zenon, <1>1, <1>2, <1>3, <1>5 DEF Copyable
<1>11. Copies'
  <2>1. ~Blank(files)' /\ ~Blank(durable)'
    BY Zenon, <1>1 DEF MigrationInv, Copies, Unstarted, Blank
  <2>2. (\A q \in Objects, p \in CopyOps : <<q, p>> \in intents => Copyable(q))'
    BY Zenon, <1>1, <1>4, <1>10 DEF MigrationInv, Copies
  <2>3. (\A q \in Objects, p, other \in CopyOps : <<q, p>> \in intents /\ <<q, other>> \in intents => p = other)'
    BY Zenon, <1>1 DEF MigrationInv, Copies
  <2>4. (\A q \in Objects : copied[q] = {} \/ \E p \in CopyOps : copied[q] = {p})'
    BY Zenon, <1>3 DEF MigrationInv, Copies
  <2>5. ASSUME NEW q \in Objects, copied'[q] # {}, NEW d \in deps[q] PROVE copied'[d] # {}
    <3>1. d \in Objects
      BY Zenon, <1>2
    <3>2. copied[d] # {}
      BY Zenon, <1>2, <1>3, <2>5 DEF Copyable, MigrationInv, Copies
    <3> QED BY Zenon, <1>5, <3>1, <3>2
  <2>6. (acked # Nothing => \A q \in Objects : acked.objects[q].state = "Verified" => copied[q] # {})'
    BY Zenon, <1>1, <1>5 DEF MigrationInv, Copies
  <2>7. ASSUME Saving', replacing'.intent # Nothing
        PROVE  (\E q \in Objects, p \in CopyOps :
                  /\ replacing.intent = <<q, p>> /\ Copyable(q) /\ \A other \in CopyOps : <<q, other>> \notin intents
                  /\ replacing.rec.objects[q].state = "IntentPersisted" /\ replacing.rec.objects[q].op = p)'
    <3>1. PICK q \in Objects, p \in CopyOps :
            /\ replacing.intent = <<q, p>> /\ Copyable(q) /\ \A other \in CopyOps : <<q, other>> \notin intents
            /\ replacing.rec.objects[q].state = "IntentPersisted" /\ replacing.rec.objects[q].op = p
      BY Zenon, <1>1, <2>7 DEF MigrationInv, Copies, Saving
    <3>2. q # o
      BY Zenon, <1>1, <3>1
    <3> QED BY Zenon, <1>1, <1>10, <3>1, <3>2
  <2> QED BY Zenon, <1>1, <2>1, <2>2, <2>3, <2>4, <2>5, <2>6, <2>7 DEF Copies
<1> QED BY Zenon, <1>6, <1>7, <1>8, <1>9, <1>11 DEF MigrationInv

-----------------------------------------------------------------------------
(* The invariant holds. *)

LEMMA MigrationInitial ==
    ASSUME MigrationAssumption, MigrationInit
    PROVE  MigrationInv
<1>1. ~Saving /\ Blank(files) /\ durable = files /\ Selected(files) = Nothing
  <2>1. files.cur = Nothing /\ files.prev = Nothing /\ durable = files
    BY Zenon DEF MigrationInit
  <2>2. Blank(files)
    BY Zenon, <2>1 DEF Blank
  <2> QED BY Zenon, <2>1, <2>2, SelectedBlank DEF MigrationInit, Saving
<1>2. MigrationTypes
  BY <1>1 DEF MigrationInit, MigrationTypes, Directories, Contents
<1>3. Directory
  BY Zenon, <1>1 DEF MigrationInit, Directory, Found
<1>4. Live = {}
  BY Zenon, <1>1 DEF MigrationInit, Live
<1>5. Copies
  BY Zenon, <1>1 DEF MigrationInit, Copies, Unstarted
<1> QED BY Zenon, <1>2, <1>3, <1>4, <1>5 DEF MigrationInv

LEMMA MigrationInductive ==
    ASSUME MigrationAssumption, MigrationInv, [MigrationNext]_migrationVars
    PROVE  MigrationInv'
<1>1. CASE CreateNew \/ Open \/ SaveStep \/ SaveDone \/ VerifyCopy
  BY Zenon, <1>1, CreateKeeps, OpenKeeps, SaveStepKeeps, SaveDoneKeeps, VerifyKeeps
<1>2. ASSUME NEW g \in 1..MaxReceipt, FenceSource(g) \/ ActivateTarget(g) \/ FenceTarget(g) \/ Rollback(g)
      PROVE  MigrationInv'
  <2>1. g \in Nat
    OBVIOUS
  <2> QED BY Zenon, <1>2, <2>1, FenceSourceKeeps, ActivateKeeps, FenceTargetKeeps, RollbackKeeps
<1>3. ASSUME NEW o \in Objects, FailObject(o)
      PROVE  MigrationInv'
  BY Zenon, <1>3, FailKeeps
<1>4. ASSUME NEW o \in Objects, NEW op \in CopyOps,
             \/ BeginObject(o, op) \/ MarkOutcomeUnknown(o, op)
             \/ ConfirmCommitted(o, op) \/ ConfirmNotCommitted(o, op) \/ Copy(o, op)
      PROVE  MigrationInv'
  BY Zenon, <1>4, BeginKeeps, UnknownKeeps, CommittedKeeps, NotCommittedKeeps, CopyKeeps
<1>5. CASE SaveFails \/ KillController \/ LosePower
  BY Zenon, <1>5, SaveFailsKeeps, KillKeeps, PowerKeeps
<1>6. CASE UNCHANGED migrationVars
  <2>1. UNCHANGED <<hazard, deps, files, durable, record, replacing, acked, intents, copied>>
    BY Zenon, <1>6 DEF migrationVars
  <2>2. MigrationTypes'
    BY Zenon, <2>1 DEF MigrationInv, MigrationTypes, Saving
  <2>3. Directory'
    BY Zenon, <2>1 DEF MigrationInv, Directory, Saving, Found
  <2>4. Live' = Live
    BY Zenon, <2>1 DEF Live, Saving
  <2> QED BY Zenon, <2>1, <2>2, <2>3, <2>4, NothingNew DEF Saving, Blank
<1> QED BY Zenon, <1>1, <1>2, <1>3, <1>4, <1>5, <1>6 DEF MigrationNext

LEMMA MigrationInvSuffices ==
    ASSUME MigrationAssumption, MigrationInv
    PROVE  CopiedOnce
<1>1. MigrationRecoverable
  <2> SUFFICES ASSUME acked # Nothing
               PROVE  /\ Selected(files) # Nothing /\ Selected(files).generation >= acked.generation
                      /\ Selected(files).generation = acked.generation => Selected(files) = acked
    BY Zenon DEF MigrationRecoverable
  <2>1. PICK r : r = Selected(files)
    BY Zenon
  <2>2. r # Nothing /\ r \in Records /\ r \in Live /\ acked \in Records
    BY Zenon, <2>1, SelectedFound DEF MigrationInv, Directory, MigrationTypes, Live
  <2>3. r.generation \in Nat /\ acked.generation \in Nat
    BY Zenon, <2>2 DEF Records
  <2>4. r = acked \/ r.generation > acked.generation
    BY Zenon, <2>2 DEF MigrationInv, Newest
  <2> QED BY <2>1, <2>2, <2>3, <2>4
<1>2. ASSUME NEW o \in Objects
      PROVE  /\ Cardinality(copied[o]) <= 1
             /\ copied[o] # {} => \A d \in deps[o] : copied[d] # {}
             /\ \A r \in {record, acked, Selected(files)} \ {Nothing} :
                  r.objects[o].state = "Verified" => copied[o] # {}
  <2>1. copied[o] = {} \/ \E op \in CopyOps : copied[o] = {op}
    BY Zenon DEF MigrationInv, Copies
  <2>2. Cardinality(copied[o]) <= 1
    <3>1. Cardinality({}) = 0 /\ \A op : Cardinality({op}) = 1
      BY Zenon, FS_EmptySet, FS_Singleton
    <3>2. Cardinality(copied[o]) \in {0, 1}
      BY Zenon, <2>1, <3>1
    <3> QED BY <3>2
  <2>3. copied[o] # {} => \A d \in deps[o] : copied[d] # {}
    BY Zenon DEF MigrationInv, Copies
  <2>4. \A r \in {record, Selected(files)} \ {Nothing} : Accounted(r)
    BY Zenon DEF MigrationInv, Live
  <2>5. ASSUME NEW r \in {record, acked, Selected(files)} \ {Nothing}, r.objects[o].state = "Verified"
        PROVE  copied[o] # {}
    <3>1. CASE r = acked
      BY Zenon, <2>5, <3>1 DEF MigrationInv, Copies
    <3>2. CASE r # acked
      BY Zenon, <2>4, <2>5, <3>2 DEF Accounted
    <3> QED BY Zenon, <3>1, <3>2
  <2> QED BY Zenon, <2>2, <2>3, <2>5
<1>3. EachCopiedOnce
  BY Zenon, <1>2 DEF EachCopiedOnce
<1> QED BY Zenon, <1>1, <1>3 DEF CopiedOnce

\* No object is copied twice or before its dependencies, none is taken for verified that was
\* not copied, and the journal opens again on the record that was reported last or on the one
\* that was being written, whatever persist_replace was cut at (migration, durable.rs).
THEOREM MigrationCopiesOnce ==
    ASSUME MigrationAssumption
    PROVE  MigrationSpec => []CopiedOnce
<1>1. MigrationInit => MigrationInv
  BY Zenon, MigrationInitial
<1>2. MigrationInv /\ [MigrationNext]_migrationVars => MigrationInv'
  BY Zenon, MigrationInductive
<1>3. MigrationInv => CopiedOnce
  BY Zenon, MigrationInvSuffices
<1> QED BY <1>1, <1>2, <1>3, PTL DEF MigrationSpec

-----------------------------------------------------------------------------
(* The record on disk follows MigrationState. *)

\* What the directory opens on while a record is replaced, and while the first is written.
LEMMA SavingOn ==
    ASSUME MigrationAssumption, MigrationInv, Saving, record # Nothing
    PROVE  /\ record # Nothing /\ replacing.rec # Nothing /\ Follows(record, replacing.rec)
           /\ OnDisk \in {record, replacing.rec}
           /\ replacing.at # "linksync" => OnDisk = record /\ Selected(files) = record
           /\ replacing.at = "linksync" => Selected(files) = replacing.rec
<1>1. /\ GoodRecord(record) /\ GoodRecord(replacing.rec) /\ replacing.rec # Nothing
      /\ replacing.at \in Steps \ {"first"} /\ Follows(record, replacing.rec)
      /\ Replaced(files, durable, replacing.at, record, replacing.rec)
      /\ replacing.rec.generation = record.generation + 1
  BY Zenon, SavingFacts DEF MigrationInv, Directory
<1>2. OpensOn(durable, record) \/ (replacing.at = "linksync" /\ OpensOn(durable, replacing.rec))
  BY Zenon, <1>1 DEF Replaced
<1>3. replacing.at # "linksync" => OpensOn(files, record)
  BY Zenon, <1>1 DEF Replaced, OpensOn, Steps
<1>4. replacing.at = "linksync" => OpensOn(files, replacing.rec)
  <2>1. record.generation < replacing.rec.generation
    <3>1. record.generation \in Nat
      BY Zenon, <1>1 DEF GoodRecord, Records
    <3> QED BY <1>1, <3>1
  <2> QED BY Zenon, <1>1, <2>1 DEF Replaced, OpensOn
<1> QED BY Zenon, <1>1, <1>2, <1>3, <1>4, SelectedOn DEF OnDisk

LEMMA FoundingOn ==
    ASSUME MigrationAssumption, MigrationInv, Saving, record = Nothing
    PROVE  /\ OnDisk \in {Nothing, NewRecord} /\ Selected(files) \in {Nothing, NewRecord}
           /\ replacing.rec = NewRecord /\ files.prev = Nothing
<1>1. /\ replacing.rec = NewRecord /\ GoodRecord(NewRecord)
      /\ Founded(files, durable, replacing.at, NewRecord)
  BY Zenon, NewRecordGood DEF MigrationInv, Directory, GoodRecord
<1>2. files.cur \in {Nothing, NewRecord} /\ files.prev = Nothing /\ durable.cur \in {Nothing, NewRecord} /\ durable.prev = Nothing
  BY Zenon, <1>1 DEF Founded
<1>3. Blank(files) \/ OpensOn(files, NewRecord)
  BY Zenon, <1>1, <1>2 DEF Blank, OpensOn
<1>4. Blank(durable) \/ OpensOn(durable, NewRecord)
  BY Zenon, <1>1, <1>2 DEF Blank, OpensOn
<1> QED BY Zenon, <1>1, <1>2, <1>3, <1>4, SelectedOn, SelectedBlank DEF OnDisk

LEMMA PairSelects ==
    ASSUME NEW f, NEW g, f.cur = g.cur, f.prev = g.prev
    PROVE  Selected(f) = Selected(g)
BY Zenon DEF Selected

LEMMA CutSelects ==
    ASSUME MigrationAssumption, MigrationInv, NEW f \in Cut(files, replacing)
    PROVE  \/ Selected(f) = Selected(files)
           \/ Saving /\ record = Nothing /\ Selected(f) \in {Nothing, NewRecord}
<1>1. files \in Directories
  BY Zenon DEF MigrationInv, MigrationTypes
<1>2. CASE replacing.at \notin {"first", "tmp"}
  BY Zenon, <1>2 DEF Cut
<1>3. CASE replacing.at = "tmp" /\ f # files
  <2>1. PICK x : f = [files EXCEPT !.tmp = x]
    BY Zenon, <1>3 DEF Cut
  <2>2. f.cur = files.cur /\ f.prev = files.prev
    BY Zenon, <1>1, <2>1 DEF Directories
  <2> QED BY Zenon, <2>2, PairSelects
<1>4. CASE replacing.at = "first" /\ f # files
  <2>1. Saving /\ record = Nothing
    BY <1>4 DEF Saving, NotSaving, MigrationInv, Directory
  <2>2. PICK x \in {Ruined, replacing.rec} : f = [files EXCEPT !.cur = x]
    BY Zenon, <1>4 DEF Cut
  <2>3. f.cur = x /\ f.prev = Nothing
    BY Zenon, <1>1, <2>1, <2>2, FoundingOn DEF Directories
  <2>4. Blank(f) \/ OpensOn(f, NewRecord)
    BY Zenon, <2>1, <2>2, <2>3, FoundingOn, NewRecordGood DEF Blank, OpensOn, GoodRecord
  <2> QED BY Zenon, <2>1, <2>4, SelectedOn, SelectedBlank
<1> QED BY Zenon, <1>2, <1>3, <1>4

\* A step moves the disk on to the record being written, or leaves it on the one it had.
Moved(old, new) ==
    \/ new = old
    \/ old \in {Nothing, NewRecord} /\ new \in {Nothing, NewRecord}
    \/ old # Nothing /\ new # Nothing /\ Follows(old, new)

LEMMA FaultFollows ==
    ASSUME MigrationAssumption, MigrationInv, durable' = files',
           \/ files' \in Cut(files, replacing) \cup PutBack(files, replacing)
           \/ \E f \in Cut(files, replacing) : files' \in Remaining(durable, f)
    PROVE  Moved(OnDisk, OnDisk')
<1>1. OnDisk' = Selected(files')
  BY Zenon DEF OnDisk
<1>2. CASE files' \in PutBack(files, replacing)
  <2>1. /\ replacing.at = "link" /\ files.prev # Nothing /\ files.cur = Nothing
        /\ files' = [files EXCEPT !.cur = files.prev, !.prev = Nothing]
    BY Zenon, <1>2 DEF PutBack
  <2>2. Saving
    BY <2>1 DEF Saving, NotSaving
  <2>3. record # Nothing
    BY Zenon, <2>1, <2>2 DEF MigrationInv, Directory, Founded
  <2>4. files.prev = record
    BY Zenon, <2>1, <2>2, <2>3 DEF MigrationInv, Directory, Replaced
  <2>5. files'.cur = record /\ files'.prev = Nothing
    BY Zenon, <2>1, <2>4 DEF MigrationInv, MigrationTypes, Directories
  <2>6. OpensOn(files', record)
    BY Zenon, <2>2, <2>3, <2>5, SavingFacts DEF OpensOn
  <2>7. OnDisk' = record /\ OnDisk = record
    BY Zenon, <1>1, <2>1, <2>2, <2>3, <2>6, SelectedOn, SavingOn
  <2> QED BY Zenon, <2>7 DEF Moved
<1>3. ASSUME files' \notin PutBack(files, replacing)
      PROVE  \/ OnDisk' \in {OnDisk, Selected(files)}
             \/ Saving /\ record = Nothing /\ OnDisk' \in {Nothing, NewRecord}
  <2>1. CASE files' \in Cut(files, replacing)
    BY Zenon, <1>1, <2>1, CutSelects
  <2>2. CASE files' \notin Cut(files, replacing)
    <3>1. PICK f \in Cut(files, replacing) : files' \in Remaining(durable, f)
      BY Zenon, <1>3, <2>2
    <3>2. PICK c \in {<<durable.cur, durable.prev>>, <<f.cur, f.prev>>}, t \in {durable.tmp, f.tmp, f.cur} :
             files' = [cur |-> c[1], prev |-> c[2], tmp |-> t]
      BY <3>1 DEF Remaining
    <3>3. \/ files'.cur = durable.cur /\ files'.prev = durable.prev
          \/ files'.cur = f.cur /\ files'.prev = f.prev
      BY <3>2
    <3>4. Selected(files') \in {Selected(durable), Selected(f)}
      BY Zenon, <3>3, PairSelects
    <3> QED BY Zenon, <1>1, <3>4, CutSelects DEF OnDisk
  <2> QED BY Zenon, <2>1, <2>2
<1>4. CASE files' \notin PutBack(files, replacing)
  <2>1. CASE ~Saving
    <3>1. Selected(files) = OnDisk
      BY Zenon, <2>1 DEF MigrationInv, Directory, OnDisk
    <3> QED BY Zenon, <1>3, <1>4, <2>1, <3>1 DEF Moved
  <2>2. CASE Saving /\ record = Nothing
    BY Zenon, <1>3, <1>4, <2>2, FoundingOn DEF Moved
  <2>3. CASE Saving /\ record # Nothing
    BY Zenon, <1>3, <1>4, <2>3, SavingOn DEF Moved
  <2> QED BY Zenon, <2>1, <2>2, <2>3
<1> QED BY Zenon, <1>2, <1>4

LEMMA DiskFollows ==
    ASSUME MigrationAssumption, MigrationInv, [MigrationNext]_migrationVars
    PROVE  Moved(OnDisk, OnDisk')
<1>1. MigrationInv'
  BY Zenon, MigrationInductive
<1>2. ASSUME UNCHANGED durable PROVE Moved(OnDisk, OnDisk')
  BY Zenon, <1>2 DEF OnDisk, Moved
<1>3. CASE SaveStep
  <2>1. Saving /\ replacing.at # "linksync" /\ record' = record
        /\ replacing' = [replacing EXCEPT !.at = StepAfter(files, replacing.at)]
    BY Zenon, <1>3 DEF SaveStep, Saving, Free
  <2>2. Saving' /\ replacing'.rec = replacing.rec
    <3>1. replacing'.rec = replacing.rec
      BY Zenon, <2>1, SavingFacts
    <3>2. "rec" \in DOMAIN replacing' /\ "rec" \notin DOMAIN NotSaving
      BY Zenon, <2>1, SavingFacts DEF NotSaving
    <3> QED BY Zenon, <3>1, <3>2 DEF Saving
  <2>3. CASE record = Nothing
    <3>1. Founded(files', durable', replacing'.at, NewRecord)
      BY Zenon, <1>1, <2>1, <2>2, <2>3 DEF MigrationInv, Directory
    <3>2. Blank(durable') \/ OpensOn(durable', NewRecord)
      BY Zenon, <3>1, NewRecordGood DEF Founded, Blank, OpensOn, GoodRecord
    <3>3. OnDisk' \in {Nothing, NewRecord}
      BY Zenon, <3>2, NewRecordGood, SelectedOn, SelectedBlank DEF OnDisk, GoodRecord
    <3> QED BY Zenon, <2>1, <2>3, <3>3, FoundingOn DEF Moved
  <2>4. CASE record # Nothing
    <3>1. Replaced(files', durable', replacing'.at, record, replacing.rec)
      BY Zenon, <1>1, <2>1, <2>2, <2>4 DEF MigrationInv, Directory
    <3>2. OpensOn(durable', record) \/ OpensOn(durable', replacing.rec)
      BY Zenon, <3>1 DEF Replaced
    <3>3. OnDisk' \in {record, replacing.rec}
      BY Zenon, <2>1, <2>4, <3>2, SavingFacts, SelectedOn DEF OnDisk
    <3> QED BY Zenon, <2>1, <2>4, <3>3, SavingOn DEF Moved
  <2> QED BY Zenon, <2>3, <2>4
<1>4. CASE SaveDone
  <2>1. Saving /\ replacing.at = "linksync" /\ OnDisk' = Selected(files)
    BY Zenon, <1>4 DEF SaveDone, Saving, Free, OnDisk, Selected
  <2>2. CASE record = Nothing
    BY Zenon, <2>1, <2>2, FoundingOn DEF Moved
  <2>3. CASE record # Nothing
    BY Zenon, <2>1, <2>3, SavingOn DEF Moved
  <2> QED BY Zenon, <2>2, <2>3
<1>5. CASE SaveFails \/ KillController \/ LosePower
  BY Zenon, <1>5, FaultFollows DEF SaveFails, KillController, LosePower
<1>6. CASE CreateNew \/ Open \/ VerifyCopy
  BY Zenon, <1>2, <1>6 DEF CreateNew, Open, VerifyCopy, Commit
<1>7. CASE \E g \in 1..MaxReceipt : FenceSource(g) \/ ActivateTarget(g) \/ FenceTarget(g) \/ Rollback(g)
  BY Zenon, <1>2, <1>7 DEF FenceSource, ActivateTarget, FenceTarget, Rollback, Commit
<1>8. CASE \E o \in Objects : \/ FailObject(o)
                              \/ \E op \in CopyOps : \/ BeginObject(o, op) \/ MarkOutcomeUnknown(o, op)
                                                     \/ ConfirmCommitted(o, op) \/ ConfirmNotCommitted(o, op)
                                                     \/ Copy(o, op)
  BY Zenon, <1>2, <1>8 DEF FailObject, BeginObject, MarkOutcomeUnknown, ConfirmCommitted, ConfirmNotCommitted, Copy, Commit
<1>9. CASE UNCHANGED migrationVars
  BY Zenon, <1>2, <1>9 DEF migrationVars
<1> QED BY Zenon, <1>3, <1>4, <1>5, <1>6, <1>7, <1>8, <1>9 DEF MigrationNext

\* The record on disk, as MigrationState sees it: a journal without a record is planned.
SeenPhase(r) == IF r # Nothing THEN r.phase ELSE "Planned"
SeenSource(r) == IF r # Nothing THEN r.source ELSE TRUE
SeenTarget(r) == IF r # Nothing THEN r.target ELSE FALSE

LEMMA DiskTyped ==
    ASSUME MigrationAssumption, MigrationInv
    PROVE  OnDisk = Nothing \/ GoodRecord(OnDisk)
<1>1. Blank(durable) \/ OpensOn(durable, Selected(durable))
  BY Zenon DEF MigrationInv, Directory, Found
<1> QED BY Zenon, <1>1, SelectedBlank DEF OnDisk, OpensOn

LEMMA StepFollows ==
    ASSUME MigrationAssumption, MigrationInv, MigrationInv', Moved(OnDisk, OnDisk')
    PROVE  [Authority!AuthorityNext]_(Authority!authorityVars)
<1>1. PICK a : a = OnDisk
  BY Zenon
<1>2. PICK b : b = OnDisk'
  BY Zenon
<1>3. a = Nothing \/ GoodRecord(a)
  BY Zenon, <1>1, DiskTyped
<1>4. b = Nothing \/ GoodRecord(b)
  <2>1. Blank(durable') \/ OpensOn(durable', Selected(durable'))
    BY Zenon DEF MigrationInv, Directory, Found
  <2> QED BY Zenon, <1>2, <2>1, SelectedBlank DEF OnDisk, OpensOn
<1>5. CASE SeenPhase(b) = SeenPhase(a) /\ SeenSource(b) = SeenSource(a) /\ SeenTarget(b) = SeenTarget(a)
  BY Zenon, <1>1, <1>2, <1>5 DEF SeenPhase, SeenSource, SeenTarget, Authority!authorityVars
<1>6. CASE a # Nothing /\ b # Nothing /\ Follows(a, b)
  <2>0. a.source \in BOOLEAN /\ a.target \in BOOLEAN /\ b.source \in BOOLEAN /\ b.target \in BOOLEAN
    BY Zenon, <1>3, <1>4, <1>6 DEF GoodRecord, Records
  <2>1. CASE b.phase = a.phase /\ b.source = a.source /\ b.target = a.target
    BY Zenon, <1>5, <1>6, <2>1 DEF SeenPhase, SeenSource, SeenTarget
  <2>2. CASE a.phase = "Planned" /\ b.phase = "SourceFenced" /\ ~b.source /\ b.target = a.target
    BY Zenon, <1>1, <1>2, <1>6, <2>0, <2>2 DEF Authority!AuthorityNext, Authority!FenceSource, Authority!Step
  <2>3. CASE a.phase = "SourceFenced" /\ b.phase = "Copying" /\ b.source = a.source /\ b.target = a.target
    BY Zenon, <1>1, <1>2, <1>6, <2>3 DEF Authority!AuthorityNext, Authority!BeginCopy, Authority!Step
  <2>4. CASE a.phase = "Copying" /\ b.phase = "CutoverReady" /\ b.source = a.source /\ b.target = a.target
    BY Zenon, <1>1, <1>2, <1>6, <2>4 DEF Authority!AuthorityNext, Authority!VerifyCopy, Authority!Step
  <2>5. CASE a.phase = "CutoverReady" /\ b.phase = "TargetActive" /\ ~a.source /\ b.source = a.source /\ b.target
    BY Zenon, <1>1, <1>2, <1>6, <2>0, <2>5 DEF Authority!AuthorityNext, Authority!ActivateTarget, Authority!Step
  <2>6. CASE a.phase = "TargetActive" /\ b.phase = "TargetFenced" /\ b.source = a.source /\ ~b.target
    BY Zenon, <1>1, <1>2, <1>6, <2>0, <2>6 DEF Authority!AuthorityNext, Authority!FenceTarget, Authority!Step
  <2>7. CASE /\ a.phase \in {"SourceFenced", "Copying", "CutoverReady", "TargetFenced"} /\ b.phase = "RolledBack"
             /\ ~a.target /\ b.source /\ b.target = a.target
    BY Zenon, <1>1, <1>2, <1>6, <2>0, <2>7 DEF Authority!AuthorityNext, Authority!Rollback, Authority!Step
  <2>8. CASE b.phase = "FailedClosed" /\ ~b.source /\ ~b.target
    BY Zenon, <1>1, <1>2, <1>6, <2>0, <2>8 DEF Authority!AuthorityNext, Authority!Fail
  <2> QED BY Zenon, <1>6, <2>1, <2>2, <2>3, <2>4, <2>5, <2>6, <2>7, <2>8 DEF Follows
<1>7. CASE a \in {Nothing, NewRecord} /\ b \in {Nothing, NewRecord}
  <2>1. NewRecord # Nothing
    BY Zenon, NewRecordGood DEF GoodRecord, MigrationAssumption
  <2>2. NewRecord.phase = "Planned" /\ NewRecord.source = TRUE /\ NewRecord.target = FALSE
    BY Zenon DEF NewRecord
  <2>3. /\ SeenPhase(a) = "Planned" /\ SeenSource(a) = TRUE /\ SeenTarget(a) = FALSE
        /\ SeenPhase(b) = "Planned" /\ SeenSource(b) = TRUE /\ SeenTarget(b) = FALSE
    BY Zenon, <1>7, <2>1, <2>2 DEF SeenPhase, SeenSource, SeenTarget
  <2> QED BY Zenon, <1>5, <2>3
<1>8. a = b \/ (a \in {Nothing, NewRecord} /\ b \in {Nothing, NewRecord}) \/ (a # Nothing /\ b # Nothing /\ Follows(a, b))
  BY Zenon, <1>1, <1>2 DEF Moved
<1> QED BY Zenon, <1>5, <1>6, <1>7, <1>8

\* Across restarts, losses of power and failed saves, the record on disk starts planned with
\* the source as the only writer, and moves only as MigrationState lets it: each step of the
\* controller is a step of the abstract machine or leaves it alone (migration, durable.rs
\* and lib.rs).
THEOREM MigrationFollowsState ==
    ASSUME MigrationAssumption
    PROVE  MigrationSpec => FollowsMigrationState
<1>1. MigrationInit => Authority!New
  <2> SUFFICES ASSUME MigrationInit PROVE Authority!New
    BY Zenon
  <2>1. Blank(durable)
    BY Zenon DEF MigrationInit, Blank
  <2>2. OnDisk = Nothing
    BY Zenon, <2>1, SelectedBlank DEF OnDisk
  <2> QED BY Zenon, <2>2 DEF Authority!New
<1>2. MigrationInv /\ [MigrationNext]_migrationVars => [Authority!AuthorityNext]_(Authority!authorityVars)
  BY Zenon, MigrationInductive, DiskFollows, StepFollows
<1>3. MigrationInit => MigrationInv
  BY Zenon, MigrationInitial
<1>4. MigrationInv /\ [MigrationNext]_migrationVars => MigrationInv'
  BY Zenon, MigrationInductive
<1> QED BY <1>1, <1>2, <1>3, <1>4, PTL DEF MigrationSpec, FollowsMigrationState, Authority!AuthoritySpec
=============================================================================
