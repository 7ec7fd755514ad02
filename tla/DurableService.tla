--------------------------- MODULE DurableService ---------------------------
(***************************************************************************)
(* crates/heptabao-durable-service/src/lib.rs: the restart-safe mutation   *)
(* boundary of one HeptaBao node.                                          *)
(*                                                                         *)
(* Three files hold the state of a store: the snapshot (state.hbs), an     *)
(* append-only journal (journal.hbj) and the replay ledger (ledger.hbl).   *)
(* One mutation is journalled, published, committed and recorded in four   *)
(* separately synchronised file operations; every one of them is an action *)
(* here, so that a kill, an I/O error or a power cut can fall between any  *)
(* two.  Reopening replays the journal against the other two files.        *)
(*                                                                         *)
(* Files have two views: what a process reads (the page cache) and what is *)
(* on stable storage.  A kill keeps the first, a power cut falls back to   *)
(* the second.  SHA-256 and the barrier are taken to be collision-free, so *)
(* a digest is modelled by the value it covers: a marker is its own        *)
(* recovery reference, and a checkpoint carries the ledger it digests.     *)
(***************************************************************************)
EXTENDS Integers, Sequences, FiniteSets

CONSTANTS
  Requests,      \* request bindings: records with fields key, res and val
  NoRequest,     \* the request of the marker that stands for None
  Resources,     \* storage keys
  Absent,        \* no value: a delete stores it
  MaxRetained,   \* max_retained_requests
  JournalLimit,  \* journal records that fit (journal_limit and MAX_RECORDS)
  Faults,        \* which of "kill", "io" and "power" may happen
  MaxFaults,     \* bound: how many of them
  MaxBackups     \* bound: how many bundles are kept for a restore

ASSUME RequestsAssumption ==
  /\ \A r \in Requests : r.res \in Resources
  /\ NoRequest \notin Requests

ASSUME BoundsAssumption ==
  /\ MaxRetained \in Nat \ {0}
  /\ JournalLimit \in Nat \ {0}
  /\ MaxFaults \in Nat
  /\ MaxBackups \in Nat
  /\ Faults \subseteq {"kill", "io", "power"}

VARIABLES
  \* The files as a process reads them.
  snapshotFile, journalFile, tornTail, ledgerFile,
  \* Stable storage: the files a power cut falls back to, and the names whose
  \* last rename has not been followed by a directory sync.
  stable, unsynced,
  \* The live DurableService.
  snapshot, ledger, aborted, journal_sequence, unresolved,
  \* Where the running call stands, the marker or the bundle it works on.
  pc, cur, src,
  \* What callers were told is committed, the bundles they hold, whether the
  \* files descend from a restore that was interrupted half way, the faults.
  acked, backups, mixed, faults

files   == <<snapshotFile, journalFile, tornTail, ledgerFile>>
medium  == <<stable, unsynced>>
memory  == <<snapshot, ledger, aborted, journal_sequence, unresolved>>
control == <<pc, cur, src>>
callers == <<acked, backups, mixed, faults>>
vars    == <<files, medium, memory, control, callers>>

-----------------------------------------------------------------------------
(***************************************************************************)
(* Data.                                                                   *)
(***************************************************************************)
Marker(r, g, s) == [req |-> r, gen |-> g, seq |-> s]

NoMarker == Marker(NoRequest, 0, 0)

Markers == [req : Requests, gen : Nat \ {0}, seq : Nat \ {0}]

EmptySnapshot ==
  [gen |-> 0, entries |-> [r \in Resources |-> Absent], last |-> NoMarker]

EmptyLedger == [gen |-> 0, recs |-> {}]

NoBundle ==
  [snapshot |-> EmptySnapshot, ledger |-> EmptyLedger, journal |-> <<>>, mixed |-> FALSE]

\* A journal record: an Intent, its Commit or Abort, or a leading Checkpoint.
Record(type, s, m) == [type |-> type, seq |-> s, m |-> m]

Checkpoint(snap, recs) ==
  [type |-> "Checkpoint", seq |-> 1, m |-> snap.last, gen |-> snap.gen, recs |-> recs]

\* The candidate snapshot of a mutation: a put inserts, a delete removes.
Apply(snap, m) ==
  [gen |-> m.gen, entries |-> [snap.entries EXCEPT ![m.req.res] = m.req.val], last |-> m]

-----------------------------------------------------------------------------
(***************************************************************************)
(* What the validators accept.  Each loop of the code is a quantifier over *)
(* the positions of the journal or over the records of the ledger.         *)
(***************************************************************************)
\* As many records as the generation, one for each of 1..g.
ValidGenerations(recs, g) ==
  /\ {m.gen : m \in recs} = 1..g
  /\ \A m, n \in recs : m.gen = n.gen => m = n

ValidCommittedState(snap, recs) ==
  /\ ValidGenerations(recs, snap.gen)
  /\ IF snap.gen = 0
       THEN snap.last = NoMarker
       ELSE snap.last \in recs /\ snap.last.gen = snap.gen

LedgerPrefix(recs, g) == {m \in recs : m.gen <= g}

ValidCheckpoint(e, recs) ==
  /\ ValidGenerations(LedgerPrefix(recs, e.gen), e.gen)
  /\ e.recs = LedgerPrefix(recs, e.gen)
  /\ IF e.gen = 0
       THEN e.m = NoMarker
       ELSE e.m \in e.recs /\ e.m.gen = e.gen

\* committed, committed_generation and last_commit of the replay after the
\* first i records of journal j.
Committed(j, i) ==
  (IF i > 0 /\ j[1].type = "Checkpoint" THEN j[1].recs ELSE {})
    \cup {j[k].m : k \in {n \in 1..i : j[n].type = "Commit"}}

CommittedGeneration(j, i) ==
  IF i = 0 THEN 0
  ELSE IF j[i].type = "Checkpoint" THEN j[i].gen
  ELSE IF j[i].type = "Commit" THEN j[i].m.gen
  ELSE j[i].m.gen - 1

IsLastCommit(m, j, i) ==
  LET frontier == {k \in 1..i : j[k].type \in {"Commit", "Checkpoint"}}
  IN  \/ frontier = {} /\ m = NoMarker
      \/ \E k \in frontier : (\A n \in frontier : n <= k) /\ m = j[k].m

Aborted(j) == {j[k].m : k \in {n \in 1..Len(j) : j[n].type = "Abort"}}

Pending(j) == Len(j) > 0 /\ j[Len(j)].type = "Intent"

\* The record at position i continues the records before it.
ValidRecord(j, i, recs) ==
  LET e == j[i]
      before == Committed(j, i - 1)
  IN  /\ e.seq = i
      /\ e.type = "Checkpoint" => i = 1 /\ ValidCheckpoint(e, recs)
      /\ e.type = "Intent" =>
           /\ i > 1 => j[i-1].type # "Intent"
           /\ \A m \in before : m.req.key # e.m.req.key
           /\ e.m.gen = CommittedGeneration(j, i - 1) + 1
           /\ e.m.seq = i
           /\ e.m \notin before
      /\ e.type \in {"Commit", "Abort"} => i > 1 /\ j[i-1].type = "Intent" /\ j[i-1].m = e.m

PublishedPending(snap, j) ==
  /\ Pending(j)
  /\ snap.gen = j[Len(j)].m.gen
  /\ snap.last = j[Len(j)].m

\* recover() goes past its last check: the three files are one history.
Accepts(snap, j, led) ==
  LET n == Len(j)
      committed == Committed(j, n)
      g == CommittedGeneration(j, n)
      published == PublishedPending(snap, j)
  IN  /\ ValidGenerations(led.recs, led.gen)
      /\ \A i \in 1..n : ValidRecord(j, i, led.recs)
      /\ ValidGenerations(committed, g)
      /\ published \/ (snap.gen = g /\ IsLastCommit(snap.last, j, n))
      /\ snap.gen = 0 => snap = EmptySnapshot
      /\ led.gen <= g /\ g <= led.gen + 1
      /\ \A m \in committed :
           IF m.gen <= led.gen THEN m \in led.recs
           ELSE \A r \in led.recs : r.req.key # m.req.key
      /\ \A r \in led.recs : \E m \in committed : m.req.key = r.req.key
      /\ g + (IF published THEN 1 ELSE 0) <= MaxRetained

\* The requests that a reopen of these files leaves committed.
Outcome(snap, j) ==
  Committed(j, Len(j)) \cup (IF PublishedPending(snap, j) THEN {j[Len(j)].m} ELSE {})

-----------------------------------------------------------------------------
(***************************************************************************)
(* File operations.                                                        *)
(***************************************************************************)
\* append_journal_frame, its write_all: the bytes are in the page cache.
JournalWrite(e) ==
  /\ journalFile' = Append(journalFile, e)
  /\ UNCHANGED <<snapshotFile, tornTail, ledgerFile, stable, unsynced>>

\* sync_all of the journal: it reaches the file that the synced name has.
JournalSync ==
  /\ stable' = IF "journal" \in unsynced THEN stable
               ELSE [stable EXCEPT !.journal = journalFile]
  /\ UNCHANGED <<files, unsynced>>

\* atomic_write up to its rename: the new content was synced beforehand.
ReplaceSnapshot(s) ==
  /\ snapshotFile' = s
  /\ unsynced' = unsynced \cup {"snapshot"}
  /\ UNCHANGED <<journalFile, tornTail, ledgerFile, stable>>

ReplaceLedger(l) ==
  /\ ledgerFile' = l
  /\ unsynced' = unsynced \cup {"ledger"}
  /\ UNCHANGED <<snapshotFile, journalFile, tornTail, stable>>

ReplaceJournal(j) ==
  /\ journalFile' = j
  /\ tornTail' = FALSE
  /\ unsynced' = unsynced \cup {"journal"}
  /\ UNCHANGED <<snapshotFile, ledgerFile, stable>>

\* sync_parent: every rename so far is on stable storage.
DirectorySync ==
  /\ stable' = [snapshot |-> snapshotFile,
                journal  |-> IF "journal" \in unsynced THEN journalFile ELSE stable.journal,
                ledger   |-> ledgerFile]
  /\ unsynced' = {}
  /\ UNCHANGED files

Goto(from, to) == pc = from /\ pc' = to

-----------------------------------------------------------------------------
(***************************************************************************)
(* put and delete: execute().  Its early returns (RecoveryRequired,        *)
(* RequestBindingConflict, Duplicate and the two capacity errors) change   *)
(* nothing; what Duplicate tells the caller is Reconcile below.            *)
(***************************************************************************)

Admissible(r) ==
  /\ ~unresolved
  /\ \A m \in ledger : m.req.key # r.key
  /\ Cardinality(ledger) < MaxRetained
  /\ journal_sequence + 2 <= JournalLimit

Execute(r) ==
  /\ Goto("idle", "intent")
  /\ Admissible(r)
  /\ cur' = Marker(r, snapshot.gen + 1, journal_sequence + 1)
  /\ unresolved' = TRUE
  /\ UNCHANGED <<files, medium, snapshot, ledger, aborted, journal_sequence, src, callers>>

WriteIntent ==
  /\ Goto("intent", "intent sync")
  /\ JournalWrite(Record("Intent", journal_sequence + 1, cur))
  /\ UNCHANGED <<memory, cur, src, callers>>

SyncIntent ==
  /\ Goto("intent sync", "snapshot")
  /\ JournalSync
  /\ journal_sequence' = journal_sequence + 1
  /\ UNCHANGED <<snapshot, ledger, aborted, unresolved, cur, src, callers>>

PublishSnapshot ==
  /\ Goto("snapshot", "snapshot sync")
  /\ ReplaceSnapshot(Apply(snapshot, cur))
  /\ UNCHANGED <<memory, cur, src, callers>>

SyncSnapshot ==
  /\ Goto("snapshot sync", "commit")
  /\ DirectorySync
  /\ snapshot' = Apply(snapshot, cur)
  /\ UNCHANGED <<ledger, aborted, journal_sequence, unresolved, cur, src, callers>>

WriteCommit ==
  /\ Goto("commit", "commit sync")
  /\ JournalWrite(Record("Commit", journal_sequence + 1, cur))
  /\ UNCHANGED <<memory, cur, src, callers>>

\* Mutant: the commit record is written but not synced.
SyncCommitSkipped ==
  /\ Goto("commit sync", "ledger")
  /\ journal_sequence' = journal_sequence + 1
  /\ UNCHANGED <<files, medium, snapshot, ledger, aborted, unresolved, cur, src, callers>>

SyncCommit ==
  /\ Goto("commit sync", "ledger")
  /\ JournalSync
  /\ journal_sequence' = journal_sequence + 1
  /\ UNCHANGED <<snapshot, ledger, aborted, unresolved, cur, src, callers>>

PublishLedger ==
  /\ Goto("ledger", "ledger sync")
  /\ ReplaceLedger([gen |-> cur.gen, recs |-> ledger \cup {cur}])
  /\ UNCHANGED <<memory, cur, src, callers>>

\* The last sync, the in-memory ledger and reconciliation, and Committed.
Acknowledge ==
  /\ Goto("ledger sync", "idle")
  /\ DirectorySync
  /\ ledger' = ledger \cup {cur}
  /\ aborted' = aborted \ {cur}
  /\ unresolved' = FALSE
  /\ acked' = acked \cup {cur}
  /\ cur' = NoMarker
  /\ UNCHANGED <<snapshot, journal_sequence, src, backups, mixed, faults>>

\* reconcile(), and the Duplicate answer to an exact repetition: the committed
\* references are those of the ledger; Aborted is answered for those in aborted.
\* A fenced instance answers reconcile() too, from memory that may be behind its
\* files; its callers must reopen before they rely on an answer, so only the
\* answers of an instance that is not fenced are recorded.
Reconcile(m) ==
  /\ pc = "idle"
  /\ ~unresolved
  /\ m \in ledger
  /\ acked' = acked \cup {m}
  /\ UNCHANGED <<files, medium, memory, control, backups, mixed, faults>>

-----------------------------------------------------------------------------
(***************************************************************************)
(* compact(), export_backup() and restore_backup().                        *)
(***************************************************************************)
Maintainable ==
  /\ ~unresolved
  /\ ValidCommittedState(snapshot, ledger)

Compact ==
  /\ Goto("idle", "compact")
  /\ Maintainable
  /\ unresolved' = TRUE
  /\ UNCHANGED <<files, medium, snapshot, ledger, aborted, journal_sequence, cur, src, callers>>

\* Mutant: the checkpoint omits the newest ledger record.
ReplaceByShortCheckpoint ==
  /\ Goto("compact", "compact sync")
  /\ ReplaceJournal(<<Checkpoint(snapshot, LedgerPrefix(ledger, snapshot.gen - 1))>>)
  /\ UNCHANGED <<memory, cur, src, callers>>

ReplaceByCheckpoint ==
  /\ Goto("compact", "compact sync")
  /\ ReplaceJournal(<<Checkpoint(snapshot, ledger)>>)
  /\ UNCHANGED <<memory, cur, src, callers>>

FinishCompaction ==
  /\ Goto("compact sync", "idle")
  /\ DirectorySync
  /\ journal_sequence' = 1
  /\ unresolved' = FALSE
  /\ UNCHANGED <<snapshot, ledger, aborted, cur, src, callers>>

Bundle == [snapshot |-> snapshot,
           ledger   |-> [gen |-> snapshot.gen, recs |-> ledger],
           journal  |-> <<Checkpoint(snapshot, ledger)>>,
           mixed    |-> mixed]

ExportBackup ==
  /\ pc = "idle"
  /\ Maintainable
  /\ Cardinality(backups) < MaxBackups
  /\ backups' = backups \cup {Bundle}
  /\ UNCHANGED <<files, medium, memory, control, acked, mixed, faults>>

\* decode_backup accepts a bundle the service exported: its parts agree and it
\* fits.  An older generation needs allow_rollback.
RestoreBackup(b, allow_rollback) ==
  /\ Goto("idle", "restore snapshot")
  /\ ~unresolved
  /\ ValidCommittedState(b.snapshot, b.ledger.recs)
  /\ ValidCheckpoint(b.journal[1], b.ledger.recs)
  /\ Cardinality(b.ledger.recs) <= MaxRetained
  /\ b.snapshot.gen < snapshot.gen => allow_rollback
  /\ src' = b
  /\ unresolved' = TRUE
  /\ UNCHANGED <<files, medium, snapshot, ledger, aborted, journal_sequence, cur, callers>>

RestoreSnapshot ==
  /\ Goto("restore snapshot", "restore snapshot sync")
  /\ ReplaceSnapshot(src.snapshot)
  /\ mixed' = TRUE
  /\ UNCHANGED <<memory, cur, src, acked, backups, faults>>

RestoreLedger ==
  /\ Goto("restore ledger", "restore ledger sync")
  /\ ReplaceLedger(src.ledger)
  /\ UNCHANGED <<memory, cur, src, callers>>

\* The third replacement completes the set.  What was acknowledged after the
\* bundle was taken is given up here, by the operator's decision.
RestoreJournal ==
  /\ Goto("restore journal", "restore journal sync")
  /\ ReplaceJournal(src.journal)
  /\ mixed' = src.mixed
  /\ acked' = acked \cap src.ledger.recs
  /\ UNCHANGED <<memory, cur, src, backups, faults>>

SyncRestore ==
  /\ \/ Goto("restore snapshot sync", "restore ledger")
     \/ Goto("restore ledger sync", "restore journal")
  /\ DirectorySync
  /\ UNCHANGED <<memory, cur, src, callers>>

\* rebuild_reconciliation drops every Aborted reference.
FinishRestore ==
  /\ Goto("restore journal sync", "idle")
  /\ DirectorySync
  /\ snapshot' = src.snapshot
  /\ ledger' = src.ledger.recs
  /\ journal_sequence' = 1
  /\ aborted' = {}
  /\ unresolved' = FALSE
  /\ src' = NoBundle
  /\ UNCHANGED <<cur, callers>>

-----------------------------------------------------------------------------
(***************************************************************************)
(* reopen() and recover().                                                 *)
(***************************************************************************)
ForgetMemory ==
  /\ snapshot' = EmptySnapshot
  /\ ledger' = {}
  /\ aborted' = {}
  /\ journal_sequence' = 0
  /\ unresolved' = FALSE
  /\ cur' = NoMarker
  /\ src' = NoBundle

\* The step that follows the repair of the tail.
AfterTail == IF Pending(journalFile) THEN "terminal" ELSE "rebuild"

\* Every check of the replay has passed.  Files it rejects stay as they are.
Reopen ==
  /\ pc = "down"
  /\ Accepts(snapshotFile, journalFile, ledgerFile)
  /\ pc' = IF tornTail THEN "tail" ELSE AfterTail
  /\ snapshot' = snapshotFile
  /\ ledger' = ledgerFile.recs
  /\ journal_sequence' = Len(journalFile)
  /\ cur' = IF Pending(journalFile) THEN journalFile[Len(journalFile)].m ELSE NoMarker
  /\ UNCHANGED <<files, medium, aborted, unresolved, src, callers>>

TruncateTail ==
  /\ Goto("tail", "tail sync")
  /\ tornTail' = FALSE
  /\ UNCHANGED <<snapshotFile, journalFile, ledgerFile, medium, memory, cur, src, callers>>

SyncTail ==
  /\ pc = "tail sync"
  /\ pc' = AfterTail
  /\ JournalSync
  /\ UNCHANGED <<memory, cur, src, callers>>

\* Mutant: every pending intent is aborted, a published one too.
WriteTerminalAborts ==
  /\ Goto("terminal", "terminal sync")
  /\ journal_sequence < JournalLimit
  /\ JournalWrite(Record("Abort", journal_sequence + 1, cur))
  /\ UNCHANGED <<memory, cur, src, callers>>

\* Mutant: recovery asks for room for two records.
WriteTerminalTwice ==
  /\ Goto("terminal", "terminal sync")
  /\ journal_sequence + 1 < JournalLimit
  /\ JournalWrite(Record(IF snapshot.last = cur THEN "Commit" ELSE "Abort",
                         journal_sequence + 1, cur))
  /\ UNCHANGED <<memory, cur, src, callers>>

\* append_event for the pending intent: Commit if its snapshot was published.
WriteTerminal ==
  /\ Goto("terminal", "terminal sync")
  /\ journal_sequence < JournalLimit
  /\ JournalWrite(Record(IF snapshot.last = cur THEN "Commit" ELSE "Abort",
                         journal_sequence + 1, cur))
  /\ UNCHANGED <<memory, cur, src, callers>>

SyncTerminal ==
  /\ Goto("terminal sync", "rebuild")
  /\ JournalSync
  /\ journal_sequence' = journal_sequence + 1
  /\ UNCHANGED <<snapshot, ledger, aborted, unresolved, cur, src, callers>>

\* The ledger and the references are rebuilt from the replay and persisted.
RebuildLedger ==
  /\ Goto("rebuild", "rebuild sync")
  /\ ReplaceLedger([gen |-> snapshot.gen, recs |-> Committed(journalFile, Len(journalFile))])
  /\ ledger' = Committed(journalFile, Len(journalFile))
  /\ aborted' = Aborted(journalFile) \ Committed(journalFile, Len(journalFile))
  /\ cur' = NoMarker
  /\ UNCHANGED <<snapshot, journal_sequence, unresolved, src, callers>>

\* Mutant: the rebuilt ledger is renamed and the directory not synced.
FinishRecoveryUnsynced ==
  /\ Goto("rebuild sync", "idle")
  /\ UNCHANGED <<files, medium, memory, cur, src, callers>>

FinishRecovery ==
  /\ Goto("rebuild sync", "idle")
  /\ DirectorySync
  /\ UNCHANGED <<memory, cur, src, callers>>

\* The owner of a fenced instance drops it, to reopen the directory.
DropFenced ==
  /\ Goto("idle", "down")
  /\ unresolved
  /\ ForgetMemory
  /\ UNCHANGED <<files, medium, callers>>

-----------------------------------------------------------------------------
(***************************************************************************)
(* Faults.  A write that is cut short leaves an incomplete last record.    *)
(***************************************************************************)
MutationSteps ==
  {"intent", "intent sync", "snapshot", "snapshot sync",
   "commit", "commit sync", "ledger", "ledger sync"}

RestoreSteps ==
  {"restore snapshot", "restore snapshot sync", "restore ledger",
   "restore ledger sync", "restore journal", "restore journal sync"}

RecoverySteps ==
  {"tail", "tail sync", "terminal", "terminal sync", "rebuild", "rebuild sync"}

Fault(kind) ==
  /\ kind \in Faults
  /\ faults < MaxFaults
  /\ faults' = faults + 1
  /\ UNCHANGED <<acked, backups, mixed>>

CutWrite ==
  /\ tornTail' \in IF pc \in {"intent", "commit", "terminal"} THEN BOOLEAN ELSE {tornTail}
  /\ UNCHANGED <<snapshotFile, journalFile, ledgerFile, medium>>

\* SIGKILL: the page cache survives.
Kill ==
  /\ pc # "down" /\ pc' = "down"
  /\ Fault("kill")
  /\ CutWrite
  /\ ForgetMemory

\* The running step fails.  A mutation or maintenance call leaves the instance
\* fenced; a recovery returns the error and no instance.
IoError ==
  /\ pc \notin {"down", "idle"}
  /\ Fault("io")
  /\ CutWrite
  /\ IF pc \in RecoverySteps
       THEN pc' = "down" /\ ForgetMemory
       ELSE /\ pc' = "idle"
            /\ cur' = NoMarker
            /\ src' = NoBundle
            /\ UNCHANGED memory

\* A rename without a directory sync may or may not be found again, and of the
\* journal any prefix that holds the synced records.
PowerCut ==
  /\ pc' = "down"
  /\ Fault("power")
  /\ \E kept \in SUBSET unsynced :
       /\ snapshotFile' = IF "snapshot" \in kept THEN snapshotFile ELSE stable.snapshot
       /\ ledgerFile' = IF "ledger" \in kept THEN ledgerFile ELSE stable.ledger
       /\ IF "journal" \in unsynced
            THEN /\ journalFile' = IF "journal" \in kept THEN journalFile ELSE stable.journal
                 /\ tornTail' = FALSE
            ELSE \E n \in Len(stable.journal)..Len(journalFile) :
                   /\ journalFile' = SubSeq(journalFile, 1, n)
                   /\ tornTail' \in IF n < Len(journalFile) THEN BOOLEAN
                                    ELSE {FALSE, tornTail \/ pc \in {"intent", "commit", "terminal"}}
  /\ stable' = [snapshot |-> snapshotFile', journal |-> journalFile', ledger |-> ledgerFile']
  /\ unsynced' = {}
  /\ ForgetMemory

-----------------------------------------------------------------------------
Init ==
  /\ snapshotFile = EmptySnapshot
  /\ journalFile = <<>>
  /\ tornTail = FALSE
  /\ ledgerFile = EmptyLedger
  /\ stable = [snapshot |-> EmptySnapshot, journal |-> <<>>, ledger |-> EmptyLedger]
  /\ unsynced = {}
  /\ snapshot = EmptySnapshot
  /\ ledger = {}
  /\ aborted = {}
  /\ journal_sequence = 0
  /\ unresolved = FALSE
  /\ pc = "idle"
  /\ cur = NoMarker
  /\ src = NoBundle
  /\ acked = {}
  /\ backups = {}
  /\ mixed = FALSE
  /\ faults = 0

Mutate ==
  \/ \E r \in Requests : Execute(r)
  \/ WriteIntent \/ SyncIntent \/ PublishSnapshot \/ SyncSnapshot
  \/ WriteCommit \/ SyncCommit \/ PublishLedger \/ Acknowledge

Maintain ==
  \/ Compact \/ ReplaceByCheckpoint \/ FinishCompaction
  \/ ExportBackup
  \/ \E b \in backups, allow_rollback \in BOOLEAN : RestoreBackup(b, allow_rollback)
  \/ RestoreSnapshot \/ RestoreLedger \/ RestoreJournal \/ SyncRestore \/ FinishRestore

Recover ==
  \/ Reopen \/ TruncateTail \/ SyncTail \/ WriteTerminal \/ SyncTerminal
  \/ RebuildLedger \/ FinishRecovery \/ DropFenced

Next ==
  \/ Mutate
  \/ Maintain
  \/ Recover
  \/ \E m \in ledger : Reconcile(m)
  \/ Kill \/ IoError \/ PowerCut

Spec == Init /\ [][Next]_vars

\* The thread that runs a call finishes it, the owner of a fenced instance
\* drops it, and a directory without an owner is reopened (unseal).  No caller
\* is obliged to call, and no fault has to happen.
Progress ==
  \/ WriteIntent \/ SyncIntent \/ PublishSnapshot \/ SyncSnapshot
  \/ WriteCommit \/ SyncCommit \/ PublishLedger \/ Acknowledge
  \/ ReplaceByCheckpoint \/ FinishCompaction
  \/ RestoreSnapshot \/ RestoreLedger \/ RestoreJournal \/ SyncRestore \/ FinishRestore
  \/ Recover

-----------------------------------------------------------------------------
(***************************************************************************)
(* Properties.                                                             *)
(***************************************************************************)
Records ==
  [type : {"Intent", "Commit", "Abort"}, seq : Nat, m : Markers]
    \cup [type : {"Checkpoint"}, seq : Nat, m : Markers \cup {NoMarker}, gen : Nat,
          recs : SUBSET Markers]

Values == {r.val : r \in Requests} \cup {Absent}

Snapshots ==
  [gen : Nat, entries : [Resources -> Values], last : Markers \cup {NoMarker}]

Ledgers == [gen : Nat, recs : SUBSET Markers]

Bundles ==
  [snapshot : Snapshots, journal : Seq(Records), ledger : Ledgers, mixed : BOOLEAN]

FilesTyped ==
  /\ snapshotFile \in Snapshots
  /\ journalFile \in Seq(Records)
  /\ tornTail \in BOOLEAN
  /\ ledgerFile \in Ledgers

MediumTyped ==
  /\ stable \in [snapshot : Snapshots, journal : Seq(Records), ledger : Ledgers]
  /\ unsynced \subseteq {"snapshot", "journal", "ledger"}

MemoryTyped ==
  /\ snapshot \in Snapshots
  /\ ledger \subseteq Markers
  /\ aborted \subseteq Markers
  /\ journal_sequence \in Nat
  /\ unresolved \in BOOLEAN

ControlTyped ==
  /\ pc \in {"idle", "down", "compact", "compact sync"}
            \cup MutationSteps \cup RestoreSteps \cup RecoverySteps
  /\ cur \in Markers \cup {NoMarker}
  /\ pc \in MutationSteps \cup {"terminal", "terminal sync"} => cur \in Markers
  /\ (pc \in {"tail", "tail sync"} /\ Pending(journalFile)) => cur \in Markers
  /\ src \in Bundles

CallersTyped ==
  /\ acked \subseteq Markers
  /\ backups \subseteq Bundles
  /\ mixed \in BOOLEAN
  /\ faults \in Nat

\* The variables of the service, of its files and of its callers have their
\* types, and a step that works on a marker has one.
TypeOK == FilesTyped /\ MediumTyped /\ MemoryTyped /\ ControlTyped /\ CallersTyped

\* The contents that committed requests leave behind: for every resource the
\* value of the request with the highest generation.
Effect(recs) ==
  [r \in Resources |->
     LET writers == {m \in recs : m.req.res = r}
     IN  IF writers = {} THEN Absent
         ELSE (CHOOSE m \in writers : \A n \in writers : n.gen <= m.gen).req.val]

\* Wherever the process stops, inside a recovery too, reopen() accepts the
\* files it leaves.  The one exception is a restore between two of its file
\* replacements.
Recoverable == ~mixed => Accepts(snapshotFile, journalFile, ledgerFile)

\* What a caller was told is committed (by put and delete, by a Duplicate or by
\* reconcile) is committed after any later crash and reopen.
AckedSurvive == ~mixed => acked \subseteq Outcome(snapshotFile, journalFile)

\* The published snapshot holds exactly the effects of the requests a reopen
\* would report as committed: no half-applied, lost or repeated mutation.
PublishedEffects ==
  ~mixed => snapshotFile.entries = Effect(Outcome(snapshotFile, journalFile))

\* execute() answers a repeated request from the ledger: a request key commits
\* at most once, whatever was lost, retried or recovered in between.
AtMostOnce ==
  ~mixed => \A m, n \in Outcome(snapshotFile, journalFile) :
              m.req.key = n.req.key => m = n

\* An instance that serves reads (not unresolved) serves what is on stable
\* storage: get() and list() never return what a power cut takes back.
ServedStateIsStable ==
  (pc = "idle" /\ ~unresolved) =>
     /\ snapshot = snapshotFile /\ snapshotFile = stable.snapshot
     /\ ledger = ledgerFile.recs /\ ledgerFile = stable.ledger

\* An instance that is not fenced answers Aborted only for a reference whose
\* mutation is not, and will not be found to be, among the committed ones.
AbortedHasNoEffect ==
  (pc = "idle" /\ ~unresolved /\ ~mixed) => aborted \cap Outcome(snapshotFile, journalFile) = {}

\* A record is never appended behind an incomplete one, which would make the
\* whole journal unreadable.
NoAppendBehindTornTail == pc \in {"intent", "commit", "terminal"} => ~tornTail

\* What an instance at rest serves and answers is what its files hold, after a loss
\* of power too: reads, Aborted answers and published effects agree with the history
\* that a reopen would find (execute, reconcile, get and list).
AnswersStable ==
  /\ TypeOK /\ ServedStateIsStable /\ AbortedHasNoEffect /\ PublishedEffects
  /\ NoAppendBehindTornTail

\* An intent on disk always leaves room for its Commit or Abort, so recovery
\* never fails for lack of journal space.
TerminalReserved == Pending(journalFile) => Len(journalFile) < JournalLimit

\* A store without an interrupted restore keeps coming back to serving: no
\* fence, no crash and no crash during recovery is permanent, as long as the
\* faults are finitely many.
ServesAgain == []<>(mixed \/ (pc = "idle" /\ ~unresolved))

\* An interrupted restore leaves a set that reopen() rejects, or else one whose
\* snapshot holds the effects of the requests it reports (restore_backup's
\* comment and the module document say such a set is rejected).
MixedSetRejected ==
  (mixed /\ Accepts(snapshotFile, journalFile, ledgerFile)) =>
     snapshotFile.entries = Effect(Outcome(snapshotFile, journalFile))

\* What was reported as committed has its Commit record, or a checkpoint of it,
\* on stable storage (the module document: file and directory synchronisation
\* occur before publication is reported).
SyncedBeforeReported ==
  (pc = "idle" /\ ~unresolved) => acked \subseteq Committed(stable.journal, Len(stable.journal))

\* The store as its callers see it.  A mutation takes effect when its snapshot
\* is renamed; during a restore nothing is promised.
Told(recs) == {[req |-> m.req, gen |-> m.gen] : m \in recs}

ToldCommitted == IF mixed THEN {} ELSE Told(Outcome(snapshotFile, journalFile))

ToldPromised == IF mixed THEN {} ELSE Told(acked)

ToldExported == {Told(b.ledger.recs) : b \in {c \in backups : ~c.mixed}}

Abstract == INSTANCE RequestStore WITH
  committed <- ToldCommitted,
  promised  <- ToldPromised,
  exported  <- ToldExported,
  replacing <- mixed,
  Lossy     <- "power" \in Faults

=============================================================================
