------------------------ MODULE DurableStoreProofs --------------------------
(***************************************************************************)
(* What the callers of DurableService see.  An instance at rest serves     *)
(* what is on stable storage, whatever fails; and as long as the machine   *)
(* keeps its power the files, the journal and the recovery together        *)
(* implement RequestStore.                                                 *)
(***************************************************************************)
EXTENDS DurableSafetyProofs

-----------------------------------------------------------------------------
(***************************************************************************)
(* The instance against its files: Serving is inductive, with or without   *)
(* losses of power.                                                        *)
(***************************************************************************)

\* What JournalSync does to the medium.
LEMMA JournalSyncs ==
  ASSUME MediumTyped, JournalSync
  PROVE  /\ stable'.snapshot = stable.snapshot /\ stable'.ledger = stable.ledger
         /\ UNCHANGED <<snapshotFile, journalFile, tornTail, ledgerFile, unsynced>>
<1>1. stable \in [snapshot : Snapshots, journal : Seq(Records), ledger : Ledgers]
  BY Zenon DEF MediumTyped
<1>2. PICK s \in Snapshots, j \in Seq(Records), l \in Ledgers :
        stable = [snapshot |-> s, journal |-> j, ledger |-> l]
  BY Zenon, <1>1
<1>3. [stable EXCEPT !.journal = journalFile]
        = [snapshot |-> s, journal |-> journalFile, ledger |-> l]
  BY <1>2
<1>4. stable' \in {stable, [snapshot |-> s, journal |-> journalFile, ledger |-> l]}
  BY Zenon, <1>3 DEF JournalSync
<1>. QED
  BY Zenon, <1>2, <1>4 DEF JournalSync, files

\* What DirectorySync does to it.
LEMMA DirectorySyncs ==
  ASSUME DirectorySync
  PROVE  /\ stable'.snapshot = snapshotFile /\ stable'.ledger = ledgerFile /\ unsynced' = {}
         /\ UNCHANGED <<snapshotFile, journalFile, tornTail, ledgerFile>>
  BY Zenon DEF DirectorySync, files

\* A step of put or delete.
LEMMA MutateServes ==
  ASSUME Serving, MediumTyped, Mutate
  PROVE  Serving'
<1> USE DEF Serving, Fenced, ServesFiles, AbortedApart, SourceHeld,
            MutationSteps, RestoreSteps, RecoverySteps
<1>1. ASSUME NEW r \in Requests, Execute(r) PROVE Serving'
  BY Zenon, <1>1 DEF Execute, Goto, Admissible, files, medium, callers
<1>2. CASE WriteIntent
  BY Zenon, <1>2 DEF WriteIntent, Goto, JournalWrite, memory, callers
<1>3. CASE SyncIntent
  <2>1. /\ pc = "intent sync" /\ pc' = "snapshot"
        /\ UNCHANGED <<snapshot, ledger, aborted, unresolved, cur, src, backups>>
        /\ stable'.snapshot = stable.snapshot /\ stable'.ledger = stable.ledger
        /\ UNCHANGED <<snapshotFile, tornTail, ledgerFile, unsynced>>
    BY Zenon, <1>3, JournalSyncs DEF SyncIntent, Goto, callers
  <2>2. Fenced'
    BY Zenon, <2>1
  <2>3. ServesFiles'
    BY Zenon, <2>1
  <2>4. AbortedApart'
    BY Zenon, <2>1
  <2>5. SourceHeld'
    BY Zenon, <2>1
  <2>. QED
    BY Zenon, <2>2, <2>3, <2>4, <2>5
<1>4. CASE PublishSnapshot
  BY Zenon, <1>4 DEF PublishSnapshot, Goto, ReplaceSnapshot, memory, callers
<1>5. CASE SyncSnapshot
  <2>1. /\ pc = "snapshot sync" /\ pc' = "commit" /\ snapshot' = Apply(snapshot, cur)
        /\ UNCHANGED <<ledger, aborted, unresolved, cur, src, backups>>
        /\ stable'.snapshot = snapshotFile /\ stable'.ledger = ledgerFile /\ unsynced' = {}
        /\ UNCHANGED <<snapshotFile, tornTail, ledgerFile>>
    BY Zenon, <1>5, DirectorySyncs DEF SyncSnapshot, Goto, callers
  <2>2. Fenced'
    BY Zenon, <2>1
  <2>3. ServesFiles'
    BY Zenon, <2>1
  <2>4. AbortedApart'
    BY Zenon, <2>1
  <2>5. SourceHeld'
    BY Zenon, <2>1
  <2>. QED
    BY Zenon, <2>2, <2>3, <2>4, <2>5
<1>6. CASE WriteCommit
  BY Zenon, <1>6 DEF WriteCommit, Goto, JournalWrite, memory, callers
<1>7. CASE SyncCommit
  <2>1. /\ pc = "commit sync" /\ pc' = "ledger"
        /\ UNCHANGED <<snapshot, ledger, aborted, unresolved, cur, src, backups>>
        /\ stable'.snapshot = stable.snapshot /\ stable'.ledger = stable.ledger
        /\ UNCHANGED <<snapshotFile, tornTail, ledgerFile, unsynced>>
    BY Zenon, <1>7, JournalSyncs DEF SyncCommit, Goto, callers
  <2>2. Fenced'
    BY Zenon, <2>1
  <2>3. ServesFiles'
    BY Zenon, <2>1
  <2>4. AbortedApart'
    BY Zenon, <2>1
  <2>5. SourceHeld'
    BY Zenon, <2>1
  <2>. QED
    BY Zenon, <2>2, <2>3, <2>4, <2>5
<1>8. CASE PublishLedger
  BY Zenon, <1>8 DEF PublishLedger, Goto, ReplaceLedger, memory, callers
<1>9. CASE Acknowledge
  <2>1. /\ pc = "ledger sync" /\ pc' = "idle" /\ unresolved' = FALSE
        /\ ledger' = ledger \cup {cur} /\ aborted' = aborted \ {cur}
        /\ UNCHANGED <<snapshot, src, backups>>
        /\ stable'.snapshot = snapshotFile /\ stable'.ledger = ledgerFile /\ unsynced' = {}
        /\ UNCHANGED <<snapshotFile, tornTail, ledgerFile>>
    BY Zenon, <1>9, DirectorySyncs DEF Acknowledge, Goto
  <2>2. Fenced'
    BY Zenon, <2>1
  <2>3. ServesFiles'
    BY Zenon, <2>1
  <2>4. AbortedApart'
    BY Zenon, <2>1
  <2>5. SourceHeld'
    BY Zenon, <2>1
  <2>. QED
    BY Zenon, <2>2, <2>3, <2>4, <2>5
<1>. QED
  BY Zenon, <1>1, <1>2, <1>3, <1>4, <1>5, <1>6, <1>7, <1>8, <1>9 DEF Mutate

\* A step of compact, export_backup or restore_backup.
LEMMA MaintainServes ==
  ASSUME Serving, MediumTyped, Maintain
  PROVE  Serving'
<1> USE DEF Serving, Fenced, ServesFiles, AbortedApart, SourceHeld,
            MutationSteps, RestoreSteps, RecoverySteps
<1>1. CASE Compact
  BY Zenon, <1>1 DEF Compact, Goto, Maintainable, files, medium, callers
<1>2. CASE ReplaceByCheckpoint
  BY Zenon, <1>2 DEF ReplaceByCheckpoint, Goto, ReplaceJournal, memory, callers
<1>3. CASE FinishCompaction
  <2>1. /\ pc = "compact sync" /\ pc' = "idle" /\ unresolved' = FALSE
        /\ UNCHANGED <<snapshot, ledger, aborted, cur, src, backups>>
        /\ stable'.snapshot = snapshotFile /\ stable'.ledger = ledgerFile /\ unsynced' = {}
        /\ UNCHANGED <<snapshotFile, tornTail, ledgerFile>>
    BY Zenon, <1>3, DirectorySyncs DEF FinishCompaction, Goto, callers
  <2>2. Fenced'
    BY Zenon, <2>1
  <2>3. ServesFiles'
    BY Zenon, <2>1
  <2>4. AbortedApart'
    BY Zenon, <2>1
  <2>5. SourceHeld'
    BY Zenon, <2>1
  <2>. QED
    BY Zenon, <2>2, <2>3, <2>4, <2>5
<1>4. CASE ExportBackup
  BY Zenon, <1>4 DEF ExportBackup, files, medium, memory, control
<1>5. ASSUME NEW b \in backups, NEW allow_rollback \in BOOLEAN, RestoreBackup(b, allow_rollback)
      PROVE  Serving'
  BY Zenon, <1>5 DEF RestoreBackup, Goto, files, medium, callers
<1>6. CASE RestoreSnapshot
  BY Zenon, <1>6 DEF RestoreSnapshot, Goto, ReplaceSnapshot, memory
<1>7. CASE RestoreLedger
  BY Zenon, <1>7 DEF RestoreLedger, Goto, ReplaceLedger, memory, callers
<1>8. CASE RestoreJournal
  BY Zenon, <1>8 DEF RestoreJournal, Goto, ReplaceJournal, memory
<1>9. CASE SyncRestore
  BY Zenon, <1>9, DirectorySyncs DEF SyncRestore, Goto, memory, callers
<1>10. CASE FinishRestore
  <2>1. /\ pc = "restore journal sync" /\ pc' = "idle" /\ unresolved' = FALSE
        /\ snapshot' = src.snapshot /\ ledger' = src.ledger.recs /\ aborted' = {}
        /\ stable'.snapshot = snapshotFile /\ stable'.ledger = ledgerFile /\ unsynced' = {}
        /\ UNCHANGED <<snapshotFile, tornTail, ledgerFile>>
    BY Zenon, <1>10, DirectorySyncs DEF FinishRestore, Goto, callers
  <2>2. snapshotFile = src.snapshot /\ ledgerFile = src.ledger /\ ~tornTail
    BY Zenon, <2>1
  <2>3. Fenced'
    BY Zenon, <2>1
  <2>4. ServesFiles'
    BY Zenon, <2>1, <2>2
  <2>5. AbortedApart'
    BY Zenon, <2>1
  <2>6. SourceHeld'
    BY Zenon, <2>1
  <2>. QED
    BY Zenon, <2>3, <2>4, <2>5, <2>6
<1>. QED
  BY Zenon, <1>1, <1>2, <1>3, <1>4, <1>5, <1>6, <1>7, <1>8, <1>9, <1>10 DEF Maintain

\* A step of reopen, and the drop of a fenced instance.
LEMMA RecoverServes ==
  ASSUME Serving, MediumTyped, Recover
  PROVE  Serving'
<1> USE DEF Serving, Fenced, ServesFiles, AbortedApart, SourceHeld,
            MutationSteps, RestoreSteps, RecoverySteps
<1>1. CASE Reopen
  BY Zenon, <1>1 DEF Reopen, AfterTail, files, medium, callers
<1>2. CASE TruncateTail
  BY Zenon, <1>2 DEF TruncateTail, Goto, medium, memory, callers
<1>3. CASE SyncTail
  <2>1. /\ pc = "tail sync" /\ pc' \in {"terminal", "rebuild"}
        /\ UNCHANGED <<snapshot, ledger, aborted, unresolved, cur, src, backups>>
        /\ stable'.snapshot = stable.snapshot /\ stable'.ledger = stable.ledger
        /\ UNCHANGED <<snapshotFile, tornTail, ledgerFile, unsynced>>
    BY Zenon, <1>3, JournalSyncs DEF SyncTail, AfterTail, memory, callers
  <2>2. Fenced'
    BY Zenon, <2>1
  <2>3. ServesFiles'
    BY Zenon, <2>1
  <2>4. AbortedApart'
    BY Zenon, <2>1
  <2>5. SourceHeld'
    BY Zenon, <2>1
  <2>. QED
    BY Zenon, <2>2, <2>3, <2>4, <2>5
<1>4. CASE WriteTerminal
  BY Zenon, <1>4 DEF WriteTerminal, Goto, JournalWrite, memory, callers
<1>5. CASE SyncTerminal
  <2>1. /\ pc = "terminal sync" /\ pc' = "rebuild"
        /\ UNCHANGED <<snapshot, ledger, aborted, unresolved, cur, src, backups>>
        /\ stable'.snapshot = stable.snapshot /\ stable'.ledger = stable.ledger
        /\ UNCHANGED <<snapshotFile, tornTail, ledgerFile, unsynced>>
    BY Zenon, <1>5, JournalSyncs DEF SyncTerminal, Goto, callers
  <2>2. Fenced'
    BY Zenon, <2>1
  <2>3. ServesFiles'
    BY Zenon, <2>1
  <2>4. AbortedApart'
    BY Zenon, <2>1
  <2>5. SourceHeld'
    BY Zenon, <2>1
  <2>. QED
    BY Zenon, <2>2, <2>3, <2>4, <2>5
<1>6. CASE RebuildLedger
  BY Zenon, <1>6 DEF RebuildLedger, Goto, ReplaceLedger, callers
<1>7. CASE FinishRecovery
  <2>1. /\ pc = "rebuild sync" /\ pc' = "idle"
        /\ UNCHANGED <<snapshot, ledger, aborted, unresolved, cur, src, backups>>
        /\ stable'.snapshot = snapshotFile /\ stable'.ledger = ledgerFile /\ unsynced' = {}
        /\ UNCHANGED <<snapshotFile, tornTail, ledgerFile>>
    BY Zenon, <1>7, DirectorySyncs DEF FinishRecovery, Goto, memory, callers
  <2>2. Fenced'
    BY Zenon, <2>1
  <2>3. ServesFiles'
    BY Zenon, <2>1
  <2>4. AbortedApart'
    BY Zenon, <2>1
  <2>5. SourceHeld'
    BY Zenon, <2>1
  <2>. QED
    BY Zenon, <2>2, <2>3, <2>4, <2>5
<1>8. CASE DropFenced
  BY Zenon, <1>8 DEF DropFenced, Goto, ForgetMemory, files, medium, callers
<1>. QED
  BY Zenon, <1>1, <1>2, <1>3, <1>4, <1>5, <1>6, <1>7, <1>8 DEF Recover

\* A fault, an answer of reconcile(), or no step.
LEMMA OtherServes ==
  ASSUME Serving, ControlTyped,
         Kill \/ IoError \/ PowerCut \/ (\E m \in ledger : Reconcile(m)) \/ UNCHANGED vars
  PROVE  Serving'
<1> USE DEF Serving, Fenced, ServesFiles, AbortedApart, SourceHeld,
            MutationSteps, RestoreSteps, RecoverySteps
<1>1. CASE Kill
  BY Zenon, <1>1 DEF Kill, Fault, CutWrite, ForgetMemory, medium
<1>2. CASE IoError
  <2>1. /\ pc \notin {"down", "idle"}
        /\ UNCHANGED <<snapshotFile, ledgerFile, stable, unsynced, backups>>
    BY Zenon, <1>2 DEF IoError, Fault, CutWrite, medium
  <2>2. CASE pc \in RecoverySteps
    <3>1. pc' = "down" /\ aborted' = {} /\ ledger' = {} /\ unresolved' = FALSE
      BY Zenon, <1>2, <2>2 DEF IoError, ForgetMemory
    <3>. QED
      BY Zenon, <2>1, <3>1
  <2>3. CASE pc \notin RecoverySteps
    <3>1. pc' = "idle" /\ UNCHANGED <<snapshot, ledger, aborted, unresolved>>
      BY Zenon, <1>2, <2>3 DEF IoError, memory
    <3>2. unresolved
      BY Zenon, <2>1, <2>3 DEF ControlTyped
    <3>. QED
      BY Zenon, <2>1, <3>1, <3>2
  <2>. QED
    BY Zenon, <2>2, <2>3
<1>3. CASE PowerCut
  <2>1. /\ pc' = "down" /\ unsynced' = {} /\ aborted' = {} /\ unresolved' = FALSE
        /\ stable'.snapshot = snapshotFile' /\ stable'.ledger = ledgerFile'
    BY Zenon, <1>3 DEF PowerCut, ForgetMemory
  <2>. QED
    BY Zenon, <2>1
<1>4. CASE \E m \in ledger : Reconcile(m)
  BY <1>4 DEF Reconcile, files, medium, memory, control
<1>5. CASE UNCHANGED vars
  BY <1>5 DEF vars, files, medium, memory, control, callers
<1>. QED
  BY Zenon, <1>1, <1>2, <1>3, <1>4, <1>5

\* Every reachable instance agrees with its files and its medium.
LEMMA ServingHolds == Spec => [](TypeOK /\ Serving)
<1>1. Init => Serving
  BY DEF Init, Serving, Fenced, ServesFiles, AbortedApart, SourceHeld,
         MutationSteps, RestoreSteps, RecoverySteps, EmptySnapshot, EmptyLedger
<1>2. TypeOK /\ Serving /\ [Next]_vars => Serving'
  BY Zenon, MutateServes, MaintainServes, RecoverServes, OtherServes DEF Next, TypeOK
<1>. QED
  BY <1>1, <1>2, TypeCorrect, PTL DEF Spec

\* An instance that answers get() and list() serves what is on stable storage,
\* and no record is appended behind an incomplete one, whatever the faults.
THEOREM ServesStable == Spec => [](ServedStateIsStable /\ NoAppendBehindTornTail)
<1>1. Serving => ServedStateIsStable /\ NoAppendBehindTornTail
  BY Zenon DEF Serving, ServesFiles, ServedStateIsStable, NoAppendBehindTornTail,
         MutationSteps, RecoverySteps
<1>. QED
  BY <1>1, ServingHolds, PTL
-----------------------------------------------------------------------------
(***************************************************************************)
(* What a step finds committed.                                            *)
(***************************************************************************)

\* The mutation whose Intent is the last record: it is the next generation, its
\* key is new, and there is room for it.
LEMMA IntentOpen ==
  ASSUME Safe, ~mixed, Open
  PROVE  LET C == Committed(journalFile, Len(journalFile))
             g == CommittedGeneration(journalFile, Len(journalFile))
         IN  /\ cur \in Markers /\ cur.gen = g + 1 /\ g \in Nat /\ g + 1 <= MaxRetained
             /\ \A m \in C : m.req.key # cur.req.key
             /\ ValidGenerations(C, g)
<1> DEFINE j == journalFile
           n == Len(j)
           C == Committed(j, n)
           g == CommittedGeneration(j, n)
<1>1. j \in Seq(Records) /\ n \in Nat /\ n \in 0..Len(j)
  BY DEF Safe, TypeOK, FilesTyped
<1>2. Pending(j) /\ j[n].m = cur
  BY Zenon DEF Open
<1>3. n \in 1..n
  BY <1>1, <1>2 DEF Pending
<1>4. History(snapshotFile, j, ledgerFile)
  BY Zenon DEF Safe, FilesAgree
<1>5. ValidRecord(j, n, ledgerFile.recs) /\ ValidGenerations(C, g)
  BY Zenon, <1>3, <1>4, HistoryParts
<1>6. /\ cur \in Markers /\ cur.gen = g + 1
      /\ \A m \in C : m.req.key # cur.req.key
  BY Zenon, <1>1, <1>2, <1>5, PendingReplay
<1>7. g \in Nat
  BY Zenon, <1>1, GenerationType
<1>8. g + 1 <= MaxRetained
  BY Zenon, <1>2, <1>4 DEF History
<1>. QED
  BY Zenon, <1>5, <1>6, <1>7, <1>8

LEMMA NextDiffers == \A n \in Nat : n # n + 1
  OBVIOUS

\* At rest, and in a call up to the rename of its snapshot, the committed
\* mutations are those of the ledger in memory.
NotPublished ==
  /\ Safe /\ ~mixed
  /\ (pc = "idle" /\ ~unresolved)
       \/ pc \in {"intent", "intent sync", "snapshot", "compact", "compact sync"}

CommitsLedger ==
  /\ Outcome(snapshotFile, journalFile) = ledger
  /\ ledger = Committed(journalFile, Len(journalFile))

LEMMA OutcomeBefore == NotPublished => CommitsLedger
<1> SUFFICES ASSUME NotPublished PROVE CommitsLedger
  BY Zenon
<1> USE DEF NotPublished, CommitsLedger
<1>1. CASE (pc = "idle" /\ ~unresolved) \/ pc \in {"intent", "compact", "compact sync"}
  <2>1. Settled
    BY Zenon, <1>1 DEF Safe, MemoryAgrees, MutationMatches
  <2>. QED
    BY Zenon, <2>1 DEF Settled, Outcome, PublishedPending
<1>2. CASE pc \in {"intent sync", "snapshot"}
  <2>1. /\ Open /\ snapshotFile.gen = CommittedGeneration(journalFile, Len(journalFile))
        /\ ledger = Committed(journalFile, Len(journalFile))
    BY Zenon, <1>2 DEF Safe, MemoryAgrees, MutationMatches
  <2>2. cur.gen = snapshotFile.gen + 1 /\ snapshotFile.gen \in Nat
    BY Zenon, <2>1, IntentOpen DEF Safe, TypeOK, FilesTyped, Snapshots
  <2>3. snapshotFile.gen # cur.gen
    BY Zenon, <2>2, NextDiffers
  <2>. QED
    BY Zenon, <2>1, <2>3 DEF Open, Outcome, PublishedPending
<1>. QED
  BY Zenon, <1>1, <1>2

\* From the rename of its snapshot on, the call's own mutation is one of them.
Published ==
  /\ Safe /\ ~mixed
  /\ pc \in {"snapshot sync", "commit", "commit sync", "ledger", "ledger sync"}

CommitsCurrent == Outcome(snapshotFile, journalFile) = ledger \cup {cur}

LEMMA OutcomeAfter == Published => CommitsCurrent
<1> SUFFICES ASSUME Published PROVE CommitsCurrent
  BY Zenon
<1> USE DEF Published, CommitsCurrent
<1>1. CASE pc \in {"snapshot sync", "commit"}
  <2>1. /\ Open /\ snapshotFile.last = cur /\ snapshotFile.gen = cur.gen
        /\ ledger = Committed(journalFile, Len(journalFile))
    BY Zenon, <1>1 DEF Safe, MemoryAgrees, MutationMatches
  <2>. QED
    BY Zenon, <2>1 DEF Open, Outcome, PublishedPending
<1>2. CASE pc \in {"commit sync", "ledger", "ledger sync"}
  <2>1. ~Pending(journalFile) /\ Committed(journalFile, Len(journalFile)) = ledger \cup {cur}
    BY Zenon, <1>2 DEF Safe, MemoryAgrees, MutationMatches
  <2>. QED
    BY Zenon, <2>1 DEF Outcome, PublishedPending
<1>. QED
  BY Zenon, <1>1, <1>2

-----------------------------------------------------------------------------
(***************************************************************************)
(* The refinement.                                                         *)
(***************************************************************************)
\* A step that changes neither what is committed nor what the callers hold.
LEMMA QuietStep ==
  ASSUME UNCHANGED <<mixed, acked, backups>>,
         ~mixed => Outcome(snapshotFile, journalFile)' = Outcome(snapshotFile, journalFile)
  PROVE  UNCHANGED Abstract!vars
<1>1. UNCHANGED <<ToldCommitted, ToldPromised, ToldExported>>
  BY Zenon DEF ToldCommitted, ToldPromised, ToldExported
<1>. QED
  BY Zenon, <1>1 DEF Abstract!vars

\* As many are told of as are committed, one for each generation.
LEMMA ToldCounted ==
  ASSUME NEW recs, NEW g \in Nat, ValidGenerations(recs, g)
  PROVE  Cardinality(Told(recs)) = g
<1>1. {c.gen : c \in Told(recs)} = {m.gen : m \in recs}
  <2>1. ASSUME NEW c \in Told(recs) PROVE c.gen \in {m.gen : m \in recs}
    BY DEF Told
  <2>2. ASSUME NEW m \in recs PROVE m.gen \in {c.gen : c \in Told(recs)}
    <3>1. [req |-> m.req, gen |-> m.gen] \in Told(recs)
      BY Zenon DEF Told
    <3>2. [req |-> m.req, gen |-> m.gen].gen = m.gen
      BY Zenon
    <3>. QED
      BY Zenon, <3>1, <3>2
  <2>. QED
    BY Zenon, <2>1, <2>2
<1>2. ASSUME NEW c \in Told(recs), NEW d \in Told(recs), c.gen = d.gen PROVE c = d
  <2>1. PICK m \in recs : c = [req |-> m.req, gen |-> m.gen]
    BY Zenon DEF Told
  <2>2. PICK n \in recs : d = [req |-> n.req, gen |-> n.gen]
    BY Zenon DEF Told
  <2>. QED
    BY Zenon, <1>2, <2>1, <2>2 DEF ValidGenerations
<1>3. ValidGenerations(Told(recs), g)
  BY Zenon, <1>1, <1>2 DEF ValidGenerations
<1>. QED
  BY Zenon, <1>3, GenerationsCounted

\* RequestStore counts as this module does.
LEMMA SameCardinality == \A S : Abstract!Cardinality(S) = Cardinality(S)
  BY Zenon DEF Cardinality, Abstract!Cardinality

\* The rename of the snapshot commits the request.
LEMMA PublishCommits ==
  ASSUME Safe, Safe', PublishSnapshot
  PROVE  [Abstract!Next]_(Abstract!vars)
<1>1. /\ pc = "snapshot" /\ pc' = "snapshot sync"
      /\ UNCHANGED <<mixed, acked, backups, ledger, cur>>
  BY Zenon DEF PublishSnapshot, Goto, memory, callers
<1>2. CASE mixed
  BY Zenon, <1>1, <1>2, QuietStep
<1>3. CASE ~mixed
  <2> DEFINE C == Committed(journalFile, Len(journalFile))
             g == CommittedGeneration(journalFile, Len(journalFile))
  <2>1. Outcome(snapshotFile, journalFile) = C /\ ledger = C
    BY Zenon, <1>1, <1>3, OutcomeBefore DEF NotPublished, CommitsLedger
  <2>2. Outcome(snapshotFile, journalFile)' = C \cup {cur}
    <3>1. (Published => CommitsCurrent)'
      BY OutcomeAfter, PTL
    <3>2. Published'
      BY Zenon, <1>1, <1>3 DEF Published
    <3>. QED
      BY Zenon, <1>1, <2>1, <3>1, <3>2 DEF CommitsCurrent
  <2>3. Open
    BY Zenon, <1>1, <1>3 DEF Safe, MemoryAgrees, MutationMatches
  <2>4. /\ cur \in Markers /\ cur.gen = g + 1 /\ g \in Nat /\ g + 1 <= MaxRetained
        /\ \A m \in C : m.req.key # cur.req.key
        /\ ValidGenerations(C, g)
    BY Zenon, <1>3, <2>3, IntentOpen
  <2>5. Cardinality(Told(C)) = g
    BY Zenon, <2>4, ToldCounted
  <2>6. \A c \in Told(C) : c.req.key # cur.req.key
    BY <2>4 DEF Told
  <2>7. Told(C \cup {cur}) = Told(C) \cup {[req |-> cur.req, gen |-> g + 1]}
    BY Zenon, <2>4 DEF Told
  <2>8. cur.req \in Requests /\ g < MaxRetained
    BY <2>4, MarkerType, BoundsAssumption
  <2> HIDE DEF C, g
  <2>9. Abstract!Commit(cur.req)
    <3>1. ToldCommitted = Told(C)
      BY Zenon, <1>3, <2>1 DEF ToldCommitted
    <3>2. ToldCommitted' = Told(C) \cup {[req |-> cur.req, gen |-> g + 1]}
      BY Zenon, <1>1, <1>3, <2>2, <2>7 DEF ToldCommitted
    <3>3. UNCHANGED <<ToldPromised, ToldExported>>
      BY Zenon, <1>1 DEF ToldPromised, ToldExported
    <3>. QED
      BY Zenon, <1>1, <1>3, <2>5, <2>6, <2>8, <3>1, <3>2, <3>3, SameCardinality DEF Abstract!Commit
  <2>. QED
    BY Zenon, <2>8, <2>9 DEF Abstract!Next
<1>. QED
  BY Zenon, <1>2, <1>3

\* Acknowledge, and the answers of reconcile(), promise a committed mutation.
LEMMA AnswerPromises ==
  ASSUME Safe, NEW m, (Acknowledge /\ m = cur) \/ Reconcile(m)
  PROVE  [Abstract!Next]_(Abstract!vars)
<1>1. /\ acked' = acked \cup {m}
      /\ UNCHANGED <<mixed, backups, snapshotFile, journalFile>>
  BY Zenon DEF Acknowledge, Reconcile, DirectorySync, files
<1>2. CASE mixed
  <2>1. UNCHANGED <<ToldCommitted, ToldPromised, ToldExported>>
    BY Zenon, <1>1, <1>2 DEF ToldCommitted, ToldPromised, ToldExported
  <2>. QED
    BY Zenon, <1>1, <2>1 DEF Abstract!vars
<1>3. CASE ~mixed
  <2>1. m \in Outcome(snapshotFile, journalFile)
    BY Zenon, <1>3, OutcomeBefore, OutcomeAfter
    DEF Acknowledge, Reconcile, Goto, NotPublished, CommitsLedger, Published, CommitsCurrent
  <2> DEFINE c == [req |-> m.req, gen |-> m.gen]
  <2>2. c \in ToldCommitted
    BY Zenon, <1>3, <2>1 DEF Told, ToldCommitted
  <2>3. Told(acked') = Told(acked) \cup {c}
    BY Zenon, <1>1 DEF Told
  <2>4. Abstract!Promise(c)
    <3>1. ToldPromised' = ToldPromised \cup {c}
      BY Zenon, <1>1, <1>3, <2>3 DEF ToldPromised
    <3>2. UNCHANGED <<ToldCommitted, ToldExported>>
      BY Zenon, <1>1 DEF ToldCommitted, ToldExported
    <3>. QED
      BY Zenon, <1>1, <1>3, <3>1, <3>2 DEF Abstract!Promise
  <2>. QED
    BY Zenon, <2>2, <2>4 DEF Abstract!Next
<1>. QED
  BY Zenon, <1>2, <1>3

\* export_backup hands out the committed set.
LEMMA ExportExports ==
  ASSUME Safe, ExportBackup
  PROVE  [Abstract!Next]_(Abstract!vars)
<1>1. /\ pc = "idle" /\ ~unresolved /\ backups' = backups \cup {Bundle}
      /\ UNCHANGED <<mixed, acked, snapshotFile, journalFile>>
  BY Zenon DEF ExportBackup, Maintainable, files
<1>2. Bundle.mixed = mixed /\ Bundle.ledger.recs = ledger
  BY Zenon DEF Bundle
<1>3. CASE mixed
  <2>1. {c \in backups' : ~c.mixed} = {c \in backups : ~c.mixed}
    BY Zenon, <1>1, <1>2, <1>3
  <2>2. UNCHANGED <<ToldCommitted, ToldPromised, ToldExported>>
    BY Zenon, <1>1, <2>1 DEF ToldCommitted, ToldPromised, ToldExported
  <2>. QED
    BY Zenon, <1>1, <2>2 DEF Abstract!vars
<1>4. CASE ~mixed
  <2>1. Outcome(snapshotFile, journalFile) = ledger
    BY Zenon, <1>1, <1>4, OutcomeBefore DEF NotPublished, CommitsLedger
  <2>2. ToldExported' = ToldExported \cup {ToldCommitted}
    BY Zenon, <1>1, <1>2, <1>4, <2>1 DEF ToldExported, ToldCommitted
  <2>3. UNCHANGED <<ToldCommitted, ToldPromised>>
    BY Zenon, <1>1 DEF ToldCommitted, ToldPromised
  <2>4. Abstract!Export
    BY Zenon, <1>1, <1>4, <2>2, <2>3 DEF Abstract!Export
  <2>. QED
    BY Zenon, <2>4 DEF Abstract!Next
<1>. QED
  BY Zenon, <1>3, <1>4

\* The first replacement of a restore gives up every promise.
LEMMA RestoreBegins ==
  ASSUME RestoreSnapshot
  PROVE  [Abstract!Next]_(Abstract!vars)
<1>1. mixed' = TRUE /\ UNCHANGED backups
  BY Zenon DEF RestoreSnapshot
<1>2. Abstract!BeginReplace
  BY Zenon, <1>1 DEF Abstract!BeginReplace, ToldCommitted, ToldPromised, ToldExported
<1>. QED
  BY Zenon, <1>2 DEF Abstract!Next

\* The last one makes the store that of the bundle.
LEMMA RestoreEnds ==
  ASSUME Safe, SourceHeld, RestoreJournal
  PROVE  [Abstract!Next]_(Abstract!vars)
<1>1. /\ pc = "restore journal" /\ journalFile' = src.journal
      /\ mixed' = src.mixed /\ acked' = acked \cap src.ledger.recs
      /\ UNCHANGED <<snapshotFile, backups>>
  BY Zenon DEF RestoreJournal, Goto, ReplaceJournal
<1>2. /\ src \in Bundles /\ WholeBundle(src) /\ mixed /\ src \in backups
      /\ ValidCommittedState(src.snapshot, src.ledger.recs)
      /\ snapshotFile = src.snapshot
  BY Zenon, <1>1 DEF Safe, RestoreMatches, RestoreSteps, SourceHeld, TypeOK, ControlTyped
<1>3. CASE src.mixed
  BY Zenon, <1>1, <1>2, <1>3 DEF Abstract!vars, ToldCommitted, ToldPromised, ToldExported
<1>4. CASE ~src.mixed
  <2>1. Outcome(snapshotFile, journalFile)' = src.ledger.recs
    BY Zenon, <1>1, <1>2, <1>4, BundleHistory
  <2>2. src.mixed = FALSE
    BY Zenon, <1>2, <1>4 DEF Bundles
  <2> DEFINE s == Told(src.ledger.recs)
  <2>3. ToldCommitted' = s /\ ToldPromised' \in SUBSET s
    BY Zenon, <1>1, <2>1, <2>2 DEF Told, ToldCommitted, ToldPromised
  <2>4. Abstract!FinishReplace(s)
    BY Zenon, <1>1, <1>2, <2>2, <2>3 DEF ToldExported, Abstract!FinishReplace
  <2>5. s \in ToldExported
    BY Zenon, <1>2, <1>4 DEF ToldExported
  <2>. QED
    BY Zenon, <2>4, <2>5 DEF Abstract!Next
<1>. QED
  BY Zenon, <1>3, <1>4

\* The appends and the checkpoint change the journal, and not what it commits.
LEMMA JournalQuiet ==
  ASSUME Safe, Safe', WriteIntent \/ WriteCommit \/ WriteTerminal \/ ReplaceByCheckpoint
  PROVE  UNCHANGED Abstract!vars
<1>1. UNCHANGED <<mixed, acked, backups>>
  BY Zenon DEF WriteIntent, WriteCommit, WriteTerminal, ReplaceByCheckpoint, callers
<1>2. SUFFICES ASSUME ~mixed
               PROVE  Outcome(snapshotFile, journalFile)' = Outcome(snapshotFile, journalFile)
  BY Zenon, <1>1, QuietStep
<1>3. CASE WriteIntent \/ ReplaceByCheckpoint
  <2>1. /\ pc \in {"intent", "compact"} /\ pc' \in {"intent sync", "compact sync"}
        /\ ledger' = ledger
    BY Zenon, <1>3 DEF WriteIntent, ReplaceByCheckpoint, Goto, memory
  <2>2. (NotPublished => CommitsLedger)'
    BY OutcomeBefore, PTL
  <2>3. NotPublished /\ NotPublished'
    BY Zenon, <1>1, <1>2, <2>1 DEF NotPublished
  <2>. QED
    BY Zenon, <2>1, <2>2, <2>3, OutcomeBefore DEF CommitsLedger
<1>4. CASE WriteCommit
  <2>1. pc = "commit" /\ pc' = "commit sync" /\ UNCHANGED <<ledger, cur>>
    BY Zenon, <1>4 DEF WriteCommit, Goto, memory
  <2>2. (Published => CommitsCurrent)'
    BY OutcomeAfter, PTL
  <2>3. Published /\ Published'
    BY Zenon, <1>1, <1>2, <2>1 DEF Published
  <2>. QED
    BY Zenon, <2>1, <2>2, <2>3, OutcomeAfter DEF CommitsCurrent
<1>5. CASE WriteTerminal
  BY Zenon, <1>2, <1>5, WriteTerminalSafe DEF Safe
<1>. QED
  BY Zenon, <1>3, <1>4, <1>5

\* Every other step leaves the snapshot file, the journal and the callers alone.
LEMMA OtherQuiet ==
  ASSUME \/ \E r \in Requests : Execute(r)
         \/ SyncIntent \/ SyncSnapshot \/ SyncCommit \/ PublishLedger
         \/ Compact \/ FinishCompaction
         \/ \E b \in backups, allow_rollback \in BOOLEAN : RestoreBackup(b, allow_rollback)
         \/ RestoreLedger \/ SyncRestore \/ FinishRestore
         \/ Reopen \/ TruncateTail \/ SyncTail \/ SyncTerminal
         \/ RebuildLedger \/ FinishRecovery \/ DropFenced
         \/ Kill \/ IoError \/ UNCHANGED vars
  PROVE  UNCHANGED Abstract!vars
<1>1. UNCHANGED <<mixed, acked, backups>>
  BY Zenon DEF Execute, SyncIntent, SyncSnapshot, SyncCommit, PublishLedger, Compact,
     FinishCompaction, RestoreBackup, RestoreLedger, SyncRestore, FinishRestore, Reopen,
     TruncateTail, SyncTail, SyncTerminal, RebuildLedger, FinishRecovery, DropFenced,
     Kill, IoError, Fault, callers, vars
<1>2. UNCHANGED <<snapshotFile, journalFile>>
  BY Zenon DEF Execute, SyncIntent, SyncSnapshot, SyncCommit, PublishLedger, Compact,
     FinishCompaction, RestoreBackup, RestoreLedger, SyncRestore, FinishRestore, Reopen,
     TruncateTail, SyncTail, SyncTerminal, RebuildLedger, FinishRecovery, DropFenced,
     Kill, IoError, CutWrite, JournalSync, DirectorySync, ReplaceLedger, files, vars
<1>. QED
  BY Zenon, <1>1, <1>2, QuietStep

\* The durable service is the request store of its callers as long as the machine
\* keeps its power: a request commits once, at the rename of its snapshot, in the
\* next generation; an answer is never about anything else; and only a restore
\* replaces the committed set, by one that was exported.
THEOREM StoreImplemented ==
  ASSUME "power" \notin Faults
  PROVE  Spec => Abstract!Spec
<1>1. Init => Abstract!Init
  BY DEF Init, Abstract!Init, ToldCommitted, ToldPromised, ToldExported, Told,
         Outcome, Committed, PublishedPending, Pending
<1>2. Safe /\ Safe' /\ Serving /\ [Next]_vars => [Abstract!Next]_(Abstract!vars)
  <2> SUFFICES ASSUME Safe, Safe', Serving, [Next]_vars PROVE [Abstract!Next]_(Abstract!vars)
    BY Zenon
  <2>1. CASE Mutate
    BY Zenon, <2>1, PublishCommits, AnswerPromises, JournalQuiet, OtherQuiet DEF Mutate
  <2>2. CASE Maintain
    BY Zenon, <2>2, ExportExports, RestoreBegins, RestoreEnds, JournalQuiet, OtherQuiet
    DEF Maintain, Serving
  <2>3. CASE Recover
    BY Zenon, <2>3, JournalQuiet, OtherQuiet DEF Recover
  <2>4. CASE \E m \in ledger : Reconcile(m)
    BY Zenon, <2>4, AnswerPromises
  <2>5. CASE Kill \/ IoError \/ UNCHANGED vars
    BY Zenon, <2>5, OtherQuiet
  <2>6. ~PowerCut
    BY Zenon DEF PowerCut, Fault
  <2>. QED
    BY Zenon, <2>1, <2>2, <2>3, <2>4, <2>5, <2>6 DEF Next
<1>. QED
  BY <1>1, <1>2, Safety, ServingHolds, PTL DEF Spec, Abstract!Spec

\* Reads, Aborted answers and published effects agree with the history that a
\* reopen would find (execute, reconcile, get and list).
THEOREM AnswersAreStable ==
  ASSUME "power" \notin Faults
  PROVE  Spec => []AnswersStable
<1>1. ASSUME Safe, Serving PROVE AbortedHasNoEffect
  <2> SUFFICES ASSUME pc = "idle", ~unresolved, ~mixed
               PROVE  aborted \cap Outcome(snapshotFile, journalFile) = {}
    BY Zenon DEF AbortedHasNoEffect
  <2>. QED
    BY Zenon, <1>1, OutcomeBefore DEF Serving, AbortedApart, NotPublished, CommitsLedger
<1>2. Safe /\ Serving /\ ServedStateIsStable /\ NoAppendBehindTornTail => AnswersStable
  BY Zenon, <1>1 DEF AnswersStable, Safe
<1>. QED
  BY <1>2, Safety, ServingHolds, ServesStable, PTL
=============================================================================
