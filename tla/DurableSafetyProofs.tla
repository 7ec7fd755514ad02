------------------------ MODULE DurableSafetyProofs -------------------------
(***************************************************************************)
(* DurableInvariant!Safe is inductive as long as the machine keeps its     *)
(* power, and implies the safety properties of DurableService: wherever    *)
(* kills and I/O errors fall, the files can be reopened, acknowledged      *)
(* mutations survive, and the contents are those of the committed ones.    *)
(***************************************************************************)
EXTENDS DurableHistoryProofs

-----------------------------------------------------------------------------
(***************************************************************************)
(* put and delete.                                                         *)
(***************************************************************************)

\* execute() up to the first append: it has looked at a settled store, found the
\* key new and room for two records.
LEMMA ExecuteSafe ==
  ASSUME Safe, TypeOK', NEW r \in Requests, Execute(r)
  PROVE  Safe'
<1> USE DEF Safe
<1>1. FilesAgree' /\ PublishedEffects' /\ CallersAgree'
  BY Zenon, FilesKept, CallersKept DEF Execute, files, callers
<1>2. RestoreMatches' /\ Fenced'
  BY Zenon, RestoreKept DEF Execute, Goto, callers, RestoreSteps, Fenced, RecoverySteps, MutationSteps
<1>3. journal_sequence = Len(journalFile) /\ Len(journalFile) \in Nat
  BY DEF Execute, Goto, Admissible, SequenceMatches, TypeOK, FilesTyped
<1>4. SequenceMatches'
  BY Zenon, <1>3 DEF Execute, Goto, files, SequenceMatches
<1>5. RoomForTerminal'
  BY Zenon, <1>3 DEF Execute, Goto, Admissible, files, RoomForTerminal, Pending
<1>6. ASSUME ~mixed' PROVE MutationMatches'
  <2> DEFINE n == Len(journalFile)
             C == Committed(journalFile, n)
             g == CommittedGeneration(journalFile, n)
  <2>1. ~mixed /\ Settled
    BY Zenon, <1>6 DEF Execute, Goto, Admissible, callers, MemoryAgrees
  <2>2. Settled' /\ UNCHANGED journalFile /\ pc' = "intent"
    BY Zenon, <2>1 DEF Execute, Goto, Settled, files, Pending
  <2>3. g \in Nat
    BY <1>3, GenerationType DEF TypeOK, FilesTyped
  <2>4. cur' = Marker(r, g + 1, n + 1)
    BY Zenon, <1>3, <2>1 DEF Execute, Settled
  <2>5. cur'.req = r
    BY Zenon, <2>4 DEF Marker
  <2>6. \A m \in C : m.req.key # r.key
    BY Zenon, <2>1 DEF Execute, Admissible, Settled
  <2>7. g + 1 <= MaxRetained
    <3>1. ValidGenerations(C, g)
      BY Zenon, <2>1, HistoryParts DEF FilesAgree
    <3>2. Cardinality(C) = g
      BY Zenon, <2>3, <3>1, GenerationsCounted
    <3>3. Cardinality(C) < MaxRetained
      BY Zenon, <2>1 DEF Execute, Admissible, Settled
    <3>. QED
      BY <2>3, <3>2, <3>3, BoundsAssumption
  <2>. QED
    BY Zenon, <2>2, <2>4, <2>5, <2>6, <2>7 DEF MutationMatches
<1>7. MemoryAgrees'
  BY Zenon, <1>6, MemoryOfMutation DEF Execute, Goto, MutationSteps
<1>. QED
  BY Zenon, <1>1, <1>2, <1>4, <1>5, <1>7

\* The Intent appended: the history has one open intent, which is cur.
LEMMA WriteIntentSafe ==
  ASSUME Safe, TypeOK', WriteIntent
  PROVE  Safe'
<1> DEFINE j == journalFile
           n == Len(j)
           C == Committed(j, n)
           g == CommittedGeneration(j, n)
           k == journalFile'
<1>0. j \in Seq(Records) /\ n \in Nat /\ snapshotFile \in Snapshots /\ ledgerFile \in Ledgers
  BY DEF Safe, TypeOK, FilesTyped
<1>1. pc = "intent" /\ pc' = "intent sync" /\ journal_sequence = n
  BY Zenon DEF Safe, WriteIntent, Goto, SequenceMatches
<1>2. cur \in Markers
  BY Zenon, <1>1 DEF Safe, TypeOK, ControlTyped, MutationSteps
<1>3. PICK e \in Records : e = Record("Intent", n + 1, cur)
  BY <1>0, <1>2, RecordType
<1>4. /\ k = Append(j, e)
      /\ UNCHANGED <<snapshotFile, tornTail, ledgerFile, mixed, acked, backups,
                     snapshot, ledger, journal_sequence, unresolved, cur>>
  BY Zenon, <1>1, <1>3 DEF WriteIntent, JournalWrite, memory, callers
<1>5. e.type = "Intent" /\ e.seq = n + 1 /\ e.m = cur
  BY Zenon, <1>3 DEF Record
<1>6. Extended(k, j, e)
  BY Zenon, <1>0, <1>4, AppendExtends
<1>7. Len(k) = n + 1 /\ k[Len(k)] = e /\ Pending(k)
  BY <1>0, <1>5, <1>6 DEF Extended, Pending
<1>8. RestoreMatches' /\ Fenced'
  BY Zenon, <1>1, <1>4, RestoreKept
  DEF Safe, RestoreSteps, Fenced, RecoverySteps, MutationSteps
<1>9. RoomForTerminal'
  <2>1. n + 2 <= JournalLimit
    BY Zenon, <1>1 DEF Safe, RoomForTerminal
  <2>2. n + 1 < JournalLimit
    BY <1>0, <2>1, BoundsAssumption
  <2>3. Len(journalFile') < JournalLimit
    BY Zenon, <1>7, <2>2
  <2>. QED
    BY Zenon, <1>1, <2>3 DEF RoomForTerminal
<1>10. SequenceMatches'
  BY Zenon, <1>1, <1>4, <1>7 DEF SequenceMatches
<1>11. ASSUME ~mixed
       PROVE  /\ History(snapshotFile, k, ledgerFile)
              /\ Committed(k, Len(k)) = C
              /\ CommittedGeneration(k, Len(k)) = g
              /\ Outcome(snapshotFile, k) = Outcome(snapshotFile, j)
              /\ Settled
  <2>1. /\ Settled /\ cur = Marker(cur.req, g + 1, n + 1) /\ g + 1 <= MaxRetained
        /\ \A m \in C : m.req.key # cur.req.key
    BY Zenon, <1>1, <1>11 DEF Safe, MemoryAgrees, MutationMatches
  <2>2. cur.gen = g + 1 /\ cur.seq = n + 1
    BY <2>1 DEF Marker
  <2>3. ~Pending(j) /\ ledgerFile.gen = g
    BY Zenon, <2>1 DEF Settled
  <2>4. History(snapshotFile, j, ledgerFile)
    BY Zenon, <1>11 DEF Safe, FilesAgree
  <2>. QED
    BY Zenon, <1>0, <1>2, <1>5, <1>6, <1>7, <2>1, <2>2, <2>3, <2>4, HistoryIntent
<1>12. FilesAgree' /\ PublishedEffects' /\ CallersAgree'
  BY Zenon, <1>4, <1>11 DEF Safe, FilesAgree, PublishedEffects, CallersAgree
<1>13. ASSUME ~mixed' PROVE MutationMatches'
  <2>1. ~mixed
    BY Zenon, <1>4, <1>13
  <2>2. Open'
    BY Zenon, <1>4, <1>5, <1>7, <1>11, <2>1 DEF Open, Settled
  <2>3. /\ snapshot' = snapshotFile' /\ snapshot'.gen = g /\ ledger' = C
        /\ ledgerFile' = [gen |-> g, recs |-> ledger']
    BY Zenon, <1>4, <1>11, <2>1 DEF Settled
  <2>. QED
    BY Zenon, <1>1, <1>11, <2>1, <2>2, <2>3 DEF MutationMatches
<1>14. MemoryAgrees'
  BY Zenon, <1>1, <1>13, MemoryOfMutation DEF MutationSteps
<1>. QED
  BY Zenon, <1>8, <1>9, <1>10, <1>12, <1>14 DEF Safe

\* The Intent synced: only the record count moves.
LEMMA SyncIntentSafe ==
  ASSUME Safe, TypeOK', SyncIntent
  PROVE  Safe'
<1>1. /\ pc = "intent sync" /\ pc' = "snapshot"
      /\ UNCHANGED <<snapshotFile, journalFile, tornTail, ledgerFile, mixed, acked, backups,
                     snapshot, ledger, unresolved, cur>>
      /\ journal_sequence' = journal_sequence + 1
  BY Zenon DEF SyncIntent, Goto, JournalSync, files, callers
<1>2. FilesAgree' /\ PublishedEffects' /\ CallersAgree'
  BY Zenon, <1>1, FilesKept, CallersKept DEF Safe
<1>3. RestoreMatches' /\ Fenced' /\ RoomForTerminal'
  BY Zenon, <1>1, RestoreKept, RoomKept
  DEF Safe, RestoreSteps, Fenced, RecoverySteps, MutationSteps
<1>4. SequenceMatches'
  BY Zenon, <1>1 DEF Safe, SequenceMatches
<1>5. ASSUME ~mixed' PROVE MutationMatches'
  <2>1. ~mixed /\ MutationMatches
    BY Zenon, <1>1, <1>5 DEF Safe, MemoryAgrees
  <2>. QED
    BY Zenon, <1>1, <2>1 DEF MutationMatches, Open, Pending
<1>6. MemoryAgrees'
  BY Zenon, <1>1, <1>5, MemoryOfMutation DEF MutationSteps
<1>. QED
  BY Zenon, <1>2, <1>3, <1>4, <1>6 DEF Safe

\* The snapshot of the open intent has the effects of one more mutation.
LEMMA PublishSnapshotSafe ==
  ASSUME Safe, TypeOK', PublishSnapshot
  PROVE  Safe'
<1> DEFINE j == journalFile
           n == Len(j)
           C == Committed(j, n)
           g == CommittedGeneration(j, n)
           t == snapshotFile'
<1>0. j \in Seq(Records) /\ n \in Nat /\ t \in Snapshots /\ ledgerFile \in Ledgers
  BY DEF Safe, TypeOK, FilesTyped
<1>1. /\ pc = "snapshot" /\ pc' = "snapshot sync"
      /\ t = Apply(snapshot, cur)
      /\ UNCHANGED <<journalFile, tornTail, ledgerFile, mixed, acked, backups,
                     snapshot, ledger, journal_sequence, unresolved, cur>>
  BY Zenon DEF PublishSnapshot, Goto, ReplaceSnapshot, memory, callers
<1>2. t.last = cur /\ t.gen = cur.gen
      /\ t.entries = [snapshot.entries EXCEPT ![cur.req.res] = cur.req.val]
  BY Zenon, <1>1 DEF Apply
<1>3. RestoreMatches' /\ Fenced' /\ RoomForTerminal'
  BY Zenon, <1>1, RestoreKept, RoomKept
  DEF Safe, RestoreSteps, Fenced, RecoverySteps, MutationSteps
<1>4. SequenceMatches' /\ CallersAgree'
  BY Zenon, <1>1, CallersKept DEF Safe, SequenceMatches
<1>5. ASSUME ~mixed
      PROVE  /\ History(t, j, ledgerFile)
             /\ Outcome(t, j) = C \cup {cur}
             /\ t.entries = Effect(C \cup {cur})
  <2>1. /\ Open /\ snapshot = snapshotFile /\ snapshot.gen = g /\ ledger = C
        /\ ledgerFile = [gen |-> g, recs |-> ledger]
    BY Zenon, <1>1, <1>5 DEF Safe, MemoryAgrees, MutationMatches
  <2>2. Pending(j) /\ j[n].m = cur
    BY Zenon, <2>1 DEF Open
  <2>3. History(snapshotFile, j, ledgerFile)
    BY Zenon, <1>5 DEF Safe, FilesAgree
  <2>4. History(t, j, ledgerFile) /\ PublishedPending(t, j)
    BY Zenon, <1>0, <1>2, <2>2, <2>3, HistoryPublish
  <2>5. cur \in Markers /\ cur.gen = g + 1
    <3>1. n \in 1..n
      BY <1>0, <2>2 DEF Pending
    <3>2. ValidRecord(j, n, ledgerFile.recs)
      BY Zenon, <2>3, <3>1, HistoryParts
    <3>. QED
      BY Zenon, <1>0, <2>2, <3>2, PendingReplay
  <2>6. g \in Nat /\ C \subseteq Markers
    BY <1>0, GenerationType, CommittedType
  <2>7. \A x \in C : x.gen < cur.gen
    <3>1. ValidGenerations(C, g)
      BY Zenon, <2>3, HistoryParts
    <3>2. \A x \in C : x.gen \in 1..g
      BY Zenon, <3>1 DEF ValidGenerations
    <3>. QED
      BY <2>5, <2>6, <3>2
  <2>8. cur.req.res \in Resources
    BY Zenon, <2>5, MarkerType, RequestsAssumption
  <2>9. Effect(C \cup {cur}) = [Effect(C) EXCEPT ![cur.req.res] = cur.req.val]
    BY Zenon, <2>5, <2>6, <2>7, <2>8, EffectOfNewest
  <2>10. Outcome(snapshotFile, j) = C
    BY <2>1, <2>2, <2>5, <2>6 DEF Outcome, PublishedPending
  <2>11. snapshot.entries = Effect(C)
    BY Zenon, <1>5, <2>1, <2>10 DEF Safe, PublishedEffects
  <2>12. Outcome(t, j) = C \cup {cur}
    BY Zenon, <2>2, <2>4 DEF Outcome
  <2>. QED
    BY Zenon, <1>2, <2>4, <2>9, <2>11, <2>12
<1>6. FilesAgree' /\ PublishedEffects'
  BY Zenon, <1>1, <1>5 DEF FilesAgree, PublishedEffects
<1>7. ASSUME ~mixed' PROVE MutationMatches'
  <2>1. ~mixed /\ MutationMatches
    BY Zenon, <1>1, <1>7 DEF Safe, MemoryAgrees
  <2>2. Open'
    BY Zenon, <1>1, <2>1 DEF MutationMatches, Open, Pending
  <2>. QED
    BY Zenon, <1>1, <1>2, <2>1, <2>2 DEF MutationMatches
<1>8. MemoryAgrees'
  BY Zenon, <1>1, <1>7, MemoryOfMutation DEF MutationSteps
<1>. QED
  BY Zenon, <1>3, <1>4, <1>6, <1>8 DEF Safe

\* The snapshot synced: memory takes over what the file holds.
LEMMA SyncSnapshotSafe ==
  ASSUME Safe, TypeOK', SyncSnapshot
  PROVE  Safe'
<1>1. /\ pc = "snapshot sync" /\ pc' = "commit"
      /\ UNCHANGED <<snapshotFile, journalFile, tornTail, ledgerFile, mixed, acked, backups,
                     ledger, journal_sequence, unresolved, cur>>
      /\ snapshot' = Apply(snapshot, cur)
  BY Zenon DEF SyncSnapshot, Goto, DirectorySync, files, callers
<1>2. FilesAgree' /\ PublishedEffects' /\ CallersAgree'
  BY Zenon, <1>1, FilesKept, CallersKept DEF Safe
<1>3. RestoreMatches' /\ Fenced' /\ RoomForTerminal'
  BY Zenon, <1>1, RestoreKept, RoomKept
  DEF Safe, RestoreSteps, Fenced, RecoverySteps, MutationSteps
<1>4. SequenceMatches'
  BY Zenon, <1>1 DEF Safe, SequenceMatches
<1>5. ASSUME ~mixed' PROVE MutationMatches'
  <2>1. ~mixed /\ MutationMatches
    BY Zenon, <1>1, <1>5 DEF Safe, MemoryAgrees
  <2>2. Open'
    BY Zenon, <1>1, <2>1 DEF MutationMatches, Open, Pending
  <2>. QED
    BY Zenon, <1>1, <2>1, <2>2 DEF MutationMatches
<1>6. MemoryAgrees'
  BY Zenon, <1>1, <1>5, MemoryOfMutation DEF MutationSteps
<1>. QED
  BY Zenon, <1>2, <1>3, <1>4, <1>6 DEF Safe

\* The Commit appended: the open intent is committed, the ledger one behind.
LEMMA WriteCommitSafe ==
  ASSUME Safe, TypeOK', WriteCommit
  PROVE  Safe'
<1> DEFINE j == journalFile
           n == Len(j)
           C == Committed(j, n)
           g == CommittedGeneration(j, n)
           k == journalFile'
<1>0. j \in Seq(Records) /\ n \in Nat /\ snapshotFile \in Snapshots /\ ledgerFile \in Ledgers
  BY DEF Safe, TypeOK, FilesTyped
<1>1. pc = "commit" /\ pc' = "commit sync" /\ journal_sequence = n
  BY Zenon DEF Safe, WriteCommit, Goto, SequenceMatches
<1>2. cur \in Markers
  BY Zenon, <1>1 DEF Safe, TypeOK, ControlTyped, MutationSteps
<1>3. PICK e \in Records : e = Record("Commit", n + 1, cur)
  BY <1>0, <1>2, RecordType
<1>4. /\ k = Append(j, e)
      /\ UNCHANGED <<snapshotFile, tornTail, ledgerFile, mixed, acked, backups,
                     snapshot, ledger, journal_sequence, unresolved, cur>>
  BY Zenon, <1>1, <1>3 DEF WriteCommit, JournalWrite, memory, callers
<1>5. e.type = "Commit" /\ e.seq = n + 1 /\ e.m = cur
  BY Zenon, <1>3 DEF Record
<1>6. Extended(k, j, e)
  BY Zenon, <1>0, <1>4, AppendExtends
<1>7. Len(k) = n + 1 /\ k[Len(k)] = e /\ ~Pending(k)
  BY Zenon, <1>0, <1>5, <1>6 DEF Extended, Pending
<1>8. RestoreMatches' /\ Fenced' /\ RoomForTerminal'
  BY Zenon, <1>1, <1>4, <1>7, RestoreKept
  DEF Safe, RestoreSteps, Fenced, RecoverySteps, MutationSteps, RoomForTerminal
<1>9. SequenceMatches'
  BY Zenon, <1>1, <1>4, <1>7 DEF SequenceMatches
<1>10. ASSUME ~mixed
       PROVE  /\ Open /\ ledger = C /\ snapshotFile = snapshot
              /\ snapshot.last = cur /\ snapshot.gen = cur.gen
              /\ ledgerFile = [gen |-> g, recs |-> ledger]
              /\ History(snapshotFile, k, ledgerFile)
              /\ Committed(k, Len(k)) = C \cup {cur}
              /\ CommittedGeneration(k, Len(k)) = snapshot.gen
              /\ g = snapshot.gen - 1
              /\ Outcome(snapshotFile, k) = Outcome(snapshotFile, j)
  <2>1. /\ Open /\ snapshotFile = snapshot
        /\ snapshotFile.last = cur /\ snapshotFile.gen = cur.gen /\ ledger = C
        /\ ledgerFile = [gen |-> g, recs |-> ledger]
    BY Zenon, <1>1, <1>10 DEF Safe, MemoryAgrees, MutationMatches
  <2>2. Pending(j) /\ j[n].m = cur
    BY Zenon, <2>1 DEF Open
  <2>3. History(snapshotFile, j, ledgerFile)
    BY Zenon, <1>10 DEF Safe, FilesAgree
  <2>4. /\ History(snapshotFile, k, ledgerFile)
        /\ Committed(k, Len(k)) = C \cup (IF e.type = "Commit" THEN {e.m} ELSE {})
        /\ CommittedGeneration(k, Len(k)) = snapshotFile.gen
        /\ e.type = "Commit" => ledgerFile.gen = snapshotFile.gen - 1
        /\ Outcome(snapshotFile, k) = Outcome(snapshotFile, j)
    BY <1>0, <1>5, <1>6, <1>7, <2>1, <2>2, <2>3, HistoryTerminal
  <2>. QED
    BY Zenon, <1>5, <2>1, <2>4
<1>11. FilesAgree' /\ PublishedEffects' /\ CallersAgree'
  BY Zenon, <1>4, <1>10 DEF Safe, FilesAgree, PublishedEffects, CallersAgree
<1>12. ASSUME ~mixed' PROVE MutationMatches'
  <2>1. ~mixed
    BY Zenon, <1>4, <1>12
  <2>2. ~tornTail
    BY Zenon, <1>10, <2>1 DEF Open
  <2>. QED
    BY Zenon, <1>1, <1>4, <1>7, <1>10, <2>1, <2>2 DEF MutationMatches
<1>13. MemoryAgrees'
  BY Zenon, <1>1, <1>12, MemoryOfMutation DEF MutationSteps
<1>. QED
  BY Zenon, <1>8, <1>9, <1>11, <1>13 DEF Safe

\* The Commit synced: only the record count moves.
LEMMA SyncCommitSafe ==
  ASSUME Safe, TypeOK', SyncCommit
  PROVE  Safe'
<1>1. /\ pc = "commit sync" /\ pc' = "ledger"
      /\ UNCHANGED <<snapshotFile, journalFile, tornTail, ledgerFile, mixed, acked, backups,
                     snapshot, ledger, unresolved, cur>>
      /\ journal_sequence' = journal_sequence + 1
  BY Zenon DEF SyncCommit, Goto, JournalSync, files, callers
<1>2. FilesAgree' /\ PublishedEffects' /\ CallersAgree'
  BY Zenon, <1>1, FilesKept, CallersKept DEF Safe
<1>3. RestoreMatches' /\ Fenced' /\ RoomForTerminal'
  BY Zenon, <1>1, RestoreKept, RoomKept
  DEF Safe, RestoreSteps, Fenced, RecoverySteps, MutationSteps
<1>4. SequenceMatches'
  BY Zenon, <1>1 DEF Safe, SequenceMatches
<1>5. ASSUME ~mixed' PROVE MutationMatches'
  <2>1. ~mixed /\ MutationMatches
    BY Zenon, <1>1, <1>5 DEF Safe, MemoryAgrees
  <2>. QED
    BY Zenon, <1>1, <2>1 DEF MutationMatches, Pending
<1>6. MemoryAgrees'
  BY Zenon, <1>1, <1>5, MemoryOfMutation DEF MutationSteps
<1>. QED
  BY Zenon, <1>2, <1>3, <1>4, <1>6 DEF Safe

\* The ledger replaced: it has caught up with the journal.
LEMMA PublishLedgerSafe ==
  ASSUME Safe, TypeOK', PublishLedger
  PROVE  Safe'
<1> DEFINE j == journalFile
           n == Len(j)
           C == Committed(j, n)
           g == CommittedGeneration(j, n)
<1>0. j \in Seq(Records) /\ snapshotFile \in Snapshots /\ ledgerFile \in Ledgers
  BY Zenon DEF Safe, TypeOK, FilesTyped
<1>1. /\ pc = "ledger" /\ pc' = "ledger sync"
      /\ ledgerFile' = [gen |-> cur.gen, recs |-> ledger \cup {cur}]
      /\ UNCHANGED <<snapshotFile, journalFile, tornTail, mixed, acked, backups,
                     snapshot, ledger, journal_sequence, unresolved, cur>>
  BY Zenon DEF PublishLedger, Goto, ReplaceLedger, memory, callers
<1>2. RestoreMatches' /\ Fenced' /\ RoomForTerminal'
  BY Zenon, <1>1, RestoreKept, RoomKept
  DEF Safe, RestoreSteps, Fenced, RecoverySteps, MutationSteps
<1>3. SequenceMatches' /\ CallersAgree'
  BY Zenon, <1>1, CallersKept DEF Safe, SequenceMatches
<1>4. ASSUME ~mixed
      PROVE  /\ ~Pending(j) /\ ~tornTail /\ snapshotFile = snapshot /\ snapshot.gen = g
             /\ C = ledger \cup {cur} /\ ledgerFile' = [gen |-> g, recs |-> C]
             /\ History(snapshotFile, j, ledgerFile')
  <2>1. /\ ~Pending(j) /\ ~tornTail /\ snapshotFile = snapshot /\ snapshot.gen = g
        /\ cur.gen = g /\ C = ledger \cup {cur}
    BY Zenon, <1>1, <1>4 DEF Safe, MemoryAgrees, MutationMatches
  <2>2. ledgerFile' = [gen |-> g, recs |-> C]
    BY Zenon, <1>1, <2>1
  <2>3. History(snapshotFile, j, ledgerFile)
    BY Zenon, <1>4 DEF Safe, FilesAgree
  <2>. QED
    BY Zenon, <1>0, <2>1, <2>2, <2>3, HistoryLedger
<1>5. FilesAgree' /\ PublishedEffects'
  BY Zenon, <1>1, <1>4 DEF Safe, FilesAgree, PublishedEffects
<1>6. ASSUME ~mixed' PROVE MutationMatches'
  BY Zenon, <1>1, <1>4, <1>6 DEF MutationMatches
<1>7. MemoryAgrees'
  BY Zenon, <1>1, <1>6, MemoryOfMutation DEF MutationSteps
<1>. QED
  BY Zenon, <1>2, <1>3, <1>5, <1>7 DEF Safe

\* The call returns: the store is settled and the caller is owed a committed
\* marker.
LEMMA AcknowledgeSafe ==
  ASSUME Safe, TypeOK', Acknowledge
  PROVE  Safe'
<1>1. /\ pc = "ledger sync" /\ pc' = "idle" /\ unresolved' = FALSE
      /\ ledger' = ledger \cup {cur} /\ acked' = acked \cup {cur}
      /\ UNCHANGED <<snapshotFile, journalFile, tornTail, ledgerFile, mixed, backups,
                     snapshot, journal_sequence>>
  BY Zenon DEF Acknowledge, Goto, DirectorySync, files
<1>2. FilesAgree' /\ PublishedEffects'
  BY Zenon, <1>1, FilesKept DEF Safe
<1>3. RestoreMatches' /\ Fenced' /\ RoomForTerminal'
  BY Zenon, <1>1, RestoreKept, RoomKept
  DEF Safe, RestoreSteps, Fenced, RecoverySteps, MutationSteps
<1>4. SequenceMatches'
  BY Zenon, <1>1 DEF Safe, SequenceMatches
<1>5. ASSUME ~mixed'
      PROVE  Settled' /\ acked' \subseteq Committed(journalFile, Len(journalFile))
  <2>1. ~mixed /\ MutationMatches /\ acked \subseteq Committed(journalFile, Len(journalFile))
    BY Zenon, <1>1, <1>5 DEF Safe, MemoryAgrees, CallersAgree
  <2>2. /\ ~Pending(journalFile) /\ ~tornTail
        /\ snapshotFile = snapshot
        /\ snapshot.gen = CommittedGeneration(journalFile, Len(journalFile))
        /\ Committed(journalFile, Len(journalFile)) = ledger \cup {cur}
        /\ ledgerFile = [gen |-> snapshot.gen, recs |-> ledger \cup {cur}]
    BY Zenon, <1>1, <2>1 DEF MutationMatches
  <2>. QED
    BY Zenon, <1>1, <2>1, <2>2 DEF Settled
<1>6. CallersAgree'
  BY Zenon, <1>1, <1>5 DEF CallersAgree
<1>7. MemoryAgrees'
  BY Zenon, <1>1, <1>5, MemoryOfSettled
<1>. QED
  BY Zenon, <1>2, <1>3, <1>4, <1>6, <1>7 DEF Safe

\* What a caller is told is in the ledger, and the ledger is in the journal.
LEMMA ReconcileSafe ==
  ASSUME Safe, TypeOK', NEW m, Reconcile(m)
  PROVE  Safe'
<1>1. /\ pc = "idle" /\ ~unresolved
      /\ UNCHANGED <<snapshotFile, journalFile, tornTail, ledgerFile, mixed, backups,
                     snapshot, ledger, journal_sequence, unresolved, pc>>
      /\ acked' \subseteq acked \cup ledger
  BY Zenon DEF Reconcile, files, memory, control
<1>2. FilesAgree' /\ PublishedEffects'
  BY Zenon, <1>1, FilesKept DEF Safe
<1>3. RestoreMatches' /\ Fenced' /\ RoomForTerminal'
  BY Zenon, <1>1, RestoreKept, RoomKept
  DEF Safe, RestoreSteps, Fenced, RecoverySteps, MutationSteps
<1>4. SequenceMatches'
  BY Zenon, <1>1 DEF Safe, SequenceMatches
<1>5. ASSUME ~mixed'
      PROVE  Settled' /\ acked' \subseteq Committed(journalFile, Len(journalFile))
  <2>1. ~mixed /\ Settled /\ acked \subseteq Committed(journalFile, Len(journalFile))
    BY Zenon, <1>1, <1>5 DEF Safe, MemoryAgrees, CallersAgree
  <2>. QED
    BY Zenon, <1>1, <2>1 DEF Settled, Pending
<1>6. CallersAgree'
  BY Zenon, <1>1, <1>5 DEF CallersAgree
<1>7. MemoryAgrees'
  BY Zenon, <1>1, <1>5, MemoryOfSettled
<1>. QED
  BY Zenon, <1>2, <1>3, <1>4, <1>6, <1>7 DEF Safe

-----------------------------------------------------------------------------
(***************************************************************************)
(* compact, export_backup and restore_backup.                              *)
(***************************************************************************)
\* The live instance of a settled store has a valid history of its own.
LEMMA SettledHistory ==
  ASSUME TypeOK, Settled, History(snapshotFile, journalFile, ledgerFile)
  PROVE  /\ UniqueKeys(ledger)
         /\ snapshot.gen = 0 => snapshot = EmptySnapshot
         /\ snapshot.gen <= MaxRetained
         /\ Outcome(snapshotFile, journalFile) = ledger
<1>1. snapshot.gen \in Nat
  BY Zenon DEF TypeOK, MemoryTyped, Snapshots
<1>2. UniqueKeys(ledger)
  BY Zenon, HistoryParts DEF Settled
<1>3. snapshot.gen = 0 => snapshot = EmptySnapshot
  BY Zenon, HistoryParts DEF Settled
<1>4. snapshot.gen + (IF Pending(journalFile) THEN 1 ELSE 0) <= MaxRetained
  BY Zenon, HistoryParts DEF Settled
<1>5. snapshot.gen <= MaxRetained
  BY <1>1, <1>4 DEF Settled
<1>6. Outcome(snapshotFile, journalFile) = ledger
  BY Zenon DEF Settled, Outcome, PublishedPending
<1>. QED
  BY Zenon, <1>2, <1>3, <1>5, <1>6

\* compact() up to its replacement: the live state is valid on its own.
LEMMA CompactSafe ==
  ASSUME Safe, TypeOK', Compact
  PROVE  Safe'
<1>1. /\ pc = "idle" /\ ~unresolved /\ pc' = "compact" /\ unresolved' = TRUE
      /\ ValidCommittedState(snapshot, ledger)
      /\ UNCHANGED <<snapshotFile, journalFile, tornTail, ledgerFile, mixed, acked, backups,
                     snapshot, ledger, journal_sequence>>
  BY Zenon DEF Compact, Goto, Maintainable, files, callers
<1>2. FilesAgree' /\ PublishedEffects' /\ CallersAgree'
  BY Zenon, <1>1, FilesKept, CallersKept DEF Safe
<1>3. RestoreMatches' /\ Fenced' /\ RoomForTerminal'
  BY Zenon, <1>1, RestoreKept, RoomKept
  DEF Safe, RestoreSteps, Fenced, RecoverySteps, MutationSteps
<1>4. SequenceMatches'
  BY Zenon, <1>1 DEF Safe, SequenceMatches
<1>5. ASSUME ~mixed' PROVE Settled'
  <2>1. Settled
    BY Zenon, <1>1, <1>5 DEF Safe, MemoryAgrees
  <2>. QED
    BY Zenon, <1>1, <2>1 DEF Settled, Pending
<1>6. MemoryAgrees'
  BY Zenon, <1>1, <1>5, MemoryOfSettled
<1>. QED
  BY Zenon, <1>2, <1>3, <1>4, <1>6 DEF Safe

\* A checkpoint stands for the whole ledger.
LEMMA CheckpointSafe ==
  ASSUME Safe, TypeOK', ReplaceByCheckpoint
  PROVE  Safe'
<1> DEFINE k == journalFile'
           C == Committed(journalFile, Len(journalFile))
<1>0. snapshot \in Snapshots /\ ledger \in SUBSET Markers
  BY Zenon DEF Safe, TypeOK, MemoryTyped
<1>1. /\ pc = "compact" /\ pc' = "compact sync" /\ unresolved' = unresolved
      /\ k = <<Checkpoint(snapshot, ledger)>> /\ tornTail' = FALSE
      /\ UNCHANGED <<snapshotFile, ledgerFile, mixed, acked, backups,
                     snapshot, ledger, journal_sequence>>
  BY Zenon DEF ReplaceByCheckpoint, Goto, ReplaceJournal, memory, callers
<1>2. Len(k) = 1 /\ ~Pending(k)
  BY Zenon, <1>1 DEF Pending, Checkpoint
<1>3. RestoreMatches' /\ Fenced' /\ RoomForTerminal' /\ SequenceMatches'
  BY Zenon, <1>1, <1>2, RestoreKept
  DEF Safe, RestoreSteps, Fenced, RecoverySteps, MutationSteps, RoomForTerminal, SequenceMatches
<1>4. ASSUME ~mixed
      PROVE  /\ History(snapshotFile, k, ledgerFile)
             /\ Committed(k, Len(k)) = ledger /\ C = ledger
             /\ CommittedGeneration(k, Len(k)) = snapshot.gen
             /\ Outcome(snapshotFile, k) = Outcome(snapshotFile, journalFile)
             /\ Settled
  <2>1. Settled /\ ValidCommittedState(snapshot, ledger)
    BY Zenon, <1>1, <1>4 DEF Safe, MemoryAgrees
  <2>2. History(snapshotFile, journalFile, ledgerFile)
    BY Zenon, <1>4 DEF Safe, FilesAgree
  <2>3. /\ UniqueKeys(ledger)
        /\ snapshot.gen = 0 => snapshot = EmptySnapshot
        /\ snapshot.gen <= MaxRetained
        /\ Outcome(snapshotFile, journalFile) = ledger
    BY Zenon, <2>1, <2>2, SettledHistory DEF Safe
  <2>4. /\ History(snapshot, k, ledgerFile)
        /\ Committed(k, Len(k)) = ledger
        /\ CommittedGeneration(k, Len(k)) = snapshot.gen
        /\ Outcome(snapshot, k) = ledger
    <3>1. CheckpointOf(k, ledgerFile, snapshot, ledger)
      BY Zenon, <1>1, <1>2, <2>1 DEF CheckpointOf, Settled
    <3>2. StandsAlone(snapshot, ledger)
      BY Zenon, <2>1, <2>3 DEF StandsAlone
    <3>. QED
      BY Zenon, <1>0, <3>1, <3>2, HistoryCheckpoint
  <2>. QED
    BY Zenon, <2>1, <2>3, <2>4 DEF Settled
<1>5. FilesAgree' /\ PublishedEffects' /\ CallersAgree'
  BY Zenon, <1>1, <1>4 DEF Safe, FilesAgree, PublishedEffects, CallersAgree
<1>6. ASSUME ~mixed' PROVE Settled'
  BY Zenon, <1>1, <1>2, <1>4, <1>6 DEF Settled
<1>7. MemoryAgrees'
  BY Zenon, <1>1, <1>6, MemoryOfSettled
<1>. QED
  BY Zenon, <1>3, <1>5, <1>7 DEF Safe

\* The Checkpoint synced: the store is settled with a journal of one record.
LEMMA FinishCompactionSafe ==
  ASSUME Safe, TypeOK', FinishCompaction
  PROVE  Safe'
<1>1. /\ pc = "compact sync" /\ pc' = "idle" /\ unresolved' = FALSE /\ journal_sequence' = 1
      /\ UNCHANGED <<snapshotFile, journalFile, tornTail, ledgerFile, mixed, acked, backups,
                     snapshot, ledger>>
  BY Zenon DEF FinishCompaction, Goto, DirectorySync, files, callers
<1>2. FilesAgree' /\ PublishedEffects' /\ CallersAgree'
  BY Zenon, <1>1, FilesKept, CallersKept DEF Safe
<1>3. RestoreMatches' /\ Fenced' /\ RoomForTerminal'
  BY Zenon, <1>1, RestoreKept, RoomKept
  DEF Safe, RestoreSteps, Fenced, RecoverySteps, MutationSteps
<1>4. SequenceMatches'
  BY Zenon, <1>1 DEF Safe, SequenceMatches
<1>5. ASSUME ~mixed' PROVE Settled'
  <2>1. Settled
    BY Zenon, <1>1, <1>5 DEF Safe, MemoryAgrees
  <2>. QED
    BY Zenon, <1>1, <2>1 DEF Settled, Pending
<1>6. MemoryAgrees'
  BY Zenon, <1>1, <1>5, MemoryOfSettled
<1>. QED
  BY Zenon, <1>2, <1>3, <1>4, <1>6 DEF Safe

\* An instance that serves exports a whole bundle.
LEMMA ExportBackupSafe ==
  ASSUME Safe, TypeOK', ExportBackup
  PROVE  Safe'
<1>1. /\ pc = "idle" /\ ~unresolved /\ backups' = backups \cup {Bundle}
      /\ UNCHANGED <<snapshotFile, journalFile, tornTail, ledgerFile, mixed, acked,
                     snapshot, ledger, journal_sequence, unresolved, pc, src>>
  BY Zenon DEF ExportBackup, Maintainable, files, memory, control
<1>2. FilesAgree' /\ PublishedEffects' /\ CallersAgree'
  BY Zenon, <1>1, FilesKept, CallersKept DEF Safe
<1>3. Fenced' /\ RoomForTerminal' /\ SequenceMatches'
  BY Zenon, <1>1, RoomKept DEF Safe, Fenced, SequenceMatches, RecoverySteps, MutationSteps, RestoreSteps
<1>4. ASSUME ~mixed PROVE Settled
  BY Zenon, <1>1, <1>4 DEF Safe, MemoryAgrees
<1>5. WholeBundle(Bundle)
  <2>1. /\ Bundle.snapshot = snapshot /\ Bundle.ledger.gen = snapshot.gen
        /\ Bundle.ledger.recs = ledger /\ Bundle.journal = <<Checkpoint(snapshot, ledger)>>
        /\ Bundle.mixed = mixed
    BY Zenon DEF Bundle
  <2>2. ASSUME ~mixed
        PROVE  /\ UniqueKeys(ledger)
               /\ snapshot.gen = 0 => snapshot = EmptySnapshot
               /\ snapshot.gen <= MaxRetained
               /\ snapshot.entries = Effect(ledger)
    <3>1. History(snapshotFile, journalFile, ledgerFile) /\ Settled
      BY Zenon, <1>4, <2>2 DEF Safe, FilesAgree
    <3>2. snapshot.entries = Effect(Outcome(snapshotFile, journalFile))
      BY Zenon, <2>2, <3>1 DEF Safe, PublishedEffects, Settled
    <3>. QED
      BY Zenon, <3>1, <3>2, SettledHistory DEF Safe
  <2>. QED
    BY Zenon, <2>1, <2>2 DEF WholeBundle
<1>6. RestoreMatches'
  <2>1. \A b \in backups' : WholeBundle(b)
    BY Zenon, <1>1, <1>5 DEF Safe, RestoreMatches
  <2>. QED
    BY Zenon, <1>1, <2>1 DEF RestoreMatches, RestoreSteps
<1>7. ASSUME ~mixed' PROVE Settled'
  BY Zenon, <1>1, <1>4, <1>7 DEF Settled, Pending
<1>8. MemoryAgrees'
  BY Zenon, <1>1, <1>7, MemoryOfSettled
<1>. QED
  BY Zenon, <1>2, <1>3, <1>6, <1>8 DEF Safe

\* The files of a bundle tell its history.
LEMMA BundleHistory ==
  ASSUME NEW b \in Bundles, WholeBundle(b), ValidCommittedState(b.snapshot, b.ledger.recs)
  PROVE  /\ Len(b.journal) = 1 /\ ~Pending(b.journal)
         /\ ~b.mixed =>
              /\ History(b.snapshot, b.journal, b.ledger)
              /\ Committed(b.journal, Len(b.journal)) = b.ledger.recs
              /\ CommittedGeneration(b.journal, Len(b.journal)) = b.snapshot.gen
              /\ Outcome(b.snapshot, b.journal) = b.ledger.recs
              /\ b.snapshot.entries = Effect(b.ledger.recs)
              /\ b.ledger = [gen |-> b.snapshot.gen, recs |-> b.ledger.recs]
<1>1. b.snapshot \in Snapshots /\ b.ledger \in Ledgers
  BY Zenon DEF Bundles
<1>2. /\ b.ledger.gen = b.snapshot.gen
      /\ b.journal = <<Checkpoint(b.snapshot, b.ledger.recs)>>
  BY Zenon DEF WholeBundle
<1>3. CheckpointOf(b.journal, b.ledger, b.snapshot, b.ledger.recs)
  BY <1>2 DEF CheckpointOf
<1>4. Len(b.journal) = 1 /\ ~Pending(b.journal)
  BY <1>2 DEF Pending, Checkpoint
<1>5. ASSUME ~b.mixed PROVE StandsAlone(b.snapshot, b.ledger.recs)
  BY Zenon, <1>5 DEF WholeBundle, StandsAlone
<1>6. b.ledger = [gen |-> b.snapshot.gen, recs |-> b.ledger.recs]
  BY Zenon, <1>1, <1>2 DEF Ledgers
<1>7. ~b.mixed => b.snapshot.entries = Effect(b.ledger.recs)
  BY Zenon DEF WholeBundle
<1>8. ASSUME ~b.mixed
      PROVE  /\ History(b.snapshot, b.journal, b.ledger)
             /\ Committed(b.journal, Len(b.journal)) = b.ledger.recs
             /\ CommittedGeneration(b.journal, Len(b.journal)) = b.snapshot.gen
             /\ Outcome(b.snapshot, b.journal) = b.ledger.recs
  BY Zenon, <1>1, <1>3, <1>5, <1>8, HistoryCheckpoint
<1>. QED
  BY Zenon, <1>4, <1>6, <1>7, <1>8

\* During a restore only the bundle and the files it has replaced matter.
LEMMA MemoryOfRestore ==
  ASSUME pc' \in RestoreSteps
  PROVE  MemoryAgrees' /\ SequenceMatches'
<1>1. MemoryAgrees'
  BY Zenon, MemoryOfSettled DEF RestoreSteps
<1>2. SequenceMatches'
  BY Zenon DEF SequenceMatches, RestoreSteps
<1>. QED
  BY Zenon, <1>1, <1>2

\* restore_backup() up to its first replacement: nothing has changed yet.
LEMMA RestoreBackupSafe ==
  ASSUME Safe, TypeOK', NEW b \in backups, NEW allow_rollback, RestoreBackup(b, allow_rollback)
  PROVE  Safe'
<1>1. /\ pc = "idle" /\ pc' = "restore snapshot" /\ unresolved' = TRUE /\ src' = b
      /\ ValidCommittedState(b.snapshot, b.ledger.recs)
      /\ UNCHANGED <<snapshotFile, journalFile, tornTail, ledgerFile, mixed, acked, backups>>
  BY Zenon DEF RestoreBackup, Goto, files, callers
<1>2. FilesAgree' /\ PublishedEffects' /\ CallersAgree'
  BY Zenon, <1>1, FilesKept, CallersKept DEF Safe
<1>3. Fenced' /\ RoomForTerminal'
  BY Zenon, <1>1, RoomKept DEF Safe, Fenced, RecoverySteps
<1>4. MemoryAgrees' /\ SequenceMatches'
  BY Zenon, <1>1, MemoryOfRestore DEF RestoreSteps
<1>5. RestoreMatches'
  <2>1. \A c \in backups' : WholeBundle(c)
    BY Zenon, <1>1 DEF Safe, RestoreMatches
  <2>2. WholeBundle(src') /\ ValidCommittedState(src'.snapshot, src'.ledger.recs)
    BY Zenon, <1>1, <2>1
  <2>. QED
    BY Zenon, <1>1, <2>1, <2>2 DEF RestoreMatches
<1>. QED
  BY Zenon, <1>2, <1>3, <1>4, <1>5 DEF Safe

\* With the first replacement the set is mixed, and nothing is claimed of it.
LEMMA RestoreSnapshotSafe ==
  ASSUME Safe, TypeOK', RestoreSnapshot
  PROVE  Safe'
<1>1. /\ pc = "restore snapshot" /\ pc' = "restore snapshot sync" /\ mixed' = TRUE
      /\ snapshotFile' = src.snapshot
      /\ UNCHANGED <<journalFile, src, backups, unresolved>>
  BY Zenon DEF RestoreSnapshot, Goto, ReplaceSnapshot, memory
<1>2. FilesAgree' /\ PublishedEffects' /\ CallersAgree'
  BY Zenon, <1>1 DEF FilesAgree, PublishedEffects, CallersAgree
<1>3. Fenced' /\ RoomForTerminal'
  BY Zenon, <1>1, RoomKept DEF Safe, Fenced, RecoverySteps, RestoreSteps
<1>4. MemoryAgrees' /\ SequenceMatches'
  BY Zenon, <1>1, MemoryOfRestore DEF RestoreSteps
<1>5. RestoreMatches'
  <2>1. /\ \A c \in backups' : WholeBundle(c)
        /\ WholeBundle(src') /\ ValidCommittedState(src'.snapshot, src'.ledger.recs)
    BY Zenon, <1>1 DEF Safe, RestoreMatches, RestoreSteps
  <2>. QED
    BY Zenon, <1>1, <2>1 DEF RestoreMatches
<1>. QED
  BY Zenon, <1>2, <1>3, <1>4, <1>5 DEF Safe

\* The second replacement leaves it mixed.
LEMMA RestoreLedgerSafe ==
  ASSUME Safe, TypeOK', RestoreLedger
  PROVE  Safe'
<1>1. /\ pc = "restore ledger" /\ pc' = "restore ledger sync" /\ ledgerFile' = src.ledger
      /\ UNCHANGED <<snapshotFile, journalFile, src, backups, mixed, unresolved>>
  BY Zenon DEF RestoreLedger, Goto, ReplaceLedger, memory, callers
<1>2. mixed' = mixed /\ mixed
  BY Zenon, <1>1 DEF Safe, RestoreMatches, RestoreSteps
<1>3. FilesAgree' /\ PublishedEffects' /\ CallersAgree'
  BY Zenon, <1>2 DEF FilesAgree, PublishedEffects, CallersAgree
<1>4. Fenced' /\ RoomForTerminal'
  BY Zenon, <1>1, RoomKept DEF Safe, Fenced, RecoverySteps, RestoreSteps
<1>5. MemoryAgrees' /\ SequenceMatches'
  BY Zenon, <1>1, MemoryOfRestore DEF RestoreSteps
<1>6. RestoreMatches'
  <2>1. /\ \A c \in backups' : WholeBundle(c)
        /\ WholeBundle(src') /\ ValidCommittedState(src'.snapshot, src'.ledger.recs)
        /\ snapshotFile' = src'.snapshot
    BY Zenon, <1>1 DEF Safe, RestoreMatches, RestoreSteps
  <2>2. mixed'
    BY <1>2, Zenon
  <2>. QED
    BY Zenon, <1>1, <2>1, <2>2 DEF RestoreMatches
<1>. QED
  BY Zenon, <1>3, <1>4, <1>5, <1>6 DEF Safe

\* With the third replacement the files are those of the bundle.
LEMMA RestoreJournalSafe ==
  ASSUME Safe, TypeOK', RestoreJournal
  PROVE  Safe'
<1>1. /\ pc = "restore journal" /\ pc' = "restore journal sync"
      /\ journalFile' = src.journal /\ tornTail' = FALSE
      /\ mixed' = src.mixed /\ acked' = acked \cap src.ledger.recs
      /\ UNCHANGED <<snapshotFile, ledgerFile, src, backups, unresolved>>
  BY Zenon DEF RestoreJournal, Goto, ReplaceJournal, memory
<1>2. /\ src \in Bundles /\ WholeBundle(src)
      /\ ValidCommittedState(src.snapshot, src.ledger.recs)
      /\ snapshotFile = src.snapshot /\ ledgerFile = src.ledger
      /\ \A c \in backups : WholeBundle(c)
  BY Zenon, <1>1 DEF Safe, RestoreMatches, RestoreSteps, TypeOK, ControlTyped
<1>3. /\ Len(src.journal) = 1 /\ ~Pending(src.journal)
      /\ ~src.mixed =>
           /\ History(src.snapshot, src.journal, src.ledger)
           /\ Committed(src.journal, Len(src.journal)) = src.ledger.recs
           /\ Outcome(src.snapshot, src.journal) = src.ledger.recs
           /\ src.snapshot.entries = Effect(src.ledger.recs)
  BY Zenon, <1>2, BundleHistory
<1>4. FilesAgree' /\ PublishedEffects' /\ CallersAgree'
  BY Zenon, <1>1, <1>2, <1>3 DEF FilesAgree, PublishedEffects, CallersAgree
<1>5. Fenced' /\ RoomForTerminal'
  BY Zenon, <1>1, <1>3 DEF Safe, Fenced, RecoverySteps, RestoreSteps, RoomForTerminal
<1>6. MemoryAgrees' /\ SequenceMatches'
  BY Zenon, <1>1, MemoryOfRestore DEF RestoreSteps
<1>7. RestoreMatches'
  BY Zenon, <1>1, <1>2 DEF RestoreMatches
<1>. QED
  BY Zenon, <1>4, <1>5, <1>6, <1>7 DEF Safe

\* Syncing a replaced file changes no contents.
LEMMA SyncRestoreSafe ==
  ASSUME Safe, TypeOK', SyncRestore
  PROVE  Safe'
<1>1. /\ \/ pc = "restore snapshot sync" /\ pc' = "restore ledger"
         \/ pc = "restore ledger sync" /\ pc' = "restore journal"
      /\ UNCHANGED <<snapshotFile, journalFile, ledgerFile, src, backups, mixed, acked, unresolved>>
  BY Zenon DEF SyncRestore, Goto, DirectorySync, files, memory, callers
<1>2. FilesAgree' /\ PublishedEffects' /\ CallersAgree'
  BY Zenon, <1>1, FilesKept, CallersKept DEF Safe
<1>3. Fenced' /\ RoomForTerminal'
  BY Zenon, <1>1, RoomKept DEF Safe, Fenced, RecoverySteps, RestoreSteps
<1>4. MemoryAgrees' /\ SequenceMatches'
  BY Zenon, <1>1, MemoryOfRestore DEF RestoreSteps
<1>5. RestoreMatches'
  <2>1. /\ \A c \in backups' : WholeBundle(c)
        /\ WholeBundle(src') /\ ValidCommittedState(src'.snapshot, src'.ledger.recs)
        /\ snapshotFile' = src'.snapshot /\ mixed'
    BY Zenon, <1>1 DEF Safe, RestoreMatches, RestoreSteps
  <2>2. pc' = "restore journal" => ledgerFile' = src'.ledger
    BY Zenon, <1>1 DEF Safe, RestoreMatches
  <2>3. pc' \in {"restore ledger", "restore journal"}
    BY Zenon, <1>1
  <2>. QED
    BY Zenon, <2>1, <2>2, <2>3 DEF RestoreMatches
<1>. QED
  BY Zenon, <1>2, <1>3, <1>4, <1>5 DEF Safe

\* The last file synced: the store is the settled store of the bundle.
LEMMA FinishRestoreSafe ==
  ASSUME Safe, TypeOK', FinishRestore
  PROVE  Safe'
<1>1. /\ pc = "restore journal sync" /\ pc' = "idle" /\ unresolved' = FALSE
      /\ snapshot' = src.snapshot /\ ledger' = src.ledger.recs /\ journal_sequence' = 1
      /\ UNCHANGED <<snapshotFile, journalFile, tornTail, ledgerFile, backups, mixed, acked>>
  BY Zenon DEF FinishRestore, Goto, DirectorySync, files, callers
<1>2. /\ src \in Bundles /\ WholeBundle(src)
      /\ ValidCommittedState(src.snapshot, src.ledger.recs)
      /\ snapshotFile = src.snapshot /\ ledgerFile = src.ledger
      /\ journalFile = src.journal /\ ~tornTail
  BY Zenon, <1>1 DEF Safe, RestoreMatches, RestoreSteps, TypeOK, ControlTyped
<1>3. FilesAgree' /\ PublishedEffects' /\ CallersAgree'
  BY Zenon, <1>1, FilesKept, CallersKept DEF Safe
<1>4. Len(journalFile) = 1 /\ ~Pending(journalFile)
  BY Zenon, <1>2, BundleHistory
<1>5. RestoreMatches' /\ Fenced' /\ RoomForTerminal' /\ SequenceMatches'
  BY Zenon, <1>1, <1>4, RestoreKept, RoomKept
  DEF Safe, RestoreSteps, Fenced, RecoverySteps, MutationSteps, SequenceMatches
<1>6. ASSUME ~mixed' PROVE Settled'
  <2>1. CheckpointOf(journalFile, ledgerFile, src.snapshot, src.ledger.recs)
    BY <1>2 DEF WholeBundle, CheckpointOf
  <2>2. /\ Committed(journalFile, Len(journalFile)) = src.ledger.recs
        /\ CommittedGeneration(journalFile, Len(journalFile)) = src.snapshot.gen
    BY <2>1 DEF CheckpointOf, Committed, CommittedGeneration, Checkpoint
  <2>3. src.ledger = [gen |-> src.snapshot.gen, recs |-> src.ledger.recs]
    BY Zenon, <1>2 DEF Bundles, Ledgers, WholeBundle
  <2>. QED
    BY Zenon, <1>1, <1>2, <1>4, <2>2, <2>3 DEF Settled, Pending
<1>7. MemoryAgrees'
  BY Zenon, <1>1, <1>6, MemoryOfSettled
<1>. QED
  BY Zenon, <1>3, <1>5, <1>7 DEF Safe

-----------------------------------------------------------------------------
(***************************************************************************)
(* reopen, recover and the faults.                                         *)
(***************************************************************************)
LEMMA ReopenSafe ==
  ASSUME Safe, TypeOK', Reopen
  PROVE  Safe'
<1>1. /\ pc = "down"
      /\ pc' = IF tornTail THEN "tail" ELSE IF Pending(journalFile) THEN "terminal" ELSE "rebuild"
      /\ snapshot' = snapshotFile /\ journal_sequence' = Len(journalFile)
      /\ cur' = IF Pending(journalFile) THEN journalFile[Len(journalFile)].m ELSE NoMarker
      /\ UNCHANGED <<snapshotFile, journalFile, tornTail, ledgerFile, backups, mixed, acked,
                     unresolved>>
  BY Zenon DEF Reopen, AfterTail, files, callers
<1>2. FilesAgree' /\ PublishedEffects' /\ CallersAgree'
  BY Zenon, <1>1, FilesKept, CallersKept DEF Safe
<1>3. pc' \in {"tail", "terminal", "rebuild"}
  BY Zenon, <1>1
<1>4. RestoreMatches' /\ Fenced' /\ RoomForTerminal' /\ SequenceMatches'
  BY Zenon, <1>1, <1>3, RestoreKept, RoomKept
  DEF Safe, RestoreSteps, Fenced, RecoverySteps, MutationSteps, SequenceMatches
<1>5. RecoveryMatches'
  <2>1. Pending(journalFile)' = Pending(journalFile)
    BY Zenon, <1>1 DEF Pending
  <2>. QED
    BY Zenon, <1>1, <1>3, <2>1 DEF RecoveryMatches
<1>6. MemoryAgrees'
  BY Zenon, <1>3, <1>5, MemoryOfRecovery DEF RecoverySteps
<1>. QED
  BY Zenon, <1>2, <1>4, <1>6 DEF Safe

\* Truncating a torn tail and syncing the cut keep every whole record.
LEMMA TailSafe ==
  ASSUME Safe, TypeOK', TruncateTail \/ SyncTail
  PROVE  Safe'
<1>1. /\ \/ pc = "tail" /\ pc' = "tail sync" /\ tornTail' = FALSE
         \/ pc = "tail sync" /\ tornTail' = tornTail
            /\ pc' = IF Pending(journalFile) THEN "terminal" ELSE "rebuild"
      /\ UNCHANGED <<snapshotFile, journalFile, ledgerFile, backups, mixed, acked,
                     snapshot, journal_sequence, unresolved, cur>>
  BY Zenon DEF TruncateTail, SyncTail, Goto, AfterTail, JournalSync, files, callers, memory
<1>2. FilesAgree' /\ PublishedEffects' /\ CallersAgree'
  BY Zenon, <1>1, FilesKept, CallersKept DEF Safe
<1>3. pc' \in {"tail sync", "terminal", "rebuild"} /\ pc \in {"tail", "tail sync"}
  BY Zenon, <1>1
<1>4. RestoreMatches' /\ Fenced' /\ RoomForTerminal' /\ SequenceMatches'
  BY Zenon, <1>1, <1>3, RestoreKept, RoomKept
  DEF Safe, RestoreSteps, Fenced, RecoverySteps, MutationSteps, SequenceMatches
<1>5. ASSUME ~mixed' PROVE RecoveryMatches'
  <2>1. Pending(journalFile)' = Pending(journalFile)
    BY Zenon, <1>1 DEF Pending
  <2>2. RecoveryMatches
    BY Zenon, <1>1, <1>5 DEF Safe, MemoryAgrees
  <2>3. /\ snapshot = snapshotFile
        /\ Pending(journalFile) => cur = journalFile[Len(journalFile)].m
        /\ pc = "tail sync" => ~tornTail
    BY Zenon, <1>3, <2>2 DEF RecoveryMatches, RecoverySteps
  <2>4. snapshot' = snapshotFile'
        /\ (Pending(journalFile)' => cur' = journalFile'[Len(journalFile')].m)
    BY Zenon, <1>1, <2>1, <2>3
  <2>5. ~tornTail'
    BY <1>1, <2>3, Zenon
  <2>6. /\ pc' = "terminal" => Pending(journalFile)'
        /\ pc' = "rebuild" => ~Pending(journalFile)'
    BY Zenon, <1>1, <2>1
  <2>. QED
    BY Zenon, <1>3, <2>4, <2>5, <2>6 DEF RecoveryMatches
<1>6. MemoryAgrees'
  BY Zenon, <1>3, <1>5, MemoryOfRecovery DEF RecoverySteps
<1>. QED
  BY Zenon, <1>2, <1>4, <1>6 DEF Safe

\* Recovery commits the open intent exactly if its snapshot is published.
LEMMA WriteTerminalSafe ==
  ASSUME Safe, TypeOK', WriteTerminal
  PROVE  /\ Safe'
         /\ ~mixed => Outcome(snapshotFile, journalFile)' = Outcome(snapshotFile, journalFile)
<1> DEFINE j == journalFile
           n == Len(j)
           C == Committed(j, n)
           k == journalFile'
           type == IF snapshot.last = cur THEN "Commit" ELSE "Abort"
<1>0. j \in Seq(Records) /\ n \in Nat /\ snapshotFile \in Snapshots /\ ledgerFile \in Ledgers
  BY DEF Safe, TypeOK, FilesTyped
<1>1. pc = "terminal" /\ pc' = "terminal sync" /\ journal_sequence = n
  BY Zenon DEF Safe, WriteTerminal, Goto, SequenceMatches
<1>2. cur \in Markers
  BY Zenon, <1>1 DEF Safe, TypeOK, ControlTyped
<1>3. PICK e \in Records : e = Record(type, n + 1, cur)
  BY <1>0, <1>2, RecordType
<1>4. /\ k = Append(j, e)
      /\ UNCHANGED <<snapshotFile, tornTail, ledgerFile, mixed, acked, backups,
                     snapshot, journal_sequence, unresolved>>
  BY Zenon, <1>1, <1>3 DEF WriteTerminal, JournalWrite, memory, callers
<1>5. e.type = type /\ e.seq = n + 1 /\ e.m = cur
  BY Zenon, <1>3 DEF Record
<1>6. Extended(k, j, e)
  BY Zenon, <1>0, <1>4, AppendExtends
<1>7. Len(k) = n + 1 /\ ~Pending(k)
  BY Zenon, <1>0, <1>5, <1>6 DEF Extended, Pending
<1>8. RestoreMatches' /\ Fenced' /\ RoomForTerminal'
  BY Zenon, <1>1, <1>4, <1>7, RestoreKept
  DEF Safe, RestoreSteps, Fenced, RecoverySteps, MutationSteps, RoomForTerminal
<1>9. SequenceMatches'
  BY Zenon, <1>1, <1>4, <1>7 DEF SequenceMatches
<1>10. ASSUME ~mixed
       PROVE  /\ History(snapshotFile, k, ledgerFile)
              /\ C \subseteq Committed(k, Len(k))
              /\ Outcome(snapshotFile, k) = Outcome(snapshotFile, j)
              /\ snapshot = snapshotFile /\ ~tornTail
  <2>1. snapshot = snapshotFile /\ Pending(j) /\ cur = j[n].m /\ ~tornTail
    BY Zenon, <1>1, <1>10 DEF Safe, MemoryAgrees, RecoveryMatches, RecoverySteps
  <2>2. History(snapshotFile, j, ledgerFile)
    BY Zenon, <1>10 DEF Safe, FilesAgree
  <2>3. snapshotFile.last = cur => snapshotFile.gen = cur.gen
    <3>1. SUFFICES ASSUME snapshotFile.last = cur, ~PublishedPending(snapshotFile, j)
                   PROVE  FALSE
      BY Zenon, <2>1 DEF PublishedPending
    <3>2. IsLastCommit(cur, j, n) /\ \A i \in 1..n : ValidRecord(j, i, ledgerFile.recs)
      BY Zenon, <2>2, <3>1, HistoryParts
    <3>3. cur = NoMarker \/ cur \in C
      BY Zenon, <1>0, <3>2, LastCommitIn
    <3>4. n \in 1..n
      BY <1>0, <2>1 DEF Pending
    <3>5. cur \notin C
      BY Zenon, <1>0, <2>1, <3>2, <3>4, PendingReplay
    <3>. QED
      BY Zenon, <1>2, <3>3, <3>5, MarkerType
  <2>4. \/ e.type = "Commit" /\ snapshotFile.last = e.m /\ snapshotFile.gen = e.m.gen
        \/ e.type = "Abort" /\ snapshotFile.last # e.m
    BY Zenon, <1>5, <2>1, <2>3
  <2>5. /\ History(snapshotFile, k, ledgerFile)
        /\ Committed(k, Len(k)) = C \cup (IF e.type = "Commit" THEN {e.m} ELSE {})
        /\ Outcome(snapshotFile, k) = Outcome(snapshotFile, j)
    <3>1. e.seq = Len(k) /\ e.m = j[Len(j)].m
      BY Zenon, <1>5, <1>7, <2>1
    <3> HIDE DEF type
    <3>. QED
      BY <1>0, <1>6, <2>1, <2>2, <2>4, <3>1, HistoryTerminal
  <2>. QED
    BY Zenon, <2>1, <2>5
<1>11. FilesAgree' /\ PublishedEffects' /\ CallersAgree'
  BY Zenon, <1>4, <1>10 DEF Safe, FilesAgree, PublishedEffects, CallersAgree
<1>12. ASSUME ~mixed' PROVE RecoveryMatches'
  BY Zenon, <1>1, <1>4, <1>7, <1>10, <1>12 DEF RecoveryMatches
<1>13. MemoryAgrees'
  BY Zenon, <1>1, <1>12, MemoryOfRecovery DEF RecoverySteps
<1>14. Safe'
  BY Zenon, <1>8, <1>9, <1>11, <1>13 DEF Safe
<1>15. ~mixed => Outcome(snapshotFile', k) = Outcome(snapshotFile, j)
  BY Zenon, <1>4, <1>10
<1>. QED
  BY Zenon, <1>14, <1>15

\* The terminal record synced: only the record count moves.
LEMMA SyncTerminalSafe ==
  ASSUME Safe, TypeOK', SyncTerminal
  PROVE  Safe'
<1>1. /\ pc = "terminal sync" /\ pc' = "rebuild" /\ journal_sequence' = journal_sequence + 1
      /\ UNCHANGED <<snapshotFile, journalFile, tornTail, ledgerFile, mixed, acked, backups,
                     snapshot, unresolved>>
  BY Zenon DEF SyncTerminal, Goto, JournalSync, files, callers
<1>2. FilesAgree' /\ PublishedEffects' /\ CallersAgree'
  BY Zenon, <1>1, FilesKept, CallersKept DEF Safe
<1>3. RestoreMatches' /\ Fenced' /\ RoomForTerminal' /\ SequenceMatches'
  BY Zenon, <1>1, RestoreKept, RoomKept
  DEF Safe, RestoreSteps, Fenced, RecoverySteps, MutationSteps, SequenceMatches
<1>4. ASSUME ~mixed' PROVE RecoveryMatches'
  <2>1. RecoveryMatches
    BY Zenon, <1>1, <1>4 DEF Safe, MemoryAgrees
  <2>2. snapshot = snapshotFile /\ ~Pending(journalFile) /\ ~tornTail
    BY Zenon, <1>1, <2>1 DEF RecoveryMatches, RecoverySteps
  <2>. QED
    BY Zenon, <1>1, <2>2 DEF RecoveryMatches, Pending
<1>5. MemoryAgrees'
  BY Zenon, <1>1, <1>4, MemoryOfRecovery DEF RecoverySteps
<1>. QED
  BY Zenon, <1>2, <1>3, <1>5 DEF Safe

\* The ledger rebuilt from the replay completes the history.
LEMMA RebuildLedgerSafe ==
  ASSUME Safe, TypeOK', RebuildLedger
  PROVE  Safe'
<1> DEFINE j == journalFile
           C == Committed(j, Len(j))
           g == CommittedGeneration(j, Len(j))
<1>0. j \in Seq(Records) /\ snapshotFile \in Snapshots /\ ledgerFile \in Ledgers
  BY Zenon DEF Safe, TypeOK, FilesTyped
<1>1. /\ pc = "rebuild" /\ pc' = "rebuild sync"
      /\ ledgerFile' = [gen |-> snapshot.gen, recs |-> C] /\ ledger' = C
      /\ UNCHANGED <<snapshotFile, journalFile, tornTail, mixed, acked, backups,
                     snapshot, journal_sequence, unresolved>>
  BY Zenon DEF RebuildLedger, Goto, ReplaceLedger, callers
<1>2. RestoreMatches' /\ Fenced' /\ RoomForTerminal' /\ SequenceMatches' /\ CallersAgree'
  BY Zenon, <1>1, RestoreKept, RoomKept, CallersKept
  DEF Safe, RestoreSteps, Fenced, RecoverySteps, MutationSteps, SequenceMatches
<1>3. ASSUME ~mixed
      PROVE  /\ snapshot = snapshotFile /\ ~Pending(j) /\ ~tornTail /\ snapshot.gen = g
             /\ History(snapshotFile, j, ledgerFile')
  <2>1. snapshot = snapshotFile /\ ~Pending(j) /\ ~tornTail
    BY Zenon, <1>1, <1>3 DEF Safe, MemoryAgrees, RecoveryMatches, RecoverySteps
  <2>2. History(snapshotFile, j, ledgerFile)
    BY Zenon, <1>3 DEF Safe, FilesAgree
  <2>3. snapshotFile.gen = g
    BY Zenon, <2>1, <2>2, HistoryParts DEF PublishedPending
  <2>. QED
    BY Zenon, <1>0, <1>1, <2>1, <2>2, <2>3, HistoryLedger
<1>4. FilesAgree' /\ PublishedEffects'
  BY Zenon, <1>1, <1>3 DEF Safe, FilesAgree, PublishedEffects
<1>5. ASSUME ~mixed' PROVE RecoveryMatches'
  <2>1. Settled'
    BY Zenon, <1>1, <1>3, <1>5 DEF Settled, Pending
  <2>. QED
    BY Zenon, <1>1, <2>1 DEF RecoveryMatches, Settled
<1>6. MemoryAgrees'
  BY Zenon, <1>1, <1>5, MemoryOfRecovery DEF RecoverySteps
<1>. QED
  BY Zenon, <1>2, <1>4, <1>6 DEF Safe

\* recover() returns: the store is settled.
LEMMA FinishRecoverySafe ==
  ASSUME Safe, TypeOK', FinishRecovery
  PROVE  Safe'
<1>1. /\ pc = "rebuild sync" /\ pc' = "idle"
      /\ UNCHANGED <<snapshotFile, journalFile, tornTail, ledgerFile, mixed, acked, backups,
                     snapshot, ledger, journal_sequence, unresolved>>
  BY Zenon DEF FinishRecovery, Goto, DirectorySync, files, memory, callers
<1>2. FilesAgree' /\ PublishedEffects' /\ CallersAgree'
  BY Zenon, <1>1, FilesKept, CallersKept DEF Safe
<1>3. RestoreMatches' /\ Fenced' /\ RoomForTerminal' /\ SequenceMatches'
  BY Zenon, <1>1, RestoreKept, RoomKept
  DEF Safe, RestoreSteps, Fenced, RecoverySteps, MutationSteps, SequenceMatches
<1>4. ASSUME ~mixed' PROVE Settled'
  <2>1. Settled
    BY Zenon, <1>1, <1>4 DEF Safe, MemoryAgrees, RecoveryMatches
  <2>. QED
    BY Zenon, <1>1, <2>1 DEF Settled, Pending
<1>5. MemoryAgrees'
  BY Zenon, <1>1, <1>4, MemoryOfSettled
<1>. QED
  BY Zenon, <1>2, <1>3, <1>5 DEF Safe

\* Whatever drops the instance, or fences it, leaves the files as they are.
LEMMA StopSafe ==
  ASSUME Safe, TypeOK', DropFenced \/ Kill \/ IoError
  PROVE  Safe'
<1>1. UNCHANGED <<snapshotFile, journalFile, ledgerFile, mixed, acked, backups>>
  BY Zenon DEF DropFenced, Kill, IoError, Fault, CutWrite, files, callers
<1>2. (pc' = "down" /\ ~unresolved') \/ (pc' = "idle" /\ unresolved')
  <2>1. CASE DropFenced
    BY Zenon, <2>1 DEF DropFenced, Goto, ForgetMemory
  <2>2. CASE Kill
    BY Zenon, <2>2 DEF Kill, ForgetMemory
  <2>3. CASE IoError
    <3>1. CASE pc \in RecoverySteps
      BY Zenon, <2>3, <3>1 DEF IoError, ForgetMemory
    <3>2. CASE pc \notin RecoverySteps
      <4>1. pc' = "idle" /\ unresolved' = unresolved
        BY Zenon, <2>3, <3>2 DEF IoError, memory
      <4>2. pc \in MutationSteps \cup RestoreSteps \cup {"compact", "compact sync"}
        BY Zenon, <2>3, <3>2 DEF IoError, Safe, TypeOK, ControlTyped
      <4>. QED
        BY Zenon, <4>1, <4>2 DEF Safe, Fenced
    <3>. QED
      BY Zenon, <3>1, <3>2
  <2>. QED
    BY Zenon, <2>1, <2>2, <2>3
<1>3. FilesAgree' /\ PublishedEffects' /\ CallersAgree'
  BY Zenon, <1>1, FilesKept, CallersKept DEF Safe
<1>4. MemoryAgrees' /\ SequenceMatches'
  BY Zenon, <1>2, MemoryForgotten
<1>5. RestoreMatches' /\ Fenced' /\ RoomForTerminal'
  BY Zenon, <1>1, <1>2, RestoreKept, RoomKept
  DEF Safe, RestoreSteps, Fenced, RecoverySteps, MutationSteps
<1>. QED
  BY Zenon, <1>3, <1>4, <1>5 DEF Safe

-----------------------------------------------------------------------------
(***************************************************************************)
(* The theorems.                                                           *)
(***************************************************************************)
\* An empty store is a history.
LEMMA InitSafe == Init => Safe
<1> SUFFICES ASSUME Init PROVE Safe
  BY Zenon
<1>1. TypeOK
  BY Zenon, InitTypes
<1>2. /\ journalFile = <<>> /\ Len(journalFile) = 0 /\ snapshotFile = EmptySnapshot
      /\ ledgerFile = EmptyLedger /\ snapshot = EmptySnapshot /\ ledger = {}
      /\ pc = "idle" /\ ~unresolved /\ journal_sequence = 0 /\ ~tornTail
      /\ acked = {} /\ backups = {}
  BY Zenon DEF Init
<1>3. ~Pending(journalFile)
  BY <1>2 DEF Pending
<1>4. Committed(journalFile, 0) = {} /\ CommittedGeneration(journalFile, 0) = 0
  BY DEF Committed, CommittedGeneration
<1>5. Outcome(snapshotFile, journalFile) = {}
  BY Zenon, <1>2, <1>3, <1>4 DEF Outcome, PublishedPending
<1>6. /\ EmptySnapshot.gen = 0 /\ EmptySnapshot.last = NoMarker
      /\ EmptySnapshot.entries = [r \in Resources |-> Absent]
      /\ EmptyLedger = [gen |-> 0, recs |-> {}]
  BY Zenon DEF EmptySnapshot, EmptyLedger
<1>7. Effect({}) = [r \in Resources |-> Absent]
  BY Zenon DEF Effect
<1>8. PublishedEffects
  BY Zenon, <1>2, <1>5, <1>6, <1>7 DEF PublishedEffects
<1>9. History(snapshotFile, journalFile, ledgerFile)
  <2>1. ValidGenerations({}, 0) /\ UniqueKeys({})
    BY DEF ValidGenerations, UniqueKeys
  <2>2. LedgerPrefix({}, 0) = {}
    BY Zenon DEF LedgerPrefix
  <2>3. IsLastCommit(NoMarker, journalFile, 0)
    BY DEF IsLastCommit
  <2>4. ~PublishedPending(snapshotFile, journalFile)
    BY Zenon, <1>3 DEF PublishedPending
  <2>5. \A i \in 1..Len(journalFile) : ValidRecord(journalFile, i, ledgerFile.recs)
    BY <1>2
  <2>6. 0 + (IF Pending(journalFile) THEN 1 ELSE 0) <= MaxRetained
    BY <1>3, BoundsAssumption
  <2>7. /\ snapshotFile.gen = 0 /\ snapshotFile.last = NoMarker
        /\ ledgerFile.gen = 0 /\ ledgerFile.recs = {}
    BY Zenon, <1>2, <1>6
  <2>8. 0 \in {0 - 1, 0} /\ 0 >= 0
    OBVIOUS
  <2>. QED
    BY Zenon, <1>2, <1>3, <1>4, <2>1, <2>2, <2>3, <2>4, <2>5, <2>6, <2>7, <2>8 DEF History
<1>10. Settled
  BY Zenon, <1>2, <1>3, <1>4, <1>6 DEF Settled
<1>11. MutationMatches /\ RecoveryMatches
  BY Zenon, <1>2 DEF MutationMatches, RecoveryMatches, RecoverySteps
<1>12. FilesAgree /\ MemoryAgrees /\ CallersAgree
  BY Zenon, <1>2, <1>9, <1>10, <1>11 DEF FilesAgree, MemoryAgrees, CallersAgree
<1>13. Fenced /\ SequenceMatches /\ RestoreMatches /\ RoomForTerminal
  BY Zenon, <1>2, <1>3
  DEF Fenced, SequenceMatches, RestoreMatches, RoomForTerminal, RestoreSteps, MutationSteps,
      RecoverySteps
<1>. QED
  BY Zenon, <1>1, <1>8, <1>12, <1>13 DEF Safe

\* Every step other than a power cut keeps the invariant.
LEMMA NextSafe == Safe /\ [Next]_vars /\ "power" \notin Faults => Safe'
<1> SUFFICES ASSUME Safe, [Next]_vars, "power" \notin Faults PROVE Safe'
  BY Zenon
<1>1. TypeOK'
  BY Zenon, NextTypes DEF Safe
<1>2. CASE Mutate
  BY Zenon, <1>1, <1>2, ExecuteSafe, WriteIntentSafe, SyncIntentSafe, PublishSnapshotSafe,
     SyncSnapshotSafe, WriteCommitSafe, SyncCommitSafe, PublishLedgerSafe, AcknowledgeSafe
  DEF Mutate
<1>3. CASE Maintain
  BY Zenon, <1>1, <1>3, CompactSafe, CheckpointSafe, FinishCompactionSafe, ExportBackupSafe,
     RestoreBackupSafe, RestoreSnapshotSafe, RestoreLedgerSafe, RestoreJournalSafe,
     SyncRestoreSafe, FinishRestoreSafe
  DEF Maintain
<1>4. CASE Recover
  BY Zenon, <1>1, <1>4, ReopenSafe, TailSafe, WriteTerminalSafe, SyncTerminalSafe,
     RebuildLedgerSafe, FinishRecoverySafe, StopSafe
  DEF Recover
<1>5. CASE \E m \in ledger : Reconcile(m)
  BY Zenon, <1>1, <1>5, ReconcileSafe
<1>6. CASE Kill \/ IoError
  BY Zenon, <1>1, <1>6, StopSafe
<1>7. ~PowerCut
  BY Zenon DEF PowerCut, Fault
<1>8. CASE UNCHANGED vars
  <2>1. UNCHANGED <<snapshotFile, journalFile, tornTail, ledgerFile, mixed, acked, backups,
                    snapshot, ledger, journal_sequence, unresolved, pc, cur, src>>
    BY Zenon, <1>8 DEF vars, files, memory, control, callers
  <2>2. FilesAgree' /\ PublishedEffects' /\ CallersAgree'
    BY Zenon, <2>1, FilesKept, CallersKept DEF Safe
  <2>3. Pending(journalFile)' = Pending(journalFile) /\ Open' = Open /\ Settled' = Settled
    BY Zenon, <2>1 DEF Pending, Open, Settled
  <2>4. Fenced' /\ SequenceMatches' /\ RestoreMatches' /\ RoomForTerminal'
    BY Zenon, <2>1, <2>3 DEF Safe, Fenced, SequenceMatches, RestoreMatches, RoomForTerminal
  <2>5. MutationMatches => MutationMatches'
    BY Zenon, <2>1, <2>3 DEF MutationMatches
  <2>6. RecoveryMatches => RecoveryMatches'
    BY Zenon, <2>1, <2>3 DEF RecoveryMatches
  <2>7. MemoryAgrees'
    BY Zenon, <2>1, <2>3, <2>5, <2>6 DEF Safe, MemoryAgrees
  <2>. QED
    BY Zenon, <1>1, <2>2, <2>4, <2>7 DEF Safe
<1>. QED
  BY Zenon, <1>2, <1>3, <1>4, <1>5, <1>6, <1>7, <1>8 DEF Next

\* Without power cuts the inductive invariant holds in every reachable state:
\* the files are one history and the live instance agrees with them.
THEOREM Safety ==
  ASSUME "power" \notin Faults
  PROVE  Spec => []Safe
<1>1. Safe /\ [Next]_vars => Safe'
  BY Zenon, NextSafe
<1>. QED
  BY <1>1, InitSafe, PTL DEF Spec

\* So reopen() accepts the files wherever the process stopped, except in the
\* middle of a restore.
THEOREM AlwaysRecoverable ==
  ASSUME "power" \notin Faults
  PROVE  Spec => []Recoverable
<1>1. Safe => Recoverable
  <2> SUFFICES ASSUME Safe, ~mixed PROVE Accepts(snapshotFile, journalFile, ledgerFile)
    BY Zenon DEF Recoverable
  <2>1. /\ snapshotFile \in Snapshots /\ journalFile \in Seq(Records) /\ ledgerFile \in Ledgers
        /\ History(snapshotFile, journalFile, ledgerFile)
    BY Zenon DEF Safe, TypeOK, FilesTyped, FilesAgree
  <2>. QED
    BY Zenon, <2>1, HistoryAccepted
<1>. QED
  BY <1>1, Safety, PTL

\* No acknowledged mutation is lost.
THEOREM AcknowledgedSurvive ==
  ASSUME "power" \notin Faults
  PROVE  Spec => []AckedSurvive
<1>1. Safe => AckedSurvive
  BY Zenon DEF Safe, CallersAgree, AckedSurvive, Outcome
<1>. QED
  BY <1>1, Safety, PTL

\* The contents are the effects of the committed mutations, each applied once.
THEOREM EffectsExact ==
  ASSUME "power" \notin Faults
  PROVE  Spec => []PublishedEffects
<1>1. Safe => PublishedEffects
  BY Zenon DEF Safe
<1>. QED
  BY <1>1, Safety, PTL

\* A request key commits at most once.
THEOREM CommitsOnce ==
  ASSUME "power" \notin Faults
  PROVE  Spec => []AtMostOnce
<1>1. Safe => AtMostOnce
  <2> SUFFICES ASSUME Safe, ~mixed,
                      NEW m \in Outcome(snapshotFile, journalFile),
                      NEW n \in Outcome(snapshotFile, journalFile), m.req.key = n.req.key
               PROVE  m = n
    BY Zenon DEF AtMostOnce
  <2> DEFINE C == Committed(journalFile, Len(journalFile))
             c == journalFile[Len(journalFile)].m
  <2>1. History(snapshotFile, journalFile, ledgerFile) /\ journalFile \in Seq(Records)
    BY Zenon DEF Safe, TypeOK, FilesTyped, FilesAgree
  <2>2. \A x, y \in C : x.req.key = y.req.key => x = y
    BY Zenon, <2>1, HistoryParts DEF UniqueKeys
  <2>3. CASE PublishedPending(snapshotFile, journalFile)
    <3>1. Pending(journalFile) /\ Len(journalFile) \in 1..Len(journalFile)
      BY <2>1, <2>3 DEF PublishedPending, Pending
    <3>2. \A x \in C : x.req.key # c.req.key
      BY Zenon, <2>1, <3>1, HistoryParts, PendingReplay
    <3>. QED
      BY Zenon, <2>2, <2>3, <3>2 DEF Outcome
  <2>4. CASE ~PublishedPending(snapshotFile, journalFile)
    BY Zenon, <2>2, <2>4 DEF Outcome
  <2>. QED
    BY Zenon, <2>3, <2>4
<1>. QED
  BY <1>1, Safety, PTL

\* An open intent always has room for its terminal record.
THEOREM RoomReserved ==
  ASSUME "power" \notin Faults
  PROVE  Spec => []TerminalReserved
<1>1. Safe => TerminalReserved
  BY Zenon DEF Safe, RoomForTerminal, TerminalReserved
<1>. QED
  BY <1>1, Safety, PTL
=============================================================================
