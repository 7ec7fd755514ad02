-------------------------- MODULE DurableInvariant --------------------------
(***************************************************************************)
(* The inductive invariant behind the safety properties of DurableService  *)
(* when the machine does not lose power: what the three files have in      *)
(* common at every point, and what the running call remembers of them.     *)
(***************************************************************************)
EXTENDS DurableService

UniqueKeys(recs) == \A m, n \in recs : m.req.key = n.req.key => m = n

\* The three files tell one history.  Stronger than Accepts: the ledger is a
\* prefix of what the journal commits, complete when an intent is open, and no
\* key commits twice.
History(snap, j, led) ==
  LET n == Len(j)
      committed == Committed(j, n)
      g == CommittedGeneration(j, n)
  IN  /\ \A i \in 1..n : ValidRecord(j, i, led.recs)
      /\ ValidGenerations(committed, g)
      /\ UniqueKeys(committed)
      /\ PublishedPending(snap, j) \/ (snap.gen = g /\ IsLastCommit(snap.last, j, n))
      /\ snap.gen = 0 => snap = EmptySnapshot
      /\ led.gen \in {g - 1, g} /\ led.gen >= 0
      /\ Pending(j) => led.gen = g
      /\ led.recs = LedgerPrefix(committed, led.gen)
      /\ g + (IF Pending(j) THEN 1 ELSE 0) <= MaxRetained

\* The live instance agrees with its files: no intent is open.
Settled ==
  /\ snapshot = snapshotFile
  /\ ledger = Committed(journalFile, Len(journalFile))
  /\ ledgerFile = [gen |-> snapshot.gen, recs |-> ledger]
  /\ snapshot.gen = CommittedGeneration(journalFile, Len(journalFile))
  /\ ~Pending(journalFile)
  /\ ~tornTail

\* cur is the intent at the end of the journal.
Open ==
  /\ Pending(journalFile)
  /\ journalFile[Len(journalFile)].m = cur
  /\ ~tornTail

\* What a step of put or delete finds.
MutationMatches ==
  LET n == Len(journalFile)
      committed == Committed(journalFile, n)
      g == CommittedGeneration(journalFile, n)
  IN  /\ pc = "intent" =>
           /\ Settled
           /\ cur = Marker(cur.req, g + 1, n + 1)
           /\ \A m \in committed : m.req.key # cur.req.key
           /\ g + 1 <= MaxRetained
      /\ pc \in {"intent sync", "snapshot"} =>
           /\ Open
           /\ snapshot = snapshotFile /\ snapshot.gen = g
           /\ ledger = committed
           /\ ledgerFile = [gen |-> g, recs |-> ledger]
      /\ pc \in {"snapshot sync", "commit"} =>
           /\ Open
           /\ snapshotFile = IF pc = "commit" THEN snapshot ELSE Apply(snapshot, cur)
           /\ snapshotFile.last = cur /\ snapshotFile.gen = cur.gen
           /\ ledger = committed
           /\ ledgerFile = [gen |-> g, recs |-> ledger]
      /\ pc \in {"commit sync", "ledger"} =>
           /\ ~Pending(journalFile) /\ ~tornTail
           /\ snapshotFile = snapshot /\ snapshot.gen = g /\ cur.gen = g
           /\ committed = ledger \cup {cur}
           /\ ledgerFile = [gen |-> g - 1, recs |-> ledger]
      /\ pc = "ledger sync" =>
           /\ ~Pending(journalFile) /\ ~tornTail
           /\ snapshotFile = snapshot /\ snapshot.gen = g
           /\ committed = ledger \cup {cur}
           /\ ledgerFile = [gen |-> g, recs |-> committed]

\* What a step of recovery finds.
RecoveryMatches ==
  /\ pc \in RecoverySteps => snapshot = snapshotFile
  /\ pc \in {"tail", "tail sync", "terminal"} /\ Pending(journalFile) =>
       cur = journalFile[Len(journalFile)].m
  /\ pc = "terminal" => Pending(journalFile)
  /\ pc \in {"terminal sync", "rebuild", "rebuild sync"} => ~Pending(journalFile)
  /\ pc \in RecoverySteps \ {"tail"} => ~tornTail
  /\ pc = "rebuild sync" => Settled

\* The count of records in memory is that of the file, or one behind it while
\* the last record is not synced.
SequenceMatches ==
  /\ (pc = "idle" /\ ~unresolved) \/ pc \in {"intent", "snapshot", "snapshot sync", "commit",
        "ledger", "ledger sync", "compact", "tail", "tail sync", "terminal",
        "rebuild", "rebuild sync"} =>
       journal_sequence = Len(journalFile)
  /\ pc \in {"intent sync", "commit sync", "terminal sync"} =>
       journal_sequence + 1 = Len(journalFile)
  /\ pc = "compact sync" => Len(journalFile) = 1

\* A bundle is a store of its own.
WholeBundle(b) ==
  /\ b.ledger.gen = b.snapshot.gen
  /\ b.journal = <<Checkpoint(b.snapshot, b.ledger.recs)>>
  /\ ~b.mixed =>
       /\ UniqueKeys(b.ledger.recs)
       /\ b.snapshot.gen = 0 => b.snapshot = EmptySnapshot
       /\ b.snapshot.gen <= MaxRetained
       /\ b.snapshot.entries = Effect(b.ledger.recs)

RestoreMatches ==
  /\ \A b \in backups : WholeBundle(b)
  /\ pc \in RestoreSteps =>
       /\ WholeBundle(src)
       /\ ValidCommittedState(src.snapshot, src.ledger.recs)
  /\ pc \in RestoreSteps \ {"restore snapshot"} => snapshotFile = src.snapshot
  /\ pc \in RestoreSteps \ {"restore snapshot", "restore journal sync"} => mixed
  /\ pc \in {"restore ledger sync", "restore journal", "restore journal sync"} =>
       ledgerFile = src.ledger
  /\ pc = "restore journal sync" => journalFile = src.journal /\ ~tornTail

\* Every Intent leaves room for its terminal record.
RoomForTerminal ==
  /\ pc = "intent" => Len(journalFile) + 2 <= JournalLimit
  /\ Pending(journalFile) => Len(journalFile) < JournalLimit

FilesAgree == ~mixed => History(snapshotFile, journalFile, ledgerFile)

MemoryAgrees ==
  ~mixed =>
    /\ ((pc = "idle" /\ ~unresolved) \/ pc = "compact") => Settled
    /\ pc = "compact" => ValidCommittedState(snapshot, ledger)
    /\ pc = "compact sync" => Settled
    /\ MutationMatches
    /\ RecoveryMatches

CallersAgree ==
  ~mixed => acked \subseteq Committed(journalFile, Len(journalFile))

\* A call that has touched a file, or is about to, has fenced the instance.
Fenced ==
  /\ pc \in MutationSteps \cup RestoreSteps \cup {"compact", "compact sync"} => unresolved
  /\ pc \in RecoverySteps \cup {"down"} => ~unresolved

Safe ==
  /\ TypeOK
  /\ FilesAgree
  /\ MemoryAgrees
  /\ Fenced
  /\ SequenceMatches
  /\ RestoreMatches
  /\ RoomForTerminal
  /\ CallersAgree
  /\ PublishedEffects
\* What the memory of the running call and the medium have in common with the
\* files, after an interrupted restore and a loss of power too.
ServesFiles ==
  LET AtRest == pc = "idle" /\ ~unresolved
      Compacting == {"compact", "compact sync"}
  IN  /\ "snapshot" \notin unsynced => stable.snapshot = snapshotFile
      /\ "ledger" \notin unsynced => stable.ledger = ledgerFile
      /\ AtRest => unsynced = {}
      /\ (AtRest \/ pc \in (MutationSteps \ {"snapshot sync"}) \cup Compacting \cup RecoverySteps) =>
           snapshot = snapshotFile
      /\ pc = "snapshot sync" => snapshotFile = Apply(snapshot, cur)
      /\ (AtRest \/ pc \in (MutationSteps \ {"ledger sync"}) \cup Compacting \cup {"rebuild sync"}) =>
           ledger = ledgerFile.recs
      /\ pc = "ledger sync" => ledgerFile.recs = ledger \cup {cur}
      /\ pc \in RestoreSteps \ {"restore snapshot"} => snapshotFile = src.snapshot
      /\ pc \in {"restore ledger sync", "restore journal", "restore journal sync"} =>
           ledgerFile = src.ledger
      /\ (AtRest \/ pc \in MutationSteps \cup Compacting \cup (RecoverySteps \ {"tail"})
            \cup {"restore journal sync"}) => ~tornTail

\* What is answered Aborted is apart from what is answered Committed, and a
\* recovery starts from no answers.
AbortedApart ==
  /\ aborted \cap ledger = {}
  /\ pc \in {"down"} \cup (RecoverySteps \ {"rebuild sync"}) => aborted = {}

\* A restore reads a bundle that was exported.
SourceHeld == pc \in RestoreSteps => src \in backups

Serving == Fenced /\ ServesFiles /\ AbortedApart /\ SourceHeld
=============================================================================
