------------------------------- MODULE Recovery -------------------------------
(***************************************************************************)
(* Recovery archives and the rollback anchor.  A coordinator reads the     *)
(* anchored checkpoint, compares it with what it observes of the store and *)
(* the journal, and swaps in the next checkpoint.  An archive holds the    *)
(* state and the records of one checkpoint; it is restored to an empty     *)
(* target only while its checkpoint is the anchored one.                   *)
(*                                                                         *)
(* A state is a member of States and its digest is itself; the tag of a  *)
(* record is the sequence of payloads up to it, so equal tags mean equal   *)
(* prefixes; the digest of a checkpoint is the fields its preimage binds.  *)
(*                                                                         *)
(* External: the anchor (compare-and-swap, and the fence that keeps a      *)
(* checkpoint current while an operation runs) and the target.             *)
(***************************************************************************)
EXTENDS Integers, Sequences, FiniteSets

CONSTANTS Absent,         \* model value: no copy, archive or previous digest
          States, RecordPayloads, \* contents of a generation and of a record
          Coordinators,   \* processes that advance the anchor
          MaxGeneration, MaxRecords, MaxRevision, MaxEpoch \* bounds

VARIABLES disk,           \* [generation, state, records, epoch]: store, journal and key epoch
          copy,           \* an earlier disk, which may be put back
          anchor,         \* the anchored checkpoint
          advancing,      \* [Coordinators -> what the coordinator read and proposes]
          archive,        \* one archive
          restoring,      \* where the restore is
          fence,          \* whether the anchor holds its checkpoint for an operation
          target          \* the recovery target

recoveryVars == <<disk, copy, anchor, advancing, archive, restoring, fence, target>>

\* Records are numbered from 1; no tail is the position 0.
JournalTail(records) == [sequence |-> Len(records), tag |-> records]
Position(o) == o.tail.sequence

Observe(d) == [generation |-> d.generation, digest |-> d.state, tail |-> JournalTail(d.records),
               epoch |-> d.epoch]

\* canonical_preimage under the authenticator.
Preimage(revision, previous, o) == <<revision, previous, o>>
CheckedNext(revision) == revision + 1

\* Revisions begin at 1.
NoCheckpoint == [revision |-> 0]

\* from_parts and verify_checkpoint.
VerifyCheckpoint(c) ==
    /\ (c.revision = 1) = (c.previous = Absent)
    /\ c.digest = Preimage(c.revision, c.previous, c.observation)

CompareObservation(anchored, o) ==
    CASE o.generation < anchored.generation \/ Position(o) < Position(anchored) -> "rollback"
      [] o.epoch < anchored.epoch -> "epoch-regression"
      [] o.generation = anchored.generation /\ Position(o) = Position(anchored) ->
            IF o = anchored THEN "exact" ELSE "divergent"
      [] OTHER -> "advance"

\* classify.
Classify(o) == IF anchor = NoCheckpoint THEN "unanchored" ELSE CompareObservation(anchor.observation, o)

\* The checkpoint an advance builds on the one it read.
NextCheckpoint(c, o) ==
    LET revision == IF c = NoCheckpoint THEN 1 ELSE CheckedNext(c.revision)
        previous == IF c = NoCheckpoint THEN Absent ELSE c.digest
    IN  [revision |-> revision, previous |-> previous, observation |-> o,
         digest |-> Preimage(revision, previous, o)]

\* validate_image: a complete chain of records that ends in the observed tail.
ValidImage(i) ==
    /\ i.checkpoint.observation = i.observation
    /\ \A n \in 1..Len(i.records) :
          /\ i.records[n].sequence = n
          /\ i.records[n].previous = IF n = 1 THEN Absent ELSE i.records[n - 1].tag
    /\ i.observation.tail = IF i.records = <<>> THEN JournalTail(<<>>)
                            ELSE LET last == i.records[Len(i.records)]
                                 IN  [sequence |-> last.sequence, tag |-> last.tag]

\* from_journal_record, for every record the journal replays.
ReplayedRecords(d) ==
    [n \in 1..Len(d.records) |->
        [sequence |-> n, previous |-> IF n = 1 THEN Absent ELSE SubSeq(d.records, 1, n - 1),
         tag |-> SubSeq(d.records, 1, n)]]

\* canonical_archive_preimage under the archive's authenticator.
ArchiveTag(i) == <<i.observation, i.checkpoint, i.state, i.records>>

\* verify.
VerifyArchive(a) == ValidImage(a.image) /\ a.tag = ArchiveTag(a.image)

NotAdvancing == [at |-> "idle"]
NoDisk == [generation |-> 0, state |-> Absent, records |-> <<>>, epoch |-> 1]

-----------------------------------------------------------------------------
\* External: the program commits a generation, appends a record or rotates the key.
Change ==
    /\ \/ \E v \in States : /\ disk.generation < MaxGeneration
                            /\ disk' = [disk EXCEPT !.generation = @ + 1, !.state = v]
       \/ \E v \in RecordPayloads : /\ Len(disk.records) < MaxRecords
                              /\ disk' = [disk EXCEPT !.records = Append(@, v)]
       \/ disk.epoch < MaxEpoch /\ disk' = [disk EXCEPT !.epoch = @ + 1]
    /\ UNCHANGED <<copy, anchor, advancing, archive, restoring, fence, target>>

\* External: a copy of the disk is taken, and put back later.
CopyDisk ==
    /\ copy = Absent /\ copy' = disk
    /\ UNCHANGED <<disk, anchor, advancing, archive, restoring, fence, target>>

PutDiskBack ==
    /\ copy # Absent /\ disk' = copy /\ disk' # disk
    /\ UNCHANGED <<copy, anchor, advancing, archive, restoring, fence, target>>

\* advance, up to the compare-and-swap.
BeginAdvance(c) ==
    /\ advancing[c] = NotAdvancing /\ disk.generation > 0
    /\ anchor # NoCheckpoint => VerifyCheckpoint(anchor)
    /\ Classify(Observe(disk)) \in {"unanchored", "advance"}
    /\ NextCheckpoint(anchor, Observe(disk)).revision <= MaxRevision
    /\ advancing' = [advancing EXCEPT ![c] = [at |-> "swap", read |-> anchor,
                                              next |-> NextCheckpoint(anchor, Observe(disk))]]
    /\ UNCHANGED <<disk, copy, anchor, archive, restoring, fence, target>>

\* Mutant: the swap does not name the revision that was read.
CompareAndSwapAny(c) ==
    /\ advancing[c].at = "swap" /\ ~fence
    /\ anchor' = advancing[c].next
    /\ advancing' = [advancing EXCEPT ![c] = NotAdvancing]
    /\ UNCHANGED <<disk, copy, archive, restoring, fence, target>>

\* The compare-and-swap, which the anchor does not take while the fence is held,
\* and the end of advance: the receipt and the reread only decide the answer.
CompareAndSwap(c) ==
    /\ advancing[c].at = "swap" /\ ~fence
    /\ anchor' = IF anchor.revision = advancing[c].read.revision THEN advancing[c].next ELSE anchor
    /\ advancing' = [advancing EXCEPT ![c] = NotAdvancing]
    /\ UNCHANGED <<disk, copy, archive, restoring, fence, target>>

\* capture: the image must be the one of the checkpoint the caller holds.
Capture ==
    /\ restoring = "idle" /\ disk.generation > 0 /\ anchor # NoCheckpoint
    /\ LET image == [observation |-> Observe(disk), checkpoint |-> anchor, state |-> disk.state,
                     records |-> ReplayedRecords(disk)]
       IN  ValidImage(image) /\ archive' = [image |-> image, tag |-> ArchiveTag(image)]
    /\ archive' # archive
    /\ UNCHANGED <<disk, copy, anchor, advancing, restoring, fence, target>>

\* restore: the archive, then verify_current.
VerifyCurrent ==
    /\ restoring = "idle" /\ archive # Absent /\ VerifyArchive(archive)
    /\ anchor = archive.image.checkpoint /\ VerifyCheckpoint(anchor)
    /\ restoring' = "verified"
    /\ UNCHANGED <<disk, copy, anchor, advancing, archive, fence, target>>

\* with_current_fence enters the operation, or does not.
WithCurrentFence ==
    /\ restoring = "verified" /\ VerifyCheckpoint(archive.image.checkpoint)
    /\ IF anchor = archive.image.checkpoint
       THEN fence' = TRUE /\ restoring' = "fenced"
       ELSE restoring' = "idle" /\ UNCHANGED fence
    /\ UNCHANGED <<disk, copy, anchor, advancing, archive, target>>

\* External: stage_if_empty claims an empty target or refuses.
StageIfEmpty ==
    /\ restoring = "fenced"
    /\ IF target.at = "empty"
       THEN target' = [at |-> "staged", image |-> archive.image] /\ restoring' = "staged" /\ UNCHANGED fence
       ELSE restoring' = "idle" /\ fence' = FALSE /\ UNCHANGED target
    /\ UNCHANGED <<disk, copy, anchor, advancing, archive>>

\* External: publish; its outcome, or the fence's after it, may be unknown.
Publish ==
    /\ restoring = "staged"
    /\ \/ target' = [target EXCEPT !.at = "published"]
       \/ target' = [at |-> "empty"]
    /\ restoring' = "idle" /\ fence' = FALSE
    /\ UNCHANGED <<disk, copy, anchor, advancing, archive>>

RecoveryInit ==
    /\ disk = NoDisk /\ copy = Absent /\ anchor = NoCheckpoint /\ archive = Absent
    /\ advancing = [c \in Coordinators |-> NotAdvancing]
    /\ restoring = "idle" /\ fence = FALSE /\ target = [at |-> "empty"]

RecoveryNext ==
    \/ Change \/ CopyDisk \/ PutDiskBack \/ Capture
    \/ VerifyCurrent \/ WithCurrentFence \/ StageIfEmpty \/ Publish
    \/ \E c \in Coordinators : BeginAdvance(c) \/ CompareAndSwap(c)

RecoverySpec == RecoveryInit /\ [][RecoveryNext]_recoveryVars

-----------------------------------------------------------------------------
\* The anchor only moves forward, whoever advances it and whatever disk was put
\* back: one revision at a time, linked to the checkpoint before, and never to an
\* older generation, journal position or key epoch (compare_observation and
\* compare_and_swap).
AnchorForward ==
    anchor' # anchor =>
        /\ anchor' = NextCheckpoint(anchor, anchor'.observation)
        /\ anchor # NoCheckpoint =>
              /\ anchor'.observation.generation >= anchor.observation.generation
              /\ Position(anchor'.observation) >= Position(anchor.observation)
              /\ anchor'.observation.epoch >= anchor.observation.epoch

\* What a restore publishes is the image of the checkpoint that is anchored at
\* that moment, whole: its state and every record up to its tail.
PublishedCurrent ==
    target'.at = "published" /\ target.at # "published" =>
        /\ target'.image.checkpoint = anchor
        /\ target'.image.state = anchor.observation.digest
        /\ Len(target'.image.records) = Position(anchor.observation)

\* Both, of every step (rollback-anchor, recovery-core).
AnchorMovesForward == [][AnchorForward /\ PublishedCurrent]_recoveryVars
=============================================================================
