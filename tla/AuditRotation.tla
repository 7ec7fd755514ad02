---------------------------- MODULE AuditRotation ---------------------------
(***************************************************************************)
(* The authenticated audit stream of the server: Service::audit_event,     *)
(* verify_audit_from and load_audit_key of service.rs, and all of          *)
(* audit_rotation.rs.                                                      *)
(*                                                                         *)
(* A record is its sequence number: the MAC chain ties record n to record  *)
(* n - 1, and nothing but this writer touches the files, so a frontier is  *)
(* a sequence number and a digest is the contents.  Every record takes one *)
(* unit of a segment's capacity.  A file is a sequence of whole records    *)
(* and a flag for the part of a record a cut write leaves at its end.      *)
(*                                                                         *)
(* stable is what a power cut leaves of the files; the variables are what  *)
(* a process reads.  A killed process loses its memory and no file.        *)
(***************************************************************************)
EXTENDS Integers, Sequences, FiniteSets, SequencesExt

CONSTANTS Configs,       \* audit.segment_bytes and audit.retained_segments
          MaxSegments,   \* the 64 of verify_manifest
          MaxSequence,   \* bound: records written
          Faults,        \* bound: kinds of fault, among kill, io and power
          MaxFaults      \* bound: how many

\* What the constants must be.
AuditAssumption ==
  /\ MaxSegments \in Nat \ {0}
  /\ Configs \subseteq [segment : Nat \ {0}, retained : 1..MaxSegments]
  /\ MaxSequence \in Nat /\ MaxFaults \in Nat
  /\ Faults \subseteq {"kill", "io", "power"}

VARIABLES active,        \* the active JSONL file
          archives,      \* the segment files, by id
          manifestFile,  \* rotation.json, or NoManifest
          staged,        \* rotation.tmp, or NoManifest
          keyFile,       \* the .hmac-key sidecar: none, empty or whole
          stable         \* what a power cut would leave of the first three

VARIABLES manifest,        \* AuditRotation.manifest
          audit_sequence,  \* with audit_previous: the frontier
          audit_failed,
          config,
          pc,
          then,            \* where publish returns to
          after            \* where collect_garbage returns to

VARIABLES acked,           \* the last record audit_event reported written
          faults

files == <<active, archives, manifestFile, staged, keyFile>>
memory == <<manifest, audit_sequence, audit_failed, config>>
control == <<pc, then, after>>
vars == <<files, stable, memory, control, acked, faults>>

-----------------------------------------------------------------------------
(***************************************************************************)
(* Files, frontiers and manifests.                                         *)
(***************************************************************************)
File(recs, torn) == [recs |-> recs, torn |-> torn]
EmptyFile == File(<<>>, FALSE)

\* bytes.starts_with(copied)
StartsWith(f, copied) ==
  \/ f = copied
  \/ IsPrefix(copied.recs, f.recs) /\ Len(copied.recs) < Len(f.recs)
  \/ copied.recs = f.recs /\ ~copied.torn

\* What a write cut short may leave on the way from file f to file g.
Cut(f, g) ==
  {f, g} \cup
  {File(SubSeq(g.recs, 1, n), t) :
     n \in {k \in Len(f.recs)..Len(g.recs) - 1 : IsPrefix(f.recs, g.recs)}, t \in BOOLEAN}

Segment(id, recs, start, end) == [id |-> id, recs |-> recs, start |-> start, end |-> end]
NoSegment == Segment(0, <<>>, 0, 0)

NewManifest == [generation |-> 0, base |-> 0, segments |-> <<>>,
                pending |-> NoSegment, garbage |-> <<>>]
NoManifest == [NewManifest EXCEPT !.base = -1]

\* Where the records of the active file start.
ActiveStart(m) == IF m.segments = <<>> THEN m.base ELSE Last(m.segments).end

\* verify_audit_from succeeds: whole records that continue the chain.
ChainFrom(f, start) ==
  /\ ~f.torn
  /\ \A i \in 1..Len(f.recs) : f.recs[i] = start + i

\* verify_segment
VerifySegment(s, arch) ==
  /\ s.id \in DOMAIN arch
  /\ arch[s.id] = File(s.recs, FALSE)
  /\ ChainFrom(arch[s.id], s.start)
  /\ s.start + Len(s.recs) = s.end

VerifyManifest(m, arch) ==
  LET n == Len(m.segments)
      previous(i) == IF i = 1 THEN [id |-> 0, end |-> m.base] ELSE m.segments[i - 1]
  IN  /\ n <= MaxSegments /\ Len(m.garbage) <= MaxSegments
      /\ (n = 0) <=> (m.generation = 0)
      /\ m.pending # NoSegment => n > 0 /\ m.pending = Last(m.segments)
      /\ \A i \in 1..n :
           LET s == m.segments[i]
           IN  /\ previous(i).id < s.id /\ s.id <= m.generation
               /\ s.start = previous(i).end /\ s.start < s.end
               /\ VerifySegment(s, arch)
      /\ n > 0 => Last(m.segments).id = m.generation
      /\ \A g \in Range(m.garbage) :
           n > 0 /\ g.id < m.segments[1].id /\ g.end <= m.base

\* verify_archive_inventory: the only archive outside the manifest is an
\* interrupted copy of the active file.
VerifyInventory(m, arch, act) ==
  \A id \in DOMAIN arch \ {s.id : s \in Range(m.segments)} :
    /\ id = m.generation + 1
    /\ act # EmptyFile
    /\ StartsWith(act, arch[id])

-----------------------------------------------------------------------------
(***************************************************************************)
(* Reaching the disk.                                                      *)
(***************************************************************************)
SyncActive == stable' = [stable EXCEPT !.active = active]

\* Names reach the disk, the data of new archives may not have.
SyncedNames ==
  [stable EXCEPT !.manifest = manifestFile,
                 !.archives = [id \in DOMAIN archives |->
                                 IF id \in DOMAIN @ THEN @[id] ELSE EmptyFile]]
SyncDirectory == stable' = SyncedNames

SyncArchive == stable' = [SyncedNames EXCEPT !.archives = archives]

Goto(from, to) == pc = from /\ pc' = to

-----------------------------------------------------------------------------
(***************************************************************************)
(* publish: stage, rename, sync the directory.                             *)
(***************************************************************************)

\* rotation.tmp is written and synced; a leftover of an earlier one is gone.
Stage(from, m, to) ==
  /\ Goto(from, "rename")
  /\ staged' = m /\ then' = to
  /\ UNCHANGED <<active, archives, manifestFile, keyFile, stable, memory, after, acked, faults>>

Rename ==
  /\ Goto("rename", "publish sync")
  /\ manifestFile' = staged /\ staged' = NoManifest
  /\ UNCHANGED <<active, archives, keyFile, stable, memory, then, after, acked, faults>>

SyncPublished ==
  /\ Goto("publish sync", then)
  /\ SyncDirectory
  /\ manifest' = manifestFile
  /\ UNCHANGED <<files, audit_sequence, audit_failed, config, then, after, acked, faults>>

-----------------------------------------------------------------------------
(***************************************************************************)
(* collect_garbage: remove the files, then forget them.                    *)
(***************************************************************************)
Collectable == manifest.pending = NoSegment /\ manifest.garbage # <<>>

SkipCollection ==
  /\ ~Collectable
  /\ Goto("collect", after)
  /\ UNCHANGED <<files, stable, memory, then, after, acked, faults>>

\* Mutant: the segment behind the garbage goes too.
RemoveObsoleteAndNext ==
  /\ Collectable
  /\ Goto("collect", "remove sync")
  /\ archives' = [id \in {n \in DOMAIN archives : n > Last(manifest.garbage).id + 1} |->
                    archives[id]]
  /\ UNCHANGED <<active, manifestFile, staged, keyFile, stable, memory, then, after, acked, faults>>

RemoveObsolete ==
  /\ Collectable
  /\ Goto("collect", "remove sync")
  /\ \E i \in 1..Len(manifest.garbage) :
       /\ manifest.garbage[i].id \in DOMAIN archives
       /\ \A k \in 1..i - 1 : manifest.garbage[k].id \notin DOMAIN archives
       /\ VerifySegment(manifest.garbage[i], archives)
       /\ archives' = [id \in DOMAIN archives \ {manifest.garbage[i].id} |-> archives[id]]
  /\ UNCHANGED <<active, manifestFile, staged, keyFile, stable, memory, then, after, acked, faults>>

SyncRemoval ==
  /\ Goto("remove sync", "collect")
  /\ SyncDirectory
  /\ UNCHANGED <<files, memory, then, after, acked, faults>>

ForgetObsolete ==
  /\ Collectable
  /\ \A g \in Range(manifest.garbage) : g.id \notin DOMAIN archives
  /\ Stage("collect", [manifest EXCEPT !.garbage = <<>>], after)

-----------------------------------------------------------------------------
(***************************************************************************)
(* audit_event and before_append.                                          *)
(***************************************************************************)
AuditEvent ==
  /\ pc = "idle" /\ ~audit_failed
  /\ audit_sequence < MaxSequence
  /\ IF Len(active.recs) + 1 <= config.segment
       THEN pc' = "append" /\ after' = "append"
       ELSE pc' = "collect" /\ after' = "archive"
  /\ UNCHANGED <<files, stable, memory, then, acked, faults>>

Append_ ==
  /\ Goto("append", "append sync")
  /\ active' = [active EXCEPT !.recs = Append(@, audit_sequence + 1)]
  /\ UNCHANGED <<archives, manifestFile, staged, keyFile, stable, memory, then, after, acked, faults>>

\* Mutant: a record is reported before it is synced.
SyncAppendSkipped ==
  /\ Goto("append sync", "idle")
  /\ audit_sequence' = audit_sequence + 1
  /\ acked' = audit_sequence + 1
  /\ UNCHANGED <<files, stable, manifest, audit_failed, config, then, after, faults>>

SyncAppend ==
  /\ Goto("append sync", "idle")
  /\ SyncActive
  /\ audit_sequence' = audit_sequence + 1
  /\ acked' = audit_sequence + 1
  /\ UNCHANGED <<files, manifest, audit_failed, config, then, after, faults>>

-----------------------------------------------------------------------------
(***************************************************************************)
(* rotate: archive the active file, publish the pending manifest, truncate *)
(* the active file, publish the complete one, collect.                     *)
(***************************************************************************)
NextId == manifest.generation + 1

Archivable ==
  /\ ChainFrom(active, ActiveStart(manifest))
  /\ ActiveStart(manifest) + Len(active.recs) = audit_sequence
  /\ active.recs # <<>>
  /\ NextId \in DOMAIN archives => StartsWith(active, archives[NextId])

\* Copy the active file, or complete an interrupted copy of it.
Archive ==
  /\ Goto("archive", "archive sync")
  /\ Archivable
  /\ archives' = [id \in DOMAIN archives \cup {NextId} |->
                    IF id = NextId THEN active ELSE archives[id]]
  /\ after' = "append"
  /\ UNCHANGED <<active, manifestFile, staged, keyFile, stable, memory, then, acked, faults>>

SyncArchived ==
  /\ Goto("archive sync", "pending")
  /\ SyncArchive
  /\ UNCHANGED <<files, memory, then, after, acked, faults>>

\* The manifest with the new segment, its oldest ones beyond the retained
\* number made garbage.
Rotated(m) ==
  LET segment == Segment(NextId, active.recs, ActiveStart(m), audit_sequence)
      all == Append(m.segments, segment)
      evicted == IF Len(all) > config.retained THEN Len(all) - config.retained ELSE 0
  IN  [m EXCEPT !.generation = NextId,
                !.segments = SubSeq(all, evicted + 1, Len(all)),
                !.pending = segment,
                !.base = IF evicted > 0 THEN all[evicted].end ELSE @,
                !.garbage = @ \o SubSeq(all, 1, evicted)]

StagePending == Stage("pending", Rotated(manifest), "truncate")

Truncate ==
  /\ Goto("truncate", "truncate sync")
  /\ active' = EmptyFile
  /\ UNCHANGED <<archives, manifestFile, staged, keyFile, stable, memory, then, after, acked, faults>>

SyncTruncation ==
  /\ Goto("truncate sync", "complete")
  /\ SyncActive
  /\ UNCHANGED <<files, memory, then, after, acked, faults>>

\* Mutant: the final manifest keeps the pending segment.
StageCompletePending == Stage("complete", manifest, "collect")

StageComplete == Stage("complete", [manifest EXCEPT !.pending = NoSegment], "collect")

-----------------------------------------------------------------------------
(***************************************************************************)
(* Service::new: the authentication key, then recover.                     *)
(***************************************************************************)

\* load_audit_key creates the key beside an empty stream, in two steps.
CreateKey ==
  /\ keyFile = "none" /\ active = EmptyFile
  /\ Goto("down", "key")
  /\ keyFile' = "empty"
  /\ SyncDirectory
  /\ UNCHANGED <<active, archives, manifestFile, staged, memory, then, after, acked, faults>>

WriteKey ==
  /\ Goto("key", "recover")
  /\ keyFile' = "whole"
  /\ UNCHANGED <<active, archives, manifestFile, staged, stable, memory, then, after, acked, faults>>

Start ==
  /\ keyFile = "whole"
  /\ Goto("down", "recover")
  /\ SyncDirectory
  /\ UNCHANGED <<files, memory, then, after, acked, faults>>

\* No rotation.json: the first manifest.
Loaded == IF manifestFile = NoManifest THEN NewManifest ELSE manifestFile

\* The manifest is verified, a leftover rotation.tmp discarded, and a pending
\* rotation resumed where the active file says it stopped.
Resumable(m, act) ==
  m.pending = NoSegment \/ act = EmptyFile \/ act = File(m.pending.recs, FALSE)

Recover(c) ==
  /\ pc = "recover"
  /\ VerifyManifest(Loaded, archives) /\ Resumable(Loaded, active)
  /\ manifest' = Loaded /\ staged' = NoManifest
  /\ audit_failed' = FALSE /\ config' = c
  /\ pc' = IF Loaded.pending = NoSegment THEN "collect"
           ELSE IF active = EmptyFile THEN "complete" ELSE "truncate"
  /\ after' = "verify"
  /\ UNCHANGED <<active, archives, manifestFile, keyFile, stable, audit_sequence, then, acked, faults>>

Verifiable == /\ ChainFrom(active, ActiveStart(manifest))
              /\ VerifyInventory(manifest, archives, active)

FinishRecovery ==
  /\ Goto("verify", "idle")
  /\ Verifiable
  /\ audit_sequence' = ActiveStart(manifest) + Len(active.recs)
  /\ UNCHANGED <<files, stable, manifest, audit_failed, config, then, after, acked, faults>>

-----------------------------------------------------------------------------
(***************************************************************************)
(* Errors.  A running server latches audit_failed and keeps its files; one *)
(* that is starting exits.                                                 *)
(***************************************************************************)
RecoveryPcs == {"key", "recover", "verify"}

Fail ==
  /\ IF pc \in RecoveryPcs \/ after = "verify"
       THEN pc' = "down" /\ UNCHANGED audit_failed
       ELSE pc' = "idle" /\ audit_failed' = TRUE
  /\ UNCHANGED <<manifest, audit_sequence, config, then, after, acked>>

\* A check of rotate or recover does not hold.
Refuse ==
  /\ \/ pc = "archive" /\ ~Archivable
     \/ pc = "recover" /\ ~(VerifyManifest(Loaded, archives) /\ Resumable(Loaded, active))
     \/ pc = "verify" /\ ~Verifiable
  /\ Fail
  /\ UNCHANGED <<files, stable, faults>>

\* Memory is gone.
Down ==
  /\ pc' = "down" /\ then' = "idle" /\ after' = "verify"
  /\ manifest' = NewManifest /\ audit_sequence' = 0 /\ audit_failed' = FALSE
  /\ UNCHANGED <<config, acked>>

\* The operator restarts a server that refuses to go on.
Stop ==
  /\ pc = "idle" /\ audit_failed
  /\ Down
  /\ UNCHANGED <<files, stable, faults>>

-----------------------------------------------------------------------------
(***************************************************************************)
(* Faults.                                                                 *)
(***************************************************************************)
Fault(kind) ==
  /\ kind \in Faults /\ pc # "down"
  /\ faults < MaxFaults /\ faults' = faults + 1

\* A write stops anywhere.
CutWrite ==
  /\ \/ /\ pc = "append"
        /\ active' \in Cut(active, [active EXCEPT !.recs = Append(@, audit_sequence + 1)])
        /\ UNCHANGED archives
     \/ /\ pc = "archive" /\ Archivable
        /\ \E f \in Cut(IF NextId \in DOMAIN archives THEN archives[NextId] ELSE EmptyFile, active) :
             archives' = [id \in DOMAIN archives \cup {NextId} |->
                            IF id = NextId THEN f ELSE archives[id]]
        /\ UNCHANGED active
     \/ UNCHANGED <<active, archives>>
  /\ UNCHANGED <<manifestFile, staged, keyFile>>

Kill == Fault("kill") /\ CutWrite /\ Down /\ UNCHANGED stable

IoError == Fault("io") /\ pc # "idle" /\ CutWrite /\ Fail /\ UNCHANGED stable

\* Of each file the disk has what was synced, what was written since, or
\* something between.
StableArchive(id) == IF id \in DOMAIN stable.archives THEN stable.archives[id] ELSE EmptyFile

PowerCut ==
  /\ Fault("power")
  /\ active' \in Cut(stable.active, active)
  /\ manifestFile' \in {stable.manifest, manifestFile}
  /\ LET old == DOMAIN stable.archives
         new == DOMAIN archives
         dirty == {id \in new : archives[id] # StableArchive(id)}
     IN  \E kept \in SUBSET ((old \cup new) \ (old \cap new)),
            data \in [dirty -> UNION {Cut(StableArchive(id), archives[id]) : id \in dirty}] :
           /\ \A id \in dirty : data[id] \in Cut(StableArchive(id), archives[id])
           /\ archives' = [id \in kept \cup (old \cap new) |->
                             IF id \in dirty THEN data[id]
                             ELSE IF id \in new THEN archives[id] ELSE StableArchive(id)]
  /\ stable' = [active |-> active', archives |-> archives', manifest |-> manifestFile']
  /\ Down
  /\ UNCHANGED <<staged, keyFile>>

-----------------------------------------------------------------------------
Init ==
  /\ active = EmptyFile /\ archives = <<>> /\ manifestFile = NoManifest
  /\ staged = NoManifest /\ keyFile = "none"
  /\ stable = [active |-> EmptyFile, archives |-> <<>>, manifest |-> NoManifest]
  /\ manifest = NewManifest /\ audit_sequence = 0 /\ audit_failed = FALSE
  /\ config \in Configs
  /\ pc = "down" /\ then = "idle" /\ after = "verify"
  /\ acked = 0 /\ faults = 0

Write == AuditEvent \/ Append_ \/ SyncAppend

Rotate == \/ Archive \/ SyncArchived \/ StagePending \/ Truncate \/ SyncTruncation
          \/ StageComplete \/ Rename \/ SyncPublished
          \/ SkipCollection \/ RemoveObsolete \/ SyncRemoval \/ ForgetObsolete

Open == CreateKey \/ WriteKey \/ Start \/ (\E c \in Configs : Recover(c)) \/ FinishRecovery

Next == Write \/ Rotate \/ Open \/ Refuse \/ Stop \/ Kill \/ IoError \/ PowerCut

Spec == Init /\ [][Next]_vars

\* What a server that is not stopped does: it runs the call it is in to its end,
\* and is restarted when down.
Progress == Write \/ Rotate \/ Open \/ Refuse \/ Stop

-----------------------------------------------------------------------------
(***************************************************************************)
(* Properties.                                                             *)
(***************************************************************************)
FilesT == [recs : Seq(1..MaxSequence), torn : BOOLEAN]

\* Type invariant.
TypeOK ==
  /\ active \in FilesT
  /\ \A id \in DOMAIN archives : id \in Nat /\ archives[id] \in FilesT
  /\ keyFile \in {"none", "empty", "whole"}
  /\ audit_sequence \in 0..MaxSequence /\ acked \in 0..MaxSequence
  /\ audit_failed \in BOOLEAN /\ config \in Configs
  /\ faults \in 0..MaxFaults

\* The files of a stopped server start it: the checks recover() makes, one
\* after the other, all hold of them.
Accepts(act, arch, file) ==
  LET m == IF file = NoManifest THEN NewManifest ELSE file
      rest == IF m.pending = NoSegment THEN act ELSE EmptyFile
      obsolete == {g.id : g \in Range(m.garbage)}
      kept == [id \in DOMAIN arch \ obsolete |-> arch[id]]
  IN  /\ VerifyManifest(m, arch)
      /\ Resumable(m, act)
      /\ \A g \in Range(m.garbage) : g.id \in DOMAIN arch => VerifySegment(g, arch)
      /\ ChainFrom(rest, ActiveStart(m))
      /\ VerifyInventory(m, kept, rest)

\* Wherever the server stops, rotation included, it starts again on what is
\* there: recover() of audit_rotation.rs refuses nothing its own rotate() left.
\* A record cut in the middle is the exception the code makes.
Recoverable == ~active.torn => Accepts(active, archives, manifestFile)

\* The records behind the manifest and in the active file are consecutive,
\* none is there twice, and every reported one newer than the evicted prefix
\* is among them.
Retained(file, act) ==
  LET m == IF file = NoManifest THEN NewManifest ELSE file
  IN  FlattenSeq([i \in 1..Len(m.segments) |-> m.segments[i].recs])
        \o (IF m.pending = NoSegment THEN act.recs ELSE <<>>)

Base(file) == IF file = NoManifest THEN 0 ELSE file.base

NoRecordLost ==
  LET recs == Retained(manifestFile, active)
      base == Base(manifestFile)
  IN  /\ \A i \in 1..Len(recs) : recs[i] = base + i
      /\ acked <= base + Len(recs)

\* What a power cut would leave starts the server as well, with every reported
\* record.
RecoverableFromDisk ==
  /\ ~stable.active.torn => Accepts(stable.active, stable.archives, stable.manifest)
  /\ acked <= Base(stable.manifest) + Len(Retained(stable.manifest, stable.active))

\* The truncation of the active file is on disk before a manifest without a
\* pending rotation is: what the disk has of the active file follows what it has
\* of the manifest.
TruncationSyncedFirst ==
  LET m == stable.manifest
  IN  (m # NoManifest /\ m.pending = NoSegment /\ stable.active.recs # <<>>) =>
        stable.active.recs[1] > ActiveStart(m)

\* An archive is never touched while the published manifest retains it.
RetainedArchivesFixed ==
  \A s \in Range(manifestFile.segments) :
    s.id \in DOMAIN archives /\ archives[s.id] = File(s.recs, FALSE)
      => \/ s.id \in DOMAIN archives' /\ archives'[s.id] = archives[s.id]
         \/ s \notin Range(manifestFile'.segments)

\* Records leave the stream only because more segments than the configured
\* number would stay, and only oldest first.
EvictsOnlyBeyondRetention ==
  Base(manifestFile') # Base(manifestFile) =>
    /\ Base(manifestFile') > Base(manifestFile)
    /\ Len(manifestFile'.segments) = config.retained

\* The server audits, or cannot: a record or the key was cut in the middle of
\* its first write.
AuditsOrTorn == active.torn \/ keyFile = "empty" \/ (pc = "idle" /\ ~audit_failed)
=============================================================================
