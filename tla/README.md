# A TLA+ model of HeptaBao

This directory specifies, model-checks and in part proves the behaviour of HeptaBao: what survives a
crash, what an answer to a client promises, what a credential is good for and what a cluster of servers
agrees on. It is kept beside the code; every definition that stands for code names its lines in
`PROJECT.json` ("map"), which also lists every crate with what is modelled of it.

## The system

The repository is a workspace of Rust crates in three layers.

- **The server.** `heptabao-server` links `heptabao-durable-service`, `heptabao-filesystem-guard`,
  `heptabao-ha-service` and `heptabao-raft-runtime`. It holds one durable store and one audit stream
  and, in a cluster, one Raft node. A request is accepted by an HTTPS worker, takes the service mutex,
  is audited, is routed to the leader, is authenticated, runs on a copy of the application state, is
  committed (through Raft in a cluster), is put into the durable store as one sealed value, replaces the
  state in memory, is audited again and answered.
- **Composed services that the server does not link**: the journaled core (store, journal, operation
  ledger), migration, recovery archives with the rollback anchor, the key ring, the plugin host, the
  runtime service, the service core with its stores, and the P0 development server. Each is a library
  with its own files and its own tests.
- **Contracts**: small state machines and traits for agents, HA, backups, keys, assertions and plugins.

What is hard about it lies between steps: several files per operation, each of which can be the last one
written; recoveries that are interrupted themselves; retries of what was already done; three copies of
one state in a cluster; a mutex held across a network call; counters and expiry under retries and clocks
that are set back.

## The modules

| module | what it models |
|---|---|
| `DurableService` | the durable store, one action per file operation |
| `RequestStore` | what that store promises, without files (abstract specification) |
| `DurableInvariant` | the inductive invariant of `DurableService` |
| `AuditRotation` | the audit stream of the server with rotation, retention and recovery |
| `HaService` | a request through a cluster, over an external Raft |
| `SealLifecycle` | initialisation, unseal, seal, rekey, backup and restore of one server |
| `Auth` | tokens, policies, userpass with TOTP, AppRole and JWT through the two commits of a request |
| `Engines` | the mount table, KV 1 and 2, Transit, TOTP |
| `FrontEnd` | connections, request workers, service mutex, peer workers, forward slot |
| `ReplayLedger` | the federated verifiers and the durable ledger that admits an assertion once |
| `RaftNode`, `RaftCluster` | the Raft stores on disk and the cluster handle that uses them |
| `PeerService` | `ha-service`: routing with its answer cache, sealed peer frames, their counters on disk |
| `JournaledCore` | generation store, journal, operation ledger and their composition |
| `Migration`, `MigrationAuthority` | the migration journal on disk, and the in-memory machine it follows |
| `KeyRing` | the key-epoch ledger over its journal |
| `Recovery` | recovery archives and the rollback anchor with several coordinators |
| `PluginHost` | the broker of dynamic secrets and the plugin process beside it |
| `ServiceCore` | identities, policies, tokens, namespaces, mounts, KV and leases behind one handler |
| `P0Server`, `RuntimeService` | the development server; the audited way to a durable service |
| `Contracts` | eight contract state machines, one per behaviour |
| `Codecs` | the binary and text formats of stored and sent frames: written, damaged, read |
| `Algorithms` | pure functions, each beside a second definition of what it computes |
| `*Proofs` | the inductive invariants and the proofs (see "What is proved") |

`MCDurable`, `MCServer`, `MCFailures`, `MCAccess`, `MCStorage` and `MCServices` are the instances of the
passing runs. Components that share no state are checked by one run as a **family**: the module declares
the variables of all of them and a variable `part`, which is chosen in the initial state and says which
component the behaviour is about. The variables of the others have the value `Unused` throughout, or rest in
their initial state, so the state space is the sum, not the product, of theirs, and nothing that could interact
is separated. Where two components of a family have a variable of one name, the instance renames one of them: in
`MCServer` and `MCFailures`, which extend `HaService`, the variables of the other parts. The other `MC`
modules define the inputs of the remaining runs, of the formats and of the algorithms.

Definitions that stand directly before the one they vary and whose comment says what is missing
(`SyncCommitSkipped` before `SyncCommit`) are not part of any specification: each is a plausible bug, and
putting it in the place of the definition named in `PROJECT.json` ("mutants") makes the property named
there fail. So every property is known to depend on the code it is about.

### How state and actions correspond to the code

*Files.* A file is the value it holds; digests, MACs and sealed envelopes are the values they cover, so
they are collision-free and cannot be forged. Where the loss of power is modelled, a second variable
(`stable`, `synced`, `durable`) has what was synchronised, and a power cut keeps any subset of the renames
whose directory sync had not returned. A kill keeps the page cache. An I/O error makes the running step
fail, with or without effect where the code cannot tell.

*Calls.* A call that touches one thing atomically is one action; a call of several file operations or
awaits is one action per operation, with `pc` (or `call`, `step`, `job`) saying where it is, because faults and
other actors come between.

**DurableService.** `snapshotFile`, `journalFile`, `ledgerFile` are the three files, `tornTail` an
incomplete frame at the journal's end. `snapshot`, `ledger`, `aborted`, `journal_sequence` and
`unresolved` are fields of the Rust struct. `put` and `delete` run from `Execute` over `WriteIntent` …
`PublishLedger` to `Acknowledge`; `compact()` is `Compact`, `ReplaceByCheckpoint`, `FinishCompaction`;
`restore_backup()` goes from `RestoreBackup` to `FinishRestore`; `reopen()` is `Reopen`, whose guard
`Accepts` is every validation of `recover()`, followed by the repairs. `acked`, `backups`, `mixed` and
`faults` are history.

**AuditRotation.** A record is its sequence number, a segment's capacity is counted in records. `AuditEvent`
is `audit_event`, `Archive` … `StageComplete` are `rotate`, `Stage`/`Rename`/`SyncPublished` are `publish`,
`RemoveObsolete`/`SyncRemoval`/`ForgetObsolete` are `collect_garbage`, `Recover` to `FinishRecovery` are the
start. A restart may come with another configuration.

**HaService.** Per node: the state in memory, the local store as `RequestStore` describes it, the fence, the
call that holds the mutex and the forwarded request that waits for it. `Route`, `Sync`, `Reconcile`,
`Dispatch`, `CheckBase`, `Propose`, `Receipt`, `Persist`, `Answer` follow `handle_inner`. Raft is external: one
leader at a time, a committed log, a tail that a new leader commits in part or drops, and beliefs about
the leader that may be old.

**SealLifecycle.** `disk` has the seal, the pending rekey, the pending initialisation and the store; each file
operation ends ok, refused, unsynced or died. A share is a key and an index, so that shares of two
generations are told apart only by unwrapping, as in the code.

**Auth, Engines.** `stored` is the committed state and `memory` the served one; a request authenticates,
commits the use of a finite-use token, dispatches on a copy and commits the copy, and a crash or an unknown
outcome falls between. The engines replace a namespace only on success, so a request is one action.

**FrontEnd.** One process per client, per holder of a service mutex and per peer worker. Reading a request,
a forward and the confirmation of a read have timeouts, which may fire whenever the other side is slow; a
write has none: `commit_state` waits for its Raft entry, with the service mutex held, until a quorum answers.

**JournaledCore, Migration, RaftNode, PeerService, ReplayLedger.** File steps with kills, failed steps and
power cuts; the next process decides from the files alone. **KeyRing, RuntimeService, PluginHost** stand on
a journal or a durable service, taken by its results: it commits, refuses, or ends unknown with or without
effect. **Recovery** has several coordinators over an external compare-and-swap, and disks put back.

## The runs

| run | instance | what is in it | states | result |
|---|---|---|---|---|
| `durable` | `MCDurable`, `Durable.cfg` | the durable store on two machines | 148 000 | holds |
| `server` | `MCServer`, `Server.cfg` | audit stream (kills; power), forwarded writes, front end | 163 000 | holds |
| `failures` | `MCFailures`, `Failures.cfg` | replicated writes under faults, seal lifecycle | 1 071 000 | holds |
| `access` | `MCAccess`, `Access.cfg` | authentication, engines | 360 000 | holds |
| `storage` | `MCStorage`, `Storage.cfg` | journaled core, migration, Raft node and cluster, peers, key ring, recovery | 1 134 000 | holds |
| `services` | `MCServices`, `Services.cfg` | plugin host, service core, P0 server, runtime service, contracts, replay ledger, formats, algorithms | 1 357 000 | holds |
| `durable_mixed` | `MCDurableService` | `MixedSetRejected` | | violated: finding 1 |
| `durable_report` | `MCDurableService` | `SyncedBeforeReported` | | violated: finding 2 |
| `audit_truncation` | `MCAuditRotation` | `TruncationSyncedFirst` | | violated: finding 3 |
| `ha_base` | `MCHaService` | `ExactBase` | | violated: finding 4 |
| `ha_return` | `MCHaService` | `Reconciled` | | violated: finding 5 |
| `plugin_retry` | `PluginHost` | `EnteredBehindIntent` | | violated: finding 6 |

Deadlock is not checked in the passing runs: every part comes to a rest when its bounds are used up, and
some may really stop (a store whose restore was interrupted, an audit stream with a torn record).

**durable.** Two keys write one resource, one of them with a delete, and a third binding reuses a key for
another resource: the cases that tell generations, deletes and conflicting retries apart. `MaxRetained = 2`
lets the capacity be reached and `JournalLimit = 6` the journal fill. On the machine `"process"` two kills or
I/O errors fall anywhere, so that a recovery is interrupted and then interrupted again, and one backup is
taken and restored; on the machine `"power"` two power cuts fall. The two are not mixed: finding 2 is their
combination. *Shows*: outside an interrupted restore `reopen` accepts what is on disk (`Recoverable`),
nothing acknowledged is lost (`AckedSurvive`), what is read and answered is what the files hold and, where
power may go, what was synchronised (`AnswersStable`), the whole implements `RequestStore`
(`ImplementsStore`, a refinement), and the store serves again (`ServesAgain`).

**server.** *Audit*: two configurations, six records and three faults reach several rotations, evictions and
a change of configuration in the middle of one. No reported record is lost (`NoRecordLost`), retained
archives stay as they are and eviction is oldest first (`RetainedArchivesFixed`), and a restarted server
audits again unless a torn record stops it (`AuditsAgain`). *Forward*: a put and the delete of the same item,
so that a repetition of the first after the second shows; three elections and a lost frame. A write is
applied at most once (`OnceOnly`) and every client is answered (`Answered`), although two nodes may wait for
each other's mutex. *Front*: two clients, three nodes of which two may
exit, two workers a node; Raft frames always find a worker (`ConsensusServed`), and connections close
(`ConnectionsClose`) unless the exits leave no quorum. The proviso is needed: without a quorum a write keeps the
service mutex for good, and the connections behind it stay open.

**failures.** *Writes*: two nodes, two writes, two elections and two faults of five kinds (crash, unknown put,
refused put, failed response audit, lost frame). A request is dispatched on a state that has what was
acknowledged before it (`NoStaleRead`), what is acknowledged has taken effect in the log (`AckedTakeEffect`), and a
node at rest stores what it serves and dispatches nothing while a put is undecided (`NodesReconciled`). The two writes only add items,
because a state that returns is finding 5, and the first leader is one fixed node, since the nodes are alike
until then. Two nodes are enough for the disagreements the code has to
survive, because Raft's quorum is external. *Seal*: two shares with threshold two, two seal keys, one
stray share, two failing or interrupted operations. The seal on disk always has holders (`SealHeld`), a restart
finds files that fit (`RestartSucceeds`), and stray shares only delay an unseal (`EventuallyUnsealed`).

**access.** Three tokens, one mount of any kind, time up to two, one change of a user, role or policy or one step
of the clock back, crashes and unknown outcomes at any commit: no credential is honoured more often than granted (`CredentialsBounded`), revocation takes whole
trees and renewals outlive nothing (`WholeTrees`), nothing revives (`NoRevival`). Nested mount paths, three KV versions and two
of a key, limits of one and two for an engine and an item, which change between writes, and a default of two where
the code has 10: what an engine serves is what its history gives (`EnginesServe`), and pruning keeps exactly the
versions the limit in force allows, whatever was deleted, undeleted or destroyed between (`KvHistory`).

**storage.** The ledger of the journaled core tells what the store holds (`LedgerTellsStore`), after kills and
failed steps or after losses of power. The two are not mixed, and the property does not hold of their mixture: a
commit renames `CURRENT` and is killed, or told an error, before the directory is synchronised;
`recover_commit` finds the new `CURRENT` and answers that the operation is committed without a sync of its own;
a power cut then drops the rename, while the ledger has the operation as committed. A migration copies each object once (`CopiedOnce`) and its files implement
`MigrationAuthority` (`FollowsMigrationState`, a refinement); what a Raft node answered for is on its disk
(`AnswersSurvive`) and what the cluster handle answers is so (`AnswersTrue`); no peer frame is numbered or
admitted twice, and a running node gives one answer to one operation (`OnceEach`; the operation itself may be
executed again, because an answer that is refused as stale or for want of room comes after the execution and is
not remembered); the key ring is what its journal says (`RingFollowsJournal`); the anchor only
moves forward and a restore publishes what is anchored (`AnchorMovesForward`). One or two faults per
behaviour: one to leave something behind, one to interrupt the recovery from it. Recovery has one generation with two
contents, so that a disk put back diverges or falls behind in its journal or its epoch; one that falls behind
in its generation is left to the proof of `AnchorMovesForward`. The two operation identifiers of
a migration are interchangeable, and the run uses that symmetry; it checks no liveness.

**services.** Every effect of a plugin has an intent, a lease or an outcome (`EffectsAccounted`; request ids are
not reused there, see finding 6); a request of the service core is applied once and an undecided one is
neither aborted nor repeated (`RequestsAccounted`); an invalid token or lease stays invalid
(`InvalidForGood`); the P0 server reports no failure for what it committed, and admits an id again
only when its time in the registry is over (`CommitsAccounted`); effects of
the runtime service lie between two audit events (`RuntimeAudited`); the contract machines keep their
promises (`ContractsHold`); no assertion is released twice (`ReleasedOnce`); an undamaged frame is read as
what was written, and one that is read, damaged or not, is exactly a frame of what is read: the only one if
the format is binary, one of its spellings (letter case, leading zeros, blanks) if it is a text
(`FramesExact`); the pure functions compute their definitions (`ComputedRight`), on all inputs up to a length
over a small alphabet where these are texts or sets, on samples for shares, dates and policies. Two request ids are in use where the requests are the
subject, one elsewhere. Connections are interchangeable, and the run
uses that symmetry; none of its properties is a liveness property.

### Fairness

Stated in the `MCSpec` of `MCDurable`, `MCServer` and `MCFailures`; the other runs check safety only.

- Durable store and audit stream: weak fairness of the step of a running call, of dropping a fenced
  instance and of opening again. A call runs in one thread that waits for nobody; restarting is the operator's
  part. No caller has to call.
- Forwarded requests: weak fairness of the step of the call that holds a node's mutex, which never waits
  longer than the read timeout of `exchange`, and of the commit of an entry at a leader. Delivery is not
  fair: a request that is never delivered times out.
- Front end: weak fairness of the threads together: while some thread can go on, one does. The connections
  of a behaviour are few and each comes to its end in finitely many steps, so this is enough. Timeouts are
  steps of the thread that waits, where the code has one.
- Seal: the process is started again, and the operators go on submitting the shares they hold and
  repeating an initialisation whose response they did not get.

Faults, elections and clock steps are bounded by the models, which stands for "the faults end".

## What is proved

TLAPS checks the following for every value of the constants and every bound, where the runs check one small
instance. Each component's assumption on its constants (`XAssumption`) is a definition that the instance of its
run asserts.

| theorem | statement | module |
|---|---|---|
| `TypeCorrect` | `Spec => []TypeOK` | `DurableHistoryProofs` |
| `Safety` | `Spec => []Safe`, the inductive invariant | `DurableSafetyProofs` |
| `AlwaysRecoverable`, `AcknowledgedSurvive` | `Recoverable`, `AckedSurvive` of run `durable` | `DurableSafetyProofs` |
| `EffectsExact`, `CommitsOnce`, `RoomReserved` | `PublishedEffects`, `AtMostOnce`, `TerminalReserved` | `DurableSafetyProofs` |
| `ServesStable` | `ServedStateIsStable` and `NoAppendBehindTornTail`, under all faults | `DurableStoreProofs` |
| `AnswersAreStable` | `AnswersStable` of run `durable` | `DurableStoreProofs` |
| `StoreImplemented` | `Spec => Abstract!Spec`, the refinement of `RequestStore` | `DurableStoreProofs` |
| `ClusterInvariant` | `Spec => []HaInv`, the inductive invariant of `HaService` | `HaServiceProofs` |
| `ReadsAreCurrent`, `AcknowledgedTakeEffect` | `NoStaleRead`, `AckedTakeEffect` of run `failures` | `HaServiceProofs` |
| `CommitsAtMostOnce` | `OnceOnly` of run `server`, `LocalFollowsCommitted`, `FencedServesNothing` | `HaServiceProofs` |
| `NodeAnswersSurvive` | `RaftSpec => []AnswersSurvive` | `RaftNodeProofs` |
| `ClusterAnswersTrue` | `ClusterSpec => []AnswersTrue` | `ClusterProofs` |
| `PeersOnce` | `PeerSpec => []OnceEach` | `ClusterProofs` |
| `MigrationCopiesOnce` | `MigrationSpec => []CopiedOnce` | `MigrationProofs` |
| `MigrationFollowsState` | `MigrationSpec => FollowsMigrationState`, a refinement | `MigrationProofs` |
| `AnchorOnlyForward` | `RecoverySpec => AnchorMovesForward`, an action property | `ClusterProofs` |
| `LedgerReleasesOnce` | `ReplayLedgerSpec => []ReleasedOnce` | `ServicesProofs` |
| `RuntimeIsAudited` | `RuntimeSpec => []RuntimeAudited` | `ServicesProofs` |

**DurableService.** The assumptions are `RequestsAssumption` and `BoundsAssumption`, and in all but type
correctness and `ServesStable` that no power is lost (`"power" \notin Faults`). None of the invariants is inductive. `Recoverable`
says that `recover()` accepts the files *now*; that the next append leaves them acceptable depends on what the
running call knows of them. `Safe` adds:

- `FilesAgree`: the three files satisfy `History`, which is stronger than `Accepts`: the ledger is exactly the
  prefix of what the journal commits, at most one generation behind, complete while an intent is open; no
  key commits twice.
- `MemoryAgrees`: for each `pc`, how the memory of the call relates to the files (`Settled` between calls,
  `Open` while an intent is pending).
- `SequenceMatches`: `journal_sequence` is the length of the journal, or one less between a write and its sync.
- `RestoreMatches`: every bundle is a whole store, and a restore knows which files it has replaced.
- `RoomForTerminal`, `CallersAgree`, `Fenced` and `PublishedEffects`.

The argument: a journal that gains one record keeps the replay of its prefix (`DurableHistoryProofs`, the
predicate `Extended`), so each append turns one `History` into another, for an intent, a commit and an abort
separately. A checkpoint is a history by itself. `DurableSafetyProofs` goes through `put`, `delete` and
`reconcile`, then recovery, compaction, backup and restore, then the faults; each action is one of the lemmas
plus bookkeeping. The effect of a history is compared through `Effect`, the value of the highest generation
for each resource, which one more generation changes in one place.

`DurableStoreProofs` adds what the running instance knows of its medium. `Serving` says at which steps the
snapshot and the ledger in memory are those of the files, which renames are not synchronised yet, and that a
reference answered `Aborted` is apart from what the files commit (`ServesFiles`, `AbortedApart`, `SourceHeld`); it holds
under loss of power too. The refinement maps the files to what a reopen would find (`Told`): the request of an open
intent counts as committed once its snapshot is renamed, and never before. So the rename (`PublishSnapshot`) is the
abstract commit, `Acknowledge` and `Reconcile` are answers, `ExportBackup` is an export, a restore is two abstract
steps around the time in which its files are mixed, and all other steps, kills and I/O errors included, change
nothing a caller can tell (`QuietStep`).

**HaService**, for any nodes, requests, elections and faults, with requests that undo each other. The assumption
is that the values that stand for "none" are none of the nodes, requests and states. `NoStaleRead` and
`AckedTakeEffect` speak of one moment of a request; that they hold rests on where the request is the rest of the
time. `HaInv` follows it: until it is proposed it is with one node, in one slot or in one frame, and proposing
it puts it into the log and nowhere else (`Alone`). Therefore a request that is proposed cannot be proposed again
(`Spent`), one that is acknowledged is not in the uncommitted tail either (`Done`), and no later step can put it
behind a state that was read without it (`LogInv`). For each node, `Asking`, `Claims`, `Reads`, `Holds` and
`Stopped` say what its running call may rely on. A step either takes a request away from where it was
(`Shrinks`), moves it, or appends it to the log; each kind has one lemma for the places and one for the log.
The theorem says that an acknowledged write has been in the log with its effect; that a later
envelope may be derived from a state without it is finding 4, and `Reconciled` fails for requests
that undo each other (finding 5), so neither has a theorem.

**RaftNode**, with kills, losses of power, failed writes and snapshot transfers whose chunks come late or
twice. `AnswersSurvive` speaks of what is on disk when both stores open; that stays true because of what the
node holds elsewhere. `RaftInv` says of every log a node may go on from (in memory, in the file, in the
directory a loss of power leaves, in a write under way) that it is well formed, agrees with the entries the
cluster chose and keeps the votes and entries answered for (`GoodLog`), of every bundle that its state and
snapshot are prefixes of the chosen entries (`GoodBundle`), that what is purged from a log is in every snapshot
that may be found beside it (`Covered`), and of each chunk and each transfer which part of the snapshot it is
(`Transfers`). `RaftAssumption` says that the bound of the indexes is a natural number and that `Nil` is none of
the records it stands beside; the assumptions of the other components are of the same kind.

**RaftCluster**, for any callers, attempts, elections and entries; Raft itself is external. A receipt says that
every node has applied an entry, and the handle only asks the nodes it has started. `ClusterInv` therefore
says how a bootstrap leads to three started nodes that know the voters before a caller is served
(`Bootstrapped`, `CallersServed`), and what each call already knows of the log (`CallTrue`).

**PeerService**, for any peers and operations, with all faults. `FramesOnce` is not inductive: the next number
is new only if every copy of the numbers from which a node may go on knows the ones it has used. `PeerInv` says
so of the file, of what a loss of power leaves of it and of the memory (`Covers`), and that a number being
written is above those in memory and, once renamed, is in the file (`Ahead`). A failed write leaves the file
ahead of memory, never behind it, and a kill between the rename and the sync leaves one of two files that both
cover what was used, because a number is used only after the sync. `AnswerInv` says that an answer given is the
remembered one, and that what a node is executing it does not remember; without the second an execution could
replace an answer.

**Migration**, for any objects, dependencies and operation identifiers, with failed saves, kills and losses of
power between the four file steps of a save. `MigrationInv` relates the three places a record may be read from
(memory, the directory, what a loss of power leaves of it) to the step of the save that is under way
(`Directory`), says that each of them is the record reported last or its successor (`Newest`), and that each
accounts for what was copied (`Accounted`): an object is retried only when its copy is known not to exist. The
refinement uses the same invariant: the only file step that changes the record a restart selects is the one
that makes its successor durable, and `Valid` makes that successor a step of `MigrationState` (`StepFollows`);
all others, crashes included, leave the authority's state as it is.

**Recovery**, for any coordinators, states and payloads, and any disk put back. A swap is judged by what its
coordinator read some steps ago. `Advancing` says that a read checkpoint with the anchored revision is the
anchored checkpoint, since revisions only grow; `Restoring` that from the fence to the publication the archive
is the one of the anchored checkpoint.

**ReplayLedger**, for any set of tokens and proofs. What was released has a whole frame on the disk
(`OnTheDisk`), the frames chain from the first (`Chained`), so recovery finds all of them, and an open ledger
remembers what was released until it is past its expiry (`EntriesTrue`, `Past`), when it no longer verifies.
Besides typing, `ReplayAssumption` asks one thing of the issuer: that two assertions of one fingerprint which
both verify have one expiry. The proof needs the least frame of a sequence with a property, which is taken from
the well-foundedness of the naturals.

**RuntimeService**, for any requests, failed appends and restarts. What the store has, may turn out to have and
is about to get was accepted in the sink (`AllAccepted`); commits are told once (`CommitsTold`); and what a
caller is about to be told is what the store did (`AboutToTell`).

**Only model-checked**: `DurableService` under loss of power (all but types and `ServesStable`); of `HaService`,
that a node at rest stores what it serves (`NodesReconciled`, for writes that only add); the modules
`AuditRotation`, `SealLifecycle`, `FrontEnd`, `Auth`, `Engines`, `JournaledCore`, `KeyRing`, `PluginHost`, `ServiceCore`,
`P0Server` and `Contracts`, whose invariants are not proved; and what the prover cannot do: liveness under
fairness (`ServesAgain`, `AuditsAgain`, `Answered`, `ConnectionsClose`, `EventuallyUnsealed`), and the algorithms and formats,
which are recursive definitions or use bit operations.

## Findings

Each is a disagreement between a sentence of the repository and the code, with the run that shows it.

1. `durable_mixed`: an interrupted `restore_backup` can leave files of two histories that `reopen`
   accepts; the module document says such a set is rejected.
2. `durable_report`: after a kill, recovery reports a journal record it never synchronises; the document
   says synchronisation precedes the report.
3. `audit_truncation`: a recovery that finds the active file already empty does not synchronise the
   truncation before the final manifest; the runbook states the order.
4. `ha_base`: the base digest is compared and the envelope proposed in separate steps; two elections in
   between let an envelope replace one it was not derived from. The comment on `commit_state` says a leader
   refuses this.
5. `ha_return`: reconciliation stores a state under an operation id made of its digest; when the state
   returns to an earlier one the put is a duplicate and the store keeps the older value.
6. `plugin_retry`: a call repeated with its request id after its intent was cleared enters the plugin without
   an intent on disk, because the store answers `Duplicate`; the module comment says an effect is never
   entered before a durable intent exists.

Met while modelling, and not runs of their own, because no sentence of the repository says otherwise:

- `compact` drops the `Abort` records with the rest of the journal, so a reference that was answered
  `Aborted` may be unknown after the next reopen.
- An append of unknown outcome does not poison the federated replay ledger; a later record then repeats its
  number and the next open refuses the file. The ledger fails closed.
- A kill, or an open that is refused late, leaves `writer.lock`; the models have an operator who removes it.
- A temporary file that a kill leaves in a migration directory blocks the next commit of that generation.
- A durable store at `max_retained_requests` refuses mutations for good, by design.
- A write has no timeout: a leader that loses its quorum while it commits keeps the service mutex, and every later
  request of that node waits behind it until a quorum is back.
- A snapshot is checked against the apply cursor by its index only, so it may bring a lower term than the log had.
- `Contracts` assumes a clock that does not go back; the crates take the time as an argument.

## Not modelled

- Cryptography: AEAD, key derivation, signatures and randomness are perfect. Shamir's shares and the text
  and binary formats around ciphertexts are in `Algorithms` and `Codecs`.
- `openraft`: the log, elections and the order of storage calls are external, as `store.rs` and `cluster.rs`
  use them. Sockets, TLS and the process wrapper of the Raft runtime.
- In `HaService`, the second commit of a request that uses a limited token (`Auth` has both commits, on one
  node), more than one namespace, and the seal under HA.
- Parsing of JSON, HCL tokens, URLs, durations and command lines, and validation of field names: these
  refuse a request without a change of state. The policy grammar over tokens is in `Algorithms`.
- Reads, lists, descriptors and responses that only format state.
- `heptabao-filesystem-guard`: directory handles and the exclusive lock, pure I/O. The models of the stores
  assume one writer.
- Crates of traits and bounded types, offline checks of evidence, and the Python tooling; `PROJECT.json`
  lists each with its reason.
- Of `plugin-host`, the broker without a durable service and the sandbox of the plugin process; of the KV
  engine of the service core, `undelete` and `destroy`, which nothing calls.
