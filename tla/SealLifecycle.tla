---------------------------- MODULE SealLifecycle ---------------------------
(***************************************************************************)
(* Initialization, unseal, seal, rekey and maintenance of one server       *)
(* without HA: Service::new_inner, initialize, recover_initialization,     *)
(* ack_initialization, unseal, activate_barrier, rekey_route,              *)
(* verify_rekey_share and maintenance_route of service.rs.                 *)
(*                                                                         *)
(* A seal key is a number; a share is the key and an index.  Every seal    *)
(* has the same number of shares and the same threshold, so a share of one *)
(* generation passes the parameter check of another and only unwrapping    *)
(* tells them apart.  The barrier key never changes.  What the store holds *)
(* is a version number, and a put or a restore is what DurableService      *)
(* promises.  A nonce that does not match changes nothing.                 *)
(*                                                                         *)
(* disk is what a process reads and synced what a power cut leaves of it.  *)
(* An operation on a file ends ok, refused (nothing changed), unsynced     *)
(* (done, the directory sync failed) or died (done, the process killed).   *)
(***************************************************************************)
EXTENDS Integers, FiniteSets, FiniteSetsExt

CONSTANTS Shares, Threshold,  \* secret_shares, secret_threshold
          None, Sealed,
          Faults,             \* bound: refused, unsynced, died, kill, power, store
          MaxFaults,          \* bound: how many
          MaxKeys,            \* bound: seal keys generated
          MaxStray,           \* bound: shares of another key submitted
          MaxVersion,         \* bound: commits, restores and seals
          Verification        \* bound: the values of require_verification asked for

\* What the constants must be.
SealAssumption ==
  /\ Shares \in Nat /\ Threshold \in 1..Shares
  /\ MaxFaults \in Nat /\ MaxKeys \in Nat /\ MaxStray \in Nat /\ MaxVersion \in Nat
  /\ Faults \subseteq {"refused", "unsynced", "died", "kill", "power", "store"}
  /\ Verification \subseteq BOOLEAN

VARIABLES disk,     \* the data directory: its entry, the seal, rekey and recovery files
          synced,   \* what a power cut leaves of it
          store     \* the version of the application state in the store

VARIABLES up,                 \* a process runs
          seal,               \* Service.seal
          unseal_shares,
          state,              \* the version served, or Sealed
          rekey,
          recovery_required

VARIABLES held,      \* keys whose shares a response carried
          unproven,  \* keys made active without verification
          torn,      \* a rekey file operation failed half done
          acked,     \* keys whose initialization was acknowledged
          warned,    \* an initialization answered with a warning
          cancelled, \* candidates whose rekey was cancelled
          backup,    \* the version of the last exported backup, or None
          keys, stray, steps, faults

files == <<disk, synced, store>>
process == <<up, seal, unseal_shares, state, rekey, recovery_required>>
clients == <<held, unproven, torn, acked, warned, cancelled, backup>>
bounds == <<keys, stray, steps, faults>>
vars == <<files, process, clients, bounds>>

Raw == 0   \* the key of a directory from before seal metadata
Seal(generation, key) == [generation |-> generation, key |-> key]
Share(key, index) == [key |-> key, index |-> index]
EmptyDisk == [dir |-> FALSE, seal |-> None, pending |-> None, init |-> None]
Idle == [verify |-> TRUE, provided |-> {}, verification |-> None, verified |-> {}]

Serving == up /\ state # Sealed /\ ~recovery_required

\* Each end but ok takes one of the faults the run allows.
Fault(kind) == kind \in Faults /\ faults < MaxFaults /\ faults' = faults + 1
Outcome(o) == IF o = "ok" THEN UNCHANGED faults ELSE Fault(o)
Outcomes == {"ok", "refused", "unsynced", "died"}
Done(o) == o # "refused"

\* The directory sync at the end of an operation covers every entry of the directory.
SyncData(o) == synced' = IF o = "ok" THEN [disk' EXCEPT !.dir = synced.dir] ELSE synced

-----------------------------------------------------------------------------
(***************************************************************************)
(* collect_seal_key.                                                       *)
(***************************************************************************)
\* A raw key has another length than an encoded share.
Decodes(metadata, s) == (metadata.key = Raw) = (s.key = Raw)

Conflicting(provided, s) == \E x \in provided : x.index = s.index /\ x # s

Enough(metadata, provided) == metadata.key = Raw \/ Cardinality(provided) >= Threshold

\* The lowest indices, as many as the threshold, and what they combine to:
\* shares of different keys make a key of no seal.
Combined(provided) ==
  LET selected == {x \in provided : Cardinality({y \in provided : y.index < x.index}) < Threshold}
  IN  IF \E k \in {x.key : x \in selected} : \A x \in selected : x.key = k
      THEN (CHOOSE x \in selected : TRUE).key
      ELSE None

\* unwrap_barrier_key succeeds under the key the metadata was wrapped with.
Unwraps(metadata, provided, s) ==
  (IF metadata.key = Raw THEN s.key ELSE Combined(provided \cup {s})) = metadata.key

\* A share an operator holds; one of another key than expected is a stray.
Submit(s, metadata) ==
  /\ s.key \in held
  /\ s.key # metadata.key => stray < MaxStray
  /\ stray' = IF s.key = metadata.key THEN stray ELSE stray + 1

-----------------------------------------------------------------------------
(***************************************************************************)
(* The process: start, kill, power cut.                                    *)
(***************************************************************************)
Down ==
  /\ up' = FALSE /\ seal' = None /\ unseal_shares' = {} /\ state' = Sealed
  /\ rekey' = None /\ recovery_required' = FALSE

\* load_pending_rekey: no file, a completed rekey, or one for the active seal.
PendingFits ==
  disk.pending # None =>
    /\ disk.seal # None
    /\ \/ disk.pending.candidate = disk.seal
       \/ disk.pending.active_generation = disk.seal.generation

Completed == disk.pending # None /\ disk.pending.candidate = disk.seal

Start ==
  /\ ~up /\ PendingFits
  /\ \E o \in Outcomes :
       /\ Completed \/ o = "ok"
       /\ Outcome(o)
       /\ disk' = IF Completed /\ Done(o) THEN [disk EXCEPT !.pending = None] ELSE disk
       /\ IF Completed THEN SyncData(o) ELSE UNCHANGED synced
       /\ IF o = "ok"
          THEN /\ up' = TRUE /\ seal' = disk.seal
               /\ rekey' = IF disk'.pending = None THEN None
                           ELSE [Idle EXCEPT !.verification = disk.pending]
               /\ UNCHANGED <<unseal_shares, state, recovery_required>>
          ELSE Down
       /\ torn' = (torn \/ o = "unsynced")
  /\ UNCHANGED <<store, held, unproven, acked, warned, cancelled, backup, keys, stray, steps>>

Kill ==
  /\ up /\ Fault("kill") /\ Down
  /\ UNCHANGED <<files, clients, keys, stray, steps>>

\* Every entry is what the process saw or what was synced; without the
\* directory's own entry all is gone.
PowerCut ==
  /\ Fault("power") /\ Down
  /\ \E d \in {disk.dir, synced.dir}, s \in {disk.seal, synced.seal},
        p \in {disk.pending, synced.pending}, i \in {disk.init, synced.init} :
       disk' = IF d THEN [dir |-> TRUE, seal |-> s, pending |-> p, init |-> i] ELSE EmptyDisk
  /\ synced' = disk'
  /\ store' = IF disk'.dir THEN store ELSE 0
  /\ UNCHANGED <<clients, keys, stray, steps>>

-----------------------------------------------------------------------------
(***************************************************************************)
(* sys/init and sys/init/ack.                                              *)
(***************************************************************************)
\* The stage is written and synced under a private name; only the rename
\* publishes it, and a stage that fails before is removed.
Initialize(secret) ==
  LET k == keys + 1  metadata == Seal(1, k) IN
  /\ up /\ ~disk.dir /\ k <= MaxKeys
  /\ \E o \in Outcomes :
       /\ Outcome(o)
       /\ IF o = "refused"
          THEN UNCHANGED <<files, process, held, keys>>
          ELSE /\ keys' = k
               /\ disk' = [dir |-> TRUE, seal |-> metadata, pending |-> None,
                           init |-> IF secret THEN metadata ELSE None]
               /\ synced' = [disk' EXCEPT !.dir = (o = "ok")]
               /\ store' = 0
               /\ IF o = "died"
                  THEN Down /\ UNCHANGED held
                  ELSE /\ seal' = metadata /\ state' = Sealed
                       /\ unseal_shares' = {} /\ rekey' = None
                       /\ recovery_required' = (recovery_required \/ o = "unsynced")
                       /\ held' = IF o = "ok" \/ ~secret THEN held \cup {k} ELSE held
                       /\ UNCHANGED up
       /\ warned' = (warned \/ (o = "unsynced" /\ ~secret))
  /\ UNCHANGED <<unproven, torn, acked, cancelled, backup, stray, steps>>

\* A repeat with the same secret: the recovery file is bound to the seal.
RecoverInitialization ==
  /\ up /\ disk.dir /\ seal # None /\ seal = disk.seal /\ disk.init = seal
  /\ \E o \in {"ok", "refused"} :
       /\ Outcome(o)
       /\ IF o = "ok"
          THEN synced' = [synced EXCEPT !.dir = TRUE] /\ held' = held \cup {seal.key}
          ELSE UNCHANGED <<synced, held>>
  /\ UNCHANGED <<disk, store, process, unproven, torn, acked, warned, cancelled, backup, keys, stray, steps>>

AckInitialization ==
  /\ Serving
  /\ \E o \in Outcomes :
       /\ Outcome(o)
       /\ disk' = IF Done(o) THEN [disk EXCEPT !.init = None] ELSE disk
       /\ SyncData(o)
       /\ acked' = IF o = "ok" THEN acked \cup {seal.key} ELSE acked
       /\ IF o = "died" THEN Down
          ELSE /\ recovery_required' = (o = "unsynced")
               /\ UNCHANGED <<up, seal, unseal_shares, state, rekey>>
  /\ UNCHANGED <<store, held, unproven, torn, warned, cancelled, backup, keys, stray, steps>>

-----------------------------------------------------------------------------
(***************************************************************************)
(* sys/unseal and sys/seal.                                                *)
(***************************************************************************)
\* activate_barrier reopens the store, or leaves the server sealed.
Activate ==
  \/ state' = store /\ recovery_required' = FALSE /\ UNCHANGED faults
  \/ Fault("store") /\ state' = Sealed /\ UNCHANGED recovery_required

Unsealing == up /\ disk.dir /\ (state = Sealed \/ recovery_required)

\* Mutant: shares that combine to no seal key stay.
UnsealKept(s) ==
  /\ Unsealing /\ seal # None /\ Submit(s, seal)
  /\ Decodes(seal, s) /\ ~Conflicting(unseal_shares, s)
  /\ IF Enough(seal, unseal_shares \cup {s}) /\ Unwraps(seal, unseal_shares, s)
     THEN unseal_shares' = {} /\ Activate
     ELSE unseal_shares' = unseal_shares \cup {s} /\ UNCHANGED <<state, recovery_required, faults>>
  /\ UNCHANGED <<files, up, seal, rekey, clients, keys, steps>>

Unseal(s) ==
  /\ Unsealing /\ seal # None /\ Submit(s, seal)
  /\ Decodes(seal, s) /\ ~Conflicting(unseal_shares, s)
  /\ IF Enough(seal, unseal_shares \cup {s})
     THEN /\ unseal_shares' = {}
          /\ IF Unwraps(seal, unseal_shares, s) THEN Activate
             ELSE UNCHANGED <<state, recovery_required, faults>>
     ELSE unseal_shares' = unseal_shares \cup {s} /\ UNCHANGED <<state, recovery_required, faults>>
  /\ UNCHANGED <<files, up, seal, rekey, clients, keys, steps>>

ResetUnseal ==
  /\ Unsealing /\ unseal_shares # {}
  /\ unseal_shares' = {}
  /\ steps < MaxVersion /\ steps' = steps + 1
  /\ UNCHANGED <<files, up, seal, state, rekey, recovery_required, clients, keys, stray, faults>>

\* A directory without seal metadata is opened with the barrier key itself
\* and gets metadata that wraps it.
UnsealLegacy ==
  /\ Unsealing /\ seal = None /\ Raw \in held
  /\ \E o \in Outcomes :
       /\ Outcome(o)
       /\ disk' = IF Done(o) THEN [disk EXCEPT !.seal = Seal(1, Raw)] ELSE disk
       /\ SyncData(o)
       /\ CASE o = "ok" -> /\ state' = store /\ seal' = Seal(1, Raw) /\ recovery_required' = FALSE
                           /\ UNCHANGED <<up, unseal_shares, rekey>>
            [] o = "died" -> Down
            [] OTHER -> /\ state' = Sealed /\ recovery_required' = FALSE
                        /\ UNCHANGED <<up, seal, unseal_shares, rekey>>
       /\ torn' = (torn \/ o = "unsynced")
  /\ UNCHANGED <<store, held, unproven, acked, warned, cancelled, backup, keys, stray, steps>>

\* A rekey that waits for its verification outlives the seal.
SealServer ==
  /\ Serving /\ steps < MaxVersion /\ steps' = steps + 1
  /\ state' = Sealed /\ unseal_shares' = {}
  /\ rekey' = IF rekey = None \/ rekey.verification = None THEN None
              ELSE [rekey EXCEPT !.provided = {}, !.verified = {}]
  /\ UNCHANGED <<files, up, seal, recovery_required, clients, keys, stray, faults>>

-----------------------------------------------------------------------------
(***************************************************************************)
(* sys/rekey/init and sys/rekey/update.                                    *)
(***************************************************************************)
Rekeying == Serving /\ disk.init = None

StartRekey(verify) ==
  /\ Rekeying /\ rekey = None /\ seal # None /\ keys < MaxKeys
  /\ rekey' = [Idle EXCEPT !.verify = verify]
  /\ UNCHANGED <<files, up, seal, unseal_shares, state, recovery_required, clients, bounds>>

CancelRekey ==
  /\ Rekeying /\ rekey # None
  /\ \E o \in Outcomes :
       /\ Outcome(o)
       /\ IF rekey.verification = None \/ disk.pending = None
          THEN o = "ok" /\ UNCHANGED <<disk, synced>>
          ELSE /\ disk' = IF Done(o) THEN [disk EXCEPT !.pending = None] ELSE disk
               /\ SyncData(o)
       /\ cancelled' = IF o # "ok" \/ rekey.verification = None THEN cancelled
                       ELSE cancelled \cup {rekey.verification.candidate.key}
       /\ IF o = "died" THEN Down
          ELSE /\ rekey' = IF o = "ok" THEN None ELSE rekey
               /\ UNCHANGED <<up, seal, unseal_shares, state, recovery_required>>
       /\ torn' = (torn \/ o = "unsynced")
  /\ UNCHANGED <<store, held, unproven, acked, warned, backup, keys, stray, steps>>

\* A share of the active seal; the last one makes the candidate.
Provide(s) ==
  /\ Rekeying /\ rekey # None /\ rekey.verification = None /\ Submit(s, seal)
  /\ Decodes(seal, s) /\ ~Conflicting(rekey.provided, s)
  /\ ~(Enough(seal, rekey.provided \cup {s}) /\ Unwraps(seal, rekey.provided, s))
  /\ rekey' = [rekey EXCEPT !.provided = IF seal.key = Raw THEN @ ELSE @ \cup {s}]
  /\ UNCHANGED <<files, up, seal, unseal_shares, state, recovery_required, clients>>
  /\ UNCHANGED <<keys, steps, faults>>

Authorizes(s) ==
  /\ Rekeying /\ rekey # None /\ rekey.verification = None /\ Submit(s, seal)
  /\ Decodes(seal, s) /\ ~Conflicting(rekey.provided, s)
  /\ Enough(seal, rekey.provided \cup {s}) /\ Unwraps(seal, rekey.provided, s)
  /\ keys < MaxKeys /\ keys' = keys + 1

Candidate == Seal(seal.generation + 1, keys + 1)

\* With verification the candidate waits in its own file, and its shares
\* leave the server only after the file is synced.
Stage(s) ==
  LET pending == [active_generation |-> seal.generation, candidate |-> Candidate] IN
  /\ Authorizes(s) /\ rekey.verify
  /\ \E o \in Outcomes :
       /\ Outcome(o)
       /\ disk' = IF Done(o) THEN [disk EXCEPT !.pending = pending] ELSE disk
       /\ SyncData(o)
       /\ IF o = "died" THEN Down
          ELSE /\ rekey' = IF o = "ok" THEN [Idle EXCEPT !.verification = pending]
                           ELSE [rekey EXCEPT !.provided = @ \cup {s}]
               /\ UNCHANGED <<up, seal, unseal_shares, state, recovery_required>>
       /\ held' = IF o = "ok" THEN held \cup {keys + 1} ELSE held
       /\ torn' = (torn \/ o = "unsynced")
  /\ UNCHANGED <<store, unproven, acked, warned, cancelled, backup, steps>>

\* Without, the candidate replaces the seal before its shares leave the server.
Replace(s) ==
  /\ Authorizes(s) /\ ~rekey.verify
  /\ \E o \in Outcomes :
       /\ Outcome(o)
       /\ disk' = IF Done(o) THEN [disk EXCEPT !.seal = Candidate] ELSE disk
       /\ SyncData(o)
       /\ IF o = "died" THEN Down
          ELSE /\ IF o = "ok"
                  THEN seal' = Candidate /\ rekey' = None /\ unseal_shares' = {}
                  ELSE /\ rekey' = [rekey EXCEPT !.provided = @ \cup {s}]
                       /\ UNCHANGED <<seal, unseal_shares>>
               /\ UNCHANGED <<up, state, recovery_required>>
       /\ held' = IF o = "ok" THEN held \cup {keys + 1} ELSE held
       /\ unproven' = IF Done(o) THEN unproven \cup {keys + 1} ELSE unproven
       /\ torn' = (torn \/ o = "unsynced")
  /\ UNCHANGED <<store, acked, warned, cancelled, backup, steps>>

\* verify_rekey_share, a share that does not complete the candidate's key: too
\* few wait, and enough of them that do not unwrap it are dropped.
VerifyShare(s) ==
  LET pending == rekey.verification  provided == rekey.verified \cup {s} IN
  /\ Rekeying /\ rekey # None /\ pending # None /\ Submit(s, pending.candidate)
  /\ Decodes(pending.candidate, s) /\ ~Conflicting(rekey.verified, s)
  /\ ~(Enough(pending.candidate, provided) /\ Unwraps(pending.candidate, rekey.verified, s))
  /\ rekey' = [rekey EXCEPT !.verified = IF Enough(pending.candidate, provided) THEN {} ELSE provided]
  /\ UNCHANGED <<files, up, seal, unseal_shares, state, recovery_required, clients>>
  /\ UNCHANGED <<keys, steps, faults>>

\* Mutant: the file of the promoted candidate stays.
PromoteKeepsFile(s) ==
  LET pending == rekey.verification IN
  /\ Rekeying /\ rekey # None /\ pending # None /\ Submit(s, pending.candidate)
  /\ Decodes(pending.candidate, s) /\ ~Conflicting(rekey.verified, s)
  /\ Enough(pending.candidate, rekey.verified \cup {s})
  /\ Unwraps(pending.candidate, rekey.verified, s)
  /\ disk' = [disk EXCEPT !.seal = pending.candidate] /\ SyncData("ok")
  /\ seal' = pending.candidate /\ unseal_shares' = {} /\ rekey' = None
  /\ UNCHANGED <<up, state, recovery_required, store, clients, keys, steps, faults>>

\* Mutant: the candidate is promoted on the first share.
PromoteAny(s) ==
  LET pending == rekey.verification IN
  /\ Rekeying /\ rekey # None /\ pending # None /\ Submit(s, seal)
  /\ disk' = [disk EXCEPT !.seal = pending.candidate, !.pending = None] /\ SyncData("ok")
  /\ seal' = pending.candidate /\ unseal_shares' = {} /\ rekey' = None
  /\ UNCHANGED <<up, state, recovery_required, store, clients, keys, steps, faults>>

\* The share that completes it: the candidate becomes the seal, then its file goes.
Promote(s) ==
  LET pending == rekey.verification IN
  /\ Rekeying /\ rekey # None /\ pending # None /\ Submit(s, pending.candidate)
  /\ Decodes(pending.candidate, s) /\ ~Conflicting(rekey.verified, s)
  /\ Enough(pending.candidate, rekey.verified \cup {s})
  /\ Unwraps(pending.candidate, rekey.verified, s)
  /\ \E o, d \in Outcomes :
       LET promoted == [disk EXCEPT !.seal = IF Done(o) THEN pending.candidate ELSE @]
           cleaned == o = "ok" /\ Done(d) IN
       /\ IF o = "ok" THEN Outcome(d) ELSE d = "ok" /\ Outcome(o)
       /\ disk' = IF cleaned THEN [promoted EXCEPT !.pending = None] ELSE promoted
       /\ synced' = IF o # "ok" THEN synced
                    ELSE [(IF d = "ok" THEN disk' ELSE promoted) EXCEPT !.dir = synced.dir]
       /\ IF "died" \in {o, d} THEN Down
          ELSE /\ IF o = "ok"
                  THEN /\ seal' = pending.candidate /\ unseal_shares' = {} /\ rekey' = None
                       /\ recovery_required' = (d # "ok")
                  ELSE /\ rekey' = [rekey EXCEPT !.verified = @ \cup {s}]
                       /\ UNCHANGED <<seal, unseal_shares, recovery_required>>
               /\ UNCHANGED <<up, state>>
       /\ torn' = (torn \/ o = "unsynced" \/ d \in {"unsynced", "refused"})
  /\ UNCHANGED <<store, held, unproven, acked, warned, cancelled, backup, keys, steps>>

-----------------------------------------------------------------------------
(***************************************************************************)
(* Requests that change the application state, and maintenance_route.      *)
(***************************************************************************)
\* persist_local: applied, or an outcome that cannot be known.
Commit ==
  /\ Serving /\ steps < MaxVersion /\ steps' = steps + 1
  /\ \/ store' = store + 1 /\ state' = store' /\ UNCHANGED <<recovery_required, faults>>
     \/ /\ Fault("store") /\ recovery_required' = TRUE
        /\ store' \in {store, store + 1} /\ UNCHANGED state
  /\ UNCHANGED <<disk, synced, up, seal, unseal_shares, rekey, clients, keys, stray>>

Export ==
  /\ Serving /\ steps < MaxVersion /\ steps' = steps + 1
  /\ backup' = store
  /\ UNCHANGED <<files, process, held, unproven, torn, acked, warned, cancelled, keys, stray, faults>>

\* A compaction that fails and fences the store fences the service.
Compact ==
  /\ Serving /\ Fault("store") /\ recovery_required' = TRUE
  /\ UNCHANGED <<files, up, seal, unseal_shares, state, rekey, clients, keys, stray, steps>>

\* snapshot refuses an older backup, snapshot-force takes it; the state is
\* loaded again from the store, and a restore that fails fences.
Restore(force) ==
  /\ Serving /\ backup # None /\ (backup < store => force)
  /\ steps < MaxVersion /\ steps' = steps + 1
  /\ \/ store' = backup /\ state' = backup /\ UNCHANGED <<recovery_required, faults>>
     \/ /\ Fault("store") /\ recovery_required' = TRUE
        /\ store' \in {store, backup} /\ UNCHANGED state
  /\ UNCHANGED <<disk, synced, up, seal, unseal_shares, rekey, clients, keys, stray>>

-----------------------------------------------------------------------------
\* An empty parent directory, or a store from before seal metadata.
Init ==
  /\ \/ disk = EmptyDisk /\ held = {}
     \/ disk = [EmptyDisk EXCEPT !.dir = TRUE] /\ held = {Raw}
  /\ synced = disk /\ store = 0
  /\ up = FALSE /\ seal = None /\ unseal_shares = {} /\ state = Sealed
  /\ rekey = None /\ recovery_required = FALSE
  /\ unproven = {} /\ torn = FALSE /\ acked = {} /\ warned = FALSE /\ cancelled = {} /\ backup = None
  /\ keys = 0 /\ stray = 0 /\ steps = 0 /\ faults = 0

AllShares == {Share(k, i) : k \in 1..MaxKeys, i \in 1..Shares} \cup {Share(Raw, 1)}

Next ==
  \/ Start \/ Kill \/ PowerCut
  \/ \E secret \in BOOLEAN : Initialize(secret)
  \/ RecoverInitialization \/ AckInitialization
  \/ UnsealLegacy \/ ResetUnseal \/ SealServer
  \/ \E verify \in Verification : StartRekey(verify)
  \/ CancelRekey
  \/ \E s \in AllShares :
       Unseal(s) \/ Provide(s) \/ Stage(s) \/ Replace(s) \/ VerifyShare(s) \/ Promote(s)
  \/ Commit \/ Export \/ Compact
  \/ \E force \in BOOLEAN : Restore(force)

Spec == Init /\ [][Next]_vars

-----------------------------------------------------------------------------
Seals == [generation : Nat, key : 0..MaxKeys]
Disks == [dir : BOOLEAN, seal : Seals \cup {None}, init : Seals \cup {None},
          pending : [active_generation : Nat, candidate : Seals] \cup {None}]

\* The files, the memory and the ghosts have their types, and a process that
\* is down has no memory.
TypeOK ==
  /\ disk \in Disks /\ synced \in Disks /\ store \in Nat
  /\ ~disk.dir => disk = EmptyDisk
  /\ seal \in Seals \cup {None} /\ unseal_shares \subseteq AllShares
  /\ state \in Nat \cup {Sealed}
  /\ rekey # None => /\ rekey.provided \subseteq AllShares /\ rekey.verified \subseteq AllShares
                     /\ rekey.provided = {} \/ rekey.verification = None
  /\ ~up => state = Sealed /\ seal = None /\ rekey = None
  /\ held \subseteq 0..MaxKeys /\ unproven \subseteq 1..MaxKeys

\* What a power cut could leave in place of the seal file.
PossibleSeals == {disk.seal, synced.seal} \ {None}

\* initialize, verify_rekey_share: whatever fails and whenever the power goes,
\* somebody holds the shares of the seal on disk, or can still recover them with
\* the initialization secret.  Left out: an initialization without a secret whose
\* response is lost with the process, and a rekey that asked for no verification.
SealHeld ==
  \A s \in PossibleSeals :
    \/ s.key \in held \cup unproven
    \/ disk.init = s
    \/ s.generation = 1 /\ disk.init = None /\ held = {}

\* load_pending_rekey: unless a rekey file operation failed half done, a restart
\* finds a rekey file that fits the seal, so the server starts.
RestartSucceeds == ~up /\ ~torn => PendingFits

\* DELETE sys/rekey/init: a candidate whose rekey was cancelled never becomes
\* the seal, not even after a power cut.
CancelledNeverActive == ~torn => \A s \in PossibleSeals : s.key \notin cancelled

\* ack_initialization: after it answered 204 no power cut brings the protected
\* initialization response back.
AcknowledgedGone == \A s \in {disk.init, synced.init} \ {None} : s.key \notin acked

\* initialize, recover_initialization: who gets the shares without a warning can
\* rely on the directory; with the secret, an initialization whose publication
\* is in doubt gives out its shares only once the parent is synced.
PublishedForGood == ~warned /\ disk.seal # None /\ disk.seal.key \in held => synced.dir

\* A server that answers requests serves the state its store holds: commits,
\* restores and unseals that end in doubt leave it fenced.
ServesStore == Serving => state = store

\* A running server that has the seal on disk, and whose shares somebody holds,
\* is unsealed.
UnsealedIfHeld ==
  disk.dir /\ up /\ disk.seal # None /\ seal = disk.seal /\ seal.key \in held => state # Sealed
=============================================================================
