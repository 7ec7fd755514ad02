----------------------------- MODULE ReplayLedger -----------------------------
(***************************************************************************)
(* Federated authentication as a library: the JWT verifier, the MFA        *)
(* verifier and the ledgerDurable ledger that admits each assertion once.  The   *)
(* ledger is a file of chained, authenticated frames and a lock file; the  *)
(* process that holds it can be killed, the machine can lose power, and an *)
(* append can fail half way.                                               *)
(*                                                                         *)
(* External: the clock, the signers, and the operator who removes the lock *)
(* file that a killed process leaves behind.  A token or proof is a record *)
(* of the facts the verifiers look at; a fingerprint is its identity.      *)
(***************************************************************************)
EXTENDS Integers, Sequences, FiniteSets, Functions

CONSTANTS Closed,            \* model value: no process holds the ledger
          Presented,         \* tokens and proofs that are presented
          TokenSkew, MfaSkew, MaxLifetime, MaxProofLife, MaxEntries,
          MaxNow, MaxKills, MaxPower, MaxErrors, MaxFrames

VARIABLES ledger,            \* the PersistentReplayLedger in memory, or Closed
          frames,            \* the ledger file
          ledgerDurable,     \* how many of its frames are on the disk
          lockFile,          \* writer.lock exists
          walltime, faultsLeft, unknown, admissions

replayLedgerVars == <<ledger, frames, ledgerDurable, lockFile, walltime, faultsLeft, unknown, admissions>>

------------------------------------------------------------------------------
(* Verification                                                                *)

\* What a member of a JSON object is: present and as the policy wants it, present and
\* outside the policy, of another type, or null.
Required == {"iss", "sub", "aud", "exp", "iat", "jti"}
Optional == {"nbf", "heptabao_namespace", "groups"}

\* parse_unique_object and the take functions: no member twice, every required one there,
\* null only for an optional one, none of another type.
Taken(t) ==
    /\ ~t.duplicate
    /\ Required \subseteq DOMAIN t.claims
    /\ \A c \in DOMAIN t.claims \cap (Required \cup Optional) :
          t.claims[c] \in {"good", "outside"} \/ (c \in Optional /\ t.claims[c] = "null")

\* The header names the algorithm of the key it names, and that key signed the rest.
Signed(t) == t.header = "alg kid typ" /\ t.key = t.signer

\* The policy asks for an issuer, an audience and a namespace.
InPolicy(t) == \A c \in {"iss", "aud", "heptabao_namespace"} : c \in DOMAIN t.claims /\ t.claims[c] = "good"

\* A token without nbf is valid from when it was issued.
InWindow(t, at) ==
    LET notBefore == IF "nbf" \in DOMAIN t.claims /\ t.claims["nbf"] # "null" THEN t.notBefore ELSE t.issued
    IN /\ at + TokenSkew >= notBefore /\ t.issued <= at + TokenSkew
       /\ t.expires > at /\ t.expires > t.issued /\ notBefore < t.expires
       /\ t.expires - t.issued <= MaxLifetime

TokenVerifies(t, at) == Signed(t) /\ Taken(t) /\ InPolicy(t) /\ InWindow(t, at)

\* MfaVerifier::verify: the skew is granted at both ends.
ProofVerifies(p, at) ==
    /\ p.channel = "own" /\ p.expires > p.issued /\ p.expires - p.issued <= MaxProofLife
    /\ at + MfaSkew >= p.issued /\ p.expires + MfaSkew >= at
    /\ p.key = p.signer

Verifies(x, at) == IF x.kind = "token" THEN TokenVerifies(x, at) ELSE ProofVerifies(x, at)

\* A token's issuer, subject, namespace and id; a proof's body and tag.
Fingerprint(x) == <<x.kind, x.id>>

\* The ledger in memory: what it will write next, the tag before it, and the expiry of each
\* fingerprint it remembers.
Ledgers ==
    [sequence : Nat, previous : Nat,
     entries : UNION {[d -> {x.expires : x \in Presented}] : d \in SUBSET {Fingerprint(x) : x \in Presented}}]

\* An issuer gives no two tokens of one identity that verify different expiries (a proof's
\* fingerprint covers its own); expiries are times.
ReplayAssumption ==
    /\ MaxNow \in Nat /\ Closed \notin Ledgers
    /\ \A x \in Presented : x.expires \in Nat
    /\ \A x, y \in Presented, s, t \in 0..MaxNow :
          Fingerprint(x) = Fingerprint(y) /\ Verifies(x, s) /\ Verifies(y, t) => x.expires = y.expires

------------------------------------------------------------------------------
(* The file                                                                    *)

EncodeReplayBody(sequence, x, previous) ==
    [torn |-> FALSE, sequence |-> sequence, fingerprint |-> Fingerprint(x), expires |-> x.expires,
     previous |-> previous]

Torn == [torn |-> TRUE]

\* The tag of a frame stands for the frame itself; the first frame follows no tag.
TagBefore(i) == IF i = 1 THEN 0 ELSE frames[i - 1].sequence

Chained(n) ==
    \A i \in 1..n : ~frames[i].torn /\ frames[i].sequence = i /\ frames[i].previous = TagBefore(i)

\* The frames recover_replay keeps: all of them, or all but a torn tail.  A torn frame with
\* anything whole behind it, or a frame out of the chain, reads as tampered; so may two torn
\* ones, when together they are as long as a frame.
Recovered ==
    {n \in 0..Len(frames) : Chained(n) /\ \A i \in (n + 1)..Len(frames) : frames[i].torn}

MayReadTampered == Recovered = {} \/ \E n \in Recovered : Len(frames) - n >= 2

RecoverReplay(n) ==
    [sequence |-> n + 1,
     previous |-> n,
     entries |-> [f \in {frames[i].fingerprint : i \in 1..n} |->
                     frames[CHOOSE i \in 1..n : /\ frames[i].fingerprint = f
                                                /\ \A j \in (i + 1)..n : frames[j].fingerprint # f].expires]]

\* create_lock, recover_replay, and set_len with sync_all when a torn tail was found.
Open ==
    /\ ledger = Closed /\ ~lockFile
    /\ \E n \in Recovered :
          /\ ledger' = RecoverReplay(n)
          /\ frames' = SubSeq(frames, 1, n)
          /\ ledgerDurable' = IF n < Len(frames) THEN n ELSE ledgerDurable
    /\ lockFile' = TRUE
    /\ UNCHANGED <<walltime, faultsLeft, unknown, admissions>>

\* The lock is taken before the file is read, and a refusal leaves it.
OpenTampered ==
    /\ ledger = Closed /\ ~lockFile /\ MayReadTampered
    /\ lockFile' = TRUE
    /\ UNCHANGED <<ledger, frames, ledgerDurable, walltime, faultsLeft, unknown, admissions>>

Close ==
    /\ ledger # Closed
    /\ ledger' = Closed /\ lockFile' = FALSE
    /\ UNCHANGED <<frames, ledgerDurable, walltime, faultsLeft, unknown, admissions>>

------------------------------------------------------------------------------
(* verify_and_record                                                           *)

Kept == {f \in DOMAIN ledger.entries : ledger.entries[f] >= walltime}

Admissible(x) ==
    /\ Verifies(x, walltime)
    /\ x.expires >= walltime
    /\ Fingerprint(x) \notin Kept /\ Cardinality(Kept) < MaxEntries

\* A replay, a full ledger or an assertion past its expiry: only the expired entries go.
Refused(x) ==
    /\ ledger # Closed /\ Verifies(x, walltime) /\ x.expires >= walltime /\ ~Admissible(x)
    /\ ledger' = [ledger EXCEPT !.entries = Restrict(@, Kept)]
    /\ UNCHANGED <<frames, ledgerDurable, lockFile, walltime, faultsLeft, unknown, admissions>>

\* Mutant: the frame is flushed and not synced before the principal is returned.
RecordOnceFlushed(x) ==
    /\ frames' = Append(frames, EncodeReplayBody(ledger.sequence, x, ledger.previous))
    /\ ledgerDurable' = ledgerDurable

RecordOnce(x) ==
    /\ frames' = Append(frames, EncodeReplayBody(ledger.sequence, x, ledger.previous))
    /\ ledgerDurable' = Len(frames')

VerifyAndRecord(x) ==
    /\ ledger # Closed /\ Len(frames) < MaxFrames /\ Admissible(x)
    /\ RecordOnce(x)
    /\ ledger' = [sequence |-> ledger.sequence + 1, previous |-> ledger.sequence,
                  entries |-> [f \in Kept \cup {Fingerprint(x)} |->
                                  IF f = Fingerprint(x) THEN x.expires ELSE ledger.entries[f]]]
    /\ admissions' = Append(admissions, Fingerprint(x))
    /\ UNCHANGED <<lockFile, walltime, faultsLeft, unknown>>

\* The append fails part way, or its sync does: nothing is released, nothing in memory moves.
RecordUnknown(x) ==
    /\ ledger # Closed /\ Len(frames) < MaxFrames /\ Admissible(x) /\ faultsLeft.errors > 0
    /\ \E f \in {Torn, EncodeReplayBody(ledger.sequence, x, ledger.previous)} : frames' = Append(frames, f)
    /\ ledger' = [ledger EXCEPT !.entries = Restrict(@, Kept)]
    /\ faultsLeft' = [faultsLeft EXCEPT !.errors = @ - 1]
    /\ unknown' = TRUE
    /\ UNCHANGED <<ledgerDurable, lockFile, walltime, admissions>>

------------------------------------------------------------------------------
(* Faults, time and the operator                                               *)

\* A kill in the middle of an append leaves a torn tail; it always leaves the lock file.
Kill ==
    /\ ledger # Closed /\ faultsLeft.kills > 0
    /\ ledger' = Closed /\ faultsLeft' = [faultsLeft EXCEPT !.kills = @ - 1]
    /\ \/ UNCHANGED frames
       \/ \E x \in Presented : /\ Admissible(x) /\ Len(frames) < MaxFrames
                               /\ \E f \in {Torn, EncodeReplayBody(ledger.sequence, x, ledger.previous)} :
                                     frames' = Append(frames, f)
    /\ UNCHANGED <<ledgerDurable, lockFile, walltime, unknown, admissions>>

\* What was not synced may be lost, from the end.
PowerCut ==
    /\ faultsLeft.power > 0
    /\ ledger' = Closed /\ faultsLeft' = [faultsLeft EXCEPT !.power = @ - 1]
    /\ \E n \in ledgerDurable..Len(frames) : frames' = SubSeq(frames, 1, n)
    /\ ledgerDurable' = Len(frames')
    /\ UNCHANGED <<lockFile, walltime, unknown, admissions>>

OperatorRemovesLock ==
    /\ ledger = Closed /\ lockFile
    /\ lockFile' = FALSE
    /\ UNCHANGED <<ledger, frames, ledgerDurable, walltime, faultsLeft, unknown, admissions>>

TimePasses ==
    /\ walltime < MaxNow
    /\ walltime' = walltime + 1
    /\ UNCHANGED <<ledger, frames, ledgerDurable, lockFile, faultsLeft, unknown, admissions>>

ReplayLedgerInit ==
    /\ ledger = Closed /\ frames = <<>> /\ ledgerDurable = 0 /\ lockFile = FALSE /\ walltime = 0
    /\ faultsLeft = [kills |-> MaxKills, power |-> MaxPower, errors |-> MaxErrors]
    /\ unknown = FALSE /\ admissions = <<>>

ReplayLedgerNext ==
    \/ Open \/ OpenTampered \/ Close
    \/ \E x \in Presented : VerifyAndRecord(x) \/ Refused(x) \/ RecordUnknown(x)
    \/ Kill \/ PowerCut \/ OperatorRemovesLock \/ TimePasses

ReplayLedgerSpec == ReplayLedgerInit /\ [][ReplayLedgerNext]_replayLedgerVars

\* Through kills, losses of power and failed appends, no assertion is released twice; and as
\* long as no append ended with an unknown outcome the file recovers (record_once, open,
\* recover_replay).
ReleasedOnce ==
    /\ IsInjective(admissions)
    /\ ~unknown => Recovered # {}

==============================================================================
