------------------------------- MODULE KeyRing -------------------------------
(***************************************************************************)
(* KeyRingLedger: the status of every key epoch, kept as events in an      *)
(* authenticated journal and replayed from it.  An append whose outcome is *)
(* unknown leaves the ledger closed to writes until it has replayed the    *)
(* journal.                                                                *)
(*                                                                         *)
(* External: the journal, whose append succeeds, fails without effect or   *)
(* has an unknown outcome with or without effect.                          *)
(***************************************************************************)
EXTENDS Integers, Sequences, FiniteSets, FiniteSetsExt, SequencesExt

CONSTANTS Epochs,        \* key epochs, natural numbers
          NoEpoch,       \* model value: no active epoch
          MaxEvents      \* bound: events of the journal

VARIABLES events,        \* the journal
          ring, writeState, \* the ledger: KeyRingState and KeyLedgerWriteState
          retired        \* epochs that were once denied for good: a ghost

ringVars == <<events, ring, writeState, retired>>

NewRing == [epochs |-> [e \in {} |-> "none"], active |-> NoEpoch]
Status(r, e) == IF e \in DOMAIN r.epochs THEN r.epochs[e] ELSE "unknown"

Directive(r, e) == CASE Status(r, e) = "active"       -> "seal-and-open"
                     [] Status(r, e) = "decrypt-only" -> "open-only"
                     [] OTHER                         -> "deny"

With(r, e, status) ==
    [r EXCEPT !.epochs = [x \in DOMAIN @ \cup {e} |-> IF x = e THEN status ELSE @[x]]]

\* validate_event_shape.
WellFormed(ev) == (ev.kind = "rotate") = (ev.previous # NoEpoch) /\ ev.previous # ev.epoch

ValidRing(r) == LET actives == {e \in DOMAIN r.epochs : r.epochs[e] = "active"}
                IN  IF r.active = NoEpoch THEN DOMAIN r.epochs = {} ELSE actives = {r.active}

Bootstrap(r, e) == DOMAIN r.epochs = {} /\ r.active = NoEpoch
Stage(r, e) == r.active # NoEpoch /\ \A x \in DOMAIN r.epochs : e > x
Rotate(r, p, e) == r.active = p /\ Status(r, p) = "active" /\ Status(r, e) = "staged" /\ e > p
Retire(r, e) == Status(r, e) = "decrypt-only"

Revoke(r, e) == r.active # e /\ Status(r, e) \in {"staged", "decrypt-only", "retired"}

\* KeyRingState::apply.
Allowed(r, ev) ==
    /\ WellFormed(ev)
    /\ CASE ev.kind = "bootstrap" -> Bootstrap(r, ev.epoch)
         [] ev.kind = "stage"     -> Stage(r, ev.epoch)
         [] ev.kind = "rotate"    -> Rotate(r, ev.previous, ev.epoch)
         [] ev.kind = "retire"    -> Retire(r, ev.epoch)
         [] ev.kind = "revoke"    -> Revoke(r, ev.epoch)

ApplyEvent(r, ev) ==
    CASE ev.kind = "bootstrap" -> [With(r, ev.epoch, "active") EXCEPT !.active = ev.epoch]
      [] ev.kind = "stage"     -> With(r, ev.epoch, "staged")
      [] ev.kind = "rotate"    -> [With(With(r, ev.previous, "decrypt-only"), ev.epoch, "active")
                                     EXCEPT !.active = ev.epoch]
      [] ev.kind = "retire"    -> With(r, ev.epoch, "retired")
      [] ev.kind = "revoke"    -> With(r, ev.epoch, "revoked")

\* The events of a journal applied in order.
Replay(evs) == FoldLeft(ApplyEvent, NewRing, evs)

Candidates == [kind : {"bootstrap", "stage", "rotate", "retire", "revoke"}, epoch : Epochs,
               previous : Epochs \cup {NoEpoch}]

Denied(r) == {e \in DOMAIN r.epochs : r.epochs[e] \in {"retired", "revoked"}}

-----------------------------------------------------------------------------
\* record: the candidate state is checked before and kept after the append.
Record(ev) ==
    /\ writeState = "writable" /\ Len(events) < MaxEvents
    /\ Allowed(ring, ev) /\ ValidRing(ApplyEvent(ring, ev))
    /\ events' = Append(events, ev) /\ ring' = ApplyEvent(ring, ev)
    /\ retired' = retired \cup Denied(ring')
    /\ UNCHANGED writeState

\* Mutant: a write is allowed after an append of unknown outcome.
RecordUnknownWritable(ev) ==
    /\ writeState = "writable" /\ Len(events) < MaxEvents
    /\ Allowed(ring, ev) /\ ValidRing(ApplyEvent(ring, ev))
    /\ events' \in {events, Append(events, ev)}
    /\ UNCHANGED <<ring, retired, writeState>>

\* The append's outcome is unknown.
RecordUnknown(ev) ==
    /\ writeState = "writable" /\ Len(events) < MaxEvents
    /\ Allowed(ring, ev) /\ ValidRing(ApplyEvent(ring, ev))
    /\ events' \in {events, Append(events, ev)}
    /\ writeState' = "replay-required"
    /\ UNCHANGED <<ring, retired>>

\* recover_after_append_failure, and open or reopen after a restart.
RecoverRing ==
    /\ ring' = Replay(events) /\ writeState' = "writable"
    /\ ring' # ring \/ writeState # "writable"
    /\ retired' = retired \cup Denied(ring')
    /\ UNCHANGED events

RingInit == events = <<>> /\ ring = NewRing /\ writeState = "writable" /\ retired = {}

RingNext == RecoverRing \/ \E ev \in Candidates : Record(ev) \/ RecordUnknown(ev)

RingSpec == RingInit /\ [][RingNext]_ringVars

-----------------------------------------------------------------------------
\* The ledger that takes writes is the one its journal tells, has exactly one
\* epoch that seals once it is bootstrapped, and every prefix of the journal is
\* a legal history: a restart never refuses it.
RingFollowsJournal ==
    /\ writeState = "writable" => ring = Replay(events)
    /\ \A n \in 1..Len(events) : LET r == Replay(SubSeq(events, 1, n - 1))
                                 IN  Allowed(r, events[n]) /\ ValidRing(ApplyEvent(r, events[n]))
    /\ ring.active # NoEpoch => {e \in Epochs : Directive(ring, e) = "seal-and-open"} = {ring.active}
    /\ \A e \in retired : Directive(ring, e) = "deny"
=============================================================================
