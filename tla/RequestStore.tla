---------------------------- MODULE RequestStore ----------------------------
(***************************************************************************)
(* What crates/heptabao-durable-service promises its callers, without      *)
(* files: a set of committed requests, each with the generation it was     *)
(* given, that grows by one request at a time.  A request key commits at   *)
(* most once.  What a caller was told is committed is never lost, except   *)
(* by a restore, which replaces the whole set by one exported earlier.     *)
(*                                                                         *)
(* Between the first and the last file replacement of a restore the store  *)
(* is "replacing" and promises nothing.                                    *)
(***************************************************************************)
EXTENDS Integers, FiniteSets

CONSTANTS
  Requests,      \* records with a field key
  MaxRetained,   \* lifetime number of requests
  Lossy          \* TRUE if a request nobody was told of may disappear

VARIABLES
  committed,     \* set of [req, gen]
  promised,      \* those a caller was told of
  exported,      \* the committed sets callers hold a backup of
  replacing      \* a restore has begun and not completed

vars == <<committed, promised, exported, replacing>>

Init ==
  /\ committed = {}
  /\ promised = {}
  /\ exported = {}
  /\ replacing = FALSE

Commit(r) ==
  /\ ~replacing
  /\ \A c \in committed : c.req.key # r.key
  /\ Cardinality(committed) < MaxRetained
  /\ committed' = committed \cup {[req |-> r, gen |-> Cardinality(committed) + 1]}
  /\ UNCHANGED <<promised, exported, replacing>>

Promise(c) ==
  /\ ~replacing
  /\ promised' = promised \cup {c}
  /\ UNCHANGED <<committed, exported, replacing>>

\* A power cut may undo the newest request if its caller still waits.
Lose(c) ==
  /\ Lossy
  /\ ~replacing
  /\ c.gen = Cardinality(committed)
  /\ c \notin promised
  /\ committed' = committed \ {c}
  /\ UNCHANGED <<promised, exported, replacing>>

Export ==
  /\ ~replacing
  /\ exported' = exported \cup {committed}
  /\ UNCHANGED <<committed, promised, replacing>>

BeginReplace ==
  /\ replacing' = TRUE
  /\ committed' = {}
  /\ promised' = {}
  /\ UNCHANGED exported

FinishReplace(s) ==
  /\ replacing
  /\ replacing' = FALSE
  /\ committed' = s
  /\ promised' \in SUBSET s
  /\ UNCHANGED exported

Next ==
  \/ \E r \in Requests : Commit(r)
  \/ \E c \in committed : Promise(c) \/ Lose(c)
  \/ Export
  \/ BeginReplace
  \/ \E s \in exported : FinishReplace(s)

Spec == Init /\ [][Next]_vars
=============================================================================
