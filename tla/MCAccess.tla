------------------------------ MODULE MCAccess -------------------------------
(***************************************************************************)
(* What a request of the server reads and changes: the authentication      *)
(* state and the secret engines. The two are parts of one stored state and *)
(* no operation changes both, so that a behaviour exercises one of them,   *)
(* which `part' names; the variables of the other are not used.            *)
(***************************************************************************)
EXTENDS TLC

CONSTANTS Unused, None, Kinds, TokenOrders, Grants, Assertions, PolicyBodies,
          DefaultTtl, MaxTtl, Skew, ReplayLimit, MaxClock, MaxTokens, MaxSecrets,
          MaxUpsets, Unset, Focus, MountPaths, Fields, MetaKeys,
          DefaultRetained, Seeds, FailureLimit, EncryptionLimit, MaxTime, MaxVersion,
          MaxRetained, MaxKeyVersion, MaxKeys

VARIABLES part, stored, memory, clock, request, book, edits, setbacks, focus, now,
          mounts, made, issued, accepted

AU == INSTANCE Auth
EN == INSTANCE Engines

-----------------------------------------------------------------------------
\* Token requests with a period, an explicit maximum and a use limit, a role of one use, two
\* assertions whose lifetimes overlap, and policies that grant and deny.
Order(policies, uses, orphan, period, ttl, explicit) ==
    [policies |-> policies, uses |-> uses, orphan |-> orphan, period |-> period,
     ttl |-> ttl, explicit |-> explicit, renewable |-> TRUE]

SomeOrders ==
    {Order({"default", "p"}, 0, FALSE, 0, 2, 1), Order({"p"}, 1, TRUE, 1, 0, 0)}

SomeGrants == {[policies |-> {"p"}, ttl |-> 1, max |-> 0, uses |-> 1]}

SomeAssertions ==
    {[id |-> "j1", key |-> "k1", iat |-> 0, nbf |-> 0, exp |-> 2, groups |-> {"ops"}],
     [id |-> "j2", key |-> "k1", iat |-> 1, nbf |-> 1, exp |-> 3, groups |-> {}]}

SomeBodies == {{"update", "sudo"}, {"deny"}}

\* Mount paths that lie inside each other, the built-in one and a reserved one, and how long
\* the clock runs in the engines that read it.
SomePaths == {<<"a">>, <<"a", "b">>, <<"secret">>, <<"secret", "x">>, <<"sys">>}
Times == [kv |-> 1, totp |-> 3]

-----------------------------------------------------------------------------
authVars == <<stored, memory, clock, request, book, edits, setbacks>>
enginesVars == <<focus, now, mounts, made, issued, accepted>>
allVars == <<part, authVars, enginesVars>>

\* The parts that a behaviour leaves alone.
NoAuth ==
    /\ stored = Unused /\ memory = Unused /\ clock = Unused /\ request = Unused
    /\ book = Unused /\ edits = Unused /\ setbacks = Unused

NoEngines ==
    /\ focus = Unused /\ now = Unused /\ mounts = Unused /\ made = Unused
    /\ issued = Unused /\ accepted = Unused

MCInit ==
    \/ part = "auth" /\ AU!AuthInit /\ NoEngines
    \/ part = "engines" /\ EN!EngineInit /\ NoAuth

MCNext ==
    \/ part = "auth" /\ AU!AuthNext /\ UNCHANGED <<part, enginesVars>>
    \/ part = "engines" /\ EN!EngineNext /\ UNCHANGED <<part, authVars>>

MCSpec == MCInit /\ [][MCNext]_allVars

-----------------------------------------------------------------------------
\* No credential is honoured more often than it was granted for: the uses of a token and
\* of a secret id are spent before what they pay for, a TOTP code and an external
\* assertion are accepted once, whatever crashes, failed commits, pruning and steps of the
\* clock happen between (server, service.rs handle_inner and auth.rs).
CredentialsBounded ==
    part = "auth" => /\ AU!AuthTypeOK /\ AU!UsesBounded /\ AU!SecretBounded
                     /\ AU!CodeOnce /\ AU!ReplayOnce

\* Revocation takes whole trees, the end of a mount everything that came of it, a child
\* is never ended by its parent's last use, and no renewal outlives what the token was
\* issued under (auth.rs, revoke, disable_auth_mount and token_route).
WholeTrees ==
    part = "auth" => AU!WholeTrees /\ AU!MountRevoked /\ AU!ParentsUnlimited /\ AU!NeverOutlives

\* A token that no request could use is never usable again while time does not go back,
\* and a usable one disappears only by a revocation (auth.rs, token_route and tidy).
NoRevival == [][part = "auth" => AU!NoRevival /\ AU!OnlyRevoked]_allVars

\* No mount hides another; Transit opens what it handed out and counts every use of a key
\* version; a TOTP code is accepted once (engines.rs, engines/transit.rs, engines/totp.rs).
EnginesServe == part = "engines" => EN!RoutesOnce /\ EN!TransitServes /\ EN!TotpOnce

\* The history of a KV version 2 entry is only added to, and pruned by writes to the limit
\* in force, never further (engines/kv.rs).
KvHistory == [][part = "engines" => EN!KvHistory]_allVars
=============================================================================
