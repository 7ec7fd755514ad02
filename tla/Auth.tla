-------------------------------- MODULE Auth --------------------------------
(***************************************************************************)
(* Authentication in the server: tokens and their trees, ACL policies, one *)
(* authentication mount (userpass with TOTP, AppRole or JWT) and the way a *)
(* request passes through Service::handle_inner: the token is              *)
(* authenticated, a finite use is committed BEFORE dispatch, the handler   *)
(* runs on a copy of the state and the copy is committed before the        *)
(* response is released.                                                   *)
(*                                                                         *)
(* `stored' is the state in the durable store, `memory' the copy the       *)
(* server serves from.  One request is in flight at a time (the service is *)
(* behind &mut self) and it uses the time at which it arrived, so the      *)
(* clock stands still in it; the process may die between its two commits.  *)
(* One namespace and one mount path; passwords, signatures and random      *)
(* identifiers are perfect.                                                *)
(***************************************************************************)
EXTENDS Integers, FiniteSets, FiniteSetsExt, Functions, TLC

CONSTANTS
    None,
    Kinds,        \* auth methods that may be enabled at the mount
    TokenOrders,  \* bodies of auth/token/create
    Grants,       \* token parameters a user or a role is given
    Assertions,   \* signed JWT assertions in circulation
    PolicyBodies, \* rules a policy may be given: sets of capabilities
    DefaultTtl, MaxTtl,      \* DEFAULT_TTL and MAX_TTL, in clock ticks
    Skew,         \* tolerated clock skew of the JWT trust policy
    ReplayLimit,  \* MAX_EXTERNAL_REPLAY_ENTRIES
    MaxClock, MaxTokens, MaxSecrets,
    MaxUpsets     \* bound: changes of the configuration and steps back of the clock, together

VARIABLES
    stored,   \* the State in the durable store
    memory,   \* Service::state
    clock,    \* the clock requests are stamped with
    request,  \* the finite-use token whose request has been admitted
    book,     \* history: what each credential was honoured for
    edits,    \* number of configuration changes, for the bound
    setbacks

authVars == <<stored, memory, clock, request, book, edits, setbacks>>

\* Option<u64> timestamps and counters: no expiry, no use limit.
Never == MaxClock + 2 * MaxTtl + 1
Unlimited == None
UnlimitedZero(n) == IF n = 0 THEN Unlimited ELSE n

Root == 1
Empty == [x \in {} |-> x]

----------------------------------------------------------------------------
(* Tokens. *)

\* `origin' and `bound' are history: the life of the mount whose login the
\* token goes back to (0 for none), and the latest time its credential allows.
TokenOf(policies, root, parent, expires, max, period, renewable, uses, mount, known, origin, bound) ==
    [policies |-> policies, root |-> root, parent |-> parent, expires |-> expires,
     max |-> max, period |-> period, renewable |-> renewable, uses |-> uses,
     mount |-> mount, known |-> known, origin |-> origin, bound |-> bound]

\* login_token, and the token of a JWT login: no parent, of this mount.
LoginToken(grant, ttl, max, bound) ==
    TokenOf(grant.policies, FALSE, None, clock + ttl, clock + max, 0, TRUE,
            UnlimitedZero(grant.uses), TRUE, TRUE, book.life, bound)

\* AuthState::bootstrap: one root token.
RootToken == TokenOf({"root"}, TRUE, None, Never, Never, 0, FALSE, Unlimited, FALSE, TRUE, 0, Never)

\* A token that a login at this mount produced under a version of the server
\* that did not record where tokens come from.
LegacyToken ==
    TokenOf({"default", "p"}, FALSE, None, MaxTtl, MaxTtl, 0, TRUE, Unlimited, FALSE, FALSE, 1, MaxTtl)

\* The states a run starts from: an initialised server whose operator has
\* written policy `p' and configured the mount; at a JWT mount an assertion
\* may have been exchanged already for a token that is gone.
Configured(kind, grant) ==
    CASE kind = "userpass" -> {[grant |-> grant, mfa |-> None]}
      [] kind = "approle" -> {[grant |-> grant, ttl |-> 1, uses |-> 1, secrets |-> Empty]}
      [] kind = "jwt" -> {[config |-> {"k1"}, role |-> [grant |-> grant, groups |-> {}],
                           replay |-> r, last |-> 0] :
                              r \in {Empty} \cup {j.id :> j.exp : j \in Assertions}}

Started ==
    UNION {{[tokens |-> st[1], policies |-> "p" :> {"update", "sudo"}, mount |-> st[2], cred |-> c] :
               c \in Configured(st[2], [policies |-> {"default", "p"}, ttl |-> DefaultTtl,
                                        max |-> MaxTtl, uses |-> 0])} :
           st \in ({Root :> RootToken} \X Kinds)
                  \cup {<<Root :> RootToken @@ 2 :> LegacyToken, "userpass">>}}

Ancestors(tokens, t) ==
    LET Up[n \in 0..MaxTokens, s \in DOMAIN tokens \cup {None}] ==
            IF n = 0 \/ s = None \/ s \notin DOMAIN tokens THEN {}
            ELSE {tokens[s].parent} \cup Up[n - 1, tokens[s].parent]
    IN  Up[MaxTokens, t] \ {None}

\* active_token: the token and every ancestor is present and unexpired, no
\* ancestor is used up, and the token itself is not when a use is to be taken.
Active(s, t, now, consume) ==
    /\ t \in DOMAIN s.tokens
    /\ now < s.tokens[t].expires
    /\ consume => s.tokens[t].uses # 0
    /\ \A a \in Ancestors(s.tokens, t) :
          a \in DOMAIN s.tokens /\ now < s.tokens[a].expires /\ s.tokens[a].uses # 0

\* authorize_request on a policy set whose rules match the path: an explicit
\* deny wins, root passes, and `default' grants the self operations unless it
\* has been given rules of its own.
Authorized(s, t, now, capability, self) ==
    /\ Active(s, t, now, FALSE)
    /\ LET tok == s.tokens[t]
           explicit == tok.policies \cap DOMAIN s.policies
       IN  \/ tok.root
           \/ /\ \A p \in explicit : "deny" \notin s.policies[p]
              /\ \/ \E p \in explicit : capability \in s.policies[p]
                 \/ self /\ "default" \in tok.policies \ explicit

\* revoke: the token and, round by round, every token below it.
Below(tokens, t) ==
    {t} \cup {d \in DOMAIN tokens : t \in Ancestors(tokens, d)}

Without(tokens, gone) == Restrict(tokens, DOMAIN tokens \ gone)

\* Mutant: revocation stops at the direct children.
RevokedShallow(s, ts) ==
    [s EXCEPT !.tokens = Without(@, ts \cup {d \in DOMAIN @ : @[d].parent \in ts})]

Revoked(s, ts) ==
    [s EXCEPT !.tokens = Without(@, UNION {Below(s.tokens, t) : t \in ts})]

----------------------------------------------------------------------------
(* The request: arrival, commit, response. *)

\* commit_state: persist, then the in-memory state.  A put is durable or it is
\* refused, and when the server cannot tell, or loses the response audit, it
\* serves nothing until recovery has read the stored state back: either way
\* the next request finds the stored state in memory.
Commit(next, noted) ==
    \/ stored' = next /\ memory' = next /\ book' = noted
    \/ UNCHANGED <<stored, memory, book>>

Note(credential) ==
    [book EXCEPT !.honoured =
        (credential :> (IF credential \in DOMAIN @ THEN @[credential] + 1 ELSE 1)) @@ @]

\* Mutant: the use is taken in memory and written with the next change.
AuthenticateInMemory(t) ==
    /\ request = None
    /\ Active(memory, t, clock, TRUE) /\ memory.tokens[t].uses # Unlimited
    /\ memory' = [memory EXCEPT !.tokens[t].uses = @ - 1]
    /\ book' = Note(<<"token", t>>)
    /\ request' = t
    /\ UNCHANGED <<stored, clock, edits, setbacks>>

\* authenticate for a token with a use limit: the use is committed, and only
\* then is the request dispatched.
Authenticate(t) ==
    /\ request = None
    /\ Active(memory, t, clock, TRUE) /\ memory.tokens[t].uses # Unlimited
    /\ LET taken == [memory EXCEPT !.tokens[t].uses = @ - 1]
       IN  \/ /\ stored' = taken /\ memory' = taken
              /\ book' = Note(<<"token", t>>)
              /\ request' = t
           \/ /\ stored' = taken /\ memory' = taken  \* outcome unknown: not dispatched
              /\ UNCHANGED <<book, request>>
    /\ UNCHANGED <<clock, edits, setbacks>>

\* The request of token a is being dispatched: it has paid its use, or it has
\* none to pay.
Dispatched(a) ==
    IF request = None
    THEN Active(memory, a, clock, TRUE) /\ memory.tokens[a].uses = Unlimited
    ELSE request = a

\* The end of an authenticated request that leaves `next'.
Finish(next, noted) ==
    /\ request' = None
    /\ IF next = memory
       THEN UNCHANGED <<stored, memory, book>>
       ELSE Commit(next, noted)
    /\ UNCHANGED <<clock, setbacks>>

May(a, capability) == Dispatched(a) /\ Authorized(memory, a, clock, capability, FALSE)
MayTouch(a, t) == Dispatched(a) /\ Authorized(memory, a, clock, "update", a = t)
Elevated(a) == May(a, "update") /\ May(a, "sudo")

Edit == edits + setbacks < MaxUpsets /\ edits' = edits + 1

Fresh == book.issued + 1
CanIssue == book.issued < MaxTokens

\* The book entry of a new token.
Entered(uses) ==
    [book EXCEPT !.issued = @ + 1,
                 !.allowed = IF uses = Unlimited THEN @ ELSE (<<"token", Fresh>> :> uses) @@ @]

\* A request that reads, or that its handler refuses.
Answer(a) ==
    /\ Dispatched(a)
    /\ Finish(memory, book)
    /\ UNCHANGED edits

----------------------------------------------------------------------------
(* auth/token *)

CreateExpiry(o, root, parent) ==
    LET ttl == IF o.period > 0 THEN o.period
               ELSE IF o.ttl = 0 /\ ~root THEN DefaultTtl ELSE o.ttl
        max == IF o.explicit > 0 THEN clock + o.explicit
               ELSE IF o.period = 0 /\ ~(root /\ ttl = 0) THEN clock + MaxTtl ELSE Never
        own == IF root /\ ttl = 0 THEN Never ELSE Min({clock + ttl, max})
    IN  [max |-> max,
         expires |-> IF o.orphan THEN own ELSE Min({own, parent.expires})]

\* create_token, its conditions.
MayCreate(a, o) ==
    LET parent == memory.tokens[a]
        root == "root" \in o.policies
    IN  /\ May(a, "update")
        /\ parent.uses = Unlimited
        /\ parent.root \/ (o.policies \subseteq parent.policies /\ ~root)
        /\ root => o.policies = {"root"}
        /\ (o.orphan \/ o.period > 0) => May(a, "sudo")

\* create_token, the token it makes: expiry below the parent's unless it is an
\* orphan, and the parent's provenance in both cases.
Child(a, o) ==
    LET parent == memory.tokens[a]
        limit == CreateExpiry(o, "root" \in o.policies, parent)
    IN  TokenOf(o.policies, "root" \in o.policies, IF o.orphan THEN None ELSE a,
                limit.expires, limit.max, o.period, o.renewable /\ limit.expires # Never,
                UnlimitedZero(o.uses), parent.mount, parent.root \/ parent.known,
                parent.origin, limit.max)

\* auth/token/create and create-orphan.
CreateToken(a, o) ==
    /\ MayCreate(a, o) /\ CanIssue
    /\ Finish([memory EXCEPT !.tokens = (Fresh :> Child(a, o)) @@ @], Entered(Child(a, o).uses))
    /\ UNCHANGED edits

Renewed(t, increment) ==
    LET tok == memory.tokens[t]
        ttl == IF tok.period > 0 THEN tok.period
               ELSE IF increment = 0 THEN DefaultTtl ELSE Min({increment, MaxTtl})
    IN  Min({clock + ttl, tok.max}
            \cup {memory.tokens[a].expires : a \in Ancestors(memory.tokens, t)})

\* Mutant: renewal of a token that has already expired.
RenewTokenExpired(a, t, increment) ==
    /\ MayTouch(a, t)
    /\ t \in DOMAIN memory.tokens /\ memory.tokens[t].renewable
    /\ Ancestors(memory.tokens, t) \subseteq DOMAIN memory.tokens
    /\ Renewed(t, increment) > clock
    /\ Finish([memory EXCEPT !.tokens[t].expires = Renewed(t, increment)], book)
    /\ UNCHANGED edits

\* renew-self, renew, renew-accessor.
RenewToken(a, t, increment) ==
    /\ MayTouch(a, t)
    /\ Active(memory, t, clock, FALSE)
    /\ memory.tokens[t].renewable
    /\ Renewed(t, increment) > clock
    /\ Finish([memory EXCEPT !.tokens[t].expires = Renewed(t, increment)], book)
    /\ UNCHANGED edits

\* revoke-self, revoke, revoke-accessor.
RevokeToken(a, t) ==
    /\ MayTouch(a, t)
    /\ t \in DOMAIN memory.tokens
    /\ Finish(Revoked(memory, {t}), book)
    /\ UNCHANGED edits

\* auth/token/tidy removes the tokens that no request could use any more.
TidyTokens(a) ==
    /\ Elevated(a)
    /\ Finish([memory EXCEPT !.tokens =
                  Without(@, {t \in DOMAIN @ : ~Active(memory, t, clock, TRUE)})], book)
    /\ UNCHANGED edits

----------------------------------------------------------------------------
(* sys/policies/acl and sys/auth *)

\* policy_route: `root' cannot be written, `default' can.
WritePolicy(a, name, body) ==
    /\ Edit /\ Elevated(a)
    /\ name # "root"
    /\ Finish([memory EXCEPT !.policies = (name :> body) @@ @], book)

DeletePolicy(a, name) ==
    /\ Edit /\ May(a, "delete") /\ May(a, "sudo")
    /\ name \notin {"root", "default"}
    /\ Finish([memory EXCEPT !.policies = Restrict(@, DOMAIN @ \ {name})], book)

NoCred(kind) ==
    IF kind = "jwt" THEN [config |-> None, role |-> None, replay |-> Empty, last |-> 0]
    ELSE None

\* auth_mount_route, POST.  Another kind cannot take a mount in use.
EnableMount(a, kind) ==
    /\ Edit /\ Elevated(a)
    /\ memory.mount = None
    /\ Finish([memory EXCEPT !.mount = kind, !.cred = NoCred(kind)], book)

\* auth_mount_route, DELETE, with disable_auth_mount: the credentials go, and
\* every token that logged in there or derives from one that did.  Tokens of
\* unknown origin are taken to come from a legacy mount.
DisableMount(a) ==
    /\ Edit /\ Elevated(a)
    /\ memory.mount # None
    /\ LET theirs == {t \in DOMAIN memory.tokens :
                         /\ ~memory.tokens[t].root
                         /\ memory.tokens[t].mount \/ ~memory.tokens[t].known}
       IN  Finish(Revoked([memory EXCEPT !.mount = None, !.cred = None], theirs),
                  [book EXCEPT !.life = @ + 1])

\* validate_assignment: nobody assigns policies they do not hold.
Assignable(a, policies) ==
    /\ "root" \notin policies
    /\ memory.tokens[a].root \/ policies \subseteq memory.tokens[a].policies

\* The policies get `default' added; normalize_ttl fills in the default times.
Normal(grant) ==
    [grant EXCEPT !.policies = @ \cup {"default"},
                  !.ttl = IF @ = 0 THEN DefaultTtl ELSE @,
                  !.max = IF @ = 0 THEN MaxTtl ELSE @]

Acceptable(a, grant) == Assignable(a, grant.policies) /\ grant.ttl <= grant.max /\ grant.max <= MaxTtl

----------------------------------------------------------------------------
(* userpass *)

User == memory.cred

\* user_route: an update without policies still re-validates the ones it keeps.
WriteUser(a, grant) ==
    /\ Edit /\ May(a, "update")
    /\ memory.mount = "userpass"
    /\ Acceptable(a, Normal(grant))
    /\ Finish([memory EXCEPT !.cred =
                  [grant |-> Normal(grant), mfa |-> IF @ = None THEN None ELSE @.mfa]], book)

DeleteUser(a) ==
    /\ Edit /\ May(a, "delete")
    /\ memory.mount = "userpass" /\ User # None
    /\ Finish([memory EXCEPT !.cred = None], book)

\* users/<name>/mfa: enrolling again needs regenerate=true and makes a new seed.
EnrollMfa(a) ==
    /\ Edit /\ Elevated(a)
    /\ memory.mount = "userpass" /\ User # None
    /\ Finish([memory EXCEPT !.cred.mfa = [seed |-> edits, last |-> None]], book)

RemoveMfa(a) ==
    /\ Edit /\ May(a, "delete") /\ May(a, "sudo")
    /\ memory.mount = "userpass" /\ User # None
    /\ Finish([memory EXCEPT !.cred.mfa = None], book)

\* A login arrives without a token.
Login(next, noted) ==
    /\ request = None /\ CanIssue
    /\ Commit(next, noted)
    /\ UNCHANGED <<clock, request, edits, setbacks>>

\* verify_totp: one step of drift either way, never a counter at or below the
\* last accepted one.
Accepts(mfa, counter) ==
    /\ counter \in clock - 1 .. clock + 1 /\ counter >= 0
    /\ mfa.last # None => counter > mfa.last

\* login_userpass, without MFA.
LoginUserpass ==
    /\ memory.mount = "userpass" /\ User # None /\ User.mfa = None
    /\ Login([memory EXCEPT !.tokens =
                 (Fresh :> LoginToken(User.grant, User.grant.ttl, User.grant.max, clock + User.grant.max)) @@ @],
             Entered(UnlimitedZero(User.grant.uses)))

\* login_userpass, with a TOTP code: the counter is stored with the new token.
LoginWithCode(counter) ==
    /\ memory.mount = "userpass" /\ User # None /\ User.mfa # None
    /\ Accepts(User.mfa, counter)
    /\ Login([memory EXCEPT
                 !.cred.mfa.last = counter,
                 !.tokens = (Fresh :> LoginToken(User.grant, User.grant.ttl, User.grant.max, clock + User.grant.max)) @@ @],
             LET entered == Entered(UnlimitedZero(User.grant.uses))
             IN  [entered EXCEPT !.honoured = Note(<<"code", User.mfa.seed, counter>>).honoured])

----------------------------------------------------------------------------
(* AppRole *)

Role == memory.cred

\* role_route, update: an existing role keeps its secret ids and its role id.
WriteRole(a, grant, secretTtl, secretUses) ==
    /\ Edit /\ May(a, "update")
    /\ memory.mount = "approle"
    /\ Acceptable(a, Normal(grant)) /\ secretTtl <= MaxTtl
    /\ Finish([memory EXCEPT !.cred =
                  [grant |-> Normal(grant), ttl |-> secretTtl, uses |-> secretUses,
                   secrets |-> IF @ = None THEN Empty ELSE @.secrets]], book)

DeleteRole(a) ==
    /\ Edit /\ May(a, "delete")
    /\ memory.mount = "approle" /\ Role # None
    /\ Finish([memory EXCEPT !.cred = None], book)

\* secret-id, update: within the limits of the role.
IssueSecretId(a, ttl, uses) ==
    /\ May(a, "update")
    /\ memory.mount = "approle" /\ Role # None
    /\ book.secrets < MaxSecrets
    /\ Role.ttl > 0 => ttl \in 1..Role.ttl
    /\ Role.uses > 0 => uses \in 1..Role.uses
    /\ LET id == book.secrets + 1
           secret == [expires |-> IF ttl = 0 THEN Never ELSE clock + ttl, uses |-> UnlimitedZero(uses)]
       IN  Finish([memory EXCEPT !.cred.secrets = (id :> secret) @@ @],
                  [book EXCEPT !.secrets = id, !.allowed =
                      IF uses = 0 THEN @ ELSE (<<"secret", id>> :> uses) @@ @])
    /\ UNCHANGED edits

\* secret-id/destroy and secret-id-accessor/destroy.
DestroySecretId(a, id) ==
    /\ May(a, "update")
    /\ memory.mount = "approle" /\ Role # None /\ id \in DOMAIN Role.secrets
    /\ Finish([memory EXCEPT !.cred.secrets = Without(@, {id})], book)
    /\ UNCHANGED edits

Spent(secret, now) == secret.uses = 0 \/ secret.expires <= now

\* tidy/secret-id
TidySecretIds(a) ==
    /\ Elevated(a)
    /\ memory.mount = "approle" /\ Role # None
    /\ Finish([memory EXCEPT !.cred.secrets = Without(@, {id \in DOMAIN @ : Spent(@[id], clock)})], book)
    /\ UNCHANGED edits

\* login_approle: one use of the secret id, in the same commit as the token.
LoginApprole(id) ==
    /\ memory.mount = "approle" /\ Role # None /\ id \in DOMAIN Role.secrets
    /\ ~Spent(Role.secrets[id], clock)
    /\ Login([memory EXCEPT
                 !.cred.secrets[id].uses = IF @ = Unlimited THEN @ ELSE @ - 1,
                 !.tokens = (Fresh :> LoginToken(Role.grant, Role.grant.ttl, Role.grant.max, clock + Role.grant.max)) @@ @],
             LET entered == Entered(UnlimitedZero(Role.grant.uses))
             IN  [entered EXCEPT !.honoured = Note(<<"secret", id>>).honoured])

----------------------------------------------------------------------------
(* JWT *)

Jwt == memory.cred

WriteJwtConfig(a, keys) ==
    /\ Edit /\ Elevated(a)
    /\ memory.mount = "jwt" /\ keys # {}
    /\ Finish([memory EXCEPT !.cred.config = keys], book)

WriteJwtRole(a, grant, groups) ==
    /\ Edit /\ Elevated(a)
    /\ memory.mount = "jwt"
    /\ LET full == [grant EXCEPT !.policies = @ \cup {"default"}]
       IN  /\ Acceptable(a, full) /\ grant.ttl > 0
           /\ Finish([memory EXCEPT !.cred.role = [grant |-> full, groups |-> groups]], book)

DeleteJwtRole(a) ==
    /\ Edit /\ Elevated(a)
    /\ memory.mount = "jwt" /\ Jwt.role # None
    /\ Finish([memory EXCEPT !.cred.role = None], book)

\* JwtVerifier::verify for a well-formed assertion signed by key j.key.
Verified(j) ==
    /\ Jwt.config # None /\ j.key \in Jwt.config
    /\ j.nbf <= clock + Skew /\ j.iat <= clock + Skew
    /\ clock < j.exp /\ j.iat < j.exp /\ j.nbf < j.exp
    /\ j.exp - j.iat <= MaxTtl

Pending(replay) == {id \in DOMAIN replay : replay[id] > clock}

\* admit_external_replay, its conditions.
Admitted(j) ==
    /\ j.exp > clock /\ clock >= Jwt.last
    /\ j.id \notin Pending(Jwt.replay)
    /\ Cardinality(Pending(Jwt.replay)) < ReplayLimit

\* jwt_route, login: the token lives no longer than the assertion, and the
\* replay record is committed with it.
LoginJwt(j) ==
    /\ memory.mount = "jwt" /\ Jwt.role # None
    /\ Verified(j) /\ Jwt.role.groups \subseteq j.groups
    /\ Admitted(j)
    /\ LET left == j.exp - clock
           ttl == Max({1, Min({Jwt.role.grant.ttl, left})})
           max == Max({ttl, Min({Jwt.role.grant.max, left})})
           entered == Entered(UnlimitedZero(Jwt.role.grant.uses))
       IN  Login([memory EXCEPT
                     !.cred.replay = (j.id :> j.exp) @@ Restrict(@, Pending(@)),
                     !.cred.last = clock,
                     !.tokens = (Fresh :> LoginToken(Jwt.role.grant, ttl, max, j.exp)) @@ @],
                 [entered EXCEPT !.honoured = Note(<<"jwt", book.life, j.id>>).honoured])

----------------------------------------------------------------------------
(* The clock and the process. *)

Tick ==
    /\ clock < MaxClock /\ request = None
    /\ clock' = clock + 1
    /\ UNCHANGED <<stored, memory, request, book, edits, setbacks>>

\* The machine's clock is set back.
SetBack ==
    /\ clock > 0 /\ request = None
    /\ edits + setbacks < MaxUpsets /\ setbacks' = setbacks + 1
    /\ clock' = clock - 1
    /\ UNCHANGED <<stored, memory, request, book, edits>>

\* The process dies, between the two commits of a request if one is admitted,
\* and the next one starts from the stored state.
Crash ==
    /\ memory' = stored /\ request' = None
    /\ UNCHANGED <<stored, clock, book, edits, setbacks>>

AuthInit ==
    /\ stored \in Started
    /\ memory = stored
    /\ clock = 0 /\ request = None
    /\ edits = 0 /\ setbacks = 0
    /\ book = [issued |-> Cardinality(DOMAIN stored.tokens), secrets |-> 0, life |-> 1,
               allowed |-> Empty,
               honoured |-> IF stored.mount # "jwt" THEN Empty
                            ELSE [c \in {<<"jwt", 1, id>> : id \in DOMAIN stored.cred.replay} |-> 1]]

TokenOps(a) ==
    \/ \E o \in TokenOrders : CreateToken(a, o)
    \/ \E t \in DOMAIN memory.tokens : RevokeToken(a, t)
    \/ \E t \in DOMAIN memory.tokens, n \in {0, MaxTtl} : RenewToken(a, t, n)
    \/ TidyTokens(a)
    \/ \E p \in {"p", "default"}, b \in PolicyBodies : WritePolicy(a, p, b)
    \/ \E p \in DOMAIN memory.policies : DeletePolicy(a, p)
    \/ \E k \in Kinds : EnableMount(a, k)
    \/ DisableMount(a)

MountOps(a) ==
    \/ \E g \in Grants : WriteUser(a, g)
    \/ DeleteUser(a) \/ EnrollMfa(a) \/ RemoveMfa(a)
    \/ \E g \in Grants : WriteRole(a, g, 0, 0)
    \/ DeleteRole(a) \/ TidySecretIds(a)
    \/ \E n \in {0, 1} : IssueSecretId(a, n, n)
    \/ \E id \in 1..MaxSecrets : DestroySecretId(a, id)
    \/ \E ks \in {{"k1"}, {"k2"}} : WriteJwtConfig(a, ks)
    \/ \E g \in Grants, gs \in {{}, {"ops"}} : WriteJwtRole(a, g, gs)
    \/ DeleteJwtRole(a)

Logins ==
    \/ LoginUserpass
    \/ \E c \in 0..MaxClock + 1 : LoginWithCode(c)
    \/ \E id \in 1..MaxSecrets : LoginApprole(id)
    \/ \E j \in Assertions : LoginJwt(j)

AuthNext ==
    \/ \E t \in DOMAIN memory.tokens : Authenticate(t)
    \/ \E a \in DOMAIN memory.tokens : Answer(a) \/ TokenOps(a) \/ MountOps(a)
    \/ Logins
    \/ Tick \/ SetBack \/ Crash

AuthSpec == AuthInit /\ [][AuthNext]_authVars

----------------------------------------------------------------------------
(* Properties. *)

Tokens ==
    [policies : SUBSET {"root", "default", "p"}, root : BOOLEAN, parent : 1..MaxTokens \cup {None},
     expires : 0..Never, max : 0..Never, period : 0..MaxTtl, renewable : BOOLEAN,
     uses : 0..MaxTtl \cup {Unlimited}, mount : BOOLEAN, known : BOOLEAN,
     origin : 0..MaxUpsets + 1, bound : 0..Never]

\* The shape of the durable and of the served authentication state.
AuthTypeOK ==
    /\ \A s \in {stored, memory} :
          /\ DOMAIN s.tokens \subseteq 1..MaxTokens
          /\ \A t \in DOMAIN s.tokens : s.tokens[t] \in Tokens
          /\ \A p \in DOMAIN s.policies : s.policies[p] \in PolicyBodies
          /\ s.mount \in Kinds \cup {"userpass", None}
    /\ clock \in 0..MaxClock
    /\ request \in 1..MaxTokens \cup {None}

Honoured(c) == IF c \in DOMAIN book.honoured THEN book.honoured[c] ELSE 0

Within(c) == Honoured(c) <= book.allowed[c]

\* A token created for n uses authenticates at most n dispatched requests,
\* whatever crashes and failed commits happen between them (handle_inner
\* commits the use before dispatch).
UsesBounded == \A c \in DOMAIN book.allowed : c[1] = "token" => Within(c)

\* A secret id created for n uses produces at most n tokens (login_approle
\* stores the decrement and the token in one commit).
SecretBounded == \A c \in DOMAIN book.allowed : c[1] = "secret" => Within(c)

\* A TOTP code is accepted once per enrolment, also when the clock is set back
\* inside the drift window (verify_totp, login_userpass).
CodeOnce == \A c \in DOMAIN book.honoured : c[1] = "code" => Honoured(c) <= 1

\* An assertion is exchanged for one token only in the life of a mount, also
\* when its replay record has been pruned and the clock is then set back
\* (admit_external_replay and its watermark).
ReplayOnce == \A c \in DOMAIN book.honoured : c[1] = "jwt" => Honoured(c) <= 1

\* When a mount has been disabled no token remains that a login there produced
\* or that was created, as an orphan or not, with such a token
\* (disable_auth_mount and the provenance create_token copies).
MountRevoked == \A t \in DOMAIN stored.tokens : stored.tokens[t].origin \in {0, book.life}

\* Revocation, tidy and the end of a mount remove whole trees: no stored token
\* is left below a token that is gone (revoke, token_route).
WholeTrees ==
    \A t \in DOMAIN stored.tokens :
        stored.tokens[t].parent \in DOMAIN stored.tokens \cup {None}

\* No renewal lets a token live longer than the credential, the explicit
\* maximum or the service maximum it was issued under (token_route).
NeverOutlives == \A t \in DOMAIN stored.tokens : stored.tokens[t].expires <= stored.tokens[t].bound

\* A token with a use limit has no children, so a child is never silently
\* ended by the last use of its parent (create_token).
ParentsUnlimited ==
    \A t \in DOMAIN stored.tokens :
        stored.tokens[t].parent \in DOMAIN stored.tokens =>
            stored.tokens[stored.tokens[t].parent].uses = Unlimited

\* A token that no request could use is never usable again while time does not
\* go back: renewal reaches no dead token and no token below one.
NoRevival ==
    clock' >= clock =>
        \A t \in DOMAIN stored.tokens :
            ~Active(stored, t, clock, TRUE) => ~Active(stored', t, clock', TRUE)

\* A usable token disappears only by a revocation (tidy takes none of them).
OnlyRevoked ==
    \A t \in DOMAIN stored.tokens \ DOMAIN stored'.tokens :
        Active(stored, t, clock, TRUE) =>
            \E a, r \in DOMAIN memory.tokens : DisableMount(a) \/ RevokeToken(a, r)
=============================================================================
