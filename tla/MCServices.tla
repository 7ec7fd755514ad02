----------------------------- MODULE MCServices ------------------------------
(***************************************************************************)
(* The services around the store that share no state with each other: the  *)
(* plugin host, the service core, the P0 server, the runtime service, the  *)
(* contract crates, the replay ledger of federated authentication, the     *)
(* binary formats and the pure functions. A behaviour exercises one of     *)
(* them, which `part' names; the others rest.                              *)
(***************************************************************************)
EXTENDS TLC, ReplayLedger, RuntimeService

CONSTANTS Unused, None, LeaseIds, Operations, Reuse, MaxCalls, MaxGeneration, Focus,
          Entities, Groups, Policies, Tokens, Leases, Mounts, Namespaces, Root, Paths,
          RequestIds, Values, Capacity, MaxVersions, MaxSequence, NoId, Connections,
          Requests, MaxConnections, MaxIds, Ttl, Timeout, MaxClock, MaxFaults, Nobody,
          Contract, Nodes, Local, Assertions, ReplayCapacity, Skew, MaxTtl, Surfaces,
          Minimum, InitialBackoff, MaximumBackoff, MaxTick, MaxSteps, Samples,
          MaxBytes, MaxRecords, MaxDamage, Problems, c1, c2, c3

VARIABLES part, installed, now, host, leases, pending, call, process, disk, store,
          calls, effects, released, focus, coreNow, entities, aliases, groups,
          policies, tokens, namespaces, mounts, kv, registry, recovery, sequence,
          records, applied, coreLeases, server, conns, active, p0Registry, lock,
          clock, faults, trail, changes, contract, tick, steps, session, live, writer,
          fences, backup, source, plugin, revoked, kmsKey, retired, observed,
          verified, cursor, cursorApplied, matrix, claims, format, sent, frame,
          damage, problem, solved

PH == INSTANCE PluginHost WITH Ttls <- {1}, MaxTime <- 1
SC == INSTANCE ServiceCore WITH Ttls <- {1, 2}, MaxTime <- 2, now <- coreNow, leases
               <- coreLeases
P0 == INSTANCE P0Server WITH registry <- p0Registry
CT == INSTANCE Contracts WITH applied <- cursorApplied
CD == INSTANCE Codecs
AL == INSTANCE Algorithms

\* The modules that define the samples and the problems need none themselves.
CodecInputs == INSTANCE MCCodecs WITH Samples <- {}
AlgorithmInputs == INSTANCE MCAlgorithms WITH Problems <- {}

-----------------------------------------------------------------------------
SomeSamples == CodecInputs!SomeSamples
SomeProblems == AlgorithmInputs!SomeProblems

\* One request of every kind the P0 server tells apart: initialise, unseal, write and delete
\* with a token and an id, and two that are refused.
Sent(id, method, path, body, token) ==
    [id |-> id, host |-> TRUE, method |-> method, path |-> path, query |-> FALSE,
     key |-> "a", body |-> body, token |-> token]
SomeRequests ==
    {Sent("x", "PUT", "init", "{}", FALSE), Sent(NoId, "PUT", "unseal", "good", FALSE),
     Sent("x", "POST", "secret", "good", TRUE), Sent("y", "DELETE", "secret", "empty", TRUE),
     Sent("short", "GET", "health", "empty", FALSE),
     [Sent(NoId, "GET", "secret", "empty", FALSE) EXCEPT !.host = FALSE]}

\* A token and a proof that verify, a second token that becomes valid later, and ones that are
\* signed by another key, repeat or lack a claim, or are bound to another channel.
Claims ==
    [c \in {"iss", "sub", "aud", "exp", "iat", "jti", "heptabao_namespace"} |-> "good"]
Good ==
    [kind |-> "token", id |-> 1, header |-> "alg kid typ", key |-> "k", signer |-> "k",
     duplicate |-> FALSE, claims |-> Claims, notBefore |-> 0, issued |-> 0, expires |-> 2,
     channel |-> "own"]
SomePresented ==
    {Good, [Good EXCEPT !.id = 2, !.issued = 1, !.expires = 3],
     [Good EXCEPT !.kind = "proof", !.expires = 1],
     [Good EXCEPT !.signer = "j"], [Good EXCEPT !.duplicate = TRUE],
     [Good EXCEPT !.claims["aud"] = "outside"],
     [Good EXCEPT !.kind = "proof", !.channel = "other"]}

\* Paths of one segment and the root, and how many requests are told apart and how many
\* references handed out in each focus.
SomePaths == {<<>>, <<"a">>}
Ids == [f \in Focus |-> IF f = "requests" THEN {1, 2} ELSE {1}]
References == [identity |-> 1, tokens |-> 1, routes |-> 1, requests |-> 3, leases |-> 0]

\* A write, the same id with another content or another digest, a delete, and a read under a
\* used id.
Asked(id, kind, digest, content) ==
    [caller |-> "p", id |-> id, kind |-> kind, digest |-> digest, content |-> content]
SomeInbound ==
    {Asked("i", "put", 1, 1), Asked("i", "put", 1, 2), Asked("i", "put", 2, 1),
     Asked("j", "delete", 1, 0), Asked("i", "read", 1, 0)}

\* Assertions of one issuer whose lifetimes overlap, one with a nonce used before, and the
\* evidence two surfaces need.
SomeAssertions ==
    {[issuer |-> "i", nonce |-> 1, issued |-> 0, expires |-> 2],
     [issuer |-> "i", nonce |-> 2, issued |-> 1, expires |-> 3],
     [issuer |-> "i", nonce |-> 1, issued |-> 2, expires |-> 4],
     [issuer |-> "i", nonce |-> 3, issued |-> 1, expires |-> 4]}
TwoSurfaces == [s \in {"read", "write"} |-> IF s = "read" THEN 2 ELSE 1]

ConnectionSymmetry == Permutations(Connections)

ASSUME ReplayAssumption /\ RuntimeAssumption

-----------------------------------------------------------------------------
pluginsVars == <<installed, now, host, leases, pending, call, process, disk, store,
                 calls, effects, released>>
coreVars == <<focus, coreNow, entities, aliases, groups, policies, tokens, namespaces,
              mounts, kv, registry, recovery, sequence, records, applied, coreLeases>>
p0Vars == <<server, conns, active, p0Registry, lock, clock, faults, trail, changes>>
contractsVars == <<contract, tick, steps, session, live, writer, fences, backup, source,
                   plugin, revoked, kmsKey, retired, observed, verified, cursor,
                   cursorApplied, matrix, claims>>
codecsVars == <<format, sent, frame, damage>>
algorithmsVars == <<problem, solved>>
allVars == <<part, pluginsVars, coreVars, p0Vars, runtimeVars, contractsVars,
             replayLedgerVars, codecsVars, algorithmsVars>>

\* The parts that a behaviour leaves alone; the runtime service and the ledger stay as they
\* begin.
NoPlugins ==
    /\ installed = Unused /\ now = Unused /\ host = Unused /\ leases = Unused
    /\ pending = Unused /\ call = Unused /\ process = Unused /\ disk = Unused
    /\ store = Unused /\ calls = Unused /\ effects = Unused /\ released = Unused

NoCore ==
    /\ focus = Unused /\ coreNow = Unused /\ entities = Unused /\ aliases = Unused
    /\ groups = Unused /\ policies = Unused /\ tokens = Unused /\ namespaces = Unused
    /\ mounts = Unused /\ kv = Unused /\ registry = Unused /\ recovery = Unused
    /\ sequence = Unused /\ records = Unused /\ applied = Unused /\ coreLeases = Unused

NoP0 ==
    /\ server = Unused /\ conns = Unused /\ active = Unused /\ p0Registry = Unused
    /\ lock = Unused /\ clock = Unused /\ faults = Unused /\ trail = Unused
    /\ changes = Unused

NoContracts ==
    /\ contract = Unused /\ tick = Unused /\ steps = Unused /\ session = Unused
    /\ live = Unused /\ writer = Unused /\ fences = Unused /\ backup = Unused
    /\ source = Unused /\ plugin = Unused /\ revoked = Unused /\ kmsKey = Unused
    /\ retired = Unused /\ observed = Unused /\ verified = Unused /\ cursor = Unused
    /\ cursorApplied = Unused /\ matrix = Unused /\ claims = Unused

NoCodecs ==
    /\ format = Unused /\ sent = Unused /\ frame = Unused /\ damage = Unused

NoAlgorithms ==
    /\ problem = Unused /\ solved = Unused

MCInit ==
    /\ RuntimeInit /\ ReplayLedgerInit
    /\ \/ part = "plugins" /\ PH!PluginInit /\ NoCore /\ NoP0 /\ NoContracts /\ NoCodecs /\
             NoAlgorithms
       \/ part = "core" /\ SC!CoreInit /\ NoPlugins /\ NoP0 /\ NoContracts /\ NoCodecs /\
             NoAlgorithms
       \/ part = "p0" /\ P0!P0Init /\ NoPlugins /\ NoCore /\ NoContracts /\ NoCodecs /\
             NoAlgorithms
       \/ part = "contracts" /\ CT!ContractInit /\ NoPlugins /\ NoCore /\ NoP0 /\ NoCodecs /\
             NoAlgorithms
       \/ part = "codecs" /\ CD!CodecInit /\ NoPlugins /\ NoCore /\ NoP0 /\ NoContracts /\
             NoAlgorithms
       \/ part = "algorithms" /\ AL!AlgorithmInit /\ NoPlugins /\ NoCore /\ NoP0 /\
             NoContracts /\ NoCodecs
       \/ part \in {"runtime", "replay"} /\ NoPlugins /\ NoCore /\ NoP0 /\ NoContracts /\
             NoCodecs /\ NoAlgorithms

MCNext ==
    \/ part = "plugins" /\ PH!PluginNext /\ UNCHANGED <<part, coreVars, p0Vars,
          runtimeVars, contractsVars, replayLedgerVars, codecsVars, algorithmsVars>>
    \/ part = "core" /\ SC!CoreNext /\ UNCHANGED <<part, pluginsVars, p0Vars,
          runtimeVars, contractsVars, replayLedgerVars, codecsVars, algorithmsVars>>
    \/ part = "p0" /\ P0!P0Next /\ UNCHANGED <<part, pluginsVars, coreVars, runtimeVars,
          contractsVars, replayLedgerVars, codecsVars, algorithmsVars>>
    \/ part = "runtime" /\ RuntimeNext /\ UNCHANGED <<part, pluginsVars, coreVars,
          p0Vars, contractsVars, replayLedgerVars, codecsVars, algorithmsVars>>
    \/ part = "contracts" /\ CT!ContractNext /\ UNCHANGED <<part, pluginsVars, coreVars,
          p0Vars, runtimeVars, replayLedgerVars, codecsVars, algorithmsVars>>
    \/ part = "replay" /\ ReplayLedgerNext /\ UNCHANGED <<part, pluginsVars,
          coreVars, p0Vars, runtimeVars, contractsVars, codecsVars, algorithmsVars>>
    \/ part = "codecs" /\ CD!CodecNext /\ UNCHANGED <<part, pluginsVars, coreVars,
          p0Vars, runtimeVars, contractsVars, replayLedgerVars, algorithmsVars>>
    \/ part = "algorithms" /\ AL!Solve /\ UNCHANGED <<part, pluginsVars, coreVars,
          p0Vars, runtimeVars, contractsVars, replayLedgerVars, codecsVars>>

MCSpec == MCInit /\ [][MCNext]_allVars

-----------------------------------------------------------------------------
\* Plugins: no effect of a plugin is left without an intent, a lease or an outcome that
\* accounts for it, and the broker and the durable host agree on what is installed
\* (plugin-host, durable.rs and lib.rs).
EffectsAccounted == part = "plugins" => PH!EffectsAccounted /\ PH!BrokerAgrees

\* Service core: a request is applied once, and one of unknown outcome is neither aborted
\* nor applied again; one mount answers for a path (service-core, operation registry and
\* router).
RequestsAccounted == part = "core" => SC!RequestsAccounted /\ SC!RoutedAlone

\* A token or lease that was invalid never becomes valid again (token, lease).
InvalidForGood == [][part = "core" => SC!StaysInvalid]_allVars

\* The P0 server reports no failure for a request it committed, and two requests
\* admitted under one id are a lifetime of the id registry apart (p0-server, P0Server::handle
\* and RequestIdRegistry::claim).
CommitsAccounted == part = "p0" => P0!CommitsAccounted /\ P0!AdmittedApart

\* The state machines of the contract crates keep their promises (agent, ha-contracts,
\* retention, plugin-contracts, kms-contracts, authbus-contracts, platform-contracts,
\* compatibility).
ContractsHold == part = "contracts" => CT!ContractsHold

\* A frame that is read is a frame of what is read, the only one where the format is
\* binary (Codecs).
FramesExact == part = "codecs" => CD!FramesExact

\* Every pure function computes what its reference definition says (Algorithms).
ComputedRight == part = "algorithms" => AL!ComputedRight
=============================================================================
