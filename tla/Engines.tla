------------------------------- MODULE Engines -------------------------------
(***************************************************************************)
(* The secret engines of one namespace: the mount table, KV version 1 and  *)
(* 2, Transit and TOTP.  EngineState::handle routes a request to a mount   *)
(* and installs the changed namespace only when the request succeeded, so  *)
(* every action is one request; a refused request changes nothing.         *)
(*                                                                         *)
(* A behaviour exercises one engine (the variable focus); the engines share*)
(* the mount table and the clock only.  Secret data is a set of fields, a  *)
(* mount path a sequence of segments, a key the versions it has, a         *)
(* ciphertext the key and version that made it, a TOTP code its counter.   *)
(***************************************************************************)
EXTENDS Integers, Sequences, FiniteSets, FiniteSetsExt, SequencesExt, TLC

CONSTANTS Unset,          \* model value: an absent optional value
          Focus,          \* the engines exercised
          MountPaths,     \* mount paths, sequences of segments
          Fields,         \* fields of secret data
          MetaKeys,       \* keys of custom metadata
          DefaultRetained, \* versions kept when no limit is set (10 in the code)
          Seeds,          \* TOTP secrets
          FailureLimit,   \* failed validations per period (10 in the code)
          EncryptionLimit, \* encryptions per key version (2^32 in the code)
          MaxTime,        \* bound: the clock, by engine
          MaxVersion, MaxRetained, \* bounds: KV versions, the limits set on them
          MaxKeyVersion, MaxKeys \* bounds: Transit versions, Transit keys

VARIABLES focus, now, mounts,
          made,           \* Transit keys created so far: the identity of key material
          issued,         \* ciphertexts and signatures handed out: a ghost
          accepted        \* TOTP counters accepted, by credential: a ghost

engineVars == <<focus, now, mounts, made, issued, accepted>>

Without(f, x) == [y \in DOMAIN f \ {x} |-> f[y]]
NoConfig == [max_versions |-> 0, cas_required |-> FALSE, delete_version_after |-> 0]

-----------------------------------------------------------------------------
(* The mount table.                                                        *)

NewBackend(kind) ==
    CASE kind = "kv1"     -> [kind |-> "kv1", entries |-> [x \in {} |-> 0]]
      [] kind = "kv2"     -> [kind |-> "kv2", config |-> NoConfig, entries |-> [x \in {} |-> 0]]
      [] kind = "transit" -> [kind |-> "transit", disable_upsert |-> FALSE, keys |-> [x \in {} |-> 0]]
      [] kind = "totp"    -> [kind |-> "totp", keys |-> [x \in {} |-> 0]]

DefaultMounts == (<<"secret">> :> NewBackend("kv2")) @@ (<<"transit">> :> NewBackend("transit"))

Conflicts(name, table) == \E m \in DOMAIN table : IsPrefix(m, name) \/ IsPrefix(name, m)

\* The mounts whose path starts the request path; the first one serves it.
Routes(path) == {m \in DOMAIN mounts : IsPrefix(m, path)}

EnableMount(name, kind) ==
    /\ Head(name) \notin {"sys", "auth", "identity", "cubbyhole"}
    /\ ~Conflicts(name, mounts)
    /\ mounts' = (name :> NewBackend(kind)) @@ mounts
    /\ UNCHANGED <<focus, now, made, issued, accepted>>

DisableMount(name) ==
    /\ name \in DOMAIN mounts /\ mounts' = Without(mounts, name)
    /\ UNCHANGED <<focus, now, made, issued, accepted>>

\* Installs a changed backend: the end of handle.
Install(name, backend) ==
    /\ mounts' = [mounts EXCEPT ![name] = backend]
    /\ UNCHANGED <<focus, now>>

Requests(kind) == {m \in DOMAIN mounts : mounts[m].kind = kind /\ m \in Routes(m)}

-----------------------------------------------------------------------------
(* KV version 1: the last value.                                           *)

Kv1Write(m, path, data) ==
    /\ Install(m, [mounts[m] EXCEPT !.entries = (path :> data) @@ @])
    /\ UNCHANGED <<made, issued, accepted>>

Kv1Delete(m, path) ==
    /\ path \in DOMAIN mounts[m].entries
    /\ Install(m, [mounts[m] EXCEPT !.entries = Without(@, path)])
    /\ UNCHANGED <<made, issued, accepted>>

-----------------------------------------------------------------------------
(* KV version 2.                                                           *)

NewEntry == [config |-> NoConfig, current_version |-> 0, oldest_version |-> 0,
             custom_metadata |-> Unset, versions |-> [n \in {} |-> 0]]

EntryOf(b, path) == IF path \in DOMAIN b.entries THEN b.entries[path] ELSE NewEntry

Readable(v) == ~v.destroyed /\ v.data # Unset /\ (v.deletion_at # Unset => now < v.deletion_at)

\* Config::update: every parameter is optional, and setting several has the effect of
\* setting one after the other.
ConfigUpdates(c) ==
    {c} \cup {[c EXCEPT !.max_versions = n] : n \in 0..MaxRetained}
        \cup {[c EXCEPT !.cas_required = b] : b \in BOOLEAN}
        \cup {[c EXCEPT !.delete_version_after = t] : t \in 0..1}

\* merge_patch on flat objects: a patch sets fields and, with null, removes them.
MergePatch(data, set, null) == (data \ null) \cup set

CasAllows(b, e, cas, patch) ==
    /\ b.config.cas_required \/ e.config.cas_required => cas # Unset
    /\ cas # Unset => cas = e.current_version
    /\ ~(patch /\ cas = 0)

DeletionAt(b, e) ==
    LET key == e.config.delete_version_after
        engine == b.config.delete_version_after
        after == IF key = 0 THEN engine ELSE IF engine = 0 THEN key ELSE Min({key, engine})
    IN  IF after = 0 THEN Unset ELSE now + after

\* Mutant: the limit of the engine goes before the entry's own.
RetainedByEngine(b, e) ==
    CASE e.config.max_versions = 0 /\ b.config.max_versions = 0 -> DefaultRetained
      [] b.config.max_versions = 0 -> e.config.max_versions
      [] OTHER -> b.config.max_versions

Retained(b, e) ==
    CASE e.config.max_versions = 0 /\ b.config.max_versions = 0 -> DefaultRetained
      [] e.config.max_versions = 0 -> b.config.max_versions
      [] OTHER -> e.config.max_versions

Floor(next, retained) == Max({next - retained, 0}) + 1

\* The entry after a version has been added and old ones have been dropped.
AddVersion(b, e, data) ==
    LET next == e.current_version + 1
        floor == Floor(next, Retained(b, e))
        all == (next :> [deletion_at |-> DeletionAt(b, e), destroyed |-> FALSE, data |-> data]) @@ e.versions
    IN  [e EXCEPT !.current_version = next, !.oldest_version = IF floor > 1 THEN floor ELSE 0,
                  !.versions = [n \in {k \in DOMAIN all : k >= floor} |-> all[n]]]

KvWrite(m, path, cas, data) ==
    LET b == mounts[m]
        e == EntryOf(b, path)
    IN  /\ CasAllows(b, e, cas, FALSE) /\ e.current_version < MaxVersion
        /\ Install(m, [b EXCEPT !.entries = (path :> AddVersion(b, e, data)) @@ @])
        /\ UNCHANGED <<made, issued, accepted>>

KvPatch(m, path, cas, set, null) ==
    LET b == mounts[m]
        e == EntryOf(b, path)
    IN  /\ CasAllows(b, e, cas, TRUE) /\ e.current_version < MaxVersion
        /\ e.current_version \in DOMAIN e.versions /\ Readable(e.versions[e.current_version])
        /\ Install(m, [b EXCEPT !.entries[path] =
                         AddVersion(b, e, MergePatch(e.versions[e.current_version].data, set, null))])
        /\ UNCHANGED <<made, issued, accepted>>

\* What delete, undelete and destroy make of one version.
Changed(v, operation) ==
    CASE v.destroyed -> v
      [] operation = "destroy" -> [v EXCEPT !.destroyed = TRUE, !.data = Unset]
      [] operation = "delete" /\ (v.deletion_at # Unset => v.deletion_at > now) -> [v EXCEPT !.deletion_at = now]
      [] operation = "undelete" -> [v EXCEPT !.deletion_at = Unset]
      [] OTHER -> v

\* change_versions, and DELETE of data (the current version).
ChangeVersions(m, path, operation, numbers) ==
    LET b == mounts[m]
        e == EntryOf(b, path)
        versions == [n \in DOMAIN e.versions |-> IF n \in numbers THEN Changed(e.versions[n], operation)
                                                 ELSE e.versions[n]]
    IN  /\ versions # e.versions
        /\ Install(m, [b EXCEPT !.entries[path].versions = versions])
        /\ UNCHANGED <<made, issued, accepted>>

\* write_metadata: makes the entry when it is not a patch.
WriteMetadata(m, path, patch, config, custom) ==
    LET b == mounts[m]
        e == EntryOf(b, path)
        old == IF patch /\ e.custom_metadata # Unset THEN e.custom_metadata ELSE {}
    IN  /\ patch => path \in DOMAIN b.entries
        /\ Install(m, [b EXCEPT !.entries =
               (path :> [e EXCEPT !.config = config,
                                  !.custom_metadata = IF custom = Unset THEN Unset ELSE old \cup custom]) @@ @])
        /\ UNCHANGED <<made, issued, accepted>>

DeleteMetadata(m, path) ==
    /\ path \in DOMAIN mounts[m].entries
    /\ Install(m, [mounts[m] EXCEPT !.entries = Without(@, path)])
    /\ UNCHANGED <<made, issued, accepted>>

KvConfigure(m, config) ==
    /\ Install(m, [mounts[m] EXCEPT !.config = config])
    /\ UNCHANGED <<made, issued, accepted>>

-----------------------------------------------------------------------------
(* Transit.                                                                *)

NewKey(kind, exportable) ==
    [id |-> made + 1, kind |-> kind, latest_version |-> 1, min_decryption_version |-> 1,
     min_encryption_version |-> 0, deletion_allowed |-> FALSE, exportable |-> exportable,
     deleted |-> FALSE, encryptions |-> <<0>>]

Chosen(k, requested) == IF requested \in {Unset, 0} THEN k.latest_version ELSE requested

SelectedVersion(k, requested) ==
    ~k.deleted /\ Chosen(k, requested) >= Max({k.min_encryption_version, 1})
               /\ Chosen(k, requested) \in DOMAIN k.encryptions

DecryptVersion(k, version) ==
    ~k.deleted /\ version >= k.min_decryption_version /\ version \in DOMAIN k.encryptions

\* encrypt on one version: the key must encrypt and the version have room.
MayEncrypt(k, requested) ==
    /\ k.kind = "aes" /\ SelectedVersion(k, requested)
    /\ k.encryptions[Chosen(k, requested)] < EncryptionLimit

Ciphertext(k, requested) ==
    LET v == Chosen(k, requested) IN [id |-> k.id, version |-> v, serial |-> k.encryptions[v] + 1]

Encrypted(k, requested) == [k EXCEPT !.encryptions[Chosen(k, requested)] = @ + 1]

\* decrypt: the material of the version must be the one that made the ciphertext.
Opens(k, c) == c.id = k.id /\ DecryptVersion(k, c.version)

PutKey(m, name, k) == Install(m, [mounts[m] EXCEPT !.keys = (name :> k) @@ @])
KeyOf(m, name) == mounts[m].keys[name]
HasKey(m, name) == name \in DOMAIN mounts[m].keys

\* encrypt, datakey; a missing key is made on the way unless upsert is disabled.
Encrypt(m, name, requested) ==
    LET k == IF HasKey(m, name) THEN KeyOf(m, name) ELSE NewKey("aes", FALSE)
    IN  /\ HasKey(m, name) \/ (~mounts[m].disable_upsert /\ made < MaxKeys)
        /\ MayEncrypt(k, requested)
        /\ PutKey(m, name, Encrypted(k, requested))
        /\ made' = Max({made, k.id})
        /\ issued' = issued \cup {Ciphertext(k, requested)}
        /\ UNCHANGED accepted

\* datakey: an encryption of fresh bytes under a key that exists.
Datakey(m, name, requested) == HasKey(m, name) /\ Encrypt(m, name, requested)

\* hmac and sign: they change nothing; what they hand out is verified under the
\* same rule a ciphertext is decrypted under.
Sign(m, name, operation, requested) ==
    /\ HasKey(m, name)
    /\ LET k == KeyOf(m, name)
       IN  /\ operation = "hmac" \/ k.kind = "ed25519"
           /\ SelectedVersion(k, requested)
           /\ issued' = issued \cup {[id |-> k.id, version |-> Chosen(k, requested), serial |-> 0]}
    /\ UNCHANGED <<focus, now, mounts, made, accepted>>

\* A batch of encryptions: an item that fails leaves the key as the items before left it.
Batch(k, items) ==
    FoldLeft(LAMBDA acc, requested :
                IF MayEncrypt(acc.key, requested)
                THEN [key |-> Encrypted(acc.key, requested), out |-> acc.out \cup {Ciphertext(acc.key, requested)}]
                ELSE acc,
             [key |-> k, out |-> {}], items)

EncryptBatch(m, name, items) ==
    /\ HasKey(m, name) /\ ~KeyOf(m, name).deleted
    /\ LET done == Batch(KeyOf(m, name), items)
       IN  done.out # {} /\ PutKey(m, name, done.key) /\ issued' = issued \cup done.out
    /\ UNCHANGED <<made, accepted>>

Rewrap(m, name, c, requested) ==
    /\ HasKey(m, name) /\ Opens(KeyOf(m, name), c)
    /\ Encrypt(m, name, requested)

CreateKey(m, name, kind, exportable) ==
    /\ ~HasKey(m, name) /\ made < MaxKeys
    /\ PutKey(m, name, NewKey(kind, exportable)) /\ made' = made + 1
    /\ UNCHANGED <<issued, accepted>>

DeleteKey(m, name) ==
    /\ HasKey(m, name) /\ KeyOf(m, name).deletion_allowed
    /\ Install(m, [mounts[m] EXCEPT !.keys = Without(@, name)])
    /\ UNCHANGED <<made, issued, accepted>>

ConsistentMinimums(k, dec, enc) ==
    dec <= k.latest_version /\ enc <= k.latest_version /\ (enc # 0 => enc >= dec)

\* configure; exportability cannot be taken back.
ConfigureKey(m, name, dec, enc, deletion, exportable) ==
    /\ HasKey(m, name)
    /\ LET k == KeyOf(m, name)
           newDec == IF dec = Unset THEN k.min_decryption_version ELSE Max({dec, 1})
           newEnc == IF enc = Unset THEN k.min_encryption_version ELSE enc
       IN  /\ ConsistentMinimums(k, newDec, newEnc)
           /\ k.exportable => exportable
           /\ PutKey(m, name, [k EXCEPT !.min_decryption_version = newDec, !.min_encryption_version = newEnc,
                                        !.deletion_allowed = deletion, !.exportable = exportable])
    /\ UNCHANGED <<made, issued, accepted>>

RotateKey(m, name) ==
    /\ HasKey(m, name) /\ ~KeyOf(m, name).deleted /\ KeyOf(m, name).latest_version < MaxKeyVersion
    /\ PutKey(m, name, [KeyOf(m, name) EXCEPT !.latest_version = @ + 1, !.encryptions = Append(@, 0)])
    /\ UNCHANGED <<made, issued, accepted>>

SoftDelete(m, name, deleted) ==
    /\ HasKey(m, name) /\ PutKey(m, name, [KeyOf(m, name) EXCEPT !.deleted = deleted])
    /\ UNCHANGED <<made, issued, accepted>>

ConfigureUpsert(m, disable) ==
    /\ Install(m, [mounts[m] EXCEPT !.disable_upsert = disable])
    /\ UNCHANGED <<made, issued, accepted>>

\* export: the versions it hands out.
Exported(k) == IF k.deleted \/ ~k.exportable THEN {}
               ELSE {v \in DOMAIN k.encryptions : v >= k.min_decryption_version}

-----------------------------------------------------------------------------
(* TOTP.  A credential is a seed with the period that makes its counters.  *)

Credential(k) == <<k.seed, k.period>>

\* Mutant: importing a credential again forgets what it has accepted.
ImportedAnew(old, k) == k

\* The key a write leaves: the same credential keeps its counters.
Imported(old, k) ==
    IF old # Unset /\ Credential(old) = Credential(k)
    THEN [k EXCEPT !.last_accepted_counter = old.last_accepted_counter,
                   !.failed_window = old.failed_window, !.failures = old.failures]
    ELSE k

WriteTotp(m, name, seed, period, skew) ==
    LET old == IF HasKey(m, name) THEN KeyOf(m, name) ELSE Unset
        k == [seed |-> seed, period |-> period, skew |-> skew, last_accepted_counter |-> Unset,
              failed_window |-> 0, failures |-> 0]
    IN  /\ PutKey(m, name, Imported(old, k))
        /\ accepted' = IF old # Unset /\ Credential(old) = Credential(k) THEN accepted ELSE <<>>
        /\ UNCHANGED <<made, issued>>

DeleteTotp(m, name) ==
    /\ HasKey(m, name) /\ Install(m, [mounts[m] EXCEPT !.keys = Without(@, name)])
    /\ accepted' = <<>> /\ UNCHANGED <<made, issued>>

\* A code matches its counter within the skew, and later than the last one accepted.
Matches(k, counter) ==
    LET current == now \div k.period
    IN  counter # Unset /\ counter \in Max({current - k.skew, 0})..(current + k.skew)
        /\ (k.last_accepted_counter # Unset => counter > k.last_accepted_counter)

\* validate: a new period clears the failures; at the limit nothing is kept.
Validate(m, name, counter) ==
    /\ HasKey(m, name)
    /\ LET current == now \div KeyOf(m, name).period
           k == IF current > KeyOf(m, name).failed_window
                THEN [KeyOf(m, name) EXCEPT !.failed_window = current, !.failures = 0]
                ELSE KeyOf(m, name)
       IN  /\ k.failures < FailureLimit
           /\ IF Matches(k, counter)
              THEN /\ PutKey(m, name, [k EXCEPT !.last_accepted_counter = counter, !.failures = 0])
                   /\ accepted' = Append(accepted, counter)
              ELSE /\ PutKey(m, name, [k EXCEPT !.failures = @ + 1])
                   /\ UNCHANGED accepted
    /\ UNCHANGED <<made, issued>>

-----------------------------------------------------------------------------
\* The clock the server reads; it may be set back.
SetClock(t) ==
    /\ now' = t /\ t # now
    /\ UNCHANGED <<focus, mounts, made, issued, accepted>>

EngineInit ==
    /\ focus \in Focus /\ now = 0 /\ made = 0 /\ issued = {} /\ accepted = <<>>
    /\ mounts = IF focus = "totp" THEN (<<"totp">> :> NewBackend("totp")) @@ DefaultMounts
                ELSE DefaultMounts

MountRequests ==
    \/ \E m \in MountPaths : DisableMount(m) \/ \E kind \in {"kv1", "kv2", "transit", "totp"} : EnableMount(m, kind)
    \/ \E m \in Requests("kv1") : Kv1Delete(m, "p") \/ \E data \in SUBSET Fields : Kv1Write(m, "p", data)

KvRequests ==
    \E m \in Requests("kv2") :
       \/ \E config \in ConfigUpdates(mounts[m].config) : KvConfigure(m, config)
       \/ \E cas \in {Unset} \cup (0..MaxVersion) :
             \/ \E data \in SUBSET Fields : KvWrite(m, "p", cas, data)
             \/ \E set, null \in SUBSET Fields : KvPatch(m, "p", cas, set, null)
       \/ \E numbers \in SUBSET DOMAIN EntryOf(mounts[m], "p").versions : \E op \in {"delete", "undelete", "destroy"} :
             ChangeVersions(m, "p", op, numbers)
       \/ \E config \in ConfigUpdates(EntryOf(mounts[m], "p").config) : \E patch \in BOOLEAN :
             \E custom \in {Unset, MetaKeys} : WriteMetadata(m, "p", patch, config, custom)
       \/ DeleteMetadata(m, "p")

TransitRequests ==
    \E m \in Requests("transit") : \E requested \in {Unset} \cup (0..MaxKeyVersion) :
       \/ Encrypt(m, "k", requested) \/ Datakey(m, "k", requested)
       \/ \E operation \in {"hmac", "sign"} : Sign(m, "k", operation, requested)
       \/ \E other \in {Unset} \cup (1..MaxKeyVersion) : EncryptBatch(m, "k", <<requested, other>>)
       \/ \E c \in issued : Rewrap(m, "k", c, requested)
       \/ \E kind \in {"aes", "ed25519"}, exportable \in BOOLEAN : CreateKey(m, "k", kind, exportable)
       \/ DeleteKey(m, "k") \/ RotateKey(m, "k")
       \/ \E b \in BOOLEAN : SoftDelete(m, "k", b) \/ ConfigureUpsert(m, b)
       \/ \E enc \in {Unset} \cup (0..MaxKeyVersion), deletion, exportable \in BOOLEAN :
             ConfigureKey(m, "k", requested, enc, deletion, exportable)

TotpRequests ==
    \E m \in Requests("totp") :
       \/ DeleteTotp(m, "k")
       \/ \E seed \in Seeds, period \in {1, 2}, skew \in {0, 1} : WriteTotp(m, "k", seed, period, skew)
       \/ \E counter \in {Unset} \cup (0..MaxTime.totp + 1) : Validate(m, "k", counter)

EngineNext ==
    \/ focus = "mounts" /\ MountRequests
    \/ focus = "kv" /\ KvRequests
    \/ focus = "transit" /\ TransitRequests
    \/ focus = "totp" /\ TotpRequests
    \/ focus \in {"kv", "totp"} /\ \E t \in 0..MaxTime[focus] : SetClock(t)

EngineSpec == EngineInit /\ [][EngineNext]_engineVars

-----------------------------------------------------------------------------
\* No mount hides another: whatever mounts were enabled and disabled before, a
\* request path belongs to at most one of them (handle takes the first match).
RoutesOnce == \A path \in MountPaths : Cardinality(Routes(path)) <= 1

\* How many versions an entry may hold: the first limit that is set.
Limit(b, e) ==
    SelectSeq(<<e.config.max_versions, b.config.max_versions, DefaultRetained>>, LAMBDA n : n > 0)[1]

\* The history of a KV version 2 entry is only added to: as long as the entry
\* exists its version number never goes back, a version keeps its data until it
\* is destroyed, a destroyed one is never readable again.  Only a write drops
\* versions, down to the limit in force and no further: what is dropped is older
\* than all that stays, and as many newer versions stay as the limit allows,
\* however the limits of the entry and of the engine were moved before.
KvHistory ==
    \A m \in DOMAIN mounts \cap DOMAIN mounts' :
       mounts[m].kind = "kv2" /\ mounts'[m].kind = "kv2" =>
       \A p \in DOMAIN mounts[m].entries \cap DOMAIN mounts'[m].entries :
          LET e == mounts[m].entries[p]
              f == mounts'[m].entries[p]
              written == f.current_version = e.current_version + 1
              dropped == DOMAIN e.versions \ DOMAIN f.versions
          IN  /\ f.current_version = e.current_version \/ written
              /\ f.current_version > 0 => f.current_version \in DOMAIN f.versions
              /\ \A n \in DOMAIN f.versions :
                    IF n \in DOMAIN e.versions
                    THEN IF f.versions[n].destroyed THEN f.versions[n].data = Unset
                         ELSE ~e.versions[n].destroyed /\ f.versions[n].data = e.versions[n].data
                    ELSE n = e.current_version + 1
              /\ written => Cardinality(DOMAIN f.versions) <= Limit(mounts[m], e)
              /\ dropped # {} => written /\ Cardinality(DOMAIN f.versions) = Limit(mounts[m], e)
              /\ \A n \in dropped, k \in DOMAIN f.versions : n < k

\* A Transit key that is not deleted always serves its latest version both ways;
\* with a minimum for encryption everything it encrypts it also decrypts; every
\* ciphertext or signature it handed out opens while policy allows its version, and each one
\* was counted against the limit of its version, batches included.
TransitServes ==
    \A m \in DOMAIN mounts : mounts[m].kind = "transit" =>
       \A name \in DOMAIN mounts[m].keys :
          LET k == mounts[m].keys[name]
              mine == {c \in issued : c.id = k.id}
          IN  /\ ~k.deleted => SelectedVersion(k, Unset) /\ DecryptVersion(k, k.latest_version)
              /\ k.min_encryption_version # 0 =>
                    \A v \in 1..k.latest_version : SelectedVersion(k, v) => DecryptVersion(k, v)
              /\ ~k.deleted => \A c \in mine : c.version >= k.min_decryption_version => Opens(k, c)
              /\ \A v \in 1..k.latest_version :
                    /\ Cardinality({c \in mine : c.version = v /\ c.serial > 0}) = k.encryptions[v]
                    /\ k.encryptions[v] <= EncryptionLimit
              /\ \A v \in Exported(k) : DecryptVersion(k, v)

\* A TOTP code is accepted once: between two writes of another credential the
\* accepted counters only grow, also when the clock is set back or the same
\* credential is imported again.
TotpOnce == \A i, j \in DOMAIN accepted : i < j => accepted[i] < accepted[j]
=============================================================================
