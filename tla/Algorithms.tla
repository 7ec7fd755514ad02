------------------------------ MODULE Algorithms ------------------------------
(***************************************************************************)
(* The pure functions of the server and of the cluster crates that decide  *)
(* something: the shares of the unseal key, the policy text and the match  *)
(* of a rule's path, the listing of keys page by page, the calendar of a   *)
(* timestamp, base32 keys, canonical request targets, joint quorums and    *)
(* snapshot manifests.  Each is set beside a second definition of what it  *)
(* computes.                                                               *)
(*                                                                         *)
(* A text is a sequence of numbers ordered as its characters are.  A       *)
(* result that may be an error is a set: one value, or none.               *)
(***************************************************************************)
EXTENDS Integers, Sequences, FiniteSets, SequencesExt, Bitwise

CONSTANT Problems                  \* the inputs, by function

VARIABLES problem, solved

algorithmVars == <<problem, solved>>

Repeat(op(_), n, start) == FoldLeft(LAMBDA acc, i : op(acc), start, [i \in 1..n |-> i])

------------------------------------------------------------------------------
(* Shares of the unseal key (crypto.rs), for one byte of the key. *)

GfMul(a, b) ==
    LET Step(r) == [product |-> IF r.right % 2 = 1 THEN r.product ^^ r.left ELSE r.product,
                    left |-> IF r.left >= 128 THEN ((2 * r.left) % 256) ^^ 27 ELSE 2 * r.left,
                    right |-> r.right \div 2]
    IN Repeat(Step, 8, [product |-> 0, left |-> a, right |-> b]).product

\* 254 has eight binary digits.
GfInverse(v) ==
    LET Step(r) == [result |-> IF r.exponent % 2 = 1 THEN GfMul(r.result, r.base) ELSE r.result,
                    base |-> GfMul(r.base, r.base), exponent |-> r.exponent \div 2]
    IN IF v = 0 THEN {} ELSE {Repeat(Step, 8, [result |-> 1, base |-> v, exponent |-> 254]).result}

ValidParameters(total, threshold) == total > 0 /\ threshold > 0 /\ threshold <= total

ShareValue(secret, coefficients, x) ==
    FoldLeft(LAMBDA r, c : [value |-> r.value ^^ GfMul(c, r.power), power |-> GfMul(r.power, x)],
             [value |-> secret, power |-> x], coefficients).value

SplitSecret(secret, coefficients, total, threshold) ==
    IF ~ValidParameters(total, threshold) THEN <<>>
    ELSE [i \in 1..total |-> [total |-> total, threshold |-> threshold, index |-> i,
                              value |-> ShareValue(secret, coefficients, i)]]

Basis(selected, i) ==
    FoldLeft(LAMBDA acc, o : IF o.index = selected[i].index THEN acc
                             ELSE GfMul(acc, GfMul(o.index, CHOOSE v \in GfInverse(o.index ^^ selected[i].index) : TRUE)),
             1, selected)

CombineShares(shares) ==
    LET first == shares[1]
        selected == SubSeq(shares, 1, first.threshold)
    IN IF shares = <<>> THEN {}
       ELSE IF \/ ~ValidParameters(first.total, first.threshold)
               \/ Len(shares) < first.threshold
               \/ \E s \in ToSet(selected) : s.total # first.total \/ s.threshold # first.threshold
               \/ \E i, j \in DOMAIN selected : i # j /\ selected[i].index = selected[j].index
       THEN {}
       ELSE {FoldLeft(LAMBDA acc, i : acc ^^ GfMul(selected[i].value, Basis(selected, i)),
                      0, [i \in DOMAIN selected |-> i])}

------------------------------------------------------------------------------
(* Paths of rules and requests (auth.rs), and listings (engines.rs). *)

Plus == 0
Star == 1
Minus == 2
Slash == 3                         \* above it the letters

Pieces(text, separator) ==
    FoldLeft(LAMBDA acc, c : IF c = separator THEN Append(acc, <<>>)
                             ELSE [acc EXCEPT ![Len(acc)] = Append(@, c)],
             << <<>> >>, text)

\* The lists of characters and the length limit are left to the inputs.
ValidatePath(path, pattern) ==
    /\ path # <<>>
    /\ path[1] # Slash
    /\ \A i \in 1 .. Len(path) - 1 : ~(path[i] = Slash /\ path[i + 1] = Slash)
    /\ IF pattern
       THEN /\ \A i \in 1 .. Len(path) - 1 : path[i] # Star
            /\ \A s \in ToSet(Pieces(path, Slash)) : Contains(s, Plus) => s = <<Plus>>
       ELSE ~Contains(path, Star) /\ ~Contains(path, Plus)

PathMatches(pattern, path) ==
    LET prefix == pattern # <<>> /\ Last(pattern) = Star
        parts == Pieces(IF prefix THEN Front(pattern) ELSE pattern, Slash)
        actual == Pieces(path, Slash)
    IN /\ ~prefix => Len(parts) = Len(actual)
       /\ Len(actual) >= Len(parts)
       /\ \A i \in DOMAIN parts :
             IF parts[i] = <<Plus>> THEN actual[i] # <<>>
             ELSE IF prefix /\ i = Len(parts) THEN IsPrefix(parts[i], actual[i])
             ELSE parts[i] = actual[i]

Before(s, t) ==
    \/ IsStrictPrefix(s, t)
    \/ \E i \in 1 .. Len(s) : /\ i <= Len(t)
                              /\ SubSeq(s, 1, i - 1) = SubSeq(t, 1, i - 1)
                              /\ s[i] < t[i]

Trimmed(text) == SelectLastInSeq(text, LAMBDA c : c # Slash)

\* Mutant: the mark itself is listed again.
PageFromMark(found, after, limit) ==
    LET listed == SetToSortSeq({s \in found : s = after \/ Before(after, s)}, Before)
    IN SubSeq(listed, 1, IF limit = 0 \/ limit > Len(listed) THEN Len(listed) ELSE limit)

Page(found, after, limit) ==
    LET listed == SetToSortSeq({s \in found : Before(after, s)}, Before)
    IN SubSeq(listed, 1, IF limit = 0 \/ limit > Len(listed) THEN Len(listed) ELSE limit)

Beneath(keys, prefix) ==
    LET start == IF prefix = <<>> THEN <<>> ELSE Append(SubSeq(prefix, 1, Trimmed(prefix)), Slash)
    IN {SubSeq(k, Len(start) + 1, Len(k)) : k \in {k \in keys : IsStrictPrefix(start, k)}}

ListKeys(keys, prefix, recursive, after, limit) ==
    LET Entry(rest) == IF recursive \/ ~Contains(rest, Slash) THEN rest
                       ELSE Append(Pieces(rest, Slash)[1], Slash)
    IN Page({Entry(rest) : rest \in Beneath(keys, prefix)}, after, limit)

------------------------------------------------------------------------------
(* Policy text (auth.rs), as its tokens: words, symbols and quoted strings. *)

Capabilities == {"read", "sudo"}
Quoted == Capabilities \cup {"a", "none"}      \* "none" is no capability, and no path
Symbols == {"path", "capabilities", "{", "}", "[", "]", "=", ","}

Opening == <<"{", "capabilities", "=", "[">>

\* The strings of a list from token i on: what was read, and where it ends.
TakeList(tokens, i) ==
    LET ends == {j \in i .. Len(tokens) :
                    /\ tokens[j] = "]"
                    /\ \A k \in i .. j - 1 : IF (k - i) % 2 = 0 THEN tokens[k] \in Quoted ELSE tokens[k] = ","}
    IN {[end |-> j, strings |-> {tokens[k] : k \in {k \in i .. j - 1 : (k - i) % 2 = 0}}] : j \in ends}

Rule(path, capabilities) ==
    IF path = "none" \/ ~(capabilities \subseteq Capabilities) THEN {}
    ELSE {[path |-> path, capabilities |-> capabilities]}

RECURSIVE ParseRules(_, _)
ParseRules(tokens, seen) ==
    IF tokens = <<>> THEN {<<>>}
    ELSE IF \/ Len(tokens) < 8 \/ tokens[1] # "path" \/ tokens[2] \notin Quoted \ seen
            \/ SubSeq(tokens, 3, 6) # Opening
    THEN {}
    ELSE UNION {UNION {{<<r>> \o rules :
                        rules \in ParseRules(SubSeq(tokens, l.end + 2, Len(tokens)), seen \cup {tokens[2]})} :
                       r \in Rule(tokens[2], l.strings)} :
                l \in {l \in TakeList(tokens, 7) : l.end < Len(tokens) /\ tokens[l.end + 1] = "}"}}

ParsePolicy(tokens) == ParseRules(tokens, {})

------------------------------------------------------------------------------
(* Timestamps (engines.rs), as a day since 1970 and a second of it. *)

LastDay == 2932896                 \* the last of the year 9999

Civil(days) ==
    LET z == days + 719468
        era == z \div 146097
        doe == z - era * 146097
        yoe == (doe - doe \div 1460 + doe \div 36524 - doe \div 146096) \div 365
        doy == doe - (365 * yoe + yoe \div 4 - yoe \div 100)
        mp == (5 * doy + 2) \div 153
        month == mp + (IF mp < 10 THEN 3 ELSE -9)
    IN [year |-> yoe + era * 400 + (IF month <= 2 THEN 1 ELSE 0),
        month |-> month, day |-> doy - (153 * mp + 2) \div 5 + 1]

Timestamp(day, second) ==
    LET over == day > LastDay
        s == IF over THEN 86399 ELSE second
    IN [date |-> Civil(IF over THEN LastDay ELSE day),
        hour |-> s \div 3600, minute |-> (s \div 60) % 60, second |-> s % 60]

------------------------------------------------------------------------------
(* Base32 keys (engines/totp.rs, auth.rs): a character is its place in the     *)
(* alphabet, Pad the sign after the last one, and what follows Pad the 26      *)
(* letters in lower case.                                                      *)

Pad == 32
Lower(letter) == Pad + 1 + letter
Uppercase(c) == IF c > Pad THEN c - Pad - 1 ELSE c
Word == 2 ^ 16                     \* narrower than the code's u32

\* What a pass leaves: the digits written, the bits kept and how many they are.
Digits(r) ==
    LET n == r.bits \div 5
    IN [out |-> r.out \o [i \in 1 .. n |-> (r.kept \div 2 ^ (r.bits - 5 * i)) % 32],
        kept |-> r.kept, bits |-> r.bits - 5 * n]

Flushed(r) == IF r.bits > 0 THEN Append(r.out, (r.kept * 2 ^ (5 - r.bits)) % 32) ELSE r.out

Fresh == [out |-> <<>>, kept |-> 0, bits |-> 0]

EncodeBase32(bytes) ==
    LET Pass(r, b) == LET d == Digits([r EXCEPT !.kept = @ * 256 + b, !.bits = @ + 8])
                      IN [d EXCEPT !.kept = @ % 2 ^ d.bits]
    IN Flushed(FoldLeft(Pass, Fresh, bytes))

\* The bits already written stay in the buffer until they are shifted out.
Base32NoPadding(bytes) ==
    LET Pass(r, b) == Digits([r EXCEPT !.kept = ((@ * 256) % Word) + b, !.bits = @ + 8])
    IN Flushed(FoldLeft(Pass, Fresh, bytes))

DecodeBase32(text) ==
    LET length == SelectLastInSeq(text, LAMBDA c : c # Pad)
        pads == Len(text) - length
        Pass(r, v) ==
            LET kept == r.kept * 32 + v
                bits == r.bits + 5
            IN IF bits < 8 THEN [r EXCEPT !.kept = kept, !.bits = bits]
               ELSE [out |-> Append(r.out, kept \div 2 ^ (bits - 8)),
                     kept |-> kept % 2 ^ (bits - 8), bits |-> bits - 8]
        r == FoldLeft(Pass, Fresh, [i \in 1 .. length |-> Uppercase(text[i])])
    IN IF \/ pads # 0 /\ (Len(text) % 8 # 0 \/ pads > 6)
          \/ \E i \in 1 .. length : text[i] = Pad
       THEN {}
       ELSE IF r.kept # 0 \/ r.bits >= 5 THEN {} ELSE {r.out}

------------------------------------------------------------------------------
(* Canonical request targets (protocol).  An escape is one character: one that *)
(* must be written so, or one the code has another way to write.               *)

Escape == 4
BadEscape == 5
Amp == 6
Dot == 7
Equals == 8
Question == 9
Version == 10                      \* "v1"; above it the letters

ValidatePercentEncoding(text) == ~Contains(text, BadEscape)

ValidateCanonicalPath(path) ==
    /\ IsPrefix(<<Slash, Version, Slash>>, path)
    /\ \A segment \in ToSet(Tail(Pieces(path, Slash))) :
          /\ segment \notin {<<>>, <<Dot>>, <<Dot, Dot>>}
          /\ ValidatePercentEncoding(segment)

\* The halves of a text at the first of a separator.
SplitOnce(text, separator) ==
    LET at == SelectInSeq(text, LAMBDA c : c = separator)
    IN IF at = 0 THEN {} ELSE {[left |-> SubSeq(text, 1, at - 1), right |-> SubSeq(text, at + 1, Len(text))]}

ParseCanonicalQuery(raw) ==
    LET pairs == [i \in DOMAIN Pieces(raw, Amp) |-> SplitOnce(Pieces(raw, Amp)[i], Equals)]
        found == UNION ToSet(pairs)
    IN IF \/ {} \in ToSet(pairs)
          \/ \E p \in found : \/ p.left = <<>>
                              \/ ~ValidatePercentEncoding(p.left \o p.right)
                              \/ \E i, j \in DOMAIN pairs :
                                    i # j /\ p \in pairs[i] /\ \E q \in pairs[j] : q.left = p.left
       THEN {}
       ELSE {SetToSortSeq(found, LAMBDA p, q : Before(p.left, q.left))}

ParseTarget(raw) ==
    LET halves == SplitOnce(raw, Question)
        path == IF halves = {} THEN raw ELSE (CHOOSE h \in halves : TRUE).left
        queries == IF halves = {} THEN {<<>>} ELSE UNION {ParseCanonicalQuery(h.right) : h \in halves}
    IN IF ValidateCanonicalPath(path) THEN {[path |-> path, query |-> q] : q \in queries} ELSE {}

CanonicalString(target) ==
    IF target.query = <<>> THEN target.path
    ELSE target.path \o FlattenSeq([i \in DOMAIN target.query |->
            <<IF i = 1 THEN Question ELSE Amp>> \o target.query[i].left \o <<Equals>> \o target.query[i].right])

MatchesCanonical(target, raw) ==
    IF target.query = <<>> THEN raw = target.path
    ELSE \E h \in SplitOnce(raw, Question) :
            LET pairs == Pieces(h.right, Amp)
            IN /\ h.left = target.path
               /\ Len(pairs) = Len(target.query)
               /\ \A i \in DOMAIN pairs : SplitOnce(pairs[i], Equals) = {target.query[i]}

------------------------------------------------------------------------------
(* Quorums and snapshots (ha-service). *)

HasMajority(voters, acknowledgements) ==
    Cardinality(voters \cap acknowledgements) > Cardinality(voters) \div 2

Transition(phase, old, new) ==
    IF old = {} \/ new = {} \/ (phase = "final" /\ old # new) THEN {}
    ELSE {[phase |-> phase, old |-> old, new |-> new]}

JointQuorum(t, acknowledgements) ==
    HasMajority(t.old, acknowledgements) /\ HasMajority(t.new, acknowledgements)

Sha256(x) == [sha |-> x]

SnapshotRoot(id, term, index, total, digests) == Sha256(<<id, term, index, total, digests>>)

TotalBytes(chunks) == FoldLeft(LAMBDA n, c : n + Len(c), 0, chunks)

BuildManifest(id, term, index, chunks) ==
    LET digests == [i \in DOMAIN chunks |-> Sha256(chunks[i])]
    IN IF id = 0 \/ term = 0 \/ index = 0 \/ chunks = <<>> \/ <<>> \in ToSet(chunks) THEN {}
       ELSE {[id |-> id, term |-> term, index |-> index, total |-> TotalBytes(chunks), digests |-> digests,
              root |-> SnapshotRoot(id, term, index, TotalBytes(chunks), digests)]}

VerifyManifest(m, chunks) ==
    /\ Len(chunks) = Len(m.digests)
    /\ TotalBytes(chunks) = m.total
    /\ \A i \in DOMAIN chunks : Sha256(chunks[i]) = m.digests[i]
    /\ SnapshotRoot(m.id, m.term, m.index, m.total, m.digests) = m.root

------------------------------------------------------------------------------
AlgorithmInit == problem \in Problems /\ solved = FALSE

Solve == ~solved /\ solved' = TRUE /\ UNCHANGED problem

AlgorithmSpec == AlgorithmInit /\ [][Solve]_algorithmVars

------------------------------------------------------------------------------
(* What each function is to compute. *)

\* Threshold many shares of one split, all different and in any order, give the
\* key back; fewer, repeated or foreign ones are refused; and one share of a
\* threshold of two is a share of every key (crypto.rs, split_secret and combine_shares).
SharesRight(p) ==
    LET split == SplitSecret(p.secret, p.coefficients, p.total, p.threshold)
        shares == [i \in DOMAIN p.chosen |-> IF i = p.foreign THEN [split[p.chosen[i]] EXCEPT !.total = @ + 1]
                                             ELSE split[p.chosen[i]]]
        used == {i \in DOMAIN p.chosen : i <= p.threshold}
    IN /\ CombineShares(shares) =
             IF Cardinality({p.chosen[i] : i \in used}) = p.threshold /\ p.foreign \notin used
             THEN {p.secret} ELSE {}
       /\ (p.threshold = 2 /\ Len(p.chosen) = 1) =>
             \A secret \in {0, 255} : \E c \in 0 .. 255 :
                ShareValue(secret, <<c>>, p.chosen[1]) = split[p.chosen[1]].value

\* A pattern matches the paths that its signs can be filled in to: a plus by a
\* segment, a star at the end by anything (auth.rs, path_matches).
MatchRight(p) ==
    LET prefix == Last(p.pattern) = Star
        parts == Pieces(IF prefix THEN Front(p.pattern) ELSE p.pattern, Slash)
        words == {w \in {SubSeq(p.path, i, j) : i, j \in DOMAIN p.path} : w # <<>> /\ ~Contains(w, Slash)}
        Filled(f) == FlattenSeq([i \in DOMAIN parts |->
                        (IF i > 1 THEN <<Slash>> ELSE <<>>) \o (IF parts[i] = <<Plus>> THEN f[i] ELSE parts[i])])
    IN ValidatePath(p.pattern, TRUE) /\ ValidatePath(p.path, FALSE) =>
          (PathMatches(p.pattern, p.path) <=>
             \E f \in [{i \in DOMAIN parts : parts[i] = <<Plus>>} -> words] :
                IF prefix THEN IsPrefix(Filled(f), p.path) ELSE Filled(f) = p.path)

\* The pages of a listing, each asked for after the last key of the one before,
\* make up the whole, and every key beneath the prefix is on exactly one line
\* of it (engines.rs, list_keys).
ListingRight(p) ==
    LET whole == ListKeys(p.keys, p.prefix, p.recursive, <<>>, 0)
        More(seen) == seen \o ListKeys(p.keys, p.prefix, p.recursive,
                                       IF seen = <<>> THEN <<>> ELSE Last(seen), p.limit)
        Tells(line, rest) == line = rest \/ (Last(line) = Slash /\ IsPrefix(line, rest))
    IN /\ Repeat(More, Cardinality(p.keys), <<>>) = whole
       /\ \A rest \in Beneath(p.keys, p.prefix) : Cardinality({i \in DOMAIN whole : Tells(whole[i], rest)}) = 1
       /\ \A line \in ToSet(whole) : \E rest \in Beneath(p.keys, p.prefix) : Tells(line, rest)

\* A policy text is read exactly when it is rules one after another, each path
\* once, and as those rules (auth.rs, parse_policy).
PolicyText(rules) ==
    FlattenSeq([i \in DOMAIN rules |->
        <<"path", rules[i].path>> \o Opening \o
        FlattenSeq([j \in DOMAIN rules[i].list |-> IF j > 1 THEN <<",", rules[i].list[j]>> ELSE <<rules[i].list[j]>>])
        \o (IF rules[i].comma THEN <<",", "]", "}">> ELSE <<"]", "}">>)])

PolicyTexts ==
    LET Rules == {r \in [path : {"a", "read", "sudo"}, list : BoundedSeq(Capabilities, 2), comma : BOOLEAN] :
                     r.comma => r.list # <<>>}
    IN {[text |-> PolicyText(rules),
         rules |-> [i \in DOMAIN rules |-> [path |-> rules[i].path, capabilities |-> ToSet(rules[i].list)]]] :
        rules \in {rs \in BoundedSeq(Rules, 2) : Len(rs) = 2 => rs[1].path # rs[2].path}}

PolicyRight(p) == ParsePolicy(p.tokens) = {t.rules : t \in {t \in PolicyTexts : t.text = p.tokens}}

\* The date of a timestamp is a date of the calendar, as many days after 1970 as
\* the timestamp is (engines.rs, timestamp).
Leap(y) == y % 4 = 0 /\ (y % 100 = 0 => y % 400 = 0)

DaysIn(y, m) == CASE m \in {4, 6, 9, 11} -> 30 [] m = 2 -> IF Leap(y) THEN 29 ELSE 28 [] OTHER -> 31

DaysBefore(y, m, d) ==
    LET past == y - 1
    IN 365 * (y - 1970) + (past \div 4 - past \div 100 + past \div 400) - 477
       + FoldLeft(LAMBDA n, k : n + DaysIn(y, k), 0, [k \in 1 .. m - 1 |-> k]) + d - 1

TimestampRight(p) ==
    LET t == Timestamp(p.day, p.second)
        day == IF p.day > LastDay THEN LastDay ELSE p.day
    IN /\ t.date.month \in 1 .. 12
       /\ t.date.day \in 1 .. DaysIn(t.date.year, t.date.month)
       /\ DaysBefore(t.date.year, t.date.month, t.date.day) = day
       /\ p.day <= LastDay => t.hour * 3600 + t.minute * 60 + t.second = p.second

\* Every key has one text, which both encoders write and the decoder reads back,
\* with the padding it calls for or without; another text is read as the key only if
\* it differs from that one in the case of its letters
\* (totp.rs, encode_base32 and decode_base32; auth.rs, base32_no_padding).
Base32Right(p) ==
    LET text == EncodeBase32(p.bytes)
        padded == text \o [i \in 1 .. (8 - (Len(text) % 8)) % 8 |-> Pad]
    IN /\ Base32NoPadding(p.bytes) = text
       /\ DecodeBase32(text) = {p.bytes}
       /\ DecodeBase32(padded) = {p.bytes}
       /\ \A bytes \in DecodeBase32(p.text) :
             LET unpadded == SubSeq(p.text, 1, SelectLastInSeq(p.text, LAMBDA c : c # Pad))
             IN EncodeBase32(bytes) = [i \in DOMAIN unpadded |-> Uppercase(unpadded[i])]

\* A target has one canonical form: it parses as the target, it is the only text
\* that matches it, and whatever order the pairs came in it is the same
\* (protocol, CanonicalTarget).
TargetRight(p) ==
    \A t \in ParseTarget(p.raw) :
        /\ ParseTarget(CanonicalString(t)) = {t}
        /\ MatchesCanonical(t, CanonicalString(t))
        /\ MatchesCanonical(t, p.raw) => p.raw = CanonicalString(t)
        /\ \A i \in 1 .. Len(t.query) - 1 : Before(t.query[i].left, t.query[i + 1].left)

\* Two quorums share a voter when both are of the joint phase, or one is of it
\* and one of the voters before or after it (ha-service, MembershipTransition).
QuorumsRight(p) ==
    \A j \in Transition("joint", p.old, p.new) :
        \A other \in {j} \cup Transition("final", p.old, p.old) \cup Transition("final", p.new, p.new) :
            JointQuorum(j, p.first) /\ JointQuorum(other, p.second) => p.first \cap p.second # {}

\* A manifest verifies the chunks it was built from and no others, and not once
\* one of its own fields is altered (ha-service, SnapshotManifest).
ManifestRight(p) ==
    \A m \in BuildManifest(p.id, p.term, p.index, p.chunks) :
        /\ VerifyManifest(m, p.received) <=> p.received = p.chunks
        /\ ~VerifyManifest([m EXCEPT !.term = @ + 1], p.chunks)
        /\ ~VerifyManifest([m EXCEPT !.total = @ + 1], p.chunks)

\* Every function computes what it is to compute.
ComputedRight ==
    solved => CASE problem.of = "shares" -> SharesRight(problem)
                [] problem.of = "match" -> MatchRight(problem)
                [] problem.of = "listing" -> ListingRight(problem)
                [] problem.of = "policy" -> PolicyRight(problem)
                [] problem.of = "timestamp" -> TimestampRight(problem)
                [] problem.of = "base32" -> Base32Right(problem)
                [] problem.of = "target" -> TargetRight(problem)
                [] problem.of = "quorums" -> QuorumsRight(problem)
                [] problem.of = "manifest" -> ManifestRight(problem)
==============================================================================
