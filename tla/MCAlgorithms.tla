----------------------------- MODULE MCAlgorithms -----------------------------
(* Inputs of the pure functions: every text, listing, quorum and manifest up   *)
(* to a length, shares of up to three holders, and the days around the ends of *)
(* years and Februaries.                                                       *)
EXTENDS Algorithms

Texts(chars, n) == BoundedSeq(chars, n)

Shares ==
    {[of |-> "shares", secret |-> s, coefficients |-> cs, total |-> 3, threshold |-> Len(cs) + 1,
      chosen |-> chosen, foreign |-> foreign] :
        s \in {0, 83, 255}, cs \in Texts({0, 202}, 2), chosen \in Texts(1 .. 3, 3) \ {<<>>}, foreign \in {0, 2}}

Matches ==
    {[of |-> "match", pattern |-> p, path |-> q] :
        p \in {p \in Texts({Plus, Star, Slash, 4}, 4) : ValidatePath(p, TRUE)},
        q \in {q \in Texts({Slash, 4, 5}, 4) : ValidatePath(q, FALSE)}}

Keys == {<<4>>, <<4, Minus>>, <<4, Slash, 4>>, <<4, Slash, 5>>, <<4, Slash, 4, Slash, 5>>, <<5, Slash, 4>>}

Listings ==
    {[of |-> "listing", keys |-> keys, prefix |-> prefix, recursive |-> r, limit |-> l] :
        keys \in SUBSET Keys, prefix \in {<<>>, <<4>>, <<4, Slash>>}, r \in BOOLEAN, l \in 1 .. 2}

\* A policy of two rules with at most one token replaced or left out.
TwoRules ==
    {PolicyText(<<[path |-> "a", list |-> l, comma |-> FALSE], [path |-> p, list |-> <<"sudo">>, comma |-> c]>>) :
        l \in {<<>>, <<"read">>, <<"read", "sudo">>}, p \in {"a", "read"}, c \in BOOLEAN}

SomePolicies ==
    {[of |-> "policy", tokens |-> t] :
        t \in TwoRules \cup UNION {{ReplaceAt(t, i, x) : i \in 1 .. Len(t), x \in Quoted \cup Symbols} : t \in TwoRules}
              \cup UNION {{RemoveAt(t, i) : i \in 1 .. Len(t)} : t \in TwoRules} \cup {<<>>}}

Days == {DaysBefore(y, 1, 1) + n : y \in {1970, 1972, 1999, 2000, 2099, 2100, 2101, 2400, 9999}, n \in {0, 31, 58, 59, 60, 364, 365}}

Timestamps == {[of |-> "timestamp", day |-> d, second |-> s] : d \in Days \cup {LastDay + 7}, s \in {0, 59, 3600, 86399}}

Base32s == {[of |-> "base32", bytes |-> b, text |-> t] : b \in Texts({0, 1, 255}, 3), t \in {<<>>}}
           \cup {[of |-> "base32", bytes |-> <<7, 7, 128, 255, 1, 0>>, text |-> t] :
                   t \in Texts({0, 1, 16, 31, Pad, Lower(0), Lower(16)}, 4) \cup {<<1, 4>> \o t : t \in Texts({0, Pad}, 6)}}

RawPaths == {<<Slash, Version, Slash>> \o p : p \in Texts({Slash, BadEscape, Dot, 11}, 2)}
Queries == Texts({Amp, Equals, Question, 11, 12}, 4) \cup Texts({Escape, BadEscape, Equals, 11}, 3)
           \cup {<<a, Equals>> \o v \o <<Amp, b, Equals>> \o w : a, b \in {11, 12}, v, w \in Texts({Equals, 11}, 1)}

Targets == {[of |-> "target", raw |-> p] : p \in RawPaths}
           \cup {[of |-> "target", raw |-> <<Slash, Version, Slash, 11, Question>> \o q] : q \in Queries}

Quorums ==
    {[of |-> "quorums", old |-> o, new |-> n, first |-> a, second |-> b] :
        o, n, a, b \in SUBSET (1 .. 3)}

Chunks == Texts(Texts({0, 1}, 2), 2)

Manifests ==
    {[of |-> "manifest", id |-> id, term |-> 1, index |-> 1, chunks |-> c, received |-> r] :
        id \in {0, 1}, c \in Chunks, r \in Chunks}

SomeProblems == Shares \cup Matches \cup Listings \cup SomePolicies \cup Timestamps \cup Base32s \cup Targets \cup Quorums \cup Manifests
==============================================================================
