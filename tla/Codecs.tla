-------------------------------- MODULE Codecs --------------------------------
(***************************************************************************)
(* The binary formats of what the crates store and send: the sealed        *)
(* envelope, the peer, Raft and forward frames, the key-ring event, the    *)
(* current record and the bundle of the single-node store, the journal     *)
(* entry, the checksummed files of the Raft store and of the durable       *)
(* service and the recovery archive; and two texts, the JSON of a forward  *)
(* and the status of a replicated envelope, which can be spelled in        *)
(* several ways.                                                           *)
(*                                                                         *)
(* A frame is a sequence of cells: an integer, a magic or a digest of the  *)
(* code is one cell, a string or a byte vector one cell for every byte.    *)
(* A format is a sequence of fields, read in order by a cursor; a frame is *)
(* written, damaged (a cell altered, the end lost, something appended) and *)
(* read.                                                                   *)
(***************************************************************************)
EXTENDS Integers, Sequences, SequencesExt, TLC

CONSTANTS Samples,                 \* values of each format, by name
          MaxBytes,                \* bytes of a string or a vector
          MaxRecords,              \* records of an archive
          MaxDamage                \* damages of one frame

VARIABLES format, sent, frame, damage

codecVars == <<format, sent, frame, damage>>

------------------------------------------------------------------------------
(* Fields.  `at' is the field's place in the value; a length precedes its      *)
(* bytes, not always directly, and an option's flag is a length in units.      *)
(* Zero stands for a byte a name may not have, and for the digest, number or   *)
(* tag that the code's types refuse.                                           *)

Magic == 3                         \* any other cell is another magic or version
Cell == 0..3
Colon == 4                         \* in texts: between the parts of a status,
Blank == 4                         \* and, in JSON, any spelling that says nothing
NonZero == Cell \ {0}              \* generations, epochs, digests, sequences, terms

Const(c) == [kind |-> "one", at |-> 0, in |-> {c}, unit |-> 1]
Num(i, S) == [kind |-> "one", at |-> i, in |-> S, unit |-> 1]
LenOf(i, S) == [kind |-> "len", at |-> i, in |-> S, unit |-> 1]
Flag(i, unit) == [kind |-> "len", at |-> i, in |-> {0, 1}, unit |-> unit]
Bytes(i, S) == [kind |-> "bytes", at |-> i, in |-> S, unit |-> 1]

Some == 1..MaxBytes                \* lengths of what may not be empty

Emit(f, v) ==
    CASE f.kind = "len" -> <<Len(v[f.at]) \div f.unit>>
      [] f.at = 0 -> SetToSeq(f.in)
      [] OTHER -> v[f.at]

Encode(fields, v) == FlattenSeq([i \in DOMAIN fields |-> Emit(fields[i], v)])

\* The cursor: what is left of the frame, the lengths and the values read.
Start(cells) == [ok |-> TRUE, rest |-> cells, lens |-> <<>>, v |-> <<>>]

Take(c, f) ==
    LET n == IF f.kind = "bytes" THEN c.lens[f.at] ELSE 1
        taken == SubSeq(c.rest, 1, n)
    IN IF ~c.ok \/ Len(c.rest) < n \/ \E i \in 1..n : taken[i] \notin f.in
       THEN [c EXCEPT !.ok = FALSE]
       ELSE [ok |-> TRUE, rest |-> SubSeq(c.rest, n + 1, Len(c.rest)),
             lens |-> IF f.kind = "len" THEN (f.at :> taken[1] * f.unit) @@ c.lens ELSE c.lens,
             v |-> IF f.kind = "len" \/ f.at = 0 THEN c.v ELSE (f.at :> taken) @@ c.v]

Read(fields, cursor) == FoldLeft(Take, cursor, fields)

------------------------------------------------------------------------------
(* The formats                                                                 *)

SealedEnvelope ==
    <<Const(Magic), Const(1), Num(1, NonZero), LenOf(2, Some), LenOf(3, Some), LenOf(4, Some),
      Bytes(2, Cell), Bytes(3, Cell), Bytes(4, Cell)>>

PeerEnvelope ==
    <<Const(Magic), LenOf(1, Some), Bytes(1, Cell), LenOf(2, Some), Bytes(2, NonZero), LenOf(3, Some), Bytes(3, NonZero),
      Num(4, NonZero), Num(5, NonZero), Num(6, NonZero), LenOf(7, 0..MaxBytes), Bytes(7, Cell), Num(8, Cell)>>

RaftFrame ==
    <<Const(Magic), Num(1, {1, 2}), Num(2, NonZero), Num(3, NonZero), Num(4, NonZero), LenOf(5, Some), Bytes(5, Cell)>>

\* The text of a forward is any JSON of its length.
ForwardFrame == <<Const(Magic), LenOf(1, 0..MaxBytes + 2), Bytes(1, Cell \cup {Blank})>>

KeyRingEvent ==
    <<Const(Magic), Const(1), Num(1, NonZero), Flag(3, 1), Num(2, NonZero), Bytes(3, NonZero), LenOf(4, Some), Bytes(4, NonZero)>>

CurrentRecord == <<Const(Magic), Num(1, NonZero), Num(2, NonZero)>>

StoreMarker == <<Const(Magic), LenOf(1, Some), LenOf(2, Some), Bytes(1, NonZero), Bytes(2, NonZero)>>

JournalMarker == <<Const(Magic), LenOf(1, Some), LenOf(2, Some), Bytes(1, NonZero), Bytes(2, NonZero)>>

JournalTail == <<Const(Magic), Num(1, NonZero), Num(2, NonZero)>>

Bundle ==
    <<Const(Magic), Num(1, NonZero), LenOf(3, Some), LenOf(4, Some), LenOf(5, Some), Num(2, NonZero),
      Bytes(3, NonZero), Bytes(4, NonZero), Bytes(5, Cell)>>

JournalEntry ==
    <<Const(Magic), Num(1, NonZero), Num(2, {0, 1}), Num(3, Cell), LenOf(5, Some), Num(4, NonZero), Bytes(5, Cell)>>

RaftFile == <<Const(Magic), LenOf(1, 0..MaxBytes), Bytes(1, Cell), Num(2, Cell)>>

SnapshotFile == <<Const(Magic), Num(1, Cell), LenOf(2, 0..MaxBytes), Bytes(2, Cell), Num(3, Cell)>>

LedgerFile == <<Const(Magic), Num(1, Cell), LenOf(2, 0..MaxBytes), Bytes(2, Cell), Num(3, Cell)>>

ArchiveHead ==
    <<Const(Magic), Const(1), LenOf(8, Some), LenOf(9, Some), LenOf(10, Some), LenOf(11, Some), LenOf(12, Some),
      LenOf(13, Some), Num(1, 0..MaxRecords), Num(2, NonZero), Num(3, NonZero), Num(4, NonZero),
      Flag(5, 2), Bytes(5, NonZero), Num(6, NonZero), Flag(7, 1), Bytes(7, NonZero), Num(14, NonZero),
      Bytes(8, NonZero), Bytes(9, NonZero), Bytes(10, NonZero), Bytes(11, NonZero), Bytes(12, NonZero), Bytes(13, Cell)>>

ArchiveRecord ==
    <<Num(1, NonZero), Flag(2, 1), Bytes(2, NonZero), Num(3, NonZero), LenOf(4, Some), Bytes(4, Cell)>>

Fields ==
    [sealed |-> SealedEnvelope, peer |-> PeerEnvelope, raft |-> RaftFrame, forward |-> ForwardFrame,
     event |-> KeyRingEvent, current |-> CurrentRecord, bundle |-> Bundle, entry |-> JournalEntry,
     file |-> RaftFile, snapshot |-> SnapshotFile, ledger |-> LedgerFile,
     storeMarker |-> StoreMarker, journalMarker |-> JournalMarker, tail |-> JournalTail]

------------------------------------------------------------------------------
(* What a reader requires beyond the fields, and a writer supplies.            *)

\* A checksum tells these few frames apart: it depends on every cell and its place.
Crc32(cells) == FoldLeft(LAMBDA a, c : (3 * a + c) % 4, 1, cells)

\* A Raft frame and a forward go from one node to another.
Direction(source, target) == source # target /\ 0 \notin {source, target}

EventShape(v) == LET rotates == v[1] = <<3>> IN /\ rotates <=> v[3] # <<>>
                                                /\ v[3] # v[2]

RaftFileSum(v) == v[2] = <<Crc32(v[1])>>

ServiceFileSum(v) == v[3] = <<Crc32(<<Magic>> \o v[1] \o <<Len(v[2])>> \o v[2])>>

PreviousShape(v) == (v[2] = <<0>>) <=> (v[3] = <<0>>)

Valid(name, v) ==
    CASE name = "raft" -> Direction(v[2][1], v[3][1])
      [] name = "event" -> EventShape(v)
      [] name = "entry" -> PreviousShape(v)
      [] name = "file" -> RaftFileSum(v)
      [] name \in {"snapshot", "ledger"} -> ServiceFileSum(v)
      [] OTHER -> TRUE

\* Mutant: whatever follows the last field is ignored.
FinishedAnyhow(cursor) == cursor.ok

Finished(cursor) == cursor.ok /\ cursor.rest = <<>>

Rejected == [ok |-> FALSE]
Accepted(v) == [ok |-> TRUE, v |-> v]

Decode(name, cells) ==
    LET c == Read(Fields[name], Start(cells))
    IN IF Finished(c) /\ Valid(name, c.v) THEN Accepted(c.v) ELSE Rejected

------------------------------------------------------------------------------
(* The recovery archive: a head, as many records as it says, and a tag.        *)

\* validate_image: the records are numbered from 1, each names its predecessor's tag, and the
\* tail of the head is the last one.  from_parts: only the first revision has no predecessor.
ValidateImage(a) ==
    /\ \A i \in DOMAIN a.records :
          /\ a.records[i][1] = <<i>>
          /\ a.records[i][2] = IF i = 1 THEN <<>> ELSE a.records[i - 1][3]
    /\ a.head[5] = IF a.records = <<>> THEN <<>> ELSE Last(a.records)[1] \o Last(a.records)[3]
    /\ (a.head[6] = <<1>>) <=> (a.head[7] = <<>>)

EncodeArchive(a) ==
    Encode(ArchiveHead, a.head)
        \o FlattenSeq([i \in DOMAIN a.records |-> Encode(ArchiveRecord, a.records[i])]) \o a.tag

TakeRecord(c, i) ==
    LET r == Read(ArchiveRecord, [c.cursor EXCEPT !.lens = <<>>, !.v = <<>>])
    IN [cursor |-> r, records |-> Append(c.records, r.v)]

DecodeArchive(cells) ==
    LET h == Read(ArchiveHead, Start(cells))
        r == FoldLeft(TakeRecord, [cursor |-> h, records |-> <<>>], [i \in 1..h.v[1][1] |-> i])
        t == Take([r.cursor EXCEPT !.v = <<>>], Num(1, NonZero))
        a == [head |-> h.v, records |-> r.records, tag |-> t.v[1]]
    IN IF h.ok THEN IF r.cursor.ok /\ Finished(t) /\ ValidateImage(a) THEN Accepted(a) ELSE Rejected
       ELSE Rejected

------------------------------------------------------------------------------
(* A forward: source, target and the rest of the request are members of a JSON *)
(* object, one cell each.  serde reads it past its blanks.                     *)

ReadJson(text) == SelectSeq(text, LAMBDA c : c # Blank)

DecodeForward(cells) ==
    LET c == Read(ForwardFrame, Start(cells))
        v == ReadJson(c.v[1])
    IN IF Finished(c) THEN IF Len(v) = 3 /\ Direction(v[1], v[2]) THEN Accepted(<<v>>) ELSE Rejected
       ELSE Rejected

------------------------------------------------------------------------------
(* The text of a replicated envelope: an identifier, a digest and the sealed   *)
(* bytes.  V1 separates them by a colon, which an identifier may contain; V2   *)
(* announces the identifier's length.  The digest and the bytes are            *)
(* hexadecimal, a pair of digits a cell: the cells 2 and 3 are one byte in     *)
(* lower and in upper case.  The length is decimal, a digit a cell; 3 is no    *)
(* digit.                                                                      *)

V1 == 0
V2 == 1

DecodeHex(text) == [i \in DOMAIN text |-> IF text[i] = 3 THEN 2 ELSE text[i]]

ParseLength(digits) == FoldLeft(LAMBDA n, d : 10 * n + d, 0, digits)

FromFields(fields) ==
    IF /\ Len(fields) = 3 /\ \A i \in 1..3 : fields[i] # <<>>
       /\ Len(fields[1]) <= MaxBytes /\ 0 \notin ToSet(fields[1])
       /\ Len(fields[2]) = 1 /\ fields[2] # <<0>>
       /\ \A i \in 2..3 : Colon \notin ToSet(fields[i])
    THEN Accepted(<<fields[1], DecodeHex(fields[2]), DecodeHex(fields[3])>>) ELSE Rejected

SplitAtColon(cells) ==
    FoldLeft(LAMBDA parts, c : IF c = Colon THEN Append(parts, <<>>)
                               ELSE [parts EXCEPT ![Len(parts)] = Append(@, c)], <<<<>>>>, cells)

EncodeV1(v) == <<V1>> \o v[1] \o <<Colon>> \o v[2] \o <<Colon>> \o v[3]

EncodeV2(v) == <<V2, Len(v[1]), Colon>> \o v[1] \o <<Colon>> \o v[2] \o <<Colon>> \o v[3]

DecodeV2(length, rest) ==
    LET n == ParseLength(length)
    IN IF length # <<>> /\ 3 \notin ToSet(length) /\ n \in Some /\ Len(rest) > n
       THEN IF rest[n + 1] = Colon
            THEN FromFields(<<SubSeq(rest, 1, n)>> \o SplitAtColon(SubSeq(rest, n + 2, Len(rest))))
            ELSE Rejected
       ELSE Rejected

DecodeStatus(cells) ==
    LET length == SplitAtColon(Tail(cells))[1]
    IN CASE cells # <<>> /\ cells[1] = V2 /\ Len(length) + 1 < Len(cells) ->
              DecodeV2(length, SubSeq(cells, Len(length) + 3, Len(cells)))
         [] cells # <<>> /\ cells[1] = V1 -> FromFields(SplitAtColon(Tail(cells)))
         [] OTHER -> Rejected

------------------------------------------------------------------------------
Formats == DOMAIN Fields \cup {"archive", "status", "legacy"}

Written(name, v) ==
    CASE name = "archive" -> EncodeArchive(v)
      [] name = "status" -> EncodeV2(v)
      [] name = "legacy" -> EncodeV1(v)
      [] OTHER -> Encode(Fields[name], v)

Received(name, cells) ==
    CASE name = "archive" -> DecodeArchive(cells)
      [] name = "forward" -> DecodeForward(cells)
      [] name \in {"status", "legacy"} -> DecodeStatus(cells)
      [] OTHER -> Decode(name, cells)

Damage(cells) ==
    /\ damage < MaxDamage
    /\ frame' = cells /\ cells # frame
    /\ damage' = damage + 1
    /\ UNCHANGED <<format, sent>>

CodecInit ==
    /\ format \in Formats
    /\ sent \in Samples[format]
    /\ frame = Written(format, sent)
    /\ damage = 0

Alphabet == IF format \in {"forward", "status", "legacy"} THEN Cell \cup {Colon} ELSE Cell

Alter == \E i \in DOMAIN frame, c \in Alphabet : Damage([frame EXCEPT ![i] = c])
Cut == \E n \in 0..Len(frame) : Damage(SubSeq(frame, 1, n))
Insert == \E i \in 1..Len(frame) + 1, c \in Alphabet : Damage(InsertAt(frame, i, c))

CodecNext == Alter \/ Cut \/ Insert

CodecSpec == CodecInit /\ [][CodecNext]_codecVars

\* The texts that spell a status: either version, the length of V2 with leading zeros, the
\* hexadecimal parts at the end in either case.
Spells(text, v) ==
    LET hex == Len(v[2]) + 1 + Len(v[3])
        front == Len(text) - hex
        lower == SubSeq(text, 1, front) \o DecodeHex(SubSeq(text, front + 1, Len(text)))
        zeros == Len(text) - Len(EncodeV2(v))
    IN \/ lower = EncodeV1(v)
       \/ zeros >= 0 /\ lower = <<V2>> \o [i \in 1..zeros |-> 0] \o Tail(EncodeV2(v))

\* What was written is what is read; and a frame that is read, however it was damaged, is
\* exactly a frame of what was read: nothing follows it, and no length reaches into its
\* neighbour.  A binary value has one frame only; the JSON of a forward and the text of a
\* status have as many as they have spellings, and no others.  A V1 text whose identifier
\* has a colon is refused, never read as another envelope (decode, decode_envelope,
\* decode_bundle, decode_entry, decode_peer_envelope, decode_raft_frame, decode_status).
FramesExact ==
    LET got == Received(format, frame)
        text == SubSeq(frame, 3, Len(frame))
    IN /\ damage = 0 =>
             IF format = "legacy" /\ Colon \in ToSet(sent[1]) THEN ~got.ok ELSE got = Accepted(sent)
       /\ got.ok =>
             CASE format \in {"status", "legacy"} -> Spells(frame, got.v)
               [] format = "forward" -> frame = <<Magic, Len(text)>> \o text /\ <<ReadJson(text)>> = got.v
               [] OTHER -> frame = Written(format, got.v)
==============================================================================
