------------------------------- MODULE PbWire -------------------------------
(***************************************************************************)
(* The wire format under both protobuf layers of the program: streams of    *)
(* bytes, varints, zigzag and little-endian numbers, tags, strings and       *)
(* substreams (src/src/nanopb/pb_decode.c, pb_encode.c).                      *)
(*                                                                           *)
(* An input stream is the sequence of the bytes that are left.  A reader     *)
(* returns [ok, v, s]: whether it succeeded, what it read, what it left.     *)
(* An output stream is the sequence of the bytes written; a writer that      *)
(* fails has written Err, which is no byte.  A sizing stream (callback NULL) *)
(* holds as many bytes as were counted, whatever they are.                    *)
(*                                                                           *)
(* Narrow and Wide are the bits of int32_t and int64_t.  TLC counts in 32    *)
(* bits, so that the runs use smaller widths, none a multiple of 7, as 32     *)
(* and 64 are not: the last byte of the longest varint is cut in both.        *)
(***************************************************************************)
EXTENDS Integers, Sequences, FiniteSets, FiniteSetsExt, SequencesExt

CONSTANTS Narrow, Wide,
          Null,         \* a NULL pointer, a has_ flag or a which_ tag that is not set
          Junk          \* what malloc() left in memory

ASSUME WidthAssumption == /\ {Narrow, Wide} \subseteq Nat \ {0}
                          /\ Narrow % 8 = 0 /\ Wide % 8 = 0 /\ Narrow < Wide

Err == <<-1>>

Failed(out) == \E i \in DOMAIN out : out[i] = -1
Ok(v, s)    == [ok |-> TRUE, v |-> v, s |-> s]
Fail(v, s)  == [ok |-> FALSE, v |-> v, s |-> s]
Drop(s, n)  == SubSeq(s, n + 1, Len(s))

----------------------------------------------------------------------------
(* Reading                                                                   *)

pb_read(s, n) == IF Len(s) < n THEN Fail(<<>>, s) ELSE Ok(SubSeq(s, 1, n), Drop(s, n))

\* The bytes up to the first one without the continuation bit.
VarintLen(s) == Min({i \in DOMAIN s : s[i] < 128} \cup {Len(s) + 1})

\* pb_decode_varint32() and pb_decode_varint() with the bits of their result: they
\* give up at the end of the stream, or before a byte that starts past the last bit.
Groups(s, n) == FoldLeft(+, 0, [i \in 1 .. n |-> (s[i] % 128) * 2 ^ (7 * (i - 1))])
ReadVarint(s, n, bits) ==
    IF n > Min({Len(s), (bits + 6) \div 7}) THEN Fail(0, Drop(s, n - 1))
    ELSE Ok(Groups(s, n) % 2 ^ bits, Drop(s, n))
Varint(s, bits) == ReadVarint(s, Min({VarintLen(s), 1 + (bits + 6) \div 7}), bits)

pb_decode_varint32(s) == Varint(s, Narrow)
pb_decode_varint(s)   == Varint(s, Wide)

pb_decode_svarint(s) ==
    [pb_decode_varint(s) EXCEPT !.v = IF @ % 2 = 1 THEN -(@ \div 2) - 1 ELSE @ \div 2]

pb_decode_fixed(s, bits) ==
    [pb_read(s, bits \div 8) EXCEPT !.v = FoldLeft(+, 0, [i \in DOMAIN @ |-> @[i] * 2 ^ (8 * (i - 1))])]

\* A number of the given bits, two's complement.
Signed(v, bits) == LET u == v % 2 ^ bits IN IF u >= 2 ^ (bits - 1) THEN u - 2 ^ bits ELSE u

\* A failure at the end of the stream is an end of file, and so is a zero.
TagIn(d) == [ok |-> d.ok /\ d.v # 0, eof |-> IF d.ok THEN d.v = 0 ELSE d.s = <<>>,
             tag |-> d.v \div 8, wt |-> d.v % 8, s |-> d.s]
pb_decode_tag(s) == TagIn(pb_decode_varint32(s))

\* As many bytes as the number says that was read in front of them.
ReadCounted(n) == IF n.ok THEN pb_read(n.s, n.v) ELSE [n EXCEPT !.v = <<>>]

pb_skip_field(s, wt) ==
    CASE wt = 0 -> IF VarintLen(s) > Len(s) THEN Fail(<<>>, <<>>) ELSE pb_read(s, VarintLen(s))
      [] wt = 1 -> pb_read(s, Wide \div 8)
      [] wt = 2 -> ReadCounted(pb_decode_varint32(s))
      [] wt = 5 -> pb_read(s, Narrow \div 8)
      [] OTHER  -> Fail(<<>>, s)

\* The substream without the test of the bytes that its parent has.
pb_make_string_substream_short(s) ==
    LET n == pb_decode_varint32(s)
    IN  [n EXCEPT !.v = SubSeq(n.s, 1, Min({n.v, Len(n.s)})), !.s = Drop(n.s, Min({n.v, Len(n.s)}))]

pb_make_string_substream(s) == ReadCounted(pb_decode_varint32(s))

\* The parent goes on where the substream stopped, with its own count of bytes.
pb_close_string_substream(sub, s) == SubSeq(sub \o s, 1, Len(s))

----------------------------------------------------------------------------
(* Writing                                                                   *)

pb_encode_varint(v) ==
    LET n == Min({k \in 1 .. (Wide + 6) \div 7 : v < 2 ^ (7 * k)})
    IN  [i \in 1 .. n |-> ((v \div 2 ^ (7 * (i - 1))) % 128) + (IF i < n THEN 128 ELSE 0)]

pb_encode_svarint(v) == pb_encode_varint(IF v < 0 THEN -2 * v - 1 ELSE 2 * v)

pb_encode_fixed(v, bits) == [i \in 1 .. bits \div 8 |-> (v \div 2 ^ (8 * (i - 1))) % 256]

pb_encode_tag(wt, tag) == pb_encode_varint(tag * 8 + wt)

pb_encode_string(b) == pb_encode_varint(Len(b)) \o b

\* pb_write(NULL, size) on a sizing stream.
Counted(size) == [i \in 1 .. size |-> 0]

\* A submessage behind its size, which was counted first: a second pass that writes
\* another count is an error.
EncodeCounted(size, out, sizing) ==
    pb_encode_varint(size) \o IF sizing THEN Counted(size) ELSE IF Len(out) = size THEN out ELSE Err
=============================================================================
