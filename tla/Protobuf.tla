------------------------------ MODULE Protobuf ------------------------------
(***************************************************************************)
(* The two protobuf layers at work on one wire.  A peer, which may use any    *)
(* protobuf library, writes fields in any order, repeats them, packs arrays   *)
(* or does not, and adds fields that this side does not know; what it has     *)
(* written so far is read here, whole or cut off after any byte.              *)
(*                                                                           *)
(* A chunk [tag, wt, body, val] is one field on the wire with its meaning:    *)
(* val is the sequence of the values it carries, for a submessage one         *)
(* sequence of chunks.                                                       *)
(***************************************************************************)
EXTENDS CuttlePb, Nanopb

CONSTANTS Chunks,       \* what the peer may write
          MaxChunks,    \* bound: the fields of one message on the wire
          Table,        \* the cf_pb_field_t table of the message
          Type          \* the pb_field_t table of the same message

VARIABLES sent,         \* the chunks written so far
          cut           \* the number of bytes of them that are read

wireVars == <<sent, cut>>

Wire(cs) == FlattenSeq([i \in DOMAIN cs |-> pb_encode_tag(cs[i].wt, cs[i].tag) \o cs[i].body])

Received == SubSeq(Wire(sent), 1, cut)
Whole    == cut = Len(Wire(sent))

\* The chunks of which every byte is read.
Read == SubSeq(sent, 1, Max({n \in 0 .. Len(sent) : Len(Wire(SubSeq(sent, 1, n))) <= cut}))

write(c) == /\ Len(sent) < MaxChunks
            /\ Whole
            /\ sent' = Append(sent, c)
            /\ cut' = Len(Wire(sent'))

truncate == /\ Whole
            /\ cut' \in 1 .. cut - 1
            /\ UNCHANGED sent

WireInit == sent = <<>> /\ cut = 0
WireNext == truncate \/ \E c \in Chunks : write(c)
WireSpec == WireInit /\ [][WireNext]_wireVars

----------------------------------------------------------------------------
(* What a message means: its fields one after another.                       *)

ItemsOf(v) == IF v = Null THEN <<>> ELSE v

RECURSIVE Meaning(_, _, _)

\* nanopb: the last value, all the items, one member of the union; a submessage
\* in memory of its own is replaced.
Assign(T, m, c) ==
    LET f == FieldOf(T, c.tag)
        v == IF f.ltype = "submessage" THEN Meaning(f.ptr, c.val[1], Defaults(f.ptr)) ELSE c.val[1]
    IN  CASE c.tag \notin TagsOf(T) -> m
          [] c.tag \in TagsOf(T) /\ f.atype = "callback" /\ f.max = 0 -> m
          [] c.tag \in TagsOf(T) /\ (f.htype = "repeated" \/ (f.atype = "callback" /\ f.max # 0)) ->
                [m EXCEPT ![c.tag] = ItemsOf(@) \o IF f.ltype = "submessage" THEN <<v>> ELSE c.val]
          [] OTHER -> [t \in DOMAIN m |-> IF t = c.tag THEN v ELSE IF t \in Others(T, f) THEN Null ELSE m[t]]

Meaning(T, cs, m) == FoldLeft(LAMBDA x, c : Assign(T, x, c), m, cs)

\* Whether the arrays have room for it all.
RoomFor(T, m) ==
    \A t \in TagsOf(T) : FieldOf(T, t).htype = "repeated" =>
        Len(ItemsOf(m[t])) <= IF FieldOf(T, t).atype = "static" THEN FieldOf(T, t).max ELSE SizeMax

TagsIn(cs)   == {cs[i].tag : i \in DOMAIN cs}
Complete(cs) == Required(Type) \subseteq TagsIn(cs)

NanoMeaning(cs) == Meaning(Type, cs, Defaults(Type))

\* cuttle-pb: the same, but a submessage that comes again is merged into the first.
RECURSIVE CfMeaning(_, _, _)
CfAssign(F, m, c) ==
    LET f    == F[CHOOSE i \in DOMAIN F : F[i].tag = c.tag]
        base == IF f.alloctype = "array" \/ m[c.tag] = Null THEN Zeroed(f.ptr) ELSE m[c.tag]
        v    == IF f.pbtype = "message" THEN CfMeaning(f.ptr, c.val[1], base) ELSE c.val[1]
    IN  CASE c.tag \notin Tags(F) -> m
          [] c.tag \in Tags(F) /\ f.alloctype = "array" ->
                [m EXCEPT ![c.tag] = @ \o IF f.pbtype = "message" THEN <<v>> ELSE c.val]
          [] OTHER -> Store(F, f, m, v)
CfMeaning(F, cs, m) == FoldLeft(LAMBDA x, c : CfAssign(F, x, c), m, cs)

\* A packed chunk is the first of its array, as this program's own encoder has it.
PackedFirst(cs) ==
    \A i, j \in DOMAIN cs : i < j /\ cs[i].tag = cs[j].tag /\ cs[i].tag \in Tags(Table) => Len(cs[j].val) = 1

\* Every submessage in an array carries every field of its table.
WholeItems(cs) ==
    \A i \in DOMAIN cs, j \in DOMAIN Table :
        Table[j].tag = cs[i].tag /\ Table[j].alloctype = "array" /\ Table[j].pbtype = "message" =>
            Tags(Table[j].ptr) \subseteq TagsIn(cs[i].val[1])

----------------------------------------------------------------------------
(* PROPERTIES                                                                *)

\* pb_decode() accepts a wire that holds every required field and fits the arrays,
\* and reads from it what it means; of a wire that was cut it accepts at most the
\* fields that are whole, and never half of one.
NanoReads ==
    LET d == pb_decode(Received, Type)
        m == NanoMeaning(Read)
    IN  /\ d.ok => d.v = m /\ Complete(Read)
        /\ Whole => d.ok = (Complete(sent) /\ RoomFor(Type, m))

\* Every block that the decoder allocated is held by the message it returns, and
\* after a failure nothing is: whatever was repeated, replaced or cut off.
NanoFreesAll ==
    LET d == pb_decode(Received, Type)
    IN  d.heap = IF d.ok THEN MessageBlocks(Type, d.v) ELSE 0

\* What pb_encode() writes is as long as pb_get_encoded_size() said, and pb_decode()
\* reads the same message from it.
NanoRoundTrip ==
    LET m   == NanoMeaning(sent)
        out == pb_encode(Type, m, FALSE)
        d   == pb_decode(out, Type)
    IN  Whole /\ Complete(sent) /\ RoomFor(Type, m) =>
            /\ ~Failed(out)
            /\ Len(out) = pb_get_encoded_size(Type, m)
            /\ d.ok /\ d.v = m

\* cf_pb_unpack() accepts every whole wire, and reads it as what it means: of a wire
\* that was cut at most the fields that are whole.  Not so when a packed chunk follows
\* in its array, which it starts anew, nor when a submessage in an array leaves out a
\* field of its table: cf_pb_decode_array() decodes it where malloc() has put it, and
\* the field, its has_ flag too, stays what the memory held.
CfReads ==
    LET d == cf_pb_unpack(Received, Table)
    IN  /\ Whole => d.ok
        /\ d.ok /\ PackedFirst(sent) /\ WholeItems(Read) => d.v = CfMeaning(Table, Read, Zeroed(Table))

\* cf_pb_pack() writes the message into the bytes it counted, and cf_pb_unpack() reads
\* the same message from them, unless an item of an array of submessages has a field
\* that is not set: it is read back as whatever malloc() had left there.  (The message
\* has a field that is always written; cf_pb_pack() fails for a message of no bytes.)
CfRoundTrip ==
    LET m   == CfMeaning(Table, sent, Zeroed(Table))
        out == cf_pb_pack(m, Table)
    IN  Whole => /\ out # Null
                 /\ cf_pb_unpack(out, Table).ok
                 /\ WholeItems(sent) => cf_pb_unpack(out, Table) = Ok(m, <<>>)
=============================================================================
