------------------------------ MODULE CuttlePb ------------------------------
(***************************************************************************)
(* The program's own protobuf layer (src/src/pb/cuttle-pb.c): the messages   *)
(* that corpc carries are packed and unpacked here, by the tables that       *)
(* corpc-pb-gen writes.                                                      *)
(*                                                                           *)
(* A table is a sequence of fields [tag, pbtype, alloctype, has, ptr]: ptr is *)
(* the table of a submessage.  float and double are fixed32 and fixed64, the  *)
(* sfixed types too.  A message maps the tags of its table to values: Null    *)
(* where the has_ flag is not set or the union holds another member.         *)
(***************************************************************************)
EXTENDS PbWire

CONSTANTS MaxBytes      \* the longest bytes field that is accepted (64 * 1024)

ASSUME MaxBytesAssumption == MaxBytes \in Nat

cf_pb_wire_type(type) ==
    CASE type \in {"int32", "uint32", "int64", "uint64", "bool"} -> 0
      [] type = "fixed64" -> 1
      [] type = "fixed32" -> 5
      [] OTHER -> 2

cf_pb_type_packable(type) == type \in {"int32", "uint32", "int64", "uint64", "fixed32", "fixed64"}

cf_pb_encode_number(type, v) ==
    CASE type \in {"int32", "int64"}   -> pb_encode_svarint(v)
      [] type \in {"uint32", "uint64"} -> pb_encode_varint(v)
      [] type = "fixed32"              -> pb_encode_fixed(v, Narrow)
      [] type = "fixed64"              -> pb_encode_fixed(v, Wide)
      [] type = "bool"                 -> pb_encode_varint(IF v THEN 1 ELSE 0)

RawNumber(type, s) ==
    CASE type \in {"int32", "int64"}           -> pb_decode_svarint(s)
      [] type \in {"uint32", "uint64", "bool"} -> pb_decode_varint(s)
      [] type = "fixed32"                      -> pb_decode_fixed(s, Narrow)
      [] type = "fixed64"                      -> pb_decode_fixed(s, Wide)

\* What is read in 64 bits must fit the 32 of the field; any bool but 0 is true.
Checked(type, d) ==
    CASE type = "int32"  -> [d EXCEPT !.ok = @ /\ d.v \in -(2 ^ (Narrow - 1)) .. 2 ^ (Narrow - 1) - 1]
      [] type = "uint32" -> [d EXCEPT !.ok = @ /\ d.v < 2 ^ Narrow]
      [] type = "bool"   -> [d EXCEPT !.v = @ # 0]
      [] OTHER           -> d

cf_pb_decode_number(type, s) == Checked(type, RawNumber(type, s))

----------------------------------------------------------------------------
RECURSIVE cf_pb_encode(_, _, _)

cf_pb_encode_submessage(f, v, sizing) ==
    EncodeCounted(Len(cf_pb_encode(f.ptr, v, TRUE)), cf_pb_encode(f.ptr, v, FALSE), sizing)

cf_pb_encode_value(f, v, sizing) ==
    CASE f.pbtype \in {"string", "bytes"} -> pb_encode_string(v)
      [] f.pbtype = "message"             -> cf_pb_encode_submessage(f, v, sizing)
      [] OTHER                            -> cf_pb_encode_number(f.pbtype, v)

cf_pb_encode_scalar(f, v, sizing) ==
    pb_encode_tag(cf_pb_wire_type(f.pbtype), f.tag) \o cf_pb_encode_value(f, v, sizing)

\* The packed array with the count of its items for its size.
cf_pb_encode_array_counts_items(f, v, sizing) ==
    IF v = <<>> \/ ~cf_pb_type_packable(f.pbtype)
    THEN FlattenSeq([i \in DOMAIN v |-> cf_pb_encode_scalar(f, v[i], sizing)])
    ELSE pb_encode_tag(2, f.tag) \o pb_encode_varint(Len(v)) \o
         FlattenSeq([i \in DOMAIN v |-> cf_pb_encode_value(f, v[i], sizing)])

\* Packed when the type allows it, and then a sizing stream only counts.
cf_pb_encode_array(f, v, sizing) ==
    LET items == FlattenSeq([i \in DOMAIN v |-> cf_pb_encode_value(f, v[i], sizing)])
        wt    == cf_pb_wire_type(f.pbtype)
        size  == CASE wt = 5 -> (Narrow \div 8) * Len(v)
                   [] wt = 1 -> (Wide \div 8) * Len(v)
                   [] OTHER  -> Len(items)
    IN  IF v = <<>> THEN <<>>
        ELSE IF ~cf_pb_type_packable(f.pbtype)
             THEN FlattenSeq([i \in DOMAIN v |-> cf_pb_encode_scalar(f, v[i], sizing)])
             ELSE pb_encode_tag(2, f.tag) \o pb_encode_varint(size) \o IF sizing THEN Counted(size) ELSE items

cf_pb_encode_field(f, v, sizing) ==
    IF f.alloctype = "array" THEN cf_pb_encode_array(f, v, sizing) ELSE cf_pb_encode_scalar(f, v, sizing)

cf_pb_encode(fields, m, sizing) ==
    FlattenSeq([i \in DOMAIN fields |->
        IF m[fields[i].tag] = Null THEN <<>>
        ELSE cf_pb_encode_field(fields[i], m[fields[i].tag], sizing)])

\* A message of no bytes is not packed, as if the packing had failed.
Packed(size, out) == IF size = 0 \/ Len(out) > size \/ Failed(out) THEN Null ELSE out
cf_pb_pack(m, fields) == Packed(Len(cf_pb_encode(fields, m, TRUE)), cf_pb_encode(fields, m, FALSE))

----------------------------------------------------------------------------
Tags(fields) == {fields[i].tag : i \in DOMAIN fields}

\* The message that its init function leaves: zeroes, nothing set.
Zeroed(fields) ==
    [t \in Tags(fields) |->
        LET f == fields[CHOOSE i \in DOMAIN fields : fields[i].tag = t]
        IN  CASE f.alloctype = "array" -> <<>>
              [] f.alloctype # "array" /\ cf_pb_type_packable(f.pbtype) /\ ~f.has -> 0
              [] OTHER -> Null]

RECURSIVE cf_pb_decode(_, _, _)

\* cf_pb_decode_string() and cf_pb_decode_bytes(), the count n of bytes read.
cf_pb_decode_bytes(f, n) ==
    IF ~n.ok \/ (f.pbtype = "bytes" /\ n.v > MaxBytes) THEN Fail(Null, n.s) ELSE pb_read(n.s, n.v)

\* An item of an array is decoded where malloc() put it; a submessage where it is.
cf_pb_decode_submessage(f, sub, old) ==
    LET dest == CASE f.alloctype = "array" \/ old = Junk -> [t \in Tags(f.ptr) |-> Junk]
                  [] f.alloctype # "array" /\ old = Null -> Zeroed(f.ptr)
                  [] OTHER                               -> old
    IN  IF ~sub.ok THEN sub
        ELSE [cf_pb_decode(sub.v, f.ptr, dest) EXCEPT !.s = pb_close_string_substream(@, sub.s)]

cf_pb_decode_value(f, s, old) ==
    CASE f.pbtype \in {"string", "bytes"} -> cf_pb_decode_bytes(f, pb_decode_varint(s))
      [] f.pbtype = "message" -> cf_pb_decode_submessage(f, pb_make_string_substream(s), old)
      [] OTHER                -> cf_pb_decode_number(f.pbtype, s)

\* The items up to the first that fails, d being the next one.
RECURSIVE cf_pb_unpack_items(_, _, _)
UnpackItem(f, s, items, d) ==
    IF s = <<>> \/ ~d.ok THEN [v |-> items, s |-> IF s = <<>> THEN s ELSE d.s]
    ELSE cf_pb_unpack_items(f, d.s, Append(items, d.v))
cf_pb_unpack_items(f, s, items) == UnpackItem(f, s, items, cf_pb_decode_number(f.pbtype, s))

\* A packed chunk starts the array anew; its bytes must all be used.
PackedArray(sub, all) ==
    [ok |-> sub.ok /\ all.s = <<>>, v |-> all.v, s |-> pb_close_string_substream(all.s, sub.s)]
UnpackArray(f, sub) == PackedArray(sub, cf_pb_unpack_items(f, sub.v, <<>>))

cf_pb_decode_array(f, wt, s, old) ==
    IF wt = 2 /\ cf_pb_type_packable(f.pbtype) THEN UnpackArray(f, pb_make_string_substream(s))
    ELSE [cf_pb_decode_value(f, s, old) EXCEPT !.v = Append(old, @)]

cf_pb_decode_field(f, wt, s, old) ==
    CASE f.alloctype = "array" -> cf_pb_decode_array(f, wt, s, old)
      [] f.alloctype # "array" /\ wt # cf_pb_wire_type(f.pbtype) -> Fail(old, s)
      [] OTHER -> cf_pb_decode_value(f, s, old)

\* The member of a union that is set leaves no other.
Store(fields, f, m, v) ==
    [t \in DOMAIN m |->
        CASE t = f.tag -> v
          [] t # f.tag /\ f.alloctype = "oneof"
               /\ \E i \in DOMAIN fields : fields[i].tag = t /\ fields[i].alloctype = "oneof" -> Null
          [] OTHER -> m[t]]

cf_pb_find_tag(fields, tag) == fields[Min({i \in DOMAIN fields : fields[i].tag = tag})]

\* The loop goes on behind the field that was read as d, or skipped.
Decoded(fields, f, m, d) ==
    IF d.ok THEN cf_pb_decode(d.s, fields, Store(fields, f, m, d.v)) ELSE Fail(m, d.s)
Skipped(fields, m, d) == IF d.ok THEN cf_pb_decode(d.s, fields, m) ELSE Fail(m, d.s)

DecodeTagged(fields, m, t) ==
    LET f == cf_pb_find_tag(fields, t.tag)
    IN  CASE ~t.ok -> [ok |-> t.s = <<>>, v |-> m, s |-> t.s]
          [] t.ok /\ t.tag \notin Tags(fields) -> Skipped(fields, m, pb_skip_field(t.s, t.wt))
          [] OTHER -> Decoded(fields, f, m, cf_pb_decode_field(f, t.wt, t.s, m[f.tag]))

cf_pb_decode(s, fields, m) == IF s = <<>> THEN Ok(m, s) ELSE DecodeTagged(fields, m, pb_decode_tag(s))

cf_pb_unpack(s, fields) == cf_pb_decode(s, fields, Zeroed(fields))
=============================================================================
