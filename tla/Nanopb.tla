------------------------------- MODULE Nanopb -------------------------------
(***************************************************************************)
(* The nanopb encoder and decoder (src/src/nanopb), with the memory that the  *)
(* decoder allocates (PB_ENABLE_MALLOC).                                     *)
(*                                                                           *)
(* A message type is [fields, ext]: its fields [tag, htype, atype, ltype,     *)
(* size, max, ptr] and the fields of the extensions hung on it.  size is the  *)
(* bits of a number or the bytes that a string has room for, max the items    *)
(* of a static array (0 for a callback that is NULL), ptr the type of a       *)
(* submessage; the members of a union are all of one atype.  A message maps   *)
(* tags to values, Null for what is absent or NULL; a callback field holds    *)
(* what its callback has been given.                                         *)
(* A decoder returns [ok, v, s, heap], heap the change in the number of       *)
(* allocated blocks; pb_realloc() finds memory.                               *)
(***************************************************************************)
EXTENDS PbWire

CONSTANTS SizeMax,      \* PB_SIZE_MAX, the largest pb_size_t
          WordBits      \* the bits of a word of fields_seen (32)

ASSUME LimitAssumption == SizeMax \in Nat /\ WordBits \in Nat \ {0}

Packable(f)   == f.ltype \in {"varint", "uvarint", "svarint", "fixed32", "fixed64"}
IsText(f)     == f.ltype \in {"string", "bytes"}
Fields(T)     == T.fields \o T.ext
FieldOf(T, t) == LET F == Fields(T) IN F[CHOOSE i \in DOMAIN F : F[i].tag = t]
TagsOf(T)     == {Fields(T)[i].tag : i \in DOMAIN Fields(T)}

WireType(f) ==
    CASE f.ltype \in {"varint", "uvarint", "svarint"} -> 0
      [] f.ltype = "fixed64" -> 1
      [] f.ltype = "fixed32" -> 5
      [] OTHER -> 2

----------------------------------------------------------------------------
(* Encoding                                                                  *)

RECURSIVE pb_encode(_, _, _)

pb_encode_submessage(f, v, sizing) ==
    EncodeCounted(Len(pb_encode(f.ptr, v, TRUE)), pb_encode(f.ptr, v, FALSE), sizing)

\* A string ends at its NUL, or where its room ends.
CString(b) == SubSeq(b, 1, Min({i \in 1 .. Len(b) + 1 : i = Len(b) + 1 \/ b[i] = 0}) - 1)

pb_enc(f, v, sizing) ==
    CASE f.ltype = "varint"     -> pb_encode_varint(v % 2 ^ Wide)
      [] f.ltype = "uvarint"    -> pb_encode_varint(v)
      [] f.ltype = "svarint"    -> pb_encode_svarint(v)
      [] f.ltype = "fixed32"    -> pb_encode_fixed(v, Narrow)
      [] f.ltype = "fixed64"    -> pb_encode_fixed(v, Wide)
      [] f.ltype = "string"     -> pb_encode_string(CString(v))
      [] f.ltype = "bytes"      -> IF f.atype = "static" /\ Len(v) > f.size THEN Err ELSE pb_encode_string(v)
      [] f.ltype = "fixedbytes" -> pb_encode_string(v)
      [] f.ltype = "submessage" -> pb_encode_submessage(f, v, sizing)

TagAndValue(f, v, sizing) == pb_encode_tag(WireType(f), f.tag) \o pb_enc(f, v, sizing)

\* A packed array with the count of its items for its size.
encode_array_counts_items(f, v, sizing) ==
    IF ~Packable(f) \/ v = <<>> THEN FlattenSeq([i \in DOMAIN v |-> TagAndValue(f, v[i], sizing)])
    ELSE pb_encode_tag(2, f.tag) \o pb_encode_varint(Len(v)) \o FlattenSeq([i \in DOMAIN v |-> pb_enc(f, v[i], sizing)])

encode_array(f, v, sizing) ==
    LET items == FlattenSeq([i \in DOMAIN v |-> pb_enc(f, v[i], sizing)])
        size  == CASE f.ltype = "fixed32" -> (Narrow \div 8) * Len(v)
                   [] f.ltype = "fixed64" -> (Wide \div 8) * Len(v)
                   [] OTHER -> Len(items)
    IN  CASE v = <<>> -> <<>>
          [] v # <<>> /\ f.atype = "static" /\ Len(v) > f.max -> Err
          [] v # <<>> /\ ~(f.atype = "static" /\ Len(v) > f.max) /\ Packable(f) ->
                pb_encode_tag(2, f.tag) \o pb_encode_varint(size) \o IF sizing THEN Counted(size) ELSE items
          [] OTHER -> FlattenSeq([i \in DOMAIN v |-> TagAndValue(f, v[i], sizing)])

encode_basic_field(f, v, sizing) ==
    CASE f.htype = "repeated"             -> encode_array(f, IF v = Null THEN <<>> ELSE v, sizing)
      [] f.htype = "required" /\ v = Null -> Err
      [] f.htype # "required" /\ v = Null -> <<>>
      [] OTHER                            -> TagAndValue(f, v, sizing)

\* The callback of the user writes a tag and a value for each of its items; one that
\* is NULL has been given none.
encode_callback_field(f, v, sizing) == FlattenSeq([i \in DOMAIN v |-> TagAndValue(f, v[i], sizing)])

\* The extensions are written where their placeholder stands, behind the fields.
pb_encode(T, m, sizing) ==
    FlattenSeq([i \in DOMAIN Fields(T) |->
        LET f == Fields(T)[i]
        IN  IF f.atype = "callback" THEN encode_callback_field(f, m[f.tag], sizing)
            ELSE encode_basic_field(f, m[f.tag], sizing)])

pb_get_encoded_size(T, m) == Len(pb_encode(T, m, TRUE))

----------------------------------------------------------------------------
(* Allocation and release                                                    *)

Sum(g) == FoldFunction(+, 0, g)

\* pb_message_set_to_defaults(): an array in memory of its own is NULL at first.
RECURSIVE Defaults(_)
Default(f) ==
    CASE f.atype = "callback" -> <<>>
      [] f.atype = "static" /\ f.htype = "repeated" -> <<>>
      [] f.atype = "static" /\ f.htype = "required" ->
            CASE f.ltype = "submessage" -> Defaults(f.ptr)
              [] Packable(f)            -> 0
              [] OTHER                  -> <<>>
      [] OTHER -> Null
Defaults(T) == [t \in TagsOf(T) |-> Default(FieldOf(T, t))]

\* The blocks that pb_release_single_field() frees: the items, then what holds them.
RECURSIVE Blocks(_, _)
MessageBlocks(T, m) == Sum([t \in TagsOf(T) |-> Blocks(FieldOf(T, t), m[t])])
Blocks(f, v) ==
    LET items == CASE v = Null -> <<>> [] v # Null /\ f.htype = "repeated" -> v [] OTHER -> <<v>>
        inner == CASE f.ltype = "submessage" -> Sum([i \in DOMAIN items |-> MessageBlocks(f.ptr, items[i])])
                   [] f.htype = "repeated" /\ IsText(f) /\ f.atype = "pointer" ->
                         Cardinality({i \in DOMAIN items : items[i] # Null})
                   [] OTHER -> 0
    IN  inner + IF f.atype = "pointer" /\ v # Null THEN 1 ELSE 0

\* pb_release() leaves NULL behind each pointer, and the static values as they were.
pb_release(T, m) == [t \in TagsOf(T) |-> IF FieldOf(T, t).atype = "pointer" THEN Null ELSE m[t]]

\* allocate_field() grows the block a pointer has, or makes one.
allocate_field(old) == IF old = Null THEN 1 ELSE 0

----------------------------------------------------------------------------
(* Decoding                                                                  *)

Result(ok, v, s, heap) == [ok |-> ok, v |-> v, s |-> s, heap |-> heap]

\* A number that its field cannot hold is an error.
RawValue(f, s) ==
    CASE f.ltype = "varint"  -> [pb_decode_varint(s) EXCEPT !.v = Signed(@, IF f.size = Wide THEN Wide ELSE Narrow)]
      [] f.ltype = "uvarint" -> pb_decode_varint(s)
      [] f.ltype = "svarint" -> pb_decode_svarint(s)
      [] f.ltype = "fixed32" -> pb_decode_fixed(s, Narrow)
      [] f.ltype = "fixed64" -> pb_decode_fixed(s, Wide)
Clamped(f, raw) ==
    LET v == CASE f.ltype \in {"varint", "svarint"} -> Signed(raw.v, f.size)
               [] f.ltype = "uvarint" -> raw.v % 2 ^ f.size
               [] OTHER -> raw.v
    IN  Result(raw.ok /\ v = raw.v, v, raw.s, 0)
DecNumber(f, s) == Clamped(f, RawValue(f, s))

\* pb_dec_bytes() and pb_dec_string(): the length, the room for it, the bytes.
TextFits(f, n) ==
    CASE f.ltype = "fixedbytes" -> n = f.size
      [] f.ltype = "bytes"      -> n <= SizeMax /\ (f.atype = "static" => n <= f.size)
      [] f.ltype = "string"     -> n + 1 < 2 ^ Narrow /\ (f.atype = "static" => n + 1 <= f.size)
TextIn(f, n, d, old) ==
    IF ~n.ok \/ ~TextFits(f, n.v) THEN Result(FALSE, old, n.s, 0)
    ELSE Result(d.ok, d.v, d.s, IF f.atype = "pointer" THEN allocate_field(old) ELSE 0)
DecText(f, s, old) == TextIn(f, pb_decode_varint32(s), ReadCounted(pb_decode_varint32(s)), old)

RECURSIVE pb_decode_noinit(_, _, _, _, _)

ReleaseFailed(T, d) ==
    IF d.ok THEN d ELSE Result(FALSE, pb_release(T, d.v), d.s, d.heap - MessageBlocks(T, d.v))
pb_decode(s, T) == ReleaseFailed(T, pb_decode_noinit(s, T, Defaults(T), {}, 0))

\* The items of an array start from the defaults, any other submessage from what it is.
DecSubmessage(f, sub, old) ==
    IF ~sub.ok THEN Result(FALSE, old, sub.s, 0)
    ELSE [IF f.htype = "repeated" THEN pb_decode(sub.v, f.ptr) ELSE pb_decode_noinit(sub.v, f.ptr, old, {}, 0)
             EXCEPT !.s = pb_close_string_substream(@, sub.s)]

pb_dec(f, s, old) ==
    CASE f.ltype = "submessage" -> DecSubmessage(f, pb_make_string_substream(s), old)
      [] Packable(f)            -> DecNumber(f, s)
      [] OTHER                  -> DecText(f, s, old)

\* The items of a packed array, until one fails or there is no room for it.
RECURSIVE UnpackItems(_, _, _, _)
UnpackNext(f, s, items, most, d) ==
    IF s = <<>> \/ Len(items) >= most \/ ~d.ok THEN [ok |-> s = <<>>, v |-> items, s |-> s]
    ELSE UnpackItems(f, d.s, Append(items, d.v), most)
UnpackItems(f, s, items, most) == UnpackNext(f, s, items, most, DecNumber(f, s))

\* The packed array in the substream, whose items are now all; heap for the block.
Unpacked(sub, all, heap) == Result(sub.ok /\ all.ok, all.v, pb_close_string_substream(all.s, sub.s), heap)

Empty(f) == IF f.ltype = "submessage" THEN Defaults(f.ptr) ELSE IF Packable(f) THEN 0 ELSE <<>>

UnpackStatic(f, sub, old) == Unpacked(sub, UnpackItems(f, sub.v, old, f.max), 0)

decode_static_field(f, wt, s, old) ==
    CASE f.htype = "repeated" /\ wt = 2 /\ Packable(f) -> UnpackStatic(f, pb_make_string_substream(s), old)
      [] f.htype = "repeated" /\ ~(wt = 2 /\ Packable(f)) ->
            IF Len(old) >= f.max THEN Result(FALSE, old, s, 0)
            ELSE [pb_dec(f, s, Empty(f)) EXCEPT !.v = Append(old, @)]
      [] OTHER -> pb_dec(f, s, IF old = Null \/ f.htype = "oneof" THEN Empty(f) ELSE old)

\* An array of no items is not allocated.
UnpackPointer(f, sub, old) ==
    IF sub.v = <<>> THEN Result(sub.ok, old, sub.s, 0)
    ELSE Unpacked(sub, UnpackItems(f, sub.v, IF old = Null THEN <<>> ELSE old, SizeMax), allocate_field(old))

\* A submessage that comes again is released first.
DecPointer(f, s, old) ==
    LET again == f.ltype = "submessage" /\ old # Null
    IN  [pb_dec(f, s, IF IsText(f) THEN old ELSE Empty(f)) EXCEPT
            !.heap = CASE again     -> @ - Blocks(f, old) + 1
                       [] IsText(f) -> @
                       [] OTHER     -> @ + allocate_field(old)]

decode_pointer_field(f, wt, s, old) ==
    LET items == IF old = Null THEN <<>> ELSE old
    IN  CASE f.htype # "repeated" -> DecPointer(f, s, old)
          [] f.htype = "repeated" /\ wt = 2 /\ Packable(f) -> UnpackPointer(f, pb_make_string_substream(s), old)
          [] f.htype = "repeated" /\ ~(wt = 2 /\ Packable(f)) ->
                IF Len(items) = SizeMax THEN Result(FALSE, old, s, 0)
                ELSE [pb_dec(f, s, IF IsText(f) THEN Null ELSE Empty(f)) EXCEPT
                        !.v = Append(items, @), !.heap = @ + allocate_field(old)]

\* The callback of the user reads one number and keeps it.  On a string it is called
\* until the substream is empty.
RECURSIVE CallBack(_, _)
Keep(kept, d) ==
    CASE ~d.ok              -> Fail(kept, d.s)
      [] d.ok /\ d.s = <<>> -> Ok(Append(kept, d.v), d.s)
      [] OTHER              -> CallBack(d.s, Append(kept, d.v))
CallBack(s, kept) == Keep(kept, pb_decode_varint(s))

CalledBack(sub, d, old) ==
    IF ~sub.ok THEN Result(FALSE, old, sub.s, 0)
    ELSE Result(d.ok, d.v, pb_close_string_substream(d.s, sub.s), 0)
CallBackAll(sub, old) == CalledBack(sub, CallBack(sub.v, old), old)

\* A single number is copied, the bytes of the longest varint at most (10 for 64 bits),
\* and the callback is called once with the copy.
read_raw_value(s, wt) ==
    LET d == pb_skip_field(s, wt)
        n == Len(s) - Len(d.s)
    IN  [d EXCEPT !.ok = @ /\ n <= (Wide + 6) \div 7, !.v = SubSeq(s, 1, n)]
CallBackOnce(raw, old) ==
    LET d  == pb_decode_varint(raw.v)
        ok == raw.ok /\ d.ok
    IN  Result(ok, IF ok THEN Append(old, d.v) ELSE old, raw.s, 0)

SkipUnknown(d, m, heap) == Result(d.ok, m, d.s, heap)

decode_callback_field(f, wt, s, old) ==
    CASE f.max = 0             -> SkipUnknown(pb_skip_field(s, wt), old, 0)
      [] f.max # 0 /\ wt = 2   -> CallBackAll(pb_make_string_substream(s), old)
      [] OTHER                 -> CallBackOnce(read_raw_value(s, wt), old)

\* Another member of the union is released before this one is read.
Others(T, f) == {t \in TagsOf(T) \ {f.tag} : f.htype = "oneof" /\ FieldOf(T, t).htype = "oneof"}

\* The union set to the new member over the old one.
pb_release_union_field_not(T, f, m) ==
    [v |-> [t \in DOMAIN m |-> IF t \in Others(T, f) THEN Null ELSE m[t]], heap |-> 0]

pb_release_union_field(T, f, m) ==
    [v    |-> [t \in DOMAIN m |-> IF t \in Others(T, f) THEN Null ELSE m[t]],
     heap |-> Sum([t \in Others(T, f) |-> Blocks(FieldOf(T, t), m[t])])]

DecodeValue(f, wt, s, old) ==
    CASE f.atype = "static"   -> decode_static_field(f, wt, s, old)
      [] f.atype = "pointer"  -> decode_pointer_field(f, wt, s, old)
      [] f.atype = "callback" -> decode_callback_field(f, wt, s, old)
SetMember(f, r, d) == [d EXCEPT !.v = [r.v EXCEPT ![f.tag] = d.v], !.heap = @ - r.heap]
DecodeMember(f, wt, s, r) == SetMember(f, r, DecodeValue(f, wt, s, r.v[f.tag]))
decode_field(T, f, wt, s, m) == DecodeMember(f, wt, s, pb_release_union_field(T, f, m))

\* The bits of fields_seen, a word at a time.  With a whole number of words the last
\* comparison is with a word behind them: a shift by all the bits of a word leaves
\* it as it was on the processors the program is built for.
Required(T) == {t \in TagsOf(T) : \E i \in DOMAIN T.fields : T.fields[i].tag = t /\ T.fields[i].htype = "required"}

\* The check that anything was read at all.
AllSeen_some(T, seen) == seen # {}

AllSeen(T, seen) ==
    LET n == Cardinality(Required(T)) IN n = 0 \/ (n % WordBits # 0 /\ Required(T) \subseteq seen)

\* The loop over the fields; one that is in no table is offered to the extensions.
DecodeRest(T, seen, d) ==
    IF d.ok THEN pb_decode_noinit(d.s, T, d.v, seen, d.heap) ELSE Result(FALSE, d.v, d.s, d.heap)
DecodeNext(T, m, seen, heap, t) ==
    CASE ~t.ok -> Result(t.eof /\ AllSeen(T, seen), m, t.s, heap)
      [] t.ok /\ t.tag \notin TagsOf(T) ->
            DecodeRest(T, seen, SkipUnknown(pb_skip_field(t.s, t.wt), m, heap))
      [] OTHER -> DecodeRest(T, seen \cup {t.tag},
                             [decode_field(T, FieldOf(T, t.tag), t.wt, t.s, m) EXCEPT !.heap = heap + @])
pb_decode_noinit(s, T, m, seen, heap) ==
    IF s = <<>> THEN Result(AllSeen(T, seen), m, s, heap) ELSE DecodeNext(T, m, seen, heap, pb_decode_tag(s))
=============================================================================
