----------------------------- MODULE MCProtobuf -----------------------------
(***************************************************************************)
(* One message with a field of each kind, the chunks a peer may write of it,  *)
(* and chunks of fields that it does not have.                                *)
(***************************************************************************)
EXTENDS Protobuf

Field(tag, htype, atype, ltype, size, max, ptr) ==
    [tag |-> tag, htype |-> htype, atype |-> atype, ltype |-> ltype, size |-> size, max |-> max, ptr |-> ptr]

NoType == [fields |-> <<>>, ext |-> <<>>]

PartType == [fields |-> << Field(1, "required", "static", "uvarint", 8, 0, NoType),
                           Field(2, "optional", "pointer", "string", 0, 0, NoType) >>,
             ext    |-> <<>>]

MessageType ==
    [fields |-> << Field(1, "required", "static", "svarint", 16, 0, NoType),
                   Field(3, "repeated", "static", "uvarint", 16, 2, NoType),
                   Field(4, "oneof", "pointer", "string", 0, 0, NoType),
                   Field(5, "oneof", "pointer", "submessage", 0, 0, PartType),
                   Field(6, "repeated", "pointer", "string", 0, 0, NoType),
                   Field(7, "repeated", "pointer", "fixed32", 16, 0, NoType),
                   Field(8, "optional", "callback", "uvarint", 24, 1, NoType),
                   Field(9, "optional", "static", "varint", 8, 0, NoType),
                   Field(10, "repeated", "pointer", "submessage", 0, 0, PartType),
                   Field(11, "optional", "callback", "uvarint", 24, 0, NoType),
                   Field(16, "optional", "static", "bytes", 2, 0, NoType) >>,
     ext    |-> << Field(20, "optional", "pointer", "uvarint", 24, 0, NoType) >>]

CfField(tag, pbtype, alloctype, has, ptr) ==
    [tag |-> tag, pbtype |-> pbtype, alloctype |-> alloctype, has |-> has, ptr |-> ptr]

PartTable == << CfField(1, "uint32", "scalar", FALSE, <<>>), CfField(2, "string", "scalar", TRUE, <<>>) >>

MessageTable == << CfField(1, "int32", "scalar", FALSE, <<>>),
                   CfField(3, "uint32", "array", FALSE, <<>>),
                   CfField(4, "string", "oneof", TRUE, <<>>),
                   CfField(5, "message", "scalar", TRUE, PartTable),
                   CfField(6, "string", "array", FALSE, <<>>),
                   CfField(7, "fixed32", "array", FALSE, <<>>),
                   CfField(10, "message", "array", FALSE, PartTable),
                   CfField(16, "bytes", "scalar", TRUE, <<>>) >>

Chunk(tag, wt, body, val) == [tag |-> tag, wt |-> wt, body |-> body, val |-> val]
Text(tag, b)    == Chunk(tag, 2, pb_encode_string(b), <<b>>)
Number(tag, n)  == Chunk(tag, 0, pb_encode_varint(n), <<n>>)
Sub(tag, cs)    == Chunk(tag, 2, pb_encode_string(Wire(cs)), <<cs>>)

Ascii == <<65>>
Full  == << Number(1, 1), Text(2, Ascii) >>

MessageChunks ==
    { Chunk(1, 0, pb_encode_svarint(-32768), <<-32768>>), Chunk(1, 0, pb_encode_svarint(3), <<3>>),
      Number(3, 65535), Chunk(3, 2, pb_encode_string(pb_encode_varint(1) \o pb_encode_varint(300)), <<1, 300>>),
      Text(4, Ascii), Sub(5, Full), Sub(5, << Number(1, 2) >>), Text(6, <<>>), Text(6, Ascii),
      Chunk(7, 2, pb_encode_string(pb_encode_fixed(513, 16) \o pb_encode_fixed(2, 16)), <<513, 2>>),
      Number(8, 129), Chunk(8, 2, pb_encode_string(<<1, 2>>), <<1, 2>>), Number(11, 4), Chunk(9, 0, pb_encode_varint(16777215), <<-1>>), Sub(10, Full), Sub(10, << Number(1, 2) >>),
      Text(16, <<0, 255>>), Number(20, 5), Chunk(30, 1, Counted(3), <<0>>), Text(31, <<8>>) }
=============================================================================
