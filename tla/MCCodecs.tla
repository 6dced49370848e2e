------------------------------ MODULE MCCodecs ------------------------------
(***************************************************************************)
(* The two wire formats for TLC: protobuf messages and DNS packets.  They share *)
(* nothing but the question asked of them, whether what was written is read     *)
(* back, so one of them runs while the other stays where it began.              *)
(***************************************************************************)
EXTENDS MCProtobuf, MCDnsMessage

CodecsInit == WireInit /\ DnsInit

DnsAtStart == pushes = 0 /\ phase = "build" /\ pkt.size = Max(Sizes)

CodecsNext == \/ DnsAtStart /\ WireNext /\ UNCHANGED dnsVars
              \/ sent = <<>> /\ DnsNext /\ UNCHANGED wireVars

CodecsSpec == CodecsInit /\ [][CodecsNext]_<<wireVars, dnsVars>>
=============================================================================
