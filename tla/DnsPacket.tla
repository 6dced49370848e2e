----------------------------- MODULE DnsPacket -----------------------------
(***************************************************************************)
(* DNS messages in dns.c: how records are pushed with compressed names, how  *)
(* they are walked, read, compared, copied and merged again.                  *)
(*                                                                           *)
(* A name is a sequence of labels and a label a sequence of bytes; the root   *)
(* is <<>>.  A number of a record is the sequence of its bytes.  A packet     *)
(* keeps the bytes of P->data up to P->end; its header is 12 bytes of which    *)
(* only the four counts matter (n).  What lies behind P->end is not kept: the *)
(* length of a record's data reads as 0 until it is written.                   *)
(***************************************************************************)
EXTENDS Integers, Sequences, FiniteSets, FiniteSetsExt, SequencesExt

CONSTANTS DNS_P_DICTSIZE,   \* names remembered for compression
          DNS_D_MAXPTRS,    \* pointers followed for one label
          DNS_D_MAXNAME,    \* bytes of a name in text
          TextChunk,        \* 255: bytes of one string of a TXT record
          MaxPacket,        \* 65535: where dns_p_merge() gives up
          Header            \* offsetof(struct dns_packet, data)

ASSUME PacketAssumption ==
    {DNS_P_DICTSIZE, DNS_D_MAXPTRS, DNS_D_MAXNAME, TextChunk, MaxPacket, Header} \subseteq Nat \ {0}

QD == 1
AN == 2
NS == 3
AR == 4
ALL == QD .. AR

T_A     == 1
T_NS    == 2
T_CNAME == 5
T_SOA   == 6
T_PTR   == 12
T_MX    == 15
T_TXT   == 16
T_AAAA  == 28
T_SRV   == 33
T_OPT   == 41
T_SSHFP == 44
T_SPF   == 99
T_ALL   == 255
C_ANY   == 255

End(P)    == Len(P.data)
At(P, p)  == P.data[p + 1]
Room(P)   == P.size - End(P)
Num16(n)  == <<n \div 256, n % 256>>
Get16(d, p) == d[p + 1] * 256 + d[p + 2]
Put(P, b) == [P EXCEPT !.data = @ \o b]

----------------------------------------------------------------------------
(* Domain names                                                              *)

IsPointer(b) == b >= 192
Pointer(d, p) == (d[p + 1] % 64) * 256 + d[p + 2]
Lower(s) == [i \in DOMAIN s |-> IF s[i] \in 65 .. 90 THEN s[i] + 32 ELSE s[i]]

\* The name as dns_d_expand() prints it.
NameText(name) == IF name = <<>> THEN <<46>>
              ELSE FoldLeft(LAMBDA t, l : t \o l \o <<46>>, <<>>, name)

\* strcasecmp(), memcmp(): -1, 0 or 1
Sign(n) == IF n < 0 THEN -1 ELSE IF n > 0 THEN 1 ELSE 0
FirstDifference(s, t) == Min({i \in DOMAIN s \cap DOMAIN t : s[i] # t[i]} \cup {Len(s) + Len(t) + 1})
CmpAt(s, t, i) == Sign(IF i <= Len(s) THEN s[i] - t[i] ELSE Len(s) - Len(t))
LexCmp(s, t) == CmpAt(s, t, FirstDifference(s, t))
NameCmp(m, n) == LexCmp(Lower(NameText(m)), Lower(NameText(n)))

\* The label at src, behind any pointers, and where the next one starts; an
\* empty label for the root and for all that is malformed.
RECURSIVE dns_l_expand(_, _, _)
dns_l_expand(d, src, nptrs) ==
    LET invalid == [label |-> <<>>, nxt |-> Len(d)]
        b == d[src + 1]
    IN  CASE src >= Len(d) -> invalid
          [] src < Len(d) /\ b < 64 ->
               IF Len(d) - src - 1 < b THEN invalid
               ELSE [label |-> SubSeq(d, src + 2, src + 1 + b), nxt |-> src + 1 + b]
          [] src < Len(d) /\ IsPointer(b) ->
               IF nptrs = DNS_D_MAXPTRS \/ Len(d) - src < 2 THEN invalid
               ELSE dns_l_expand(d, Pointer(d, src), nptrs + 1)
          [] OTHER -> invalid

dns_l_skip(d, src) ==
    LET b == d[src + 1]
    IN  IF src < Len(d) /\ b \in 1 .. 63 /\ Len(d) - src - 1 >= b THEN src + 1 + b ELSE Len(d)

\* Behind the name at src.
RECURSIVE dns_d_skip(_, _)
dns_d_skip(P, src) ==
    LET b == At(P, src)
    IN  CASE src >= End(P) -> End(P)
          [] src < End(P) /\ b = 0 -> src + 1
          [] src < End(P) /\ b \in 1 .. 63 ->
               IF End(P) - src - 1 > b THEN dns_d_skip(P, src + 1 + b) ELSE End(P)
          [] src < End(P) /\ IsPointer(b) -> IF End(P) - src < 2 THEN End(P) ELSE src + 2
          [] OTHER -> End(P)

RECURSIVE ExpandFrom(_, _, _, _)
ExpandFrom(P, src, name, nptrs) ==
    LET failed == [ok |-> FALSE, name |-> <<>>]
        b == At(P, src)
    IN  CASE src >= End(P) -> failed
          [] src < End(P) /\ b = 0 -> [ok |-> Len(NameText(name)) <= DNS_D_MAXNAME, name |-> name]
          [] src < End(P) /\ b \in 1 .. 63 ->
               IF End(P) - src - 1 < b THEN failed
               ELSE ExpandFrom(P, src + 1 + b,
                               Append(name, SubSeq(P.data, src + 2, src + 1 + b)), 0)
          [] src < End(P) /\ IsPointer(b) ->
               IF nptrs = DNS_D_MAXPTRS \/ End(P) - src < 2 THEN failed
               ELSE ExpandFrom(P, Pointer(P.data, src), name, nptrs + 1)
          [] OTHER -> failed

\* With the test of its callers that the name fits their buffer.
dns_d_expand(P, src) == ExpandFrom(P, src, <<>>, 0)

\* The inner loop of dns_d_comp(): cur, then the labels of the name from j on,
\* against the labels of the packet from b on.
RECURSIVE Common(_, _, _, _, _)
Common(P, name, cur, j, b) ==
    IF cur # <<>> /\ b.label # <<>> /\ Lower(cur) = Lower(b.label)
    THEN Common(P, name, IF j <= Len(name) THEN name[j] ELSE <<>>, j + 1,
                dns_l_expand(P.data, b.nxt, 0))
    ELSE [a |-> cur, b |-> b.label]

\* All suffixes of the name at bp are compared with the one that starts at label
\* k.  The label cur that a comparison stops at is where the next one begins:
\* a.label is not expanded again.
RECURSIVE Scan(_, _, _, _, _)
Compared(P, name, k, bp, nxt, c) ==
    IF c.a = <<>> /\ c.b = <<>> /\ bp < 2 ^ 14 THEN [p |-> bp, cur |-> <<>>]
    ELSE Scan(P, name, k, nxt, c.a)
ScanLabel(P, name, k, bp, cur, b) ==
    IF b.label = <<>> THEN [p |-> 0, cur |-> cur]
    ELSE Compared(P, name, k, bp, b.nxt, Common(P, name, cur, k + 1, b))
Scan(P, name, k, bp, cur) == ScanLabel(P, name, k, bp, cur, dns_l_expand(P.data, bp, 0))

\* Variant: a suffix is taken when its first label is found.
Suffix_first_label(P, name, k) ==
    LET hits == {i \in DOMAIN P.dict :
                    Lower(dns_l_expand(P.data, P.dict[i], 0).label) = Lower(name[k])}
    IN  IF hits = {} THEN 0 ELSE P.dict[Min(hits)]

Suffix(P, name, k) ==
    FoldLeft(LAMBDA r, bp : IF r.p # 0 THEN r ELSE Scan(P, name, k, bp, r.cur),
             [p |-> 0, cur |-> name[k]], P.dict).p

\* The bytes of the name; compressed only when they would fit without.
Raw(name) == FoldLeft(LAMBDA t, l : t \o <<Len(l)>> \o l, <<>>, name)
Shorten(name, suffix, k) == Raw(SubSeq(name, 1, k - 1)) \o <<192 + suffix[k] \div 256, suffix[k] % 256>>
Compress(P, name, suffix) ==
    LET hits == {k \in DOMAIN name : suffix[k] # 0}
    IN  IF Len(Raw(name)) + 1 < Room(P) /\ hits # {} THEN Shorten(name, suffix, Min(hits))
        ELSE Raw(name) \o <<0>>
dns_d_comp(P, name) == Compress(P, name, [k \in DOMAIN name |-> Suffix(P, name, k)])

RECURSIVE PointerBehind(_, _)
PointerBehind(P, lp) ==
    IF lp >= End(P) THEN 0
    ELSE IF IsPointer(At(P, lp)) /\ End(P) - lp >= 2 THEN Pointer(P.data, lp)
    ELSE PointerBehind(P, dns_l_skip(P.data, lp))

\* A name that ends in a pointer takes the place of the one it points to.
Remember(P, dn, old) ==
    IF old # {} THEN [P EXCEPT !.dict[Min(old)] = dn]
    ELSE IF Len(P.dict) < DNS_P_DICTSIZE THEN [P EXCEPT !.dict = Append(@, dn)]
    ELSE P
dns_p_dictadd(P, dn) ==
    Remember(P, dn, {i \in DOMAIN P.dict : P.dict[i] = PointerBehind(P, dns_l_skip(P.data, dn))})

Done(P)        == [err |-> "", P |-> P]
Failure(e, P)  == [err |-> e, P |-> P]

PutFitting(P, b) == IF Len(b) > Room(P) THEN Failure("ENOBUFS", P) ELSE Done(Put(P, b))
DictAdd(r, dn) == IF r.err = "" THEN Done(dns_p_dictadd(r.P, dn)) ELSE r
dns_d_push(P, name) == DictAdd(PutFitting(P, dns_d_comp(P, name)), End(P))

----------------------------------------------------------------------------
(* The data of records: numbers of so many bytes and names in a row, or       *)
(* opaque bytes.                                                              *)

NAME   == 0     \* a name
TARGET == -1    \* a name that is not remembered: dns_srv_push()

dns_a     == <<4>>
dns_aaaa  == <<16>>
dns_mx    == <<2, NAME>>
dns_ns    == <<NAME>>
dns_soa   == <<NAME, NAME, 4, 4, 4, 4, 4>>
dns_srv   == <<2, 2, 2, TARGET>>

dns_rrtypes == (T_A :> dns_a) @@ (T_AAAA :> dns_aaaa) @@ (T_MX :> dns_mx)
               @@ (T_NS :> dns_ns) @@ (T_CNAME :> dns_ns) @@ (T_PTR :> dns_ns)
               @@ (T_SOA :> dns_soa) @@ (T_SRV :> dns_srv)

\* The bytes asked for before the first one is written: the length, the numbers
\* and one more where a name follows.
Least(parts) == 2 + FoldLeft(LAMBDA n, p : IF p > 0 /\ parts # dns_soa THEN n + p ELSE n, 0, parts)
                  + IF parts[Len(parts)] = NAME \/ parts = dns_soa THEN 1 ELSE 0

\* The numbers of a SOA must leave a byte free, and three of them (refresh, retry,
\* expire) are cut to 31 bits.
PushPart(r, parts, i, v) ==
    CASE r.err # "" -> r
      [] r.err = "" /\ parts[i] = NAME -> dns_d_push(r.P, v)
      [] r.err = "" /\ parts[i] = TARGET -> PutFitting(r.P, dns_d_comp(r.P, v))
      [] OTHER -> IF parts = dns_soa /\ parts[i] >= Room(r.P) THEN Failure("ENOBUFS", r.P)
                  ELSE Done(Put(r.P, IF parts = dns_soa /\ i \in 4 .. 6 THEN [v EXCEPT ![1] = @ % 128] ELSE v))

SetLength(r, end) ==
    LET n == End(r.P) - end - 2
    IN  IF r.err # "" THEN r
        ELSE Done([r.P EXCEPT !.data = [@ EXCEPT ![end + 1] = n \div 256, ![end + 2] = n % 256]])

PushParts(P, parts, data) ==
    IF Room(P) < Least(parts) THEN Failure("ENOBUFS", P)
    ELSE SetLength(FoldLeft(LAMBDA q, i : PushPart(q, parts, i, data[i]),
                            Done(Put(P, <<0, 0>>)), [i \in DOMAIN parts |-> i]),
                   End(P))

\* Strings of at most TextChunk bytes, each behind its length.
RECURSIVE Strings(_)
Strings(b) == IF b = <<>> THEN <<>>
              ELSE LET n == Min({TextChunk, Len(b)})
                   IN  <<n>> \o SubSeq(b, 1, n) \o Strings(SubSeq(b, n + 1, Len(b)))
dns_txt_push(b) == Strings(b)

\* Only SHA-1 (type 1) is written.
dns_sshfp_push(d) == d[1] \o d[2]

Opaque(P, b) == IF Room(P) < 2 + Len(b) THEN Failure("ENOBUFS", P)
                ELSE Done(Put(P, Num16(Len(b)) \o b))

dns_any_push(P, type, data) ==
    CASE type \in DOMAIN dns_rrtypes -> PushParts(P, dns_rrtypes[type], data)
      [] type \in {T_TXT, T_SPF} -> Opaque(P, dns_txt_push(data))
      [] type = T_SSHFP -> IF Room(P) >= 4 /\ data[1][2] # 1 THEN Failure("EILLEGAL", P)
                           ELSE Opaque(P, dns_sshfp_push(data))
      [] OTHER -> Opaque(P, data)        \* dns_opt_push() and unknown types

\* A fixed length, or a least one, where the code tests it.
LengthFits(parts, len) ==
    CASE parts \in {dns_a, dns_aaaa} -> len = parts[1]
      [] parts \in {dns_mx, dns_srv} -> len >= Least(parts) - 2 + (IF parts = dns_srv THEN 1 ELSE 0)
      [] OTHER -> TRUE

\* The parts from p on, as long as they can be read.
ParsedName(P, r, e, q, parts) ==
    [ok |-> e.ok /\ (parts = dns_soa => q < End(P)), p |-> q, data |-> Append(r.data, e.name)]
ParsePart(P, r, part, parts) ==
    CASE ~r.ok -> r
      [] r.ok /\ part \in {NAME, TARGET} ->
           ParsedName(P, r, dns_d_expand(P, r.p), dns_d_skip(P, r.p), parts)
      [] OTHER ->
           IF r.p + part > End(P) THEN [r EXCEPT !.ok = FALSE]
           ELSE [ok |-> TRUE, p |-> r.p + part,
                 data |-> Append(r.data, SubSeq(P.data, r.p + 1, r.p + part))]
ParseParts(P, rd, len, parts) ==
    [FoldLeft(LAMBDA r, part : ParsePart(P, r, part, parts), [ok |-> TRUE, p |-> rd, data |-> <<>>], parts)
        EXCEPT !.ok = @ /\ LengthFits(parts, len)]

RECURSIVE dns_txt_parse(_)
dns_txt_parse(b) ==
    IF b = <<>> THEN [ok |-> TRUE, data |-> <<>>]
    ELSE IF Len(b) - 1 < b[1] THEN [ok |-> FALSE, data |-> <<>>]
    ELSE LET rest == dns_txt_parse(SubSeq(b, b[1] + 2, Len(b)))
         IN  [rest EXCEPT !.data = SubSeq(b, 2, b[1] + 1) \o @]

\* The options are checked and copied, but opt->len stays 0: none is returned.
RECURSIVE OptionsFit(_)
OptionsFit(b) == \/ b = <<>>
                 \/ /\ Len(b) >= 4 /\ Len(b) - 4 >= Get16(b, 2)
                    /\ OptionsFit(SubSeq(b, 5 + Get16(b, 2), Len(b)))
dns_opt_parse(b) == [ok |-> OptionsFit(b), data |-> <<>>]

dns_sshfp_parse(b) ==
    [ok |-> Len(b) >= 2 /\ (b[2] = 1 => Len(b) >= 22),
     data |-> <<SubSeq(b, 1, 2), IF b[2] = 1 THEN SubSeq(b, 3, 22) ELSE <<>>>>]

dns_any_parse(P, rr) ==
    LET bytes == SubSeq(P.data, rr.rd + 1, rr.rd + rr.len)
    IN  CASE rr.type \in DOMAIN dns_rrtypes -> ParseParts(P, rr.rd, rr.len, dns_rrtypes[rr.type])
          [] rr.type \in {T_TXT, T_SPF} -> dns_txt_parse(bytes)
          [] rr.type = T_OPT   -> dns_opt_parse(bytes)
          [] rr.type = T_SSHFP -> dns_sshfp_parse(bytes)
          [] OTHER -> [ok |-> TRUE, data |-> bytes]

\* Algorithm and type; then the digests, of SHA-1 only.
dns_sshfp_cmp(a, b) == IF a[1] # b[1] \/ a[1][2] # 1 THEN LexCmp(a[1], b[1]) ELSE LexCmp(a[2], b[2])

\* Variant: the data are not compared.
dns_any_cmp_not(type, a, b) == 0

\* Part by part; a SOA with the greater number comes first.  Texts, options and
\* unknown data never compare equal.
PartCmp(parts, i, a, b) ==
    IF parts[i] \in {NAME, TARGET} THEN NameCmp(a, b)
    ELSE IF parts = dns_soa THEN LexCmp(b, a) ELSE LexCmp(a, b)
PartsCmp(parts, a, b) ==
    FoldLeft(LAMBDA c, i : IF c # 0 THEN c ELSE PartCmp(parts, i, a[i], b[i]), 0, [i \in DOMAIN parts |-> i])
dns_any_cmp(type, a, b) ==
    CASE type \in DOMAIN dns_rrtypes -> PartsCmp(dns_rrtypes[type], a, b)
      [] type = T_SSHFP -> dns_sshfp_cmp(a, b)
      [] OTHER -> -1

----------------------------------------------------------------------------
(* Walking a packet                                                          *)

dns_p_count(P, secs) == FoldLeft(+, 0, [s \in ALL |-> IF s \in secs THEN P.n[s] ELSE 0])

RECURSIVE QendFrom(_, _, _)
Question(P, q, count) == IF End(P) - q < 4 THEN End(P) ELSE QendFrom(P, q + 4, count - 1)
QendFrom(P, qend, count) ==
    IF count = 0 \/ qend >= End(P) THEN Min({qend, End(P)}) ELSE Question(P, dns_d_skip(P, qend), count)
dns_p_qend(P) == QendFrom(P, 12, P.n[QD])

\* The record at src; ttl is cut to 31 bits but for OPT.
Clamp(type, ttl) == IF type # T_OPT /\ ttl[1] >= 128 THEN <<127, 255, 255, 255>> ELSE ttl
ParseBehind(P, src, p) ==
    LET type == Get16(P.data, p)
        head == [ok |-> TRUE, p |-> src, type |-> type, class |-> Get16(P.data, p + 2),
                 ttl |-> <<0, 0, 0, 0>>, rd |-> 0, len |-> 0, sec |-> QD]
        invalid == [ok |-> FALSE, p |-> src]
        len == Get16(P.data, p + 8)
    IN  IF src >= End(P) \/ End(P) - p < 4 THEN invalid
        ELSE IF src < dns_p_qend(P) THEN head
        ELSE IF End(P) - p < 10 \/ End(P) - p - 10 < len THEN invalid
        ELSE [head EXCEPT !.ttl = Clamp(type, SubSeq(P.data, p + 5, p + 8)), !.rd = p + 10, !.len = len]
dns_rr_parse(P, src) == ParseBehind(P, src, dns_d_skip(P, src))

SkipBehind(P, rp) ==
    LET len == Get16(P.data, rp + 4)
    IN  IF End(P) < rp THEN End(P)
        ELSE IF rp <= dns_p_qend(P) THEN rp
        ELSE IF End(P) - rp < 6 \/ End(P) - rp - 6 < len THEN End(P)
        ELSE rp + 6 + len
dns_rr_skip(P, src) == SkipBehind(P, dns_d_skip(P, src) + 4)

RECURSIVE Offsets(_, _)
Offsets(P, rp) == IF rp >= End(P) THEN <<>> ELSE <<rp>> \o Offsets(P, dns_rr_skip(P, rp))

\* From the memo, or by counting the records in front of src.
\* The section of the record with that index, 0 behind the last.
SectionOf(P, index) == Min({s \in ALL : index < dns_p_count(P, QD .. s)} \cup {AR + 1}) % (AR + 1)
dns_rr_section(P, src) ==
    LET memo == {s \in ALL : P.memo[s].base <= src /\ src < P.memo[s].end}
    IN  IF memo # {} THEN Min(memo)
        ELSE SectionOf(P, Len(SelectSeq(Offsets(P, 12), LAMBDA p : p < src)))

\* An iterator: sections, type and class (0 for any), a name and data to match (or
\* none), and the order.
Iter(secs, type, sort) == [secs |-> secs, type |-> type, class |-> 0, name |-> {}, data |-> {}, sort |-> sort]

MatchesName(e, name) == e.ok /\ NameCmp(e.name, name) = 0
MatchesData(type, a, data) == a.ok /\ dns_any_cmp(type, a.data, data) = 0
dns_rr_i_match(rr, i, P) ==
    /\ rr.sec \in i.secs
    /\ i.type \in {0, T_ALL, rr.type}
    /\ i.class \in {0, C_ANY, rr.class}
    /\ \A n \in i.name : MatchesName(dns_d_expand(P, rr.p), n)
    /\ i.type # 0 /\ rr.sec # QD =>
          \A d \in i.data : rr.type = i.type /\ MatchesData(rr.type, dns_any_parse(P, rr), d)

WithSection(P, rr) == IF rr.ok THEN [rr EXCEPT !.sec = dns_rr_section(P, rr.p)] ELSE rr
ParseAll(P, at) == [k \in DOMAIN at |-> WithSection(P, dns_rr_parse(P, at[k]))]
Matches(P, i, from) == SelectSeq(ParseAll(P, Offsets(P, from)), LAMBDA rr : rr.ok /\ dns_rr_i_match(rr, i, P))

\* In the order of the tests: types, classes, names, questions, data.
DataCmp(type, a0, a1) ==
    IF ~a0.ok THEN -1 ELSE IF ~a1.ok THEN 1 ELSE dns_any_cmp(type, a0.data, a1.data)
OwnerCmp(n0, n1) == IF ~n0.ok THEN -1 ELSE IF ~n1.ok THEN 1 ELSE NameCmp(n0.name, n1.name)
QuestionCmp(r0, r1) == IF r0.sec = r1.sec THEN 0 ELSE IF r0.sec = QD THEN -1 ELSE 1
FirstOf(c, d) == IF c # 0 THEN c ELSE d
dns_rr_cmp(r0, P0, r1, P1) ==
    CASE r0.type # r1.type -> r0.type - r1.type
      [] r0.type = r1.type /\ r0.class # r1.class -> r0.class - r1.class
      [] OTHER ->
           FirstOf(OwnerCmp(dns_d_expand(P0, r0.p), dns_d_expand(P1, r1.p)),
                   IF QD \in {r0.sec, r1.sec} THEN QuestionCmp(r0, r1)
                   ELSE DataCmp(r0.type, dns_any_parse(P0, r0), dns_any_parse(P1, r1)))

dns_rr_i_packet(a, b) == a.p - b.p
dns_rr_i_order(a, b, P) == IF a.sec # b.sec THEN a.sec - b.sec
                           ELSE IF a.type # b.type THEN a.p - b.p
                           ELSE dns_rr_cmp(a, P, b, P)
Sort(i, a, b, P) == IF i.sort = "order" THEN dns_rr_i_order(a, b, P) ELSE dns_rr_i_packet(a, b)

First(P, i, ms) == FoldLeft(LAMBDA r0, rr : IF Sort(i, rr, r0, P) < 0 THEN rr ELSE r0,
                            Head(ms), Tail(ms))

\* The walk starts at the first section asked for that the memo knows.
dns_rr_i_start(P, i) ==
    LET known == {s \in i.secs : P.memo[s].base # 0}
    IN  Matches(P, i, IF known = {} THEN 12 ELSE P.memo[Min(known)].base)

\* What comes behind r0: later in the packet, or greater.
dns_rr_i_skip(P, i, r0) ==
    SelectSeq(Matches(P, i, IF i.sort = "order" THEN 12 ELSE dns_rr_skip(P, r0.p)),
              LAMBDA rr : Sort(i, rr, r0, P) > 0)

RECURSIVE GrepFrom(_, _, _)
GrepOne(P, i, r0) == <<r0>> \o GrepFrom(P, i, dns_rr_i_skip(P, i, r0))
GrepFrom(P, i, ms) == IF ms = <<>> THEN <<>> ELSE GrepOne(P, i, First(P, i, ms))
dns_rr_grep(P, i) == GrepFrom(P, i, dns_rr_i_start(P, i))

\* An equal record in any section of M.
AnyEqual(rr, P, found, M) == \E k \in DOMAIN found : dns_rr_cmp(rr, P, found[k], M) = 0
AlreadyMerged(rr, P, M) == AnyEqual(rr, P, dns_rr_grep(M, Iter(ALL, rr.type, "packet")), M)

----------------------------------------------------------------------------
(* Packets                                                                   *)

NoMemo == [base |-> 0, end |-> 0]
NoOpt  == [p |-> 0, maxudp |-> 0, ttl |-> <<0, 0, 0, 0>>]
dns_p_init(size) ==
    [size |-> size, data |-> [i \in 1 .. 12 |-> 0], dict |-> <<>>,
     n |-> [s \in ALL |-> 0], memo |-> [s \in ALL |-> NoMemo], opt |-> NoOpt]

\* The records of a section, or as many as there are bytes for.
dns_s_study(P, s, base) ==
    LET skip[k \in 0 .. P.n[s]] ==
            IF k = 0 THEN base
            ELSE IF skip[k - 1] >= End(P) THEN skip[k - 1] ELSE dns_rr_skip(P, skip[k - 1])
    IN  [base |-> base, end |-> skip[P.n[s]]]

FirstOpt(opts) == IF opts = <<>> THEN NoOpt
                  ELSE [p |-> opts[1].p, maxudp |-> opts[1].class, ttl |-> opts[1].ttl]
StudyOpt(P) == [P EXCEPT !.opt = FirstOpt(dns_rr_grep(P, Iter({AR}, T_OPT, "packet")))]
dns_p_study(P) ==
    LET memo[s \in ALL] == dns_s_study(P, s, IF s = QD THEN 12 ELSE memo[s - 1].end)
    IN  StudyOpt([P EXCEPT !.memo = memo])

\* The counts, and the memo kept in step with them.
Memorise(P, s, rr, end) ==
    LET here == [base |-> End(P), end |-> End(P)]
    IN  [IF P.memo[s].base = 0 THEN dns_p_study(P) ELSE P EXCEPT
                  !.n[s] = (@ + 1) % 2 ^ 16,
                  !.memo = [x \in ALL |-> IF x < s THEN @[x]
                                          ELSE IF x = s THEN [@[x] EXCEPT !.end = End(P)]
                                          ELSE here],
                  !.opt = IF s = AR /\ rr.type = T_OPT /\ @.p = 0
                          THEN [p |-> end, maxudp |-> rr.class, ttl |-> rr.ttl] ELSE @]

\* What a failure leaves behind: the bytes go, the names remembered stay.
Rewind(P, Q) == [P EXCEPT !.dict = Q.dict]

\* The name, type and class, then but for a question the time to live and the data.
PushHead(r, rr) ==
    CASE r.err # "" -> r
      [] r.err = "" /\ Room(r.P) < 4 -> Failure("ENOBUFS", r.P)
      [] OTHER -> Done(Put(r.P, Num16(rr.type) \o Num16(rr.class)))
PushData(r, s, rr) ==
    CASE r.err # "" \/ s = QD -> r
      [] r.err = "" /\ s # QD /\ Room(r.P) < 6 -> Failure("ENOBUFS", r.P)
      [] OTHER -> dns_any_push(Put(r.P, Clamp(rr.type, rr.ttl)), rr.type, rr.data)
\* A record goes behind all others.
PushDone(P, s, rr, r) ==
    CASE r.err # "" -> Failure(r.err, Rewind(P, r.P))
      [] r.err = "" /\ dns_p_count(P, (s + 1) .. AR) > 0 -> Failure("EORDER", Rewind(P, r.P))
      [] OTHER -> Done(Memorise(r.P, s, rr, End(P)))
dns_p_push(P, s, rr) == PushDone(P, s, rr, PushData(PushHead(dns_d_push(P, rr.name), rr), s, rr))

\* The smallest power of two above what the packet holds now (P->end, not P->size).
dns_p_grow(P) ==
    LET k == Min({j \in 0 .. 17 : 2 ^ j > Header + End(P)})
    IN  IF 2 ^ k > 65536 THEN Failure("ENOBUFS", P) ELSE Done([P EXCEPT !.size = 2 ^ k])

\* Neither the memo nor the names remembered are copied.
dns_p_copy(P, P0) ==
    [P EXCEPT !.data = SubSeq(P0.data, 1, Min({P.size, End(P0)})), !.n = P0.n]

PushParsed(P, rr, e, a) ==
    IF ~e.ok \/ ~a.ok THEN Failure("EILLEGAL", P)
    ELSE dns_p_push(P, rr.sec, [name |-> e.name, type |-> rr.type, class |-> rr.class,
                                ttl |-> rr.ttl, data |-> a.data])
NoData == [ok |-> TRUE, data |-> <<>>]
dns_rr_copy(P, rr, Q) ==
    PushParsed(P, rr, dns_d_expand(Q, rr.p), IF rr.sec = QD THEN NoData ELSE dns_any_parse(Q, rr))

\* Section by section the records of A, then those of B that compare equal to
\* none that is there; from the start again in a larger packet when one is full.
CopyAll(r, found, P) ==
    FoldLeft(LAMBDA q, rr : IF q.err # "" THEN q ELSE dns_rr_copy(q.P, rr, P), r, found)
CopyNew(r, found, P) ==
    FoldLeft(LAMBDA q, rr : IF q.err # "" \/ AlreadyMerged(rr, P, q.P) THEN q ELSE dns_rr_copy(q.P, rr, P),
             r, found)
MergeSection(r, s, A, B) ==
    CopyNew(CopyAll(r, dns_rr_grep(A, Iter({s}, 0, "packet")), A), dns_rr_grep(B, Iter({s}, 0, "packet")), B)

RECURSIVE MergeInto(_, _, _)
MergeAgain(A, B, bufsiz, M) ==
    IF M.err = "ENOBUFS" /\ bufsiz < MaxPacket THEN MergeInto(A, B, Min({MaxPacket, bufsiz * 2})) ELSE M
MergeInto(A, B, bufsiz) ==
    MergeAgain(A, B, bufsiz, FoldLeft(LAMBDA r, s : MergeSection(r, s, A, B),
                                      Done(dns_p_init(bufsiz)), <<QD, AN, NS, AR>>))
dns_p_merge(A, B) == MergeInto(A, B, Min({MaxPacket, End(A) + End(B)}))
=============================================================================
