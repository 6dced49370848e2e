----------------------------- MODULE DnsMessage -----------------------------
(***************************************************************************)
(* The life of a DNS message in dns.c: records are pushed into one packet    *)
(* and into a second one, pushes fail and the packet grows, the packet is     *)
(* copied or received into a buffer that may be too small, and two packets    *)
(* are merged.  log and olog are what the packets should hold: the records   *)
(* whose push succeeded, and where each ends.                                 *)
(***************************************************************************)
EXTENDS DnsPacket

CONSTANTS Pushes,           \* what is pushed: [sec, name, type, class, ttl, data]
          Sizes,            \* sizes of the packets that are built
          Cuts,             \* sizes of the buffers a packet is received in
          MaxPush           \* bound: records pushed

ASSUME MessageAssumption ==
    MaxPush \in Nat /\ \A s \in Sizes \cup Cuts : s >= 12 /\ s <= MaxPacket

VARIABLES pkt, other,   \* the packet being built, and the one built before it
          log, olog,    \* what they hold
          err,          \* result of the last push
          pushes,       \* pushes tried
          phase         \* "build", "read", "merged"
dnsVars == <<pkt, other, log, olog, err, pushes, phase>>

NoRecords == [s \in ALL |-> <<>>]

DnsInit ==
    /\ \E size \in Sizes : pkt = dns_p_init(size)
    /\ other = dns_p_init(12) /\ log = NoRecords /\ olog = NoRecords
    /\ err = "" /\ pushes = 0 /\ phase = "build"

\* What a packet keeps of a record: of the refresh, retry and expire times of a SOA
\* 31 bits, of the time to live too, except for an OPT.
Low31(v) == <<v[1] % 128, v[2], v[3], v[4]>>
Kept(r) ==
    [r EXCEPT !.data = IF r.type # T_SOA THEN @
                       ELSE <<@[1], @[2], @[3], Low31(@[4]), Low31(@[5]), Low31(@[6]), @[7]>>,
              !.ttl = Clamp(r.type, @)]

push(r) ==
    /\ phase = "build" /\ pushes < MaxPush
    /\ \E new \in {dns_p_push(pkt, r.sec, r)} :
          /\ pkt' = new.P /\ err' = new.err
          /\ log' = IF new.err = "" THEN [log EXCEPT ![r.sec] = Append(@, [rr |-> Kept(r), end |-> End(new.P)])]
                    ELSE log
    /\ pushes' = pushes + 1
    /\ UNCHANGED <<other, olog, phase>>

\* DNS_R_SMART tries the same record again.
grow ==
    /\ phase = "build" /\ err = "ENOBUFS"
    /\ pkt' = dns_p_grow(pkt).P /\ err' = dns_p_grow(pkt).err
    /\ UNCHANGED <<other, log, olog, pushes, phase>>

\* A second packet is built beside the first.
second ==
    /\ phase = "build" /\ other.size = 12 /\ log # NoRecords
    /\ other' = pkt /\ olog' = log
    /\ pkt' = dns_p_init(Max(Sizes)) /\ log' = NoRecords /\ err' = ""
    /\ UNCHANGED <<pushes, phase>>

\* A copy, or a datagram, in a buffer of the given size: the records that do not
\* end inside it are gone, the counts are not.
receive(size) ==
    /\ phase = "build" /\ size <= pkt.size
    /\ pkt' = dns_p_copy(dns_p_init(size), pkt)
    /\ log' = [s \in ALL |-> SelectSeq(log[s], LAMBDA l : l.end <= size)]
    /\ phase' = "read" /\ err' = ""
    /\ UNCHANGED <<other, olog, pushes>>

\* dns_res_fetch()
study ==
    /\ phase = "read" /\ pkt.memo[QD].base = 0
    /\ pkt' = dns_p_study(pkt)
    /\ UNCHANGED <<other, log, olog, err, pushes, phase>>

\* Records that differ only in case or in ttl are the same to dns_rr_cmp(); it tells
\* texts, options and opaque data always apart.
SameName(m, n) == Lower(NameText(m)) = Lower(NameText(n))
SameData(type, a, b) ==
    IF type \notin DOMAIN dns_rrtypes THEN a = b
    ELSE \A i \in DOMAIN dns_rrtypes[type] :
            IF dns_rrtypes[type][i] \in {NAME, TARGET} THEN SameName(a[i], b[i]) ELSE a[i] = b[i]
Comparable(type) == type \in DOMAIN dns_rrtypes \cup {T_SSHFP}
Equal(s, a, t, b) ==
    /\ a.type = b.type /\ a.class = b.class /\ SameName(a.name, b.name)
    /\ (s = QD) = (t = QD)
    /\ s # QD => Comparable(a.type) /\ SameData(a.type, a.data, b.data)

\* What a merge of the records A and B should give, section after section.
Union(A, B) ==
    LET sofar[s \in 0 .. AR] ==
            IF s = 0 THEN NoRecords
            ELSE FoldLeft(LAMBDA m, l :
                            IF \E t \in ALL, k \in 1 .. MaxPush :
                                  k <= Len(m[t]) /\ Equal(s, l.rr, t, m[t][k].rr)
                            THEN m ELSE [m EXCEPT ![s] = Append(@, l)],
                          [sofar[s - 1] EXCEPT ![s] = A[s]], B[s])
    IN  sofar[AR]

merge ==
    /\ phase \in {"build", "read"} /\ other.size > 12
    /\ \E new \in {dns_p_merge(other, pkt)} :
          /\ pkt' = new.P /\ err' = new.err
          /\ log' = IF new.err = "" THEN Union(olog, log) ELSE NoRecords
    /\ phase' = "merged"
    /\ UNCHANGED <<other, olog, pushes>>

DnsNext == \/ \E r \in Pushes : push(r)
           \/ grow \/ second \/ study \/ merge
           \/ \E size \in Cuts : receive(size)

DnsSpec == DnsInit /\ [][DnsNext]_dnsVars

----------------------------------------------------------------------------
(* Properties                                                                *)

\* The records of section s as a reader gets them.
Value(P, s, rr) == [name |-> dns_d_expand(P, rr.p).name, type |-> rr.type, class |-> rr.class,
                    ttl |-> rr.ttl, data |-> IF s = QD THEN <<>> ELSE dns_any_parse(P, rr).data]
Values(P, s, found) == [k \in DOMAIN found |-> Value(P, s, found[k])]
ReadSection(P, s) == Values(P, s, dns_rr_grep(P, Iter({s}, 0, "packet")))

\* Every record whose push succeeded is read back, in its section and in order, with its
\* name, class, time to live and data (a time to live above 31 bits as the greatest of
\* them, the refresh, retry and expire times of a SOA without their highest bit); nothing
\* else is.  Neither failed pushes and the names they left in the dictionary, nor
\* compression, growth, a copy or datagram cut anywhere, nor a merge of two packets
\* change that.  Of an OPT the options are not read: dns_opt_parse() never returns them.
\* Names in which a label occurs twice are left out of Pushes: dns_d_comp() goes on
\* comparing at the wrong label and can make such a name end in another's suffix.
RecordsReadBack ==
    \A s \in ALL :
       \A got \in {ReadSection(pkt, s)} :
           /\ Len(got) = Len(log[s])
           /\ \A k \in DOMAIN got :
                 LET want == log[s][k].rr
                 IN  /\ SameName(got[k].name, want.name)
                     /\ got[k].type = want.type /\ got[k].class = want.class
                     /\ s # QD => /\ got[k].ttl = want.ttl
                                  /\ want.type # T_OPT =>
                                        SameData(want.type, got[k].data, want.data)

\* The order dns_ai_nextent() walks the addresses in gives every address of the answer
\* once and only once, the least first, however often it was pushed; merging never makes
\* up one.
AddressesOnce ==
    LET as == {k \in DOMAIN log[AN] : log[AN][k].rr.type = T_A}
        key(v) == <<Lower(NameText(v.name)), v.data[1]>>
    IN  \A walk \in {dns_rr_grep(pkt, Iter({AN}, T_A, "order"))} :
           /\ {key(Value(pkt, AN, walk[k])) : k \in DOMAIN walk} = {key(log[AN][k].rr) : k \in as}
           /\ \A k \in 1 .. Len(walk) - 1 : dns_rr_cmp(walk[k], pkt, walk[k + 1], pkt) < 0
=============================================================================
