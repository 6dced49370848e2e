-------------------------- MODULE DnsResolver_proofs --------------------------
(***************************************************************************)
(* Proofs about one name lookup, for any names, search list, servers,      *)
(* depth of the stack and number of attempts, and whatever the network     *)
(* does to the answers.                                                    *)
(*                                                                         *)
(* StackBounded needs the state of every frame, not only of the last one.  *)
(* FailOnlyUnheard needs to know where the answer is that was heard: in    *)
(* R->nodata, or in the first frame, which then is on its way to the end   *)
(* and can no longer come to DNS_R_SWITCH, where a failure is made up.     *)
(***************************************************************************)
EXTENDS DnsResolver, FiniteSetTheorems, SequenceTheorems, TLAPS

\* What a server's answer says.
RCodes == {"ok", "aa", "formerr", "refused"}

\* Frames and packets have the fields of their records.
FrameFields == {"state", "which", "edns", "attempts", "query", "answer", "hints", "todo",
                "ns", "tried"}
Framed(f) == f = [x \in FrameFields |-> f[x]]
Packeted(P) == P = [x \in {"qd", "rr", "rc"} |-> P[x]]

\* Without recursion the only servers are those of the hints, which have addresses: no
\* frame goes to look for the address of a server.
HasServers(f) ==
    /\ f.state \notin {"resolv0", "resolv1"}
    /\ f.state \in {"foreach_ns", "foreach_a", "query_a"} =>
         /\ \A m \in DOMAIN f.hints : Len(f.hints[m]) # 0
         /\ f.todo \subseteq DOMAIN f.hints
         /\ f.state # "foreach_ns" => f.ns \in DOMAIN f.hints

\* Frame d waits for the frame below it only when there is one.
FrameOK(d, f) ==
    /\ Framed(f) /\ Packeted(f.answer)
    /\ f.state \in {"resolv1", "cname1"} => d < MaxDepth
    /\ ~recurse => HasServers(f)

\* The frame follows an alias or ends with what a server or a file said.
Committed(f) == f.state \in {"cname0", "cname1", "finish"} /\ f.answer.rc # "servfail"

StackInv ==
    /\ sp \in Depths
    /\ fr = [d \in Depths |-> fr[d]]
    /\ \A d \in Depths : FrameOK(d, fr[d])

UdpInv == udp \in Seq(ToSet(udp)) /\ \A P \in ToSet(udp) : P.rc \in RCodes

NodataInv == Packeted(nodata) /\ nodata.rc # "servfail"

\* Without recursion frames below the first follow its aliases.
HeardInv ==
    ~recurse =>
       /\ sp > 1 => fr[1].state = "cname1"
       /\ fr[1].state \in {"cname0", "cname1"} => fr[1].answer.rc # "servfail"
       /\ Busy /\ heard # {} => (nodata # Null /\ fr[1].state # "finish") \/ Committed(fr[1])

ResolverInv == StackInv /\ UdpInv /\ NodataInv /\ HeardInv /\ FailOnlyUnheard

-----------------------------------------------------------------------------
(* Frames.                                                                 *)

LEMMA PacketFacts ==
  ASSUME NEW n, NEW rr, NEW rc
  PROVE  Packeted(Packet(n, rr, rc)) /\ Packet(n, rr, rc).rc = rc
  BY DEF Packet, Packeted

LEMMA GotoFacts ==
  ASSUME NEW f, Framed(f), NEW s
  PROVE  /\ Framed(Goto(f, s)) /\ Goto(f, s).state = s /\ Goto(f, s).answer = f.answer
         /\ Goto(f, s).hints = f.hints /\ Goto(f, s).todo = f.todo /\ Goto(f, s).ns = f.ns
  BY DEF Framed, FrameFields, Goto

LEMMA IterateFacts ==
  ASSUME NEW f, Framed(f), NEW h
  PROVE  /\ Framed(Iterate(f, h)) /\ Iterate(f, h).state = "foreach_ns" /\ Iterate(f, h).answer = f.answer
         /\ Iterate(f, h).hints = h /\ Iterate(f, h).todo = DOMAIN h
  BY DEF Framed, FrameFields, Iterate

LEMMA PrepareFacts ==
  ASSUME NEW q, NEW d
  PROVE  /\ FrameOK(d, dns_res_frame_prepare(q))
         /\ dns_res_frame_prepare(q).state = "glue" /\ dns_res_frame_prepare(q).answer = Null
  <1> DEFINE f == dns_res_frame_prepare(q)
  <1>1. Framed(f) /\ f.state = "glue" /\ f.answer = Null
    BY DEF dns_res_frame_prepare, Framed, FrameFields
  <1>2. Packeted(Null)
    BY PacketFacts DEF Null
  <1>3. QED
    BY <1>1, <1>2 DEF FrameOK, HasServers

\* A frame in a state that needs nothing of the hints and of the stack.
LEMMA PlainFrame ==
  ASSUME NEW d, NEW f, Framed(f), Packeted(f.answer),
         f.state \notin {"resolv0", "resolv1", "cname1", "foreach_ns", "foreach_a", "query_a"}
  PROVE  FrameOK(d, f)
  BY DEF FrameOK, HasServers

\* The servers of the hints have addresses.
LEMMA HintsFacts ==
  ASSUME NEW o \in dns_hints_grep
  PROVE  LET h == dns_hints_query(o) IN \A m \in DOMAIN h : Len(h[m]) # 0
  <1> DEFINE H == dns_hints_insert_resconf
             n == Cardinality(H)
             r == [i \in 1..Len(Servers) |-> [addr |-> Servers[i], priority |-> IF Rotate THEN 1 ELSE i]]
  <1>1. Servers \in Seq(Range(Servers)) /\ Servers # << >>
    BY DnsAssumption
  <1>2. Len(Servers) \in Nat /\ DOMAIN Servers = 1..Len(Servers) /\ 1 \in DOMAIN Servers
    BY <1>1, EmptySeq
  <1>3. r \in Surjection(1..Len(Servers), H)
    BY <1>2 DEF Surjection, dns_hints_insert_resconf
  <1>4. IsFiniteSet(1..Len(Servers))
    BY <1>2, FS_Interval
  <1> HIDE DEF r
  <1>5. IsFiniteSet(H)
    BY <1>3, <1>4, FS_Surjection
  <1>6. H # {}
    BY <1>2 DEF dns_hints_insert_resconf
  <1>7. n \in Nat /\ n # 0
    BY <1>5, <1>6, FS_CardinalityType, FS_EmptySet
  <1>8. o \in [1..n -> H]
    BY DEF dns_hints_grep
  <1> HIDE DEF n, H
  <1>9. Len([i \in DOMAIN o |-> o[i].addr]) # 0
    <2>1. DOMAIN o = 1..n
      BY <1>8
    <2> DEFINE a == [i \in DOMAIN o |-> o[i].addr]
    <2>2. a \in [1..n -> {o[i].addr : i \in 1..n}]
      BY <2>1
    <2>3. a \in Seq({o[i].addr : i \in 1..n}) /\ DOMAIN a = 1..n
      BY <1>7, <2>2
    <2>4. Len(a) = n
      BY <1>7, <2>3, LenProperties
    <2>5. QED
      BY <1>7, <2>4
  <1>10. QED
    BY <1>9 DEF dns_hints_query

-----------------------------------------------------------------------------
(* Steps.                                                                  *)

\* A step that changes the last frame to f.
LEMMA FrameStep ==
  ASSUME ResolverInv, Busy, NEW f, Frame(f), FrameOK(sp, f), UNCHANGED <<sp, recurse, res>>,
         UdpInv', NodataInv',
         sp = 1 /\ ~recurse /\ f.state \in {"cname0", "cname1"} => f.answer.rc # "servfail",
         sp = 1 /\ ~recurse /\ heard' # {} => (nodata' # Null /\ f.state # "finish") \/ Committed(f)
  PROVE  ResolverInv'
  <1>1. sp \in Depths /\ fr = [d \in Depths |-> fr[d]] /\ \A d \in Depths : FrameOK(d, fr[d])
    BY DEF ResolverInv, StackInv
  <1>2. fr' = [d \in Depths |-> fr'[d]] /\ fr'[sp] = f /\ \A d \in Depths : d # sp => fr'[d] = fr[d]
    BY <1>1 DEF Frame
  <1>3. \A d \in Depths : FrameOK(d, fr'[d])
    BY <1>1, <1>2
  <1>4. StackInv'
    BY <1>1, <1>2, <1>3 DEF StackInv, FrameOK
  <1>5. HeardInv'
    <2>1. sp \in Nat /\ sp >= 1 /\ 1 \in Depths
      BY <1>1, DnsAssumption DEF Depths
    <2>2. CASE sp = 1
      BY <1>2, <2>1, <2>2 DEF HeardInv, Committed
    <2>3. CASE sp # 1
      <3>1. fr'[1] = fr[1] /\ sp > 1
        BY <1>2, <2>1, <2>3
      <3>2. QED
        BY <3>1 DEF ResolverInv, HeardInv, Committed
    <2>4. QED
      BY <2>2, <2>3
  <1>6. FailOnlyUnheard'
    BY DEF FailOnlyUnheard, Busy
  <1>7. QED
    BY <1>4, <1>5, <1>6 DEF ResolverInv

\* The same, when the answers heard are as before and the frame was not committed.
LEMMA QuietFrameStep ==
  ASSUME ResolverInv, Busy, NEW f, Frame(f), FrameOK(sp, f),
         UNCHANGED <<sp, recurse, res, udp, nodata, heard>>,
         F.state \notin {"cname0", "cname1", "finish"},
         sp = 1 => f.state \notin {"cname0", "cname1", "finish"}
  PROVE  ResolverInv'
  <1>1. UdpInv' /\ NodataInv'
    BY DEF ResolverInv, UdpInv, NodataInv
  <1>2. sp = 1 /\ ~recurse /\ heard' # {} => nodata' # Null /\ f.state # "finish"
    BY DEF ResolverInv, HeardInv, Committed, F
  <1>3. QED
    BY <1>1, <1>2, FrameStep

\* A step that leaves the stack alone.
LEMMA SameStack ==
  ASSUME ResolverInv, UNCHANGED <<fr, sp, recurse, nodata, heard>>, UdpInv', Busy' => Busy,
         FailOnlyUnheard'
  PROVE  ResolverInv'
  BY DEF ResolverInv, StackInv, FrameOK, HeardInv, NodataInv, Committed, Busy

\* A frame below starts.
LEMMA CallStep ==
  ASSUME ResolverInv, Busy, NEW f, NEW q, Call(f, q), FrameOK(sp, f), HasRoom,
         UNCHANGED <<recurse, res, udp, nodata, heard>>,
         sp = 1 /\ ~recurse => f.state = "cname1" /\ f.answer.rc # "servfail"
  PROVE  ResolverInv'
  <1>1. /\ sp \in Depths /\ fr = [d \in Depths |-> fr[d]] /\ \A d \in Depths : FrameOK(d, fr[d])
        /\ sp + 1 \in Depths /\ sp \in Nat /\ sp >= 1 /\ 1 \in Depths
    BY DnsAssumption DEF ResolverInv, StackInv, HasRoom, Depths
  <1> DEFINE g == dns_res_frame_prepare(q)
  <1>2. FrameOK(sp + 1, g) /\ g.state = "glue"
    BY PrepareFacts
  <1>3. sp' = sp + 1 /\ fr' = [fr EXCEPT ![sp] = f, ![sp + 1] = g]
    BY DEF Call
  <1> HIDE DEF g
  <1>4. fr' = [d \in Depths |-> fr'[d]] /\ fr'[sp] = f /\ fr'[sp + 1] = g
        /\ \A d \in Depths : d # sp /\ d # sp + 1 => fr'[d] = fr[d]
    <2> DEFINE m == [fr EXCEPT ![sp] = f]
    <2>1. m = [d \in Depths |-> m[d]] /\ m[sp] = f /\ \A d \in Depths : d # sp => m[d] = fr[d]
      BY <1>1
    <2>2. fr' = [m EXCEPT ![sp + 1] = g]
      BY <1>3
    <2>3. sp # sp + 1
      BY <1>1
    <2> HIDE DEF m
    <2>4. QED
      BY <1>1, <2>1, <2>2, <2>3
  <1>5. \A d \in Depths : FrameOK(d, fr'[d])
    BY <1>1, <1>2, <1>4
  <1>6. StackInv'
    BY <1>1, <1>3, <1>4, <1>5 DEF StackInv, FrameOK
  <1>7. HeardInv'
    <2>1. CASE sp = 1
      BY <1>1, <1>4, <2>1 DEF HeardInv, Committed
    <2>2. CASE sp # 1
      <3>1. fr'[1] = fr[1] /\ sp > 1
        BY <1>1, <1>4, <2>2
      <3>2. QED
        BY <3>1 DEF ResolverInv, HeardInv, Committed
    <2>3. QED
      BY <2>1, <2>2
  <1>8. UdpInv' /\ NodataInv' /\ FailOnlyUnheard'
    BY DEF ResolverInv, UdpInv, NodataInv, FailOnlyUnheard, Busy
  <1>9. QED
    BY <1>6, <1>7, <1>8 DEF ResolverInv

\* What a server says has one of these codes.
LEMMA RepliesFacts ==
  ASSUME NEW q, NEW p \in Replies(q)
  PROVE  p.rc \in RCodes
  BY DEF Replies, RCodes

\* An answer is studied: with recursion off it is taken, kept, or asked again.
LEMMA StudyStep ==
  ASSUME ResolverInv, At("query_a"), NEW P, P.rc \in RCodes, Study(P), UNCHANGED <<sp, recurse, res>>, UdpInv'
  PROVE  ResolverInv'
  <1>1. Busy /\ F.state = "query_a" /\ FrameOK(sp, F) /\ sp \in Depths
    BY DEF At, F, ResolverInv, StackInv
  <1>2. Framed(F) /\ Packeted(F.answer) /\ (~recurse => HasServers(F))
    BY <1>1 DEF FrameOK
  <1> DEFINE A == Packet(P.qd, P.rr, P.rc)
             n == F.query.name
             f == [F EXCEPT !.answer = A]
             ns == {r[2] : r \in {q \in P.rr : q[1] = "NS"}}
             retry == P.rc = "formerr" /\ F.edns
             found == Holds(P, "A", n) # {}
             alias == Holds(P, "CNAME", n) # {}
             tentative == ~retry /\ ~found /\ ~alias /\ ~recurse
             h == [m \in ns |-> IF HasA(P, m) THEN <<m>> ELSE <<>>]
             f1 == [f EXCEPT !.edns = FALSE, !.query = Query(n), !.state = "foreach_a"]
             f4 == [f EXCEPT !.state = "search", !.answer = IF nodata = Null THEN Null ELSE @]
             e == [f EXCEPT !.answer = Null]
             f5 == IF ns # {} THEN Iterate(e, h)
                   ELSE Goto(f, IF P.rc = "aa" THEN "finish" ELSE "foreach_a")
             g == CASE retry -> f1
                    [] ~retry /\ found -> Goto(f, "finish")
                    [] ~retry /\ ~found /\ alias -> Goto(f, "cname0")
                    [] tentative -> f4
                    [] OTHER -> f5
  <1>3. Frame(g) /\ nodata' = (IF tentative THEN keep_answer(f.answer) ELSE nodata) /\ heard' = (IF retry THEN heard ELSE heard \cup {[name |-> P.qd, rc |-> P.rc]})
    BY DEF Study
  <1>4. Packeted(A) /\ A.rc = P.rc /\ Packeted(Null)
    BY PacketFacts DEF Null
  <1> HIDE DEF A
  <1>5. /\ Framed(f) /\ f.answer = A /\ f.hints = F.hints /\ f.todo = F.todo /\ f.ns = F.ns /\ f.state = F.state
    BY <1>2 DEF Framed, FrameFields
  <1> HIDE DEF f
  <1>6. /\ Framed(f1) /\ f1.answer = A /\ f1.hints = F.hints /\ f1.todo = F.todo /\ f1.ns = F.ns
        /\ f1.state = "foreach_a"
    BY <1>5 DEF Framed, FrameFields
  <1>7. Framed(f4) /\ f4.state = "search" /\ f4.answer = IF nodata = Null THEN Null ELSE A
    BY <1>5 DEF Framed, FrameFields
  <1>8. Framed(e) /\ e.answer = Null
    BY <1>5 DEF Framed, FrameFields
  <1> HIDE DEF e, h
  <1>9. /\ Framed(Goto(f, "finish")) /\ Goto(f, "finish").answer = A /\ Goto(f, "finish").state = "finish"
        /\ Framed(Goto(f, "cname0")) /\ Goto(f, "cname0").answer = A /\ Goto(f, "cname0").state = "cname0"
    BY <1>5, GotoFacts
  <1>10. /\ Framed(f5) /\ Packeted(f5.answer)
         /\ f5.state \notin {"resolv1", "cname1", "cname0"}
    <2>1. CASE ns # {}
      <3>1. f5 = Iterate(e, h)
        BY <2>1
      <3>2. Framed(f5) /\ f5.answer = Null /\ f5.state = "foreach_ns"
        BY <1>8, <3>1, IterateFacts
      <3>3. QED
        BY <1>4, <3>2
    <2>2. CASE ns = {}
      <3>1. f5 = Goto(f, IF P.rc = "aa" THEN "finish" ELSE "foreach_a")
        BY <2>2
      <3>2. Framed(f5) /\ f5.answer = A /\ f5.state = IF P.rc = "aa" THEN "finish" ELSE "foreach_a"
        BY <1>5, <3>1, GotoFacts
      <3>3. QED
        BY <1>4, <3>2
    <2>3. QED
      BY <2>1, <2>2
  <1> HIDE DEF f1, f4, f5, n, ns
  <1> HIDE DEF retry, found, alias
  <1>11. /\ retry => g = f1
         /\ ~retry /\ found => g = Goto(f, "finish")
         /\ ~retry /\ ~found /\ alias => g = Goto(f, "cname0")
         /\ tentative => g = f4
         /\ ~retry /\ ~found /\ ~alias /\ ~tentative => g = f5
    OBVIOUS
  <1>12. NodataInv' /\ (tentative => nodata' # Null)
    <2>1. NodataInv
      BY DEF ResolverInv
    <2>2. A # Null
      BY <1>4, PacketFacts DEF Null, RCodes
    <2>3. nodata' = nodata \/ nodata' = A
      BY <1>3, <1>5 DEF keep_answer
    <2>4. tentative => nodata' # Null
      BY <1>3, <1>5, <2>2 DEF keep_answer
    <2>5. QED
      BY <1>4, <2>1, <2>3, <2>4 DEF NodataInv, RCodes
  <1>13. FrameOK(sp, g)
    <2>1. CASE retry
      BY <1>1, <1>2, <1>4, <1>6, <1>11, <2>1 DEF FrameOK, HasServers
    <2>2. CASE ~retry /\ (found \/ alias)
      BY <1>4, <1>9, <1>11, <2>2, PlainFrame
    <2>3. CASE ~retry /\ ~found /\ ~alias /\ ~recurse
      BY <1>4, <1>7, <1>11, <2>3, PlainFrame
    <2>4. CASE ~retry /\ ~found /\ ~alias /\ recurse
      BY <1>10, <1>11, <2>4 DEF FrameOK
    <2>5. QED
      BY <2>1, <2>2, <2>3, <2>4
  <1>14. ASSUME sp = 1, ~recurse
         PROVE  /\ g.state \in {"cname0", "cname1"} => g.answer.rc # "servfail"
                /\ heard' # {} => (nodata' # Null /\ g.state # "finish") \/ Committed(g)
    <2>1. heard # {} => nodata # Null
      BY <1>1, <1>14 DEF ResolverInv, HeardInv, Committed, F
    <2>2. CASE retry
      <3>1. heard' = heard /\ nodata' = nodata
        BY <1>3, <2>2
      <3>2. QED
        BY <1>6, <1>11, <2>1, <2>2, <3>1
    <2>3. CASE ~retry /\ (found \/ alias)
      BY <1>4, <1>9, <1>11, <2>3 DEF Committed, RCodes
    <2>4. CASE ~retry /\ ~found /\ ~alias
      BY <1>7, <1>11, <1>12, <1>14, <2>4
    <2>5. QED
      BY <2>2, <2>3, <2>4
  <1> HIDE DEF g
  <1>15. QED
    BY <1>1, <1>3, <1>12, <1>13, <1>14, FrameStep

-----------------------------------------------------------------------------
(* One lemma per action.                                                   *)

LEMMA AtFacts ==
  ASSUME ResolverInv, NEW s, At(s)
  PROVE  /\ Busy /\ F.state = s /\ FrameOK(sp, F) /\ Framed(F) /\ Packeted(F.answer)
         /\ ~recurse => HasServers(F)
         /\ sp \in Depths /\ sp \in Nat /\ sp >= 1
         /\ sp = 1 => F = fr[1]
  BY DnsAssumption DEF At, F, ResolverInv, StackInv, FrameOK, Depths

LEMMA GlueStep ==
  ASSUME ResolverInv, glue
  PROVE  ResolverInv'
  <1> DEFINE g == IF sp = 1 THEN {} ELSE dns_res_glue(F.query.name)
             s == IF \E r \in g : r[1] = "A" THEN "finish" ELSE "cname0"
             P == Packet(F.query.name, g, "ok")
             f1 == Goto(F, "switch")
             f2 == [F EXCEPT !.answer = P, !.state = s]
  <1>1. At("glue") /\ Frame(IF g = {} THEN f1 ELSE f2) /\ UNCHANGED <<sp, nodata>> /\ Silent
    BY DEF glue
  <1>2. Busy /\ F.state = "glue" /\ Framed(F) /\ Packeted(F.answer)
    BY <1>1, AtFacts
  <1>3. UNCHANGED <<sp, recurse, res, udp, nodata, heard>>
    BY <1>1 DEF Silent, net, fixed
  <1>4. CASE g = {}
    <2>1. Framed(f1) /\ f1.answer = F.answer /\ f1.state = "switch"
      BY <1>2, GotoFacts
    <2>2. Frame(f1)
      BY <1>1, <1>4
    <2> HIDE DEF f1
    <2>3. FrameOK(sp, f1)
      BY <1>2, <2>1, PlainFrame
    <2>4. QED
      BY <1>2, <1>3, <2>1, <2>2, <2>3, QuietFrameStep
  <1>5. CASE g # {}
    <2>1. Frame(f2) /\ sp # 1 /\ Packeted(P) /\ s \in {"finish", "cname0"}
      BY <1>1, <1>5, PacketFacts
    <2> HIDE DEF s, P
    <2>2. Framed(f2) /\ f2.answer = P /\ f2.state = s
      BY <1>2 DEF Framed, FrameFields
    <2> HIDE DEF f2
    <2>3. FrameOK(sp, f2)
      BY <2>1, <2>2, PlainFrame
    <2>4. QED
      BY <1>2, <1>3, <2>1, <2>3, QuietFrameStep
  <1>6. QED
    BY <1>4, <1>5

LEMMA SwitchStep ==
  ASSUME ResolverInv, switch
  PROVE  ResolverInv'
  <1>1. At("switch") /\ UNCHANGED <<sp, recurse, res, udp, heard>>
    BY DEF switch, Silent, net, fixed
  <1>2. Busy /\ F.state = "switch" /\ Framed(F) /\ Packeted(F.answer) /\ (sp = 1 => F = fr[1])
    BY <1>1, AtFacts
  <1>3. UdpInv' /\ NodataInv /\ HeardInv
    BY <1>1 DEF ResolverInv, UdpInv
  <1>4. ASSUME NEW f, Frame(f), nodata' = nodata,
               f = [F EXCEPT !.which = @ + 1,
                             !.state = IF Lookup[F.which] = "f" THEN "file" ELSE "bind"]
        PROVE  ResolverInv'
    <2>1. Framed(f) /\ f.answer = F.answer /\ f.state \in {"file", "bind"}
      BY <1>2, <1>4 DEF Framed, FrameFields
    <2>2. FrameOK(sp, f)
      BY <1>2, <2>1, PlainFrame
    <2>3. QED
      BY <1>1, <1>2, <1>4, <2>1, <2>2, QuietFrameStep
  <1>5. ASSUME sp = 1, nodata # Null, NEW f, f = [F EXCEPT !.answer = nodata, !.state = "finish"],
               Frame(f), nodata' = Null
        PROVE  ResolverInv'
    <2>0. Framed(f) /\ f.answer = nodata /\ f.state = "finish"
      BY <1>2, <1>5 DEF Framed, FrameFields
    <2>1. FrameOK(sp, f)
      BY <1>3, <2>0, PlainFrame DEF NodataInv
    <2>2. NodataInv'
      BY <1>5, PacketFacts DEF NodataInv, Null
    <2>3. Committed(f)
      BY <1>3, <2>0 DEF NodataInv, Committed
    <2>4. QED
      BY <1>1, <1>2, <1>3, <1>5, <2>0, <2>1, <2>2, <2>3, FrameStep
  <1>6. ASSUME ~(sp = 1 /\ nodata # Null), nodata' = nodata, NEW f,
               f = [F EXCEPT !.answer = Packet(List[1], {}, "servfail"), !.state = "finish"],
               Frame(f)
        PROVE  ResolverInv'
    <2>0. Framed(f) /\ f.answer = Packet(List[1], {}, "servfail") /\ f.state = "finish"
      BY <1>2, <1>6 DEF Framed, FrameFields
    <2>1. FrameOK(sp, f)
      BY <2>0, PlainFrame, PacketFacts
    <2>2. NodataInv'
      BY <1>3, <1>6 DEF NodataInv
    <2>3. sp = 1 /\ ~recurse => heard = {}
      BY <1>2, <1>3, <1>6 DEF HeardInv, Committed
    <2>4. QED
      BY <1>1, <1>2, <1>3, <1>6, <2>0, <2>1, <2>2, <2>3, FrameStep
  <1>7. QED
    BY <1>4, <1>5, <1>6 DEF switch

LEMMA FileStep ==
  ASSUME ResolverInv, file
  PROVE  ResolverInv'
  <1> DEFINE tried == IF sp > 1 THEN <<F.query.name>> ELSE List
             hits == {i \in DOMAIN tried : dns_hosts_query(tried[i]).rr # {}}
             hit == tried[Min(hits)]
             f1 == [F EXCEPT !.state = "switch", !.query = IF sp > 1 THEN @ ELSE Query(Last(List))]
             f2 == [F EXCEPT !.state = "finish", !.query = IF sp > 1 THEN @ ELSE Query(hit),
                             !.answer = dns_hosts_query(hit)]
  <1>1. At("file") /\ Frame(IF hits = {} THEN f1 ELSE f2) /\ UNCHANGED <<sp, nodata>> /\ Silent
    BY DEF file
  <1>2. Busy /\ F.state = "file" /\ Framed(F) /\ Packeted(F.answer)
    BY <1>1, AtFacts
  <1>3. UNCHANGED <<sp, recurse, res, udp, nodata, heard>> /\ UdpInv' /\ NodataInv'
    BY <1>1 DEF Silent, net, fixed, ResolverInv, UdpInv, NodataInv
  <1>4. CASE hits = {}
    <2>1. Frame(f1)
      BY <1>1, <1>4
    <2>2. Framed(f1) /\ f1.answer = F.answer /\ f1.state = "switch"
      BY <1>2 DEF Framed, FrameFields
    <2> HIDE DEF f1
    <2>3. FrameOK(sp, f1)
      BY <1>2, <2>2, PlainFrame
    <2>4. QED
      BY <1>2, <1>3, <2>1, <2>2, <2>3, QuietFrameStep
  <1>5. CASE hits # {}
    <2>1. Frame(f2)
      BY <1>1, <1>5
    <2> HIDE DEF hits
    <2> HIDE DEF hit
    <2>2. Framed(f2) /\ f2.answer = dns_hosts_query(hit) /\ f2.state = "finish"
      BY <1>2 DEF Framed, FrameFields
    <2>3. Packeted(dns_hosts_query(hit)) /\ dns_hosts_query(hit).rc = "ok"
      BY PacketFacts DEF dns_hosts_query
    <2> HIDE DEF f2
    <2>4. FrameOK(sp, f2) /\ Committed(f2)
      BY <2>2, <2>3, PlainFrame DEF Committed
    <2>5. QED
      BY <1>2, <1>3, <2>1, <2>2, <2>4, FrameStep
  <1>6. QED
    BY <1>4, <1>5

LEMMA BindStep ==
  ASSUME ResolverInv, bind
  PROVE  ResolverInv'
  <1> DEFINE s == IF sp > 1 THEN "hints" ELSE "search"
             f == Goto(F, s)
  <1>1. At("bind") /\ Frame(f) /\ UNCHANGED <<sp, recurse, res, udp, nodata, heard>>
    BY DEF bind, Silent, net, fixed
  <1>2. Busy /\ F.state = "bind" /\ Framed(F) /\ Packeted(F.answer)
    BY <1>1, AtFacts
  <1>3. Framed(f) /\ f.answer = F.answer /\ f.state = s
    BY <1>2, GotoFacts
  <1>4. s \in {"hints", "search"}
    OBVIOUS
  <1> HIDE DEF f, s
  <1>5. FrameOK(sp, f)
    BY <1>2, <1>3, <1>4, PlainFrame
  <1>6. QED
    BY <1>1, <1>2, <1>3, <1>4, <1>5, QuietFrameStep

LEMMA NextNameStep ==
  ASSUME ResolverInv, next_name
  PROVE  ResolverInv'
  <1> DEFINE f1 == Goto(F, "switch")
             f2 == [F EXCEPT !.query = Query(List[search + 1]), !.state = "hints"]
  <1>1. /\ At("search") /\ (Frame(f1) \/ Frame(f2))
        /\ UNCHANGED <<sp, recurse, res, udp, nodata, heard>>
    BY DEF next_name, Silent, net, fixed
  <1>2. Busy /\ F.state = "search" /\ Framed(F) /\ Packeted(F.answer)
    BY <1>1, AtFacts
  <1>3. Framed(f1) /\ f1.answer = F.answer /\ f1.state = "switch"
    BY <1>2, GotoFacts
  <1>4. Framed(f2) /\ f2.answer = F.answer /\ f2.state = "hints"
    BY <1>2 DEF Framed, FrameFields
  <1> HIDE DEF f1, f2
  <1>5. FrameOK(sp, f1) /\ FrameOK(sp, f2)
    BY <1>2, <1>3, <1>4, PlainFrame
  <1>6. QED
    BY <1>1, <1>2, <1>3, <1>4, <1>5, QuietFrameStep

\* Iterating over servers that all have addresses.
LEMMA IterateOK ==
  ASSUME NEW d, NEW f, Framed(f), Packeted(f.answer), NEW h,
         ~recurse => \A m \in DOMAIN h : Len(h[m]) # 0
  PROVE  FrameOK(d, Iterate(f, h)) /\ Iterate(f, h).state = "foreach_ns"
  <1> DEFINE g == Iterate(f, h)
  <1>1. Framed(g) /\ g.state = "foreach_ns" /\ g.answer = f.answer /\ g.hints = h /\ g.todo = DOMAIN h
    BY IterateFacts
  <1> HIDE DEF g
  <1>2. FrameOK(d, g)
    BY <1>1 DEF FrameOK, HasServers
  <1>3. QED
    BY <1>1, <1>2 DEF g

LEMMA HintsStep ==
  ASSUME ResolverInv, hints
  PROVE  ResolverInv'
  <1>1. At("hints") /\ UNCHANGED <<sp, recurse, res, udp, nodata, heard>>
    BY DEF hints, Silent, net, fixed
  <1>2. Busy /\ F.state = "hints" /\ Framed(F) /\ Packeted(F.answer)
    BY <1>1, AtFacts
  <1>3. PICK o \in dns_hints_grep : Frame(Iterate(F, dns_hints_query(o)))
    BY DEF hints
  <1> DEFINE h == dns_hints_query(o)
             f == Iterate(F, h)
  <1>4. \A m \in DOMAIN h : Len(h[m]) # 0
    BY HintsFacts
  <1> HIDE DEF h
  <1>5. FrameOK(sp, f) /\ f.state = "foreach_ns"
    BY <1>2, <1>4, IterateOK
  <1>6. Frame(f)
    BY <1>3 DEF h
  <1> HIDE DEF f
  <1>7. QED
    BY <1>1, <1>2, <1>5, <1>6, QuietFrameStep

LEMMA ForeachNsStep ==
  ASSUME ResolverInv, foreach_ns
  PROVE  ResolverInv'
  <1>1. At("foreach_ns") /\ UNCHANGED <<sp, recurse, res, udp, nodata, heard>>
    BY DEF foreach_ns, Silent, net, fixed
  <1>2. /\ Busy /\ F.state = "foreach_ns" /\ Framed(F) /\ Packeted(F.answer)
        /\ ~recurse => HasServers(F)
    BY <1>1, AtFacts
  <1>3. ~recurse => (\A m \in DOMAIN F.hints : Len(F.hints[m]) # 0) /\ F.todo \subseteq DOMAIN F.hints
    BY <1>2 DEF HasServers
  <1> DEFINE f == [F EXCEPT !.attempts = @ + 1]
             f1 == Goto(f, "switch")
             f2 == Iterate(f, F.hints)
             f3(n) == [F EXCEPT !.todo = @ \ {n}, !.ns = n, !.tried = 0, !.state = "foreach_a"]
  <1>4. Frame(IF GivesUp(F) THEN f1 ELSE f2) \/ \E n \in F.todo : Frame(f3(n))
    BY DEF foreach_ns
  <1>5. Framed(f) /\ f.answer = F.answer
    BY <1>2 DEF Framed, FrameFields
  <1> HIDE DEF f
  <1>6. FrameOK(sp, f2) /\ f2.state = "foreach_ns"
    BY <1>2, <1>3, <1>5, IterateOK
  <1>7. Framed(f1) /\ f1.answer = F.answer /\ f1.state = "switch"
    BY <1>5, GotoFacts
  <1> HIDE DEF f1, f2
  <1>8. FrameOK(sp, f1)
    BY <1>2, <1>7, PlainFrame
  <1>9. ASSUME NEW n \in F.todo, Frame(f3(n))
        PROVE  ResolverInv'
    <2> DEFINE g == f3(n)
    <2>1. /\ Framed(g) /\ g.answer = F.answer /\ g.state = "foreach_a" /\ g.hints = F.hints
          /\ g.todo \subseteq F.todo /\ g.ns = n
      BY <1>2 DEF Framed, FrameFields
    <2>2. Frame(g)
      BY <1>9
    <2> HIDE DEF g
    <2>3. FrameOK(sp, g)
      BY <1>2, <1>3, <2>1 DEF FrameOK, HasServers
    <2>4. QED
      BY <1>1, <1>2, <2>1, <2>2, <2>3, QuietFrameStep
  <1>10. CASE Frame(f1)
    BY <1>1, <1>2, <1>7, <1>8, <1>10, QuietFrameStep
  <1>11. CASE Frame(f2)
    BY <1>1, <1>2, <1>6, <1>11, QuietFrameStep
  <1>12. QED
    BY <1>4, <1>9, <1>10, <1>11

LEMMA ForeachAStep ==
  ASSUME ResolverInv, foreach_a
  PROVE  ResolverInv'
  <1>1. At("foreach_a") /\ UNCHANGED <<sp, recurse, res, udp, nodata, heard>>
    BY DEF foreach_a, fixed
  <1>2. /\ Busy /\ F.state = "foreach_a" /\ Framed(F) /\ Packeted(F.answer)
        /\ ~recurse => HasServers(F)
    BY <1>1, AtFacts
  <1>3. ~recurse => /\ \A m \in DOMAIN F.hints : Len(F.hints[m]) # 0
                    /\ F.todo \subseteq DOMAIN F.hints /\ F.ns \in DOMAIN F.hints
    BY <1>2 DEF HasServers
  <1> DEFINE id == IF F.query.qid = 0 THEN qids + 1 ELSE F.query.qid
             f1 == [F EXCEPT !.tried = @ + 1, !.query.qid = id, !.state = "query_a"]
             s == IF F.tried = 0 THEN "resolv0" ELSE "foreach_ns"
             f2 == Goto(F, s)
  <1>4. Frame(f1) \/ (F.tried = Len(F.hints[F.ns]) /\ Frame(f2))
    BY DEF foreach_a
  <1> HIDE DEF id
  <1>5. /\ Framed(f1) /\ f1.answer = F.answer /\ f1.state = "query_a" /\ f1.hints = F.hints
        /\ f1.todo = F.todo /\ f1.ns = F.ns
    BY <1>2 DEF Framed, FrameFields
  <1>6. /\ Framed(f2) /\ f2.answer = F.answer /\ f2.state = s /\ f2.hints = F.hints
        /\ f2.todo = F.todo
    BY <1>2, GotoFacts
  <1> HIDE DEF f1, f2
  <1>7. FrameOK(sp, f1)
    BY <1>2, <1>3, <1>5 DEF FrameOK, HasServers
  <1>8. F.tried = Len(F.hints[F.ns]) => FrameOK(sp, f2)
    <2>1. s \in {"resolv0", "foreach_ns"} /\ (F.tried # 0 => s = "foreach_ns")
      OBVIOUS
    <2> HIDE DEF s
    <2>2. QED
      BY <1>2, <1>3, <1>6, <2>1 DEF FrameOK, HasServers
  <1>9. CASE Frame(f1)
    BY <1>1, <1>2, <1>5, <1>7, <1>9, QuietFrameStep
  <1>10. CASE F.tried = Len(F.hints[F.ns]) /\ Frame(f2)
    BY <1>1, <1>2, <1>6, <1>8, <1>10, QuietFrameStep
  <1>11. QED
    BY <1>4, <1>9, <1>10

LEMMA Resolv0Step ==
  ASSUME ResolverInv, resolv0_ns
  PROVE  ResolverInv'
  <1>1. At("resolv0") /\ UNCHANGED <<recurse, res, udp, nodata, heard>>
    BY DEF resolv0_ns, Silent, net, fixed
  <1>2. /\ Busy /\ F.state = "resolv0" /\ Framed(F) /\ Packeted(F.answer)
        /\ ~recurse => HasServers(F)
    BY <1>1, AtFacts
  <1>3. recurse
    BY <1>2 DEF HasServers
  <1> DEFINE f1 == Goto(F, "resolv1")
             f2 == Goto(F, "foreach_ns")
  <1>4. \/ HasRoom /\ Call(f1, Query(F.ns))
        \/ Frame(f2) /\ sp' = sp
    BY DEF resolv0_ns
  <1>5. /\ Framed(f1) /\ f1.answer = F.answer /\ f1.state = "resolv1"
        /\ Framed(f2) /\ f2.answer = F.answer /\ f2.state = "foreach_ns"
    BY <1>2, GotoFacts
  <1> HIDE DEF f1, f2
  <1>6. (HasRoom => FrameOK(sp, f1)) /\ FrameOK(sp, f2)
    BY <1>2, <1>3, <1>5 DEF FrameOK, HasRoom
  <1>7. CASE HasRoom /\ Call(f1, Query(F.ns))
    BY <1>1, <1>2, <1>3, <1>6, <1>7, CallStep
  <1>8. CASE Frame(f2) /\ sp' = sp
    BY <1>1, <1>2, <1>5, <1>6, <1>8, QuietFrameStep
  <1>9. QED
    BY <1>4, <1>7, <1>8

LEMMA Resolv1Step ==
  ASSUME ResolverInv, resolv1_ns
  PROVE  ResolverInv'
  <1>1. At("resolv1") /\ UNCHANGED <<sp, recurse, res, udp, nodata, heard>>
    BY DEF resolv1_ns, Silent, net, fixed
  <1>2. /\ Busy /\ F.state = "resolv1" /\ Framed(F) /\ Packeted(F.answer)
        /\ ~recurse => HasServers(F)
    BY <1>1, AtFacts
  <1>3. recurse
    BY <1>2 DEF HasServers
  <1> DEFINE f1 == [F EXCEPT !.hints[F.ns] = <<F.ns>>, !.todo = @ \cup {F.ns}, !.state = "foreach_ns"]
             f2 == Goto(F, "foreach_ns")
  <1>4. Frame(f1) \/ Frame(f2)
    BY DEF resolv1_ns
  <1>5. Framed(f1) /\ f1.answer = F.answer /\ f1.state = "foreach_ns"
    BY <1>2 DEF Framed, FrameFields
  <1>6. Framed(f2) /\ f2.answer = F.answer /\ f2.state = "foreach_ns"
    BY <1>2, GotoFacts
  <1> HIDE DEF f1, f2
  <1>7. FrameOK(sp, f1) /\ FrameOK(sp, f2)
    BY <1>2, <1>3, <1>5, <1>6 DEF FrameOK
  <1>8. QED
    BY <1>1, <1>2, <1>4, <1>5, <1>6, <1>7, QuietFrameStep

LEMMA QueryTimeoutStep ==
  ASSUME ResolverInv, query_a_timeout
  PROVE  ResolverInv'
  <1>1. At("query_a") /\ UNCHANGED <<sp, recurse, res, udp, nodata, heard>>
    BY DEF query_a_timeout, Silent, net, fixed
  <1>2. /\ Busy /\ F.state = "query_a" /\ Framed(F) /\ Packeted(F.answer)
        /\ ~recurse => HasServers(F)
    BY <1>1, AtFacts
  <1> DEFINE f == Goto(F, "foreach_a")
  <1>3. Frame(f)
    BY DEF query_a_timeout
  <1>4. /\ Framed(f) /\ f.answer = F.answer /\ f.state = "foreach_a" /\ f.hints = F.hints
        /\ f.todo = F.todo /\ f.ns = F.ns
    BY <1>2, GotoFacts
  <1> HIDE DEF f
  <1>5. FrameOK(sp, f)
    BY <1>2, <1>4 DEF FrameOK, HasServers
  <1>6. QED
    BY <1>1, <1>2, <1>3, <1>4, <1>5, QuietFrameStep

\* The socket's buffer loses its first datagram, or gets one more.
LEMMA TailUdp ==
  ASSUME UdpInv, udp # <<>>, udp' = Tail(udp)
  PROVE  UdpInv' /\ Head(udp).rc \in RCodes
  <1>1. PICK S : S = ToSet(udp)
    OBVIOUS
  <1>2. udp \in Seq(S) /\ \A P \in S : P.rc \in RCodes
    BY <1>1 DEF UdpInv
  <1>3. Head(udp) \in S /\ Tail(udp) \in Seq(S)
    BY <1>2, HeadTailProperties
  <1>4. PICK s \in Seq(S) : s = Tail(udp)
    BY <1>3
  <1>5. s \in Seq(ToSet(s)) /\ ToSet(s) \subseteq S
    <2>1. s \in Seq(S)
      OBVIOUS
    <2>2. QED
      BY <2>1 DEF ToSet
  <1>6. QED
    BY <1>2, <1>3, <1>4, <1>5 DEF UdpInv

LEMMA AppendUdp ==
  ASSUME UdpInv, NEW P, P.rc \in RCodes, udp' = Append(udp, P)
  PROVE  UdpInv'
  <1>1. PICK S : S = ToSet(udp) \cup {P}
    OBVIOUS
  <1>2. udp \in Seq(S) /\ \A Q \in S : Q.rc \in RCodes
    BY <1>1 DEF UdpInv
  <1>3. PICK s : s = Append(udp, P)
    OBVIOUS
  <1>4. s \in Seq(S)
    BY <1>1, <1>2, <1>3, AppendProperties
  <1>5. s \in Seq(ToSet(s)) /\ ToSet(s) \subseteq S
    BY <1>4 DEF ToSet
  <1>6. QED
    BY <1>2, <1>3, <1>5 DEF UdpInv

\* A step of the socket, the network or the clock that leaves the resolver alone.
LEMMA OutsideStep ==
  ASSUME ResolverInv, Busy, UNCHANGED <<fr, sp, recurse, nodata, heard, res>>, UdpInv'
  PROVE  ResolverInv'
  BY SameStack DEF FailOnlyUnheard, Busy

LEMMA QuietOutside ==
  ASSUME ResolverInv, dns_so_send \/ Elapse
  PROVE  ResolverInv'
  <1>1. Busy /\ UNCHANGED <<fr, sp, recurse, nodata, heard, res, udp>>
    BY DEF dns_so_send, Elapse, Asking, At, net, fixed
  <1>2. UdpInv'
    BY <1>1 DEF ResolverInv, UdpInv
  <1>3. QED
    BY <1>1, <1>2, OutsideStep

LEMMA AnswerStep ==
  ASSUME ResolverInv, Answer
  PROVE  ResolverInv'
  <1>1. Busy /\ UNCHANGED <<fr, sp, recurse, nodata, heard, res>>
    BY DEF Answer, fixed
  <1>2. PICK q \in sent : \E p \in Replies(q), tc \in BOOLEAN :
           udp' = Append(udp, [qid |-> q.qid, qd |-> q.name, rr |-> p.rr, rc |-> p.rc, tc |-> tc])
    BY DEF Answer
  <1>3. PICK p \in Replies(q), tc \in BOOLEAN :
           udp' = Append(udp, [qid |-> q.qid, qd |-> q.name, rr |-> p.rr, rc |-> p.rc, tc |-> tc])
    BY <1>2
  <1> DEFINE P == [qid |-> q.qid, qd |-> q.name, rr |-> p.rr, rc |-> p.rc, tc |-> tc]
  <1>4. P.rc \in RCodes /\ udp' = Append(udp, P)
    BY <1>3, RepliesFacts
  <1> HIDE DEF P
  <1>5. UdpInv'
    BY <1>4, AppendUdp DEF ResolverInv
  <1>6. QED
    BY <1>1, <1>5, OutsideStep

LEMMA RecvStep ==
  ASSUME ResolverInv, dns_so_recv
  PROVE  ResolverInv'
  <1>1. At("query_a") /\ Busy /\ UNCHANGED <<sp, recurse, res>>
    BY DEF dns_so_recv, Asking, At, fixed
  <1>2. UdpInv' /\ Head(udp).rc \in RCodes
    BY TailUdp DEF dns_so_recv, ResolverInv
  <1>3. Study(Head(udp)) \/ UNCHANGED <<fr, nodata, heard>>
    BY DEF dns_so_recv
  <1>4. CASE Study(Head(udp))
    BY <1>1, <1>2, <1>4, StudyStep
  <1>5. CASE UNCHANGED <<fr, nodata, heard>>
    BY <1>1, <1>2, <1>5, OutsideStep
  <1>6. QED
    BY <1>3, <1>4, <1>5

LEMMA TcpStep ==
  ASSUME ResolverInv, dns_so_tcp
  PROVE  ResolverInv'
  <1>1. At("query_a") /\ UNCHANGED <<sp, recurse, res, udp>>
    BY DEF dns_so_tcp, Asking, fixed
  <1>2. UdpInv'
    BY <1>1 DEF ResolverInv, UdpInv
  <1>3. PICK p \in Replies(so) : Study([qd |-> so.name, rr |-> p.rr, rc |-> p.rc])
    BY DEF dns_so_tcp
  <1> DEFINE P == [qd |-> so.name, rr |-> p.rr, rc |-> p.rc]
  <1>4. P.rc \in RCodes /\ Study(P)
    BY <1>3, RepliesFacts
  <1> HIDE DEF P
  <1>5. QED
    BY <1>1, <1>2, <1>4, StudyStep

\* The lookup ends without an answer of the resolver.
LEMMA AbortStep ==
  ASSUME ResolverInv, dns_so_error \/ co_resolve_timeout \/ cf_resolve_submit_fails
  PROVE  ResolverInv'
  <1>1. /\ Busy /\ UNCHANGED <<fr, sp, recurse, nodata, heard, udp>>
        /\ res'.is \in {"error", "timeout"}
    BY DEF dns_so_error, co_resolve_timeout, cf_resolve_submit_fails, Asking, At, net, fixed, Result
  <1>2. UdpInv' /\ FailOnlyUnheard'
    BY <1>1 DEF ResolverInv, UdpInv, FailOnlyUnheard
  <1>3. QED
    BY <1>1, <1>2, SameStack

LEMMA Cname0Step ==
  ASSUME ResolverInv, cname0_a
  PROVE  ResolverInv'
  <1>1. At("cname0") /\ UNCHANGED <<recurse, res, udp, nodata, heard>>
    BY DEF cname0_a, Silent, net, fixed
  <1>2. /\ Busy /\ F.state = "cname0" /\ Framed(F) /\ Packeted(F.answer)
        /\ ~recurse => HasServers(F)
        /\ sp = 1 => F = fr[1]
    BY <1>1, AtFacts
  <1>3. sp = 1 /\ ~recurse => F.answer.rc # "servfail"
    BY <1>2 DEF ResolverInv, HeardInv
  <1> DEFINE f1 == Goto(F, "cname1")
             f2 == Goto(F, "finish")
  <1>4. \/ HasRoom /\ Call(f1, Query(Target))
        \/ Frame(f2) /\ sp' = sp
    BY DEF cname0_a
  <1>5. /\ Framed(f1) /\ f1.answer = F.answer /\ f1.state = "cname1"
        /\ Framed(f2) /\ f2.answer = F.answer /\ f2.state = "finish"
    BY <1>2, GotoFacts
  <1> HIDE DEF f1, f2
  <1>6. (HasRoom => FrameOK(sp, f1)) /\ FrameOK(sp, f2)
    BY <1>2, <1>5 DEF FrameOK, HasRoom, HasServers
  <1>7. CASE HasRoom /\ Call(f1, Query(Target))
    BY <1>1, <1>2, <1>3, <1>5, <1>6, <1>7, CallStep
  <1>8. CASE Frame(f2) /\ sp' = sp
    <2>1. sp = 1 /\ ~recurse => Committed(f2)
      BY <1>3, <1>5 DEF Committed
    <2>2. UdpInv' /\ NodataInv'
      BY <1>1 DEF ResolverInv, UdpInv, NodataInv
    <2>3. QED
      BY <1>1, <1>2, <1>5, <1>6, <1>8, <2>1, <2>2, FrameStep
  <1>9. QED
    BY <1>4, <1>7, <1>8

LEMMA Cname1Step ==
  ASSUME ResolverInv, cname1_a
  PROVE  ResolverInv'
  <1>1. At("cname1") /\ UNCHANGED <<sp, recurse, res, udp, nodata, heard>>
    BY DEF cname1_a, Silent, net, fixed
  <1>2. Busy /\ F.state = "cname1" /\ Framed(F) /\ Packeted(F.answer)
    BY <1>1, AtFacts
  <1> DEFINE P == dns_res_merge(F.answer, fr[sp + 1].answer)
             f == [F EXCEPT !.answer = P, !.state = "finish"]
  <1>3. Frame(f)
    BY DEF cname1_a
  <1>4. Packeted(P) /\ P.rc = "ok"
    BY <1>2 DEF Packeted, dns_res_merge
  <1> HIDE DEF P
  <1>5. Framed(f) /\ f.answer = P /\ f.state = "finish"
    BY <1>2 DEF Framed, FrameFields
  <1> HIDE DEF f
  <1>6. FrameOK(sp, f) /\ Committed(f)
    BY <1>4, <1>5, PlainFrame DEF Committed
  <1>7. UdpInv' /\ NodataInv'
    BY <1>1 DEF ResolverInv, UdpInv, NodataInv
  <1>8. QED
    BY <1>1, <1>2, <1>3, <1>5, <1>6, <1>7, FrameStep

LEMMA FinishStep ==
  ASSUME ResolverInv, finish
  PROVE  ResolverInv'
  <1>1. /\ At("finish") /\ sp > 1 /\ sp' = sp - 1
        /\ UNCHANGED <<fr, recurse, res, udp, nodata, heard>>
    BY DEF finish, Silent, net, fixed
  <1>2. Busy /\ sp \in Depths /\ sp \in Nat
    BY <1>1, AtFacts
  <1>3. sp' \in Depths /\ (sp' > 1 => sp > 1)
    BY <1>1, <1>2, DnsAssumption DEF Depths
  <1>4. StackInv' /\ UdpInv' /\ NodataInv' /\ FailOnlyUnheard'
    BY <1>1, <1>3 DEF ResolverInv, StackInv, FrameOK, UdpInv, NodataInv, FailOnlyUnheard
  <1>5. HeardInv'
    BY <1>1, <1>3 DEF ResolverInv, HeardInv, Committed, Busy
  <1>6. QED
    BY <1>4, <1>5 DEF ResolverInv

\* A server failure is the answer of a frame that is not committed.
LEMMA NextentStep ==
  ASSUME ResolverInv, dns_ai_nextent
  PROVE  ResolverInv'
  <1>1. At("finish") /\ sp = 1 /\ UNCHANGED <<fr, sp, recurse, udp, nodata, heard>>
    BY DEF dns_ai_nextent, net, fixed
  <1>2. Busy /\ fr[1].state = "finish" /\ F = fr[1]
    BY <1>1, AtFacts
  <1>3. res'.is = "servfail" => fr[1].answer.rc = "servfail"
    BY <1>2 DEF dns_ai_nextent, dns_ai_done, dns_ai_setent, Result
  <1>4. FailOnlyUnheard'
    BY <1>1, <1>2, <1>3 DEF ResolverInv, HeardInv, Committed, FailOnlyUnheard
  <1>5. UdpInv'
    BY <1>1 DEF ResolverInv, UdpInv
  <1>6. QED
    BY <1>1, <1>2, <1>4, <1>5, SameStack

-----------------------------------------------------------------------------
(* The invariant.                                                          *)

LEMMA InitResolver ==
  ASSUME Init
  PROVE  ResolverInv
  <1>1. /\ fr = [d \in Depths |-> dns_res_frame_prepare(NoQuery)] /\ sp = 1 /\ nodata = Null
        /\ udp = <<>> /\ heard = {} /\ res = Result("none", Nothing)
    BY DEF Init, dns_res_reset
  <1>2. 1 \in Depths
    BY DnsAssumption DEF Depths
  <1>3. \A d \in Depths : /\ FrameOK(d, fr[d]) /\ fr[d].state = "glue"
    BY <1>1, PrepareFacts
  <1>4. StackInv
    BY <1>1, <1>2, <1>3 DEF StackInv
  <1>5. UdpInv
    BY <1>1 DEF UdpInv, ToSet
  <1>6. NodataInv
    BY <1>1, PacketFacts DEF NodataInv, Null
  <1>7. HeardInv
    BY <1>1, <1>2, <1>3 DEF HeardInv
  <1>8. FailOnlyUnheard
    BY <1>1 DEF FailOnlyUnheard
  <1>9. QED
    BY <1>4, <1>5, <1>6, <1>7, <1>8 DEF ResolverInv

LEMMA NextResolver ==
  ASSUME ResolverInv, [Next]_vars
  PROVE  ResolverInv'
  <1>1. CASE dns_res_exec
    BY <1>1, GlueStep, SwitchStep, FileStep, BindStep, NextNameStep, HintsStep, ForeachNsStep,
       ForeachAStep, Resolv0Step, Resolv1Step, QueryTimeoutStep, QuietOutside, RecvStep,
       Cname0Step, Cname1Step, FinishStep, NextentStep DEF dns_res_exec
  <1>2. CASE dns_so_tcp \/ dns_so_error \/ co_resolve_timeout \/ cf_resolve_submit_fails \/ Answer \/ Elapse
    BY <1>2, TcpStep, AbortStep, AnswerStep, QuietOutside
  <1>3. CASE UNCHANGED vars
    BY <1>3 DEF vars, ResolverInv, StackInv, FrameOK, UdpInv, NodataInv, HeardInv, Committed,
                FailOnlyUnheard, Busy
  <1>4. QED
    BY <1>1, <1>2, <1>3 DEF Next

LEMMA ResolverInvariant == Spec => []ResolverInv
  <1>1. Init => ResolverInv
    BY InitResolver
  <1>2. ResolverInv /\ [Next]_vars => ResolverInv'
    BY NextResolver
  <1>3. QED
    BY <1>1, <1>2, PTL DEF Spec

\* The stack of frames of dns_res_exec() never outgrows its array, whatever aliases and
\* referrals the servers send and whatever the depth DNS_R_MAXDEPTH: &F[1] is used only
\* by frames that have one.
THEOREM StackStaysBounded == Spec => []StackBounded
  <1>1. ResolverInv => StackBounded
    <2> SUFFICES ASSUME ResolverInv PROVE StackBounded
      OBVIOUS
    <2>2. sp \in Depths /\ FrameOK(sp, F)
      BY DEF ResolverInv, StackInv, F
    <2>3. sp <= MaxDepth
      BY <2>2, DnsAssumption DEF Depths
    <2>4. QED
      BY <2>2, <2>3 DEF StackBounded, FrameOK
  <1>2. QED
    BY <1>1, ResolverInvariant, PTL

\* Without recursion co_resolve() reports a server failure only when no name server has
\* answered: the answer that was heard is in R->nodata, or the first frame is on its way
\* to the end with it and does not pass through DNS_R_SWITCH again.
THEOREM FailureOnlyUnheard == Spec => []FailOnlyUnheard
  <1>1. ResolverInv => FailOnlyUnheard
    BY DEF ResolverInv
  <1>2. QED
    BY <1>1, ResolverInvariant, PTL

=============================================================================
