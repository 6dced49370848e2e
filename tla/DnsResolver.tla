---------------------------- MODULE DnsResolver ----------------------------
(* One name lookup: the state machine dns_res_exec() of dns.c over its socket
   dns_so_check(), driven by the loop of co_resolve(), against name servers
   whose answers may be lost, late, repeated, truncated or refused.

   A name is an element of Names.  What the name servers know of it is World:
   an address, an alias of another name, or nothing; the servers are truthful,
   the network is not reliable.  Only type A is looked up, as
   cf_resolve_submit() does, and options.smart is off. *)
EXTENDS Naturals, Sequences, FiniteSets, SequencesExt, FiniteSetsExt

CONSTANTS Names,     \* domain names
          Worlds,    \* what the servers may know: functions Names -> World
          Qname,     \* the name that is looked up
          Anchored,  \* it ends in a dot
          Dots,      \* dots in it
          Ndots,     \* options.ndots
          Search,    \* the name under each domain of the search list
          Hosts,     \* names in /etc/hosts
          Lookup,    \* order of the sources: "b"(ind) and "f"(ile)
          Servers,   \* the name servers in /etc/resolv.conf, in order
          Rotate,    \* options.rotate
          Attempts,  \* options.attempts
          MaxDepth,  \* DNS_R_MAXDEPTH
          Modes,     \* values of options.recurse
          MaxRefer,  \* bound: referrals in one lookup (the code counts none)
          MaxLate    \* bound: datagrams in the buffer of the UDP socket

ASSUME DnsAssumption ==
    /\ Qname \in Names /\ Search \in Seq(Names) /\ Hosts \subseteq Names
    /\ {Anchored, Rotate} \subseteq BOOLEAN /\ {Dots, Ndots} \subseteq Nat
    /\ Servers \in Seq(Range(Servers)) /\ Servers # <<>> /\ Attempts \in Nat \ {0}
    /\ MaxDepth \in Nat \ {0} /\ MaxRefer \in Nat /\ MaxLate \in Nat

\* the names to try, one after the other
dns_resconf_search == IF Anchored THEN <<Qname>>
                      ELSE IF Dots >= Ndots THEN <<Qname>> \o Search
                      ELSE Append(Search, Qname)
List == dns_resconf_search

\* the name servers of the zone "." with their priorities, which are all the
\* same with options.rotate
dns_hints_insert_resconf ==
    {[addr |-> Servers[i], priority |-> IF Rotate THEN 1 ELSE i] : i \in DOMAIN Servers}

\* the orders in which they may be found: by priority, equals at random
dns_hints_grep ==
    LET n == Cardinality(dns_hints_insert_resconf)
    IN {o \in [1..n -> dns_hints_insert_resconf] :
          \A i, j \in 1..n : i < j => o[i] # o[j] /\ o[i].priority <= o[j].priority}

Depths == 1..MaxDepth
Root == "root"          \* the NS of the local hints: "hints.local."
Nothing == "nothing"    \* no name

VARIABLES world, recurse,  \* chosen once
          fr,      \* fr[d]: R->stack
          sp,      \* R->sp + 1
          search,  \* R->search: how many names of List were taken
          nodata,  \* R->nodata
          so,      \* R->so: [st, qid, name, edns, srv, late]
          qids,    \* the last query id dns_so_mkqid() gave
          sent,    \* queries that left by UDP: [qid, name, edns, srv]
          udp,     \* datagrams in the receive buffer
          refers,  \* referrals made
          heard,   \* the answers taken from name servers: [name, rc]
          res      \* what co_resolve() returned
vars == <<world, recurse, fr, sp, search, nodata, so, qids, sent, udp, refers,
          heard, res>>
net == <<qids, sent, udp, refers>>
fixed == <<world, recurse>>

-----------------------------------------------------------------------------
(* Packets. *)

\* records: <<"A", name>>, <<"CNAME", name, target>> in the answer section,
\* <<"NS", server>> in the authority section, <<"glue", name>> for an A record
\* in the additional section
Holds(P, type, n) == {r \in P.rr : r[1] = type /\ r[2] = n}
HasA(P, n) == Holds(P, "A", n) \cup Holds(P, "glue", n) # {}     \* in any section
Packet(n, rr, rc) == [qd |-> n, rr |-> rr, rc |-> rc]
Null == Packet(Nothing, {}, "null")     \* no packet

\* dns_d_cname(): at most 7 aliases are followed
dns_d_cname(n, P) ==
    LET step(m) == IF Holds(P, "CNAME", m) = {} THEN m
                   ELSE (CHOOSE r \in Holds(P, "CNAME", m) : TRUE)[3]
        chain[i \in 0..7] == IF i = 0 THEN n ELSE step(chain[i - 1])
    IN chain[7]

\* dns_res_glue(): the records of name n in the answers on the stack
dns_res_glue(n) ==
    LET known == UNION {fr[d].answer.rr : d \in
                          {e \in 1..sp : fr[e].answer # Null}}
        a == {<<"A", n>> : r \in {q \in known : q[1] \in {"A", "glue"} /\ q[2] = n}}
    IN IF a # {} THEN a ELSE {r \in known : r[1] = "CNAME" /\ r[2] = n}

\* dns_res_merge(): section by section, a record only once
dns_res_merge(P, Q) ==
    LET all == P.rr \cup Q.rr
    IN [P EXCEPT !.rr = {r \in all : r[1] = "glue" => <<"A", r[2]>> \notin all}, !.rc = "ok"]

\* the addresses in /etc/hosts
dns_hosts_query(n) == Packet(n, {<<"A", h>> : h \in Hosts \cap {n}}, "ok")

\* the hints: one server, with the addresses of resolv.conf in some order o
dns_hints_query(o) == [m \in {Root} |-> [i \in DOMAIN o |-> o[i].addr]]

-----------------------------------------------------------------------------
(* Frames. *)

Query(n) == [name |-> n, qid |-> 0]
Result(is, n) == [is |-> is, name |-> n]
NoQuery == [name |-> Nothing, qid |-> 0]

\* dns_res_frame_prepare()
dns_res_frame_prepare(q) ==
    [state |-> "glue", which |-> 1, edns |-> TRUE, attempts |-> 0, query |-> q,
     answer |-> Null, hints |-> <<>>, todo |-> {}, ns |-> Nothing, tried |-> 0]

\* dns_res_submit2() of a resolver that dns_res_open() has made
dns_res_reset == /\ fr = [d \in Depths |-> dns_res_frame_prepare(NoQuery)]
                 /\ sp = 1 /\ search = 0 /\ nodata = Null

Init == /\ world \in Worlds
        /\ recurse \in Modes
        /\ dns_res_reset
        /\ so = [st |-> "none", qid |-> 0, name |-> Nothing, edns |-> FALSE,
                 srv |-> Nothing, late |-> FALSE]
        /\ qids = 0 /\ sent = {} /\ udp = <<>> /\ refers = 0
        /\ heard = {} /\ res = Result("none", Nothing)

F == fr[sp]
Busy == res.is = "none"
At(s) == Busy /\ F.state = s
Frame(f) == fr' = [fr EXCEPT ![sp] = f]
Goto(f, s) == [f EXCEPT !.state = s]
Silent == UNCHANGED <<so, net, heard, res, fixed>>

\* a frame below starts with its own query; dgoto(++R->sp, DNS_R_INIT)
Call(f, q) == /\ fr' = [fr EXCEPT ![sp] = f, ![sp + 1] = dns_res_frame_prepare(q)]
              /\ sp' = sp + 1

-----------------------------------------------------------------------------
(* dns_res_exec(): one action per state. *)

glue ==
    /\ At("glue")
    /\ LET g == IF sp = 1 THEN {} ELSE dns_res_glue(F.query.name)
       IN Frame(IF g = {} THEN Goto(F, "switch")
                ELSE [F EXCEPT
                        !.answer = Packet(F.query.name, g, "ok"),
                        !.state = IF \E r \in g : r[1] = "A" THEN "finish"
                                  ELSE "cname0"])
    /\ UNCHANGED <<sp, search, nodata>> /\ Silent

\* the next source of R->resconf->lookup; after the last one the tentative
\* answer, or a server failure
switch ==
    /\ At("switch")
    /\ \/ /\ F.which <= Len(Lookup)
          /\ Frame([F EXCEPT !.which = @ + 1,
                             !.state = IF Lookup[F.which] = "f" THEN "file"
                                       ELSE "bind"])
          /\ UNCHANGED nodata
       \/ /\ F.which > Len(Lookup) /\ sp = 1 /\ nodata # Null
          /\ Frame([F EXCEPT !.answer = nodata, !.state = "finish"])
          /\ nodata' = Null
       \/ /\ F.which > Len(Lookup) /\ ~(sp = 1 /\ nodata # Null)
          /\ Frame([F EXCEPT !.answer = Packet(List[1], {}, "servfail"),
                             !.state = "finish"])
          /\ UNCHANGED nodata
    /\ UNCHANGED <<sp, search>> /\ Silent

\* dns_hosts_query(): at depth 0 for every name of the search list in turn
file ==
    /\ At("file")
    /\ LET tried == IF sp > 1 THEN <<F.query.name>> ELSE List
           hits == {i \in DOMAIN tried : dns_hosts_query(tried[i]).rr # {}}
           hit == tried[Min(hits)]
       IN /\ Frame(IF hits = {}
                   THEN [F EXCEPT !.state = "switch",
                                  !.query = IF sp > 1 THEN @ ELSE Query(Last(List))]
                   ELSE [F EXCEPT !.state = "finish",
                                  !.query = IF sp > 1 THEN @ ELSE Query(hit),
                                  !.answer = dns_hosts_query(hit)])
          /\ search' = IF sp > 1 THEN search
                       ELSE IF hits = {} THEN Len(List) ELSE Min(hits)
    /\ UNCHANGED <<sp, nodata>> /\ Silent

bind ==
    /\ At("bind")
    /\ Frame(Goto(F, IF sp > 1 THEN "hints" ELSE "search"))
    /\ search' = IF sp > 1 THEN search ELSE 0
    /\ UNCHANGED <<sp, nodata>> /\ Silent

\* the next name of the search list.  The state is also entered by frames
\* below the first, whose query then becomes one of the user's names.
next_name ==
    /\ At("search")
    /\ \/ /\ search = Len(List)
          /\ Frame(Goto(F, "switch"))
          /\ UNCHANGED search
       \/ /\ search < Len(List)
          /\ Frame([F EXCEPT !.query = Query(List[search + 1]), !.state = "hints"])
          /\ search' = search + 1
    /\ UNCHANGED <<sp, nodata>> /\ Silent

\* DNS_R_HINTS and DNS_R_ITERATE: hints maps a server name to the addresses
\* known of it
Iterate(f, h) == [f EXCEPT !.hints = h, !.todo = DOMAIN h, !.state = "foreach_ns"]
hints ==
    /\ At("hints")
    /\ \E o \in dns_hints_grep : Frame(Iterate(F, dns_hints_query(o)))
    /\ UNCHANGED <<sp, search, nodata>> /\ Silent

\* the servers with an address come first, else the order is random
dns_res_nameserv_cmp(n, m) == F.hints[n] # <<>> \/ F.hints[m] = <<>>

\* the next server; when all were tried, another attempt
GivesUp(f) == f.attempts + 1 >= Attempts
attempts_not_counted ==                  \* variant: no count of attempts
    /\ At("foreach_ns")
    /\ \/ F.todo = {} /\ Frame(Iterate(F, F.hints))
       \/ \E n \in F.todo : Frame([F EXCEPT !.todo = @ \ {n}, !.ns = n, !.tried = 0,
                                            !.state = "foreach_a"])
    /\ UNCHANGED <<sp, search, nodata>> /\ Silent
foreach_ns ==
    /\ At("foreach_ns")
    /\ \/ /\ F.todo = {}
          /\ LET f == [F EXCEPT !.attempts = @ + 1]
             IN Frame(IF GivesUp(F) THEN Goto(f, "switch") ELSE Iterate(f, F.hints))
       \/ \E n \in F.todo :
             /\ \A m \in F.todo : dns_res_nameserv_cmp(n, m)
             /\ Frame([F EXCEPT !.todo = @ \ {n}, !.ns = n, !.tried = 0,
                                !.state = "foreach_a"])
    /\ UNCHANGED <<sp, search, nodata>> /\ Silent

\* the socket takes the query, which keeps the id it was given the first time
dns_so_submit(q, id, addr) ==
    so' = [st |-> "udp_send", qid |-> id, name |-> q.name, edns |-> F.edns,
           srv |-> addr, late |-> FALSE]

\* the next address of the server
foreach_a ==
    /\ At("foreach_a")
    /\ \/ /\ F.tried < Len(F.hints[F.ns])
          /\ LET id == IF F.query.qid = 0 THEN qids + 1 ELSE F.query.qid
             IN /\ Frame([F EXCEPT !.tried = @ + 1, !.query.qid = id,
                                   !.state = "query_a"])
                /\ qids' = IF F.query.qid = 0 THEN id ELSE qids
                /\ dns_so_submit(F.query, id, F.hints[F.ns][F.tried + 1])
          /\ UNCHANGED sent
       \/ /\ F.tried = Len(F.hints[F.ns])
          /\ Frame(Goto(F, IF F.tried = 0 THEN "resolv0" ELSE "foreach_ns"))
          /\ UNCHANGED <<so, qids, sent>>
    /\ UNCHANGED <<sp, search, nodata, udp, refers, heard, res, fixed>>

\* the address of a server is looked up in a frame of its own
room_off_by_one == sp <= MaxDepth       \* variant: one frame too many
HasRoom == sp < MaxDepth
resolv0_ns ==
    /\ At("resolv0")
    /\ \/ HasRoom /\ Call(Goto(F, "resolv1"), Query(F.ns))
       \/ ~HasRoom /\ Frame(Goto(F, "foreach_ns")) /\ UNCHANGED sp
    /\ UNCHANGED <<search, nodata>> /\ Silent
resolv1_ns ==
    /\ At("resolv1")
    /\ LET got == HasA(fr[sp + 1].answer, fr[sp + 1].query.name)
       IN Frame(IF got THEN [F EXCEPT !.hints[F.ns] = <<F.ns>>, !.todo = @ \cup {F.ns},
                                      !.state = "foreach_ns"]
                ELSE Goto(F, "foreach_ns"))
    /\ UNCHANGED <<sp, search, nodata>> /\ Silent

-----------------------------------------------------------------------------
(* DNS_R_QUERY_A and the socket. *)

query_a_timeout ==
    /\ At("query_a") /\ so.late
    /\ Frame(Goto(F, "foreach_a"))
    /\ UNCHANGED <<sp, search, nodata>> /\ Silent

Asking == At("query_a") /\ ~so.late

\* connect() and send()
dns_so_send ==
    /\ Asking /\ so.st = "udp_send"
    /\ so' = [so EXCEPT !.st = "udp_recv"]
    /\ sent' = sent \cup {[qid |-> so.qid, name |-> so.name, edns |-> so.edns,
                             srv |-> so.srv]}
    /\ UNCHANGED <<fr, sp, search, nodata, qids, udp, refers, heard, res, fixed>>

\* dns_so_verify(): the answer must repeat id and question
verify_nothing(P) == TRUE                \* variant: any datagram will do
dns_so_verify(P) == P.qid = so.qid /\ P.qd = so.name

\* the first unsatisfactory answer is kept in R->nodata
forget_answer(P) == nodata               \* variant: it is dropped
keep_answer(P) == IF nodata = Null THEN P ELSE nodata

\* what DNS_R_QUERY_A does with an answer P: the name is searched in the answer
\* section, the addresses of the servers of a referral in all of them
Study(P) ==
    LET n == F.query.name
        f == [F EXCEPT !.answer = Packet(P.qd, P.rr, P.rc)]
        ns == {r[2] : r \in {q \in P.rr : q[1] = "NS"}}
        retry == P.rc = "formerr" /\ F.edns
        found == Holds(P, "A", n) # {}
        alias == Holds(P, "CNAME", n) # {}
        tentative == ~retry /\ ~found /\ ~alias /\ ~recurse
    IN /\ Frame(CASE retry -> [f EXCEPT !.edns = FALSE, !.query = Query(n),
                                        !.state = "foreach_a"]
                  [] ~retry /\ found -> Goto(f, "finish")
                  [] ~retry /\ ~found /\ alias -> Goto(f, "cname0")
                  [] tentative -> [f EXCEPT !.state = "search",
                                     !.answer = IF nodata = Null THEN Null ELSE @]
                  [] OTHER ->
                       IF ns # {}
                       THEN Iterate([f EXCEPT !.answer = Null],
                                    [m \in ns |-> IF HasA(P, m) THEN <<m>> ELSE <<>>])
                       ELSE Goto(f, IF P.rc = "aa" THEN "finish" ELSE "foreach_a"))
       /\ nodata' = IF tentative THEN keep_answer(f.answer) ELSE nodata
       /\ heard' = IF retry THEN heard ELSE heard \cup {[name |-> P.qd, rc |-> P.rc]}

\* recv(): a datagram that is not the answer is thrown away
dns_so_recv ==
    /\ Asking /\ so.st = "udp_recv" /\ udp # <<>>
    /\ udp' = Tail(udp)
    /\ LET P == Head(udp)
       IN \/ /\ ~dns_so_verify(P)
             /\ UNCHANGED <<fr, nodata, so, heard>>
          \/ /\ dns_so_verify(P) /\ P.tc
             /\ so' = [so EXCEPT !.st = "tcp_conn"]
             /\ UNCHANGED <<fr, nodata, heard>>
          \/ /\ dns_so_verify(P) /\ ~P.tc
             /\ so' = [so EXCEPT !.st = "none"]
             /\ Study(P)
    /\ UNCHANGED <<sp, search, qids, sent, refers, res, fixed>>

\* dns_res_exec() returns an error that co_resolve() does not retry: a refused
\* connection, an ICMP error, a closed TCP connection
dns_so_error ==
    /\ Asking /\ so.st \in {"udp_recv", "tcp_conn"}
    /\ res' = Result("error", Nothing)
    /\ UNCHANGED <<fr, sp, search, nodata, so, net, heard, fixed>>

-----------------------------------------------------------------------------
(* Aliases and the end. *)

Target == (CHOOSE r \in Holds(F.answer, "CNAME", F.query.name) : TRUE)[3]
cname0_a ==
    /\ At("cname0")
    /\ \/ HasRoom /\ Call(Goto(F, "cname1"), Query(Target))
       \/ ~HasRoom /\ Frame(Goto(F, "finish")) /\ UNCHANGED sp
    /\ UNCHANGED <<search, nodata>> /\ Silent
cname1_a ==
    /\ At("cname1")
    /\ Frame([F EXCEPT !.answer = dns_res_merge(F.answer, fr[sp + 1].answer),
                       !.state = "finish"])
    /\ UNCHANGED <<sp, search, nodata>> /\ Silent

\* DNS_R_FINISH and DNS_R_DONE: back to the frame above
finish ==
    /\ At("finish") /\ sp > 1
    /\ sp' = sp - 1
    /\ UNCHANGED <<fr, search, nodata>> /\ Silent

\* DNS_AI_S_DONE: no address was found
dns_ai_done(P) == Result(IF P.rc \in {"ok", "aa"} THEN "noname" ELSE P.rc, Nothing)
dns_ai_setent(n) == Result("addr", n)

\* the address of the canonical name of the question
dns_ai_nextent ==
    /\ At("finish") /\ sp = 1
    /\ LET c == dns_d_cname(F.answer.qd, F.answer)
       IN res' = IF Holds(F.answer, "A", c) # {} THEN dns_ai_setent(c)
                 ELSE dns_ai_done(F.answer)
    /\ UNCHANGED <<fr, sp, search, nodata, so, net, heard, fixed>>

\* a file of the configuration cannot be read, or there is no memory or socket
cf_resolve_submit_fails ==
    /\ At("glue") /\ sp = 1
    /\ res' = Result("error", Nothing)
    /\ UNCHANGED <<fr, sp, search, nodata, so, net, heard, fixed>>

\* co_resolve() gives up between two waits
co_resolve_timeout ==
    /\ Asking
    /\ res' = Result("timeout", Nothing)
    /\ UNCHANGED <<fr, sp, search, nodata, so, net, heard, fixed>>

-----------------------------------------------------------------------------
(* The outside world: name servers, network, clock. *)

\* what a server may say to query q: what it knows, that it fails or refuses
\* ("refused" is any such code, to tell it from the "servfail" of the resolver),
\* that it does not understand EDNS0, or a referral, with or without the address
\* of the server it names.  The resolver follows as many referrals as it gets;
\* that they are MaxRefer at most is assumed of the servers.
Replies(q) ==
    LET n == q.name
        known == CASE world[n] = "addr"  -> {[rr |-> {<<"A", n>>}, rc |-> "ok"]}
                   [] world[n] = "none"  -> {[rr |-> {}, rc |-> "aa"]}
                   [] OTHER ->
                        {[rr |-> {<<"CNAME", n, world[n]>>} \cup a, rc |-> "ok"] :
                            a \in IF world[world[n]] = "addr"
                                  THEN {{}, {<<"A", world[n]>>}} ELSE {{}}}
        refer == UNION {{[rr |-> {<<"NS", m>>} \cup a, rc |-> "ok"] :
                            a \in {{}, {<<"glue", m>>}}} : m \in Names}
    IN {[rr |-> {}, rc |-> "refused"]}
       \cup (IF q.edns THEN {[rr |-> {}, rc |-> "formerr"]} ELSE {})
       \cup (IF recurse /\ q.srv \in Range(Servers) THEN {} ELSE known)
       \cup {p \in refer : /\ recurse /\ refers < MaxRefer
                           /\ \A r \in p.rr : r[1] = "glue" => world[r[2]] = "addr"}

\* a datagram for the address the socket is connected to is queued, whichever
\* of the queries sent to that address it answers
Answer ==
    /\ Busy /\ Len(udp) < MaxLate
    /\ \E q \in sent :
          /\ q.srv = so.srv
          /\ \E p \in Replies(q), tc \in BOOLEAN :
                /\ udp' = Append(udp, [qid |-> q.qid, qd |-> q.name, rr |-> p.rr,
                                       rc |-> p.rc, tc |-> tc])
                /\ refers' = IF \E r \in p.rr : r[1] = "NS" THEN refers + 1
                             ELSE refers
    /\ UNCHANGED <<fr, sp, search, nodata, so, qids, sent, heard, res, fixed>>

\* the whole exchange over TCP
dns_so_tcp ==
    /\ Asking /\ so.st = "tcp_conn"
    /\ \E p \in Replies(so) :
          /\ Study([qd |-> so.name, rr |-> p.rr, rc |-> p.rc])
          /\ refers' = IF \E r \in p.rr : r[1] = "NS" THEN refers + 1 ELSE refers
    /\ so' = [so EXCEPT !.st = "none"]
    /\ UNCHANGED <<sp, search, qids, sent, udp, res, fixed>>

\* dns_so_elapsed() reaches options.timeout
Elapse ==
    /\ Asking /\ so.st # "none"
    /\ so' = [so EXCEPT !.late = TRUE]
    /\ UNCHANGED <<fr, sp, search, nodata, net, heard, res, fixed>>

-----------------------------------------------------------------------------
dns_res_exec ==
    \/ glue \/ switch \/ file \/ bind \/ next_name \/ hints \/ foreach_ns
    \/ foreach_a \/ resolv0_ns \/ resolv1_ns \/ query_a_timeout \/ dns_so_send
    \/ dns_so_recv \/ cname0_a \/ cname1_a \/ finish \/ dns_ai_nextent

Next == \/ dns_res_exec \/ dns_so_tcp \/ dns_so_error \/ co_resolve_timeout
        \/ cf_resolve_submit_fails
        \/ Answer \/ Elapse

Spec == Init /\ [][Next]_vars

\* co_resolve() calls dns_res_exec() again after every wait, and time passes;
\* no answer ever need come, and the caller's own timeout is not relied on.
FairSpec == Spec /\ WF_vars(dns_res_exec) /\ WF_vars(Elapse)

-----------------------------------------------------------------------------
(* Properties. *)

\* The stack of frames never outgrows its array: aliases and servers without
\* an address are followed only while &F[1] is inside it.
StackBounded == sp <= MaxDepth /\ (F.state \in {"resolv1", "cname1"} => sp < MaxDepth)

\* the names that the aliases of name n lead through, and the last of them
Path(n) ==
    LET go[k \in 0..Cardinality(Names)] ==
            IF k = 0 THEN n
            ELSE IF world[go[k - 1]] \in {"addr", "none"} THEN go[k - 1]
            ELSE world[go[k - 1]]
    IN go
Chase(n) == Path(n)[Cardinality(Names)]
HasAddress(n) == world[Chase(n)] = "addr"

\* a server would not answer for name n
Refused(n) == \E h \in heard : h.name = n /\ h.rc = "refused"

\* An address that co_resolve() returns is that of the first name of the search
\* list that has one, or of a name its aliases pass that is in the hosts file: no
\* late, repeated or foreign datagram, no retry and no alias can make it take
\* another one's address, or skip a name for which no server failed.
ResolvesRight ==
    res.is = "addr" =>
       \/ res.name \in Hosts /\ \E k \in DOMAIN List : res.name \in Range(Path(List[k]))
       \/ \E k \in DOMAIN List :
             /\ HasAddress(List[k]) /\ res.name = Chase(List[k])
             /\ \A m \in 1..(k - 1) : ~HasAddress(List[m]) \/ Refused(List[m])

\* Every lookup in which the servers make at most MaxRefer referrals ends, also when
\* no server ever answers or all aliases form a loop.  With options.recurse the code
\* counts no referrals: a chain of them without end is ended by the caller's timeout
\* alone, which is not relied on here.
LookupEnds == <>~Busy

\* Without recursion a server failure is made up only when no server has given
\* an answer: the first unsatisfactory one is kept and returned.
FailOnlyUnheard == res.is = "servfail" /\ ~recurse => heard = {}
=============================================================================
