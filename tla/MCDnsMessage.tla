---------------------------- MODULE MCDnsMessage ----------------------------
(* Records of every kind, with names that share suffixes and differ in case.  *)
EXTENDS DnsMessage

x   == <<120>>
y   == <<121>>
Y   == <<89>>
z   == <<122, 90>>
Day == <<0, 1, 81, 128>>
Rec(s, n, t, d) == [sec |-> s, name |-> n, type |-> t, class |-> 1, ttl |-> Day, data |-> d]
N4(k) == <<0, 0, 0, k>>

SomePushes ==
    { Rec(QD, <<y, x>>, T_A, <<>>),
      Rec(AN, <<y, x>>, T_A, <<<<10, 0, 0, 2>>>>), Rec(AN, <<Y, x>>, T_A, <<<<10, 0, 0, 1>>>>),
      [Rec(AN, <<z, y, x>>, T_CNAME, <<<<y, x>>>>) EXCEPT !.ttl = <<128, 0, 0, 0>>],
      Rec(AN, <<x>>, T_MX, <<<<0, 5>>, <<z, x>>>>),
      Rec(AN, <<x>>, T_TXT, <<65, 66, 67, 68, 69>>),
      Rec(NS, <<x>>, T_NS, <<<<z, Y, x>>>>),
      Rec(NS, <<>>, T_SOA, <<<<z, x>>, <<y>>, N4(1), <<128, 0, 0, 2>>, <<255, 0, 0, 3>>, N4(4), <<128, 0, 0, 5>>>>),
      Rec(AR, <<z, y, x>>, T_SRV, <<<<0, 1>>, <<0, 2>>, <<1, 3>>, <<z, y, x>>>>),
      [Rec(AR, <<>>, T_OPT, <<0, 10, 0, 2, 7, 7>>) EXCEPT !.class = 4096, !.ttl = <<255, 0, 128, 0>>],
      Rec(AR, <<y, x>>, T_A, <<<<10, 0, 0, 2>>>>) }
=============================================================================
