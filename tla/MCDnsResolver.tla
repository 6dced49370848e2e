--------------------------- MODULE MCDnsResolver ---------------------------
(* Instances of DnsResolver for TLC: the name "b" is tried as "a" under the one
   domain of the search list first; what is known of "c" matters as the target
   of aliases. *)
EXTENDS DnsResolver

MCNames == {"a", "b", "c"}
MCSearch == <<"a">>
OneServer == <<"s">>
TwoServers == <<"s", "t">>
MCLookup == <<"b", "f">>
World(x, y, z) == [a |-> x, b |-> y, c |-> z]
MCWorlds == {World("none", "addr", "none"),  \* the second name of the list
             World("c", "addr", "addr"),     \* an alias of the first
             World("c", "addr", "none"),     \* an alias that leads nowhere
             World("b", "a", "addr")}        \* a loop
=============================================================================
