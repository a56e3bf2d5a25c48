---------------------------- MODULE MCUpdatePath ----------------------------
(* A small instance of UpdatePath for TLC.                                  *)
EXTENDS UpdatePath

\* The range of a six-bit int
MCIntMin == -32

\* Two labels of two bits, five labels of one bit
MCLabels == [v4 |-> 2, v6 |-> 5]
MCLabelBits == [v4 |-> 2, v6 |-> 1]

\* An internationalised name and a plain one
MCToAscii == [corp |-> "corp", buecher |-> "xn--bcher-kva"]

\* A prefix inside a label, at its end, and one that is too long for v4
Inside == [family |-> "v4", address |-> <<2, 0>>, prefix |-> 3]
Whole == [family |-> "v6", address |-> <<1, 0, 0, 0, 0>>, prefix |-> 2]
TooLong == [family |-> "v4", address |-> <<2, 1>>, prefix |-> 5]

MCDomain ==
    {".", "corp", "xn--bcher-kva"}
    \cup {ZoneName(z) : z \in {<<"in-addr.arpa">>, <<"in-addr.arpa", 2>>, <<"in-addr.arpa", 2, 0>>,
                               <<"ip6.arpa">>, <<"ip6.arpa", 1>>, <<"ip6.arpa", 1, 0>>,
                               <<"ip6.arpa", 1, 0, 0>>}}

\* Servers that differ in what the table looks at
TableDicts ==
    {[address |-> "a"],
     [address |-> "a", dnssec |-> FALSE, routing_domains |-> <<"empty", "corp">>],
     [address |-> "b", interface |-> "eth0", routing_domains |-> <<"corp", "empty", "corp">>],
     [address |-> "c", protocol |-> "dns+tlx", routing_domains |-> <<"empty", "corp">>],
     [address |-> "c", priority |-> 10, interface |-> "wlan0", routing_domains |-> <<"corp">>,
      networks |-> <<Inside>>],
     [address |-> "d", priority |-> 10, protocol |-> "dns+tls", ca |-> "bundle", name |-> "d.corp",
      networks |-> <<Whole, Inside>>]}

\* Two addresses on a wired and a wireless interface and on none, with
\* priorities at both sides of INT_MIN + 10, and the optional keys
CallDicts ==
    {[address |-> "a", interface |-> "wlan0", priority |-> -28],
     [address |-> "a", interface |-> "eth0", priority |-> -30, port |-> 5353],
     [address |-> "b", interface |-> "wlan0", protocol |-> "dns+tls", routing_domains |-> <<>>],
     [address |-> "b", interface |-> "eth0", priority |-> -28, port |-> 0,
      routing_domains |-> <<"empty", "buecher">>, search_domains |-> <<"corp">>]}

\* One dictionary for each error, and one with two
BadDicts ==
    {[port |-> 53],
     [address |-> "a.b"],
     [address |-> "a", port |-> -1],
     [address |-> "b", port |-> 65536, protocol |-> "dns+quic"],
     [address |-> "b", protocol |-> "dns+quic"],
     [address |-> "b", interface |-> "averyverylongname"],
     [address |-> "b", routing_domains |-> <<"corp", "b..d">>],
     [address |-> "b", search_domains |-> <<"b..d">>],
     [address |-> "b", networks |-> <<Inside, TooLong>>]}

GoodDicts == TableDicts \cup CallDicts

MCCalls ==
    {<<>>} \cup {<<d>> : d \in GoodDicts \cup BadDicts}
    \cup {<<d, e>> : d \in TableDicts, e \in TableDicts}
    \cup {<<d, e>> : d \in CallDicts, e \in CallDicts}
    \cup {call \in [1..3 -> CallDicts] : \A i, j \in 1..3 : i # j => call[i] # call[j]}
    \cup {<<[address |-> "a"], bad>> : bad \in BadDicts}

\* No static servers, one bound to an interface, two with the same domain
Static(address, interface, domains, networks) ==
    [address |-> address, port |-> 53, priority |-> 0, protocol |-> 0, interface |-> interface,
     dnssec |-> TRUE, ca |-> "none", name |-> "none", routing_domains |-> domains,
     search_domains |-> <<>>, networks |-> networks]
MCStaticLists ==
    {<<>>, <<Static("s", "eth0", <<".", "corp">>, <<Whole>>)>>,
     <<Static("s", "empty", <<"corp">>, <<>>), Static("a", "eth0", <<"corp">>, <<Inside>>)>>}

-----------------------------------------------------------------------------
(* Command lines                                                           *)

Num(n) == [int |-> n]
Text(t) == [text |-> t]
Node(key, value) == [key |-> key, value |-> value]
Uri(scheme, host, port, query) ==
    [uri |-> [scheme |-> scheme, host |-> host, port |-> port, query |-> query]]
Mode(value) == [mode |-> value]
Json(objects) == [servers |-> objects]
Str(s) == [string |-> s]

PlainUri == Uri("none", "a", 0, <<>>)
FullUri ==
    Uri("dns+tls", "b", 8853,
        <<Node("priority", Num(5)), Node("priority", Num(-28)), Node("domain", Text("empty")),
          Node("domain", Text("buecher")), Node("search", Text("corp")),
          Node("interface", Text("wlan0")), Node("dnssec", Num(0)), Node("dnssec", Num(1)),
          Node("ca", Text("bundle")), Node("name", Text("b.corp")),
          Node("network", [network |-> Inside]), Node("colour", Text("red"))>>)

\* Queries that are refused, and one that only the daemon refuses
OddUris ==
    {Uri("dns+udp", "a", 0, <<Node(pair[1], pair[2])>>) :
        pair \in {<<"priority", Num(32)>>, <<"priority", Text("high")>>,
                  <<"interface", Text("averyverylongname")>>, <<"dnssec", Text("no")>>,
                  <<"colour", [missing |-> "none"]>>,
                  <<"network", [network |-> TooLong]>>,
                  <<"domain", Text("b..d")>>}}
    \cup {Uri("dns+quic", "a", 0, <<>>), Uri("none", "a.b", 0, <<>>), Uri("none", "a", 65536, <<>>)}

PlainObject == [address |-> Str("a"), dnssec |-> Str("0")]
FullObject ==
    [address |-> Str("b"), port |-> Num(0), protocol |-> Str("dns+tcp"), priority |-> Num(-32),
     interface |-> Str("eth0"), dnssec |-> Num(0), ca |-> Str("bundle"), name |-> Str("b.corp"),
     routing_domains |-> [strings |-> <<>>],
     search_domains |-> [strings |-> <<"corp">>],
     networks |-> [networks |-> <<Whole>>]]

OddObjects ==
    {[port |-> Num(53)], [address |-> Str("a.b")], [address |-> Num(4)]}
    \cup {[address |-> Str("a"), priority |-> p] : p \in {Num(-33), Str("high")}}
    \cup {[address |-> Str("a"), port |-> Num(65536)],
          [address |-> Str("a"), protocol |-> Str("dns+quic")],
          [address |-> Str("a"), interface |-> Str("averyverylongname")],
          [address |-> Str("a"), dnssec |-> [other |-> "none"]],
          [address |-> Str("a"), dnssec |-> [boolean |-> FALSE]],
          [address |-> Str("a"), networks |-> [networks |-> <<TooLong>>]],
          [address |-> Str("a"), routing_domains |-> [strings |-> <<"b..d">>]]}

JsonOption == [json |-> TRUE]

MCCommands ==
    {<<Mode("prefer"), PlainUri, FullUri>>, <<FullUri, Mode("exclusive")>>, <<Mode("backup")>>,
     <<Mode("exclusive"), Mode("backup"), PlainUri>>, <<Mode("never"), PlainUri>>,
     <<PlainUri, JsonOption, Json(<<FullObject>>)>>,
     <<JsonOption, Json(<<PlainObject, FullObject>>)>>,
     <<JsonOption, Json(<<>>)>>, <<JsonOption, PlainUri>>, <<Json(<<PlainObject>>)>>,
     <<JsonOption, Json(<<PlainObject>>), Json(<<FullObject>>)>>}
    \cup {<<uri>> : uri \in OddUris}
    \cup {<<JsonOption, Json(<<PlainObject, object>>)>> : object \in OddObjects}
=============================================================================
