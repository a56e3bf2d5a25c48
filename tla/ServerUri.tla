----------------------------- MODULE ServerUri -----------------------------
(***************************************************************************)
(* types/server_uri.c: a server, and the two forms in which the            *)
(* administrator may write one.                                            *)
(*                                                                         *)
(* A value carries its type: [int |-> 5]. In a URI the types are int for a *)
(* decimal number, text, network and missing; in JSON they are int,        *)
(* string, boolean, strings, networks and other. A string that is not set  *)
(* is "none" or, for the interface, "empty".                               *)
(***************************************************************************)
EXTENDS NetworkAddress

CONSTANTS
    Address,    \* addresses that parse
    LongName,   \* interface names of IFNAMSIZ characters and more
    INT_MIN     \* the least int

ASSUME IntAssumption == INT_MIN \in Int /\ INT_MIN < -10

MaxPort == 65535
IntRange == INT_MIN..(-INT_MIN - 1)
Elements(seq) == {seq[i] : i \in DOMAIN seq}
Type(value) == CHOOSE type \in DOMAIN value : TRUE
Content(value) == value[Type(value)]
Get(dict, key, default) == IF key \in DOMAIN dict THEN dict[key] ELSE default

\* protocol_from_nstring looks at six of the seven characters: "dns+tlx"
\* stands for the names that differ in the last one only.
ProtocolName == {"dns+udp", "dns+tcp", "dns+tls", "dns+tlx"}

Protocol(name) ==
    CASE name = "dns+udp" -> 0 [] name = "dns+tcp" -> 1 [] name \in {"dns+tls", "dns+tlx"} -> 2

DnsProtocolToString(protocol) ==
    CASE protocol = 0 -> "dns+udp" [] protocol = 1 -> "dns+tcp" [] protocol = 2 -> "dns+tls"

-----------------------------------------------------------------------------
(* URIs: the scheme ("none" if absent), the host, the port (0 if absent)   *)
(* and the query, a sequence of keys with their values                     *)

Values(uri, key) ==
    LET nodes == SelectSeq(uri.query, LAMBDA n : n.key = key)
    IN  [i \in DOMAIN nodes |-> Content(nodes[i].value)]

LastValue(uri, key, default) ==
    LET values == Values(uri, key) IN IF values = <<>> THEN default ELSE values[Len(values)]

\* Variant: any interface name
UriAcceptsAnyInterface(uri) ==
    /\ uri.scheme \in ProtocolName \cup {"none"}
    /\ uri.host \in Address /\ uri.port \in 0..MaxPort
    /\ \A i \in DOMAIN uri.query :
        LET key == uri.query[i].key
            given == uri.query[i].value
        IN  /\ Type(given) # "missing"
            /\ key = "priority" => Type(given) = "int" /\ Content(given) \in IntRange
            /\ key = "network" => Type(given) = "network" /\ NetworkParses(Content(given))

\* server_uri_t_init_from_string and parse_query: what is not refused
UriAccepts(uri) ==
    /\ uri.scheme \in ProtocolName \cup {"none"}
    /\ uri.host \in Address /\ uri.port \in 0..MaxPort
    /\ \A i \in DOMAIN uri.query :
        LET key == uri.query[i].key
            given == uri.query[i].value
        IN  /\ Type(given) # "missing"
            /\ key = "priority" => Type(given) = "int" /\ Content(given) \in IntRange
            /\ key = "interface" => Content(given) \notin LongName
            /\ key = "network" => Type(given) = "network" /\ NetworkParses(Content(given))

\* A value that starts with the digit 0 turns validation off: 0 stands for all of them.
TurnsOff(node) == node.key = "dnssec" /\ Type(node.value) = "int" /\ Content(node.value) = 0

\* The last value of a key counts, except that validation stays off.
UriServer(uri) ==
    LET off == {i \in DOMAIN uri.query : TurnsOff(uri.query[i])}
    IN  [address |-> uri.host, port |-> uri.port,
         priority |-> LastValue(uri, "priority", 0),
         protocol |-> IF uri.scheme = "none" THEN 0 ELSE Protocol(uri.scheme),
         interface |-> LastValue(uri, "interface", "empty"),
         dnssec |-> off = {},
         ca |-> LastValue(uri, "ca", "none"), name |-> LastValue(uri, "name", "none"),
         routing_domains |-> Values(uri, "domain"),
         search_domains |-> Values(uri, "search"),
         networks |-> Values(uri, "network")]

-----------------------------------------------------------------------------
(* JSON: a server is an object, that is a function on the keys present     *)

FieldType ==
    [port |-> {"int"}, protocol |-> {"string"}, priority |-> {"int"}, interface |-> {"string"},
     dnssec |-> {"boolean", "int", "string"}, ca |-> {"string"}, name |-> {"string"},
     routing_domains |-> {"strings"}, search_domains |-> {"strings"}, networks |-> {"networks"}]

\* The parsers of optional_fields
FieldAccepts(key, given) ==
    /\ Type(given) \in FieldType[key]
    /\ key = "port" => Content(given) \in 0..MaxPort
    /\ key = "protocol" => Content(given) \in ProtocolName
    /\ key = "priority" => Content(given) \in IntRange
    /\ key = "interface" => Content(given) \notin LongName
    /\ key = "networks" => \A i \in DOMAIN Content(given) : NetworkParses(Content(given)[i])

JsonAccepts(object) ==
    /\ "address" \in DOMAIN object /\ Type(object["address"]) = "string"
    /\ Content(object["address"]) \in Address
    /\ \A key \in DOMAIN object \cap DOMAIN FieldType : FieldAccepts(key, object[key])

JsonServer(object) ==
    LET Value(key, default) == IF key \in DOMAIN object THEN Content(object[key]) ELSE default
        dnssec == Get(object, "dnssec", [boolean |-> TRUE])
    IN  [address |-> Content(object["address"]), port |-> Value("port", 0),
         priority |-> Value("priority", 0),
         protocol |-> Protocol(Value("protocol", "dns+udp")),
         interface |-> Value("interface", "empty"),
         dnssec |-> CASE Type(dnssec) = "boolean" -> Content(dnssec)
                      [] Type(dnssec) = "int" -> Content(dnssec) # 0
                      [] Type(dnssec) = "string" -> Content(dnssec) # "0",
         ca |-> Value("ca", "none"), name |-> Value("name", "none"),
         routing_domains |-> Value("routing_domains", <<>>),
         search_domains |-> Value("search_domains", <<>>),
         networks |-> Value("networks", <<>>)]
=============================================================================
