--------------------------- MODULE NetworkAddress ---------------------------
(***************************************************************************)
(* types/network_address.c: the networks whose reverse zones a server is   *)
(* responsible for.                                                        *)
(*                                                                         *)
(* A network is a record with its family ("none" when the address does not *)
(* parse), the labels of the address, from the most significant one, and   *)
(* the prefix. A domain name is the sequence of its labels from the root   *)
(* down, so that a zone holds the names that it is a prefix of.            *)
(***************************************************************************)
EXTENDS Integers, Sequences

CONSTANTS
    Labels,     \* labels of an address: 4 octets or 32 nibbles
    LabelBits   \* bits of a label: 8 or 4

Family == {"v4", "v6"}
Bits(family) == Labels[family] * LabelBits[family]

ASSUME FamilyAssumption ==
    /\ Labels \in [Family -> Nat] /\ LabelBits \in [Family -> Nat \ {0}]
    /\ Bits("v4") <= Bits("v6")

\* network_address_t_from_string
NetworkParses(network) ==
    /\ network.prefix \in 0..Bits("v6")
    /\ network.family \in Family
    /\ network.family = "v4" => network.prefix <= Bits("v4")

Suffix(family) == IF family = "v4" THEN "in-addr.arpa" ELSE "ip6.arpa"

\* Variant: a label that is only partly fixed counts
ReverseDnsRoundedUp(network) ==
    LET bits == LabelBits[network.family]
        fixed == (network.prefix + bits - 1) \div bits
    IN  <<Suffix(network.family)>> \o SubSeq(network.address, 1, fixed)

\* network_address_t_to_reverse_dns: the labels that the prefix fixes as a whole
ReverseDns(network) ==
    LET fixed == network.prefix \div LabelBits[network.family]
        count == IF fixed > Labels[network.family] THEN Labels[network.family] ELSE fixed
    IN  <<Suffix(network.family)>> \o SubSeq(network.address, 1, count)

-----------------------------------------------------------------------------
(* What the zone of a network has to be                                    *)

AddressesOf(family) == [1..Labels[family] -> 0..(2^LabelBits[family] - 1)]

\* The addresses that share the first bits of the network
Members(network) ==
    LET bits == LabelBits[network.family]
        Fixed(i) == LET n == network.prefix - bits * (i - 1)
                    IN  IF n < 0 THEN 0 ELSE IF n > bits THEN bits ELSE n
    IN  {a \in AddressesOf(network.family) :
            \A i \in DOMAIN a :
                a[i] \div 2^(bits - Fixed(i)) = network.address[i] \div 2^(bits - Fixed(i))}

ReverseName(family, address) == <<Suffix(family)>> \o address

Holds(zone, name) == Len(zone) <= Len(name) /\ SubSeq(name, 1, Len(zone)) = zone

\* The deepest zone that holds the reverse names of a whole network
ZoneOf(network) ==
    LET names == {ReverseName(network.family, a) : a \in Members(network)}
        zones == {z \in {SubSeq(n, 1, k) : n \in names, k \in 1..(Labels[network.family] + 1)} :
                    \A n \in names : Holds(z, n)}
    IN  CHOOSE z \in zones : \A y \in zones : Len(y) <= Len(z)
=============================================================================
