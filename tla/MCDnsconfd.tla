----------------------------- MODULE MCDnsconfd -----------------------------
(* Small instances of Dnsconfd for TLC.                                     *)
EXTENDS DnsconfdInvariants

Server(addr, priority, protocol, dnssec, interface, ca, domains) ==
    [addr |-> addr, priority |-> priority, protocol |-> protocol, dnssec |-> dnssec,
     interface |-> interface, ca |-> ca, domains |-> domains,
     search |-> {domains[k] : k \in DOMAIN domains} \ {Root}]

MCDomain == {Root, "corp"}
MCIntMin == -128

\* A global resolver, the resolver of a company network that does not
\* validate, and a global resolver over TLS with a bundle of its own
Plain == Server("plain", 0, DNS_UDP, 1, "none", "none", <<Root>>)
Corp == Server("corp", 0, DNS_UDP, 0, "eth0", "none", <<Root, "corp">>)
Tls == Server("tls", 10, DNS_TLS, 1, "none", "bundle", <<Root>>)

TlsRoot == [Tls EXCEPT !.ca = ConfigCa]
TlsCorp == [Tls EXCEPT !.domains = <<"corp">>, !.search = {"corp"}]

Preferred == [Plain EXCEPT !.priority = 20]

NoServers == <<>>

\* The first update names two bundles, that of the configuration and another
\* one; the order of the hash table decides whether the running Unbound can
\* take it over. It brings a search domain. The second withdraws every server.
MixedUpdates == {[servers |-> <<TlsRoot, TlsCorp>>, mode |-> MODE_PREFER],
                 [servers |-> <<>>, mode |-> MODE_PREFER]}

\* Both updates keep the bundle of the configuration.
PlainUpdates == {[servers |-> <<Plain>>, mode |-> MODE_BACKUP],
                 [servers |-> <<Plain, Corp>>, mode |-> MODE_PREFER]}

OneUpdate == {[servers |-> <<Plain, Corp>>, mode |-> MODE_PREFER]}

\* A TLS server that is not used because a better server is there
UnusedTls == {[servers |-> <<Preferred, Tls>>, mode |-> MODE_BACKUP]}
=============================================================================
