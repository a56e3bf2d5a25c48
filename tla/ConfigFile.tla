----------------------------- MODULE ConfigFile -----------------------------
(***************************************************************************)
(* The parser of one configuration file: parse_single_config_file and the  *)
(* parsers it calls (configuration_parsing/config_file.c).                 *)
(*                                                                         *)
(* A file is the sequence of the YAML events inside its top-level mapping: *)
(*   [type |-> "scalar", value]      a key or a value                      *)
(*   [type |-> "sequence", items]    a list, with the events in it         *)
(*   [type |-> "mapping_start"], [type |-> "mapping_end"]                  *)
(*   [type |-> "broken"]             the point where libyaml gives up      *)
(* A list inside the list of a server's field, of the zones, of the        *)
(* includes or of an option that takes no list is outside the model.       *)
(*                                                                         *)
(* Each parser is a fold over events. Its state carries the error that     *)
(* ends the parsing, and the key that waits for its value.                 *)
(***************************************************************************)
EXTENDS Integers, SequencesExt

CONSTANTS
    Address,    \* addresses that inet_pton accepts
    Level,      \* names of log levels
    Number,     \* strtol: a function on the strings that are numbers
    Network,    \* networks that parse
    INT_MIN, INT_MAX

ASSUME NumberAssumption == \A s \in DOMAIN Number : Number[s] \in Int

Unset == "unset"

-----------------------------------------------------------------------------
(* dnsconfd_config_t                                                       *)

StringOption == {"file_log", "resolv_conf_path", "resolver_options", "certification_authority"}
BooleanOption == {"stderr_log", "syslog_log", "prioritize_wire", "dnssec_enabled"}
FileOption == StringOption \cup BooleanOption \cup {"log_level", "listen_address"}
Option == FileOption \cup {"config_file"}

EmptyConfig == [values |-> [o \in Option |-> Unset], static_servers |-> <<>>, rpz_zones |-> <<>>]

\* parse_boolean has no error. A log level that is not known is -1, which
\* is also what an unset level is.
ParseValue(option, value) ==
    IF option \in BooleanOption THEN IF value \in {"yes", "1"} THEN "yes" ELSE "no"
    ELSE IF option = "log_level" /\ value \notin Level THEN Unset
    ELSE value

-----------------------------------------------------------------------------
\* FoldLeft of SequencesExt, written so that TLC computes each state once
Consume(Event(_, _), start, events) ==
    LET state[n \in 0..Len(events)] ==
            IF n = 0 THEN start
            ELSE CHOOSE t \in {Event(s, events[n]) : s \in {state[n - 1]}} : TRUE
    IN  state[Len(events)]

Failed(s) == [s EXCEPT !.error = TRUE]

\* The strings of a list of strings; anything else in it is passed over.
Strings(items) ==
    LET scalars == SelectSeq(items, LAMBDA e : e.type = "scalar")
    IN  [i \in DOMAIN scalars |-> scalars[i].value]

BrokenIn(items) == \E i \in DOMAIN items : items[i].type = "broken"

-----------------------------------------------------------------------------
(* parse_static_servers                                                    *)

ParseProtocolString(name) ==
    CASE name = "dns+udp" -> 0 [] name = "dns+tcp" -> 1 [] name = "dns+tls" -> 2

NewServer ==
    [address |-> Unset, port |-> 0, protocol |-> 0, dnssec |-> 1, priority |-> 0, name |-> Unset,
     routing_domains |-> <<>>, search_domains |-> <<>>, networks |-> <<>>]

FieldAccepts(key, value) ==
    /\ key \in {"name", "protocol", "address", "port", "dnssec", "priority"}
    /\ key = "protocol" => value \in {"dns+udp", "dns+tcp", "dns+tls"}
    /\ key = "address" => value \in Address
    /\ key = "port" => value \in DOMAIN Number /\ Number[value] \in 0..65535
    /\ key = "priority" => value \in DOMAIN Number /\ Number[value] \in INT_MIN..INT_MAX

\* Once switched off, dnssec stays off.
FieldValue(server, key, value) ==
    CASE key = "protocol" -> ParseProtocolString(value)
      [] key \in {"port", "priority"} -> Number[value]
      [] key = "dnssec" -> IF value \in {"1", "yes"} THEN server.dnssec ELSE 0
      [] OTHER -> value

ServerList(s, e) ==
    LET lists == {"routing_domains", "search_domains", "networks"}
        values == Strings(e.items)
    IN  IF \/ ~s.open \/ s.key \notin lists \/ BrokenIn(e.items)
           \/ s.key = "networks" /\ ~(ToSet(values) \subseteq Network)
        THEN Failed(s)
        ELSE [s EXCEPT !.server[s.key] = @ \o values, !.key = Unset]

ServerScalar(s, value) ==
    IF s.key = Unset THEN [s EXCEPT !.key = value]
    ELSE IF ~s.open THEN [s EXCEPT !.key = Unset]
    ELSE IF ~FieldAccepts(s.key, value) THEN Failed(s)
    ELSE [s EXCEPT !.server[s.key] = FieldValue(s.server, s.key, value), !.key = Unset]

\* Variant: no default for the routing domains
EndServerUnrouted(s) ==
    IF ~s.open THEN s
    ELSE IF s.server.address = Unset THEN Failed(s)
    ELSE LET server == [s.server EXCEPT
                            !.port = IF @ # 0 THEN @ ELSE IF s.server.protocol # 2 THEN 53 ELSE 853]
         IN  [s EXCEPT !.done = Append(@, server), !.open = FALSE, !.server = NewServer]

\* The root domain and the port of the protocol are the defaults.
EndServer(s) ==
    IF ~s.open THEN s
    ELSE IF s.server.address = Unset THEN Failed(s)
    ELSE LET server == [s.server EXCEPT
                            !.routing_domains = IF @ = <<>> THEN <<".">> ELSE @,
                            !.port = IF @ # 0 THEN @ ELSE IF s.server.protocol # 2 THEN 53 ELSE 853]
         IN  [s EXCEPT !.done = Append(@, server), !.open = FALSE, !.server = NewServer]

ServerEvent(s, e) ==
    IF s.error THEN s
    ELSE CASE e.type = "sequence" -> ServerList(s, e)
           [] e.type = "mapping_start" -> IF s.open THEN Failed(s) ELSE [s EXCEPT !.open = TRUE]
           [] e.type = "mapping_end" -> EndServer(s)
           [] e.type = "scalar" -> ServerScalar(s, e.value)
           [] e.type = "broken" -> Failed(s)

ParseStaticServers(items) ==
    Consume(ServerEvent,
             [done |-> <<>>, server |-> NewServer, open |-> FALSE, key |-> Unset, error |-> FALSE],
             items)

-----------------------------------------------------------------------------
(* parse_rpz_zones                                                         *)

NewZone == [name |-> Unset, master |-> Unset, zonefile |-> Unset]

ZoneScalar(s, value) ==
    IF s.key = Unset THEN [s EXCEPT !.key = value]
    ELSE IF ~s.open THEN [s EXCEPT !.key = Unset]
    ELSE IF s.key \notin DOMAIN NewZone THEN Failed(s)
    ELSE [s EXCEPT !.zone[s.key] = value, !.key = Unset]

EndZone(s) ==
    IF ~s.open THEN s
    ELSE IF s.zone.name = Unset \/ (s.zone.master = Unset /\ s.zone.zonefile = Unset) THEN Failed(s)
    ELSE [s EXCEPT !.done = Append(@, s.zone), !.open = FALSE, !.zone = NewZone]

ZoneEvent(s, e) ==
    IF s.error THEN s
    ELSE CASE e.type = "mapping_start" -> IF s.open THEN Failed(s) ELSE [s EXCEPT !.open = TRUE]
           [] e.type = "mapping_end" -> EndZone(s)
           [] e.type = "scalar" -> ZoneScalar(s, e.value)
           [] e.type = "broken" -> Failed(s)

ParseRpzZones(items) ==
    Consume(ZoneEvent,
             [done |-> <<>>, zone |-> NewZone, open |-> FALSE, key |-> Unset, error |-> FALSE],
             items)

-----------------------------------------------------------------------------
(* parse_single_config_file                                                *)

\* A value for the key that waits. Every other key is refused.
FileScalar(s, value) ==
    IF s.error THEN s
    ELSE IF s.key = Unset THEN [s EXCEPT !.key = value]
    ELSE IF s.key = "include" THEN [s EXCEPT !.includes = Append(@, value), !.key = Unset]
    ELSE IF s.key \notin FileOption \/ (s.key = "listen_address" /\ value \notin Address)
    THEN Failed(s)
    ELSE [s EXCEPT !.config.values[s.key] = ParseValue(s.key, value), !.key = Unset]

\* An item of a list that belongs to no key with a list
StrayItem(s, e) ==
    IF e.type = "scalar" THEN FileScalar(s, e.value) ELSE Failed(s)

FileList(s, items) ==
    CASE s.key = "static_servers" ->
            LET r == ParseStaticServers(items)
            IN  [s EXCEPT !.config.static_servers = @ \o r.done, !.key = Unset, !.error = r.error]
      [] s.key = "rpz" ->
            LET r == ParseRpzZones(items)
            IN  [s EXCEPT !.config.rpz_zones = @ \o r.done, !.key = Unset, !.error = r.error]
      [] s.key = "include" ->
            [s EXCEPT !.includes = @ \o Strings(items), !.key = Unset, !.error = BrokenIn(items)]
      [] OTHER -> Consume(StrayItem, s, items)

FileEvent(s, e) ==
    IF s.error THEN s
    ELSE CASE e.type = "sequence" -> FileList(s, e.items)
           [] e.type = "scalar" -> FileScalar(s, e.value)
           [] OTHER -> Failed(s)

\* What becomes of the configuration, and the paths the file includes
ParseSingleConfigFile(file, config) ==
    Consume(FileEvent, [config |-> config, includes |-> <<>>, key |-> Unset, error |-> FALSE], file)
=============================================================================
