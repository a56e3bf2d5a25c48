--------------------------- MODULE UpdateCommand ---------------------------
(***************************************************************************)
(* The client side of an update: the words of the command line             *)
(* (configuration_parsing/update_command.c) and the dictionaries that are  *)
(* built from the servers they name (cli_commands/cli_update.c).           *)
(*                                                                         *)
(* A word is an option, [json |-> TRUE] or [mode |-> "prefer"], or an      *)
(* argument, [uri |-> ...] or [servers |-> ...] with a sequence of JSON    *)
(* objects. What is neither is not accepted in either place.               *)
(***************************************************************************)
EXTENDS ServerUri

Refuse(options) == [options EXCEPT !.refused = TRUE]

\* One call of parse_update_command_opt. The mode backup is not stored, the
\* servers of the JSON text replace the list, and a text without servers
\* counts as badly formed.
ParseUpdateCommandOpt(options, word) ==
    CASE Type(word) = "json" -> [options EXCEPT !.json = TRUE]
      [] Type(word) = "mode" ->
            CASE Content(word) = "backup" -> options
              [] Content(word) = "prefer" -> [options EXCEPT !.mode = 1]
              [] Content(word) = "exclusive" -> [options EXCEPT !.mode = 2]
              [] OTHER -> Refuse(options)
      [] Type(word) = "uri" ->
            IF options.parsed_as_json \/ options.json \/ ~UriAccepts(Content(word))
            THEN Refuse(options)
            ELSE [options EXCEPT !.servers = Append(@, UriServer(Content(word)))]
      [] Type(word) = "servers" ->
            IF \/ options.parsed_as_json \/ ~options.json \/ Content(word) = <<>>
               \/ \E i \in DOMAIN Content(word) : ~JsonAccepts(Content(word)[i])
            THEN Refuse(options)
            ELSE [options EXCEPT !.parsed_as_json = TRUE,
                    !.servers = [i \in DOMAIN Content(word) |-> JsonServer(Content(word)[i])]]

\* parse_update_command: argp_error ends the program at the first error.
ParseUpdateCommand(words) ==
    LET options[n \in 0..Len(words)] ==
            IF n = 0 THEN [json |-> FALSE, parsed_as_json |-> FALSE, mode |-> 0,
                           servers |-> <<>>, refused |-> FALSE]
            ELSE IF options[n - 1].refused THEN options[n - 1]
            ELSE ParseUpdateCommandOpt(options[n - 1], words[n])
    IN  options[Len(words)]

\* Variant: what has its default value is left out, and validation with it
BuildServersVariantUnvalidated(server) ==
    LET given == {"address", "priority", "protocol"}
                 \cup {key \in {"port"} : server.port > 0}
                 \cup {key \in {"interface"} : server.interface # "empty"}
                 \cup {key \in {"ca", "name"} : server[key] # "none"}
                 \cup {key \in {"routing_domains", "search_domains", "networks"} :
                            server[key] # <<>>}
    IN  [key \in given |-> IF key = "protocol" THEN DnsProtocolToString(server.protocol)
                                               ELSE server[key]]

\* The dictionary of a server: optional keys are there only if they are set.
BuildServersVariant(server) ==
    LET given == {"address", "priority", "protocol", "dnssec"}
                 \cup {key \in {"port"} : server.port > 0}
                 \cup {key \in {"interface"} : server.interface # "empty"}
                 \cup {key \in {"ca", "name"} : server[key] # "none"}
                 \cup {key \in {"routing_domains", "search_domains", "networks"} :
                            server[key] # <<>>}
    IN  [key \in given |-> IF key = "protocol" THEN DnsProtocolToString(server.protocol)
                                               ELSE server[key]]
=============================================================================
