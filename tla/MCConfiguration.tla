-------------------------- MODULE MCConfiguration --------------------------
(* A small instance of Configuration for TLC.                               *)
EXTENDS Configuration

Scalar(v) == [type |-> "scalar", value |-> v]
Sequence(items) == [type |-> "sequence", items |-> items]
Entry(key, value) == <<Scalar(key), Scalar(value)>>
ListEntry(key, items) == <<Scalar(key), Sequence(items)>>
Broken == <<[type |-> "broken"]>>
Mapping(entries) == <<[type |-> "mapping_start"]>> \o entries \o <<[type |-> "mapping_end"]>>

MCNumber == [x \in {"0", "5", "9", "5353", "65536"} |->
    CASE x = "0" -> 0 [] x = "5" -> 5 [] x = "5353" -> 5353 [] x = "65536" -> 65536 [] x = "9" -> 9]

MCIntMin == -8
MCIntMax == 7

MCFile == {"main", "a", "b"}

\* A directory with two files and a pattern that matches none
MCGlob == [x \in {"dir", "none*"} |-> IF x = "dir" THEN <<"a", "b">> ELSE <<>>]

MCDefault == [o \in Option |->
    CASE o = "config_file" -> "main" [] o = "file_log" -> Unset [] o = "log_level" -> "info"
      [] o \in BooleanOption -> "no" [] OTHER -> "default"]

-----------------------------------------------------------------------------
(* Ways for three files to include each other                              *)

Includes ==
    {<<>>, Entry("include", "a"), Entry("include", "dir"),
     ListEntry("include", <<Scalar("b"), Scalar("a")>>), Entry("include", "b") \o Entry("include", "dir"),
     ListEntry("include", <<Scalar("none*"), Scalar("gone"), Scalar("main")>>)}

Named(name, includes) == Entry("file_log", name) \o includes

Graphs == {[main |-> Named("m", m), a |-> a, b |-> b] :
               m \in Includes, a \in {Named("a", i) : i \in Includes} \cup {Absent},
               b \in {Named("b", i) : i \in Includes} \cup {<<>>, Absent}}

MCContent == {Entry("log_level", "debug"), Named("new", Entry("include", "dir")), Broken}

-----------------------------------------------------------------------------
(* Contents of a file: lists of servers and zones, and errors              *)

Good == Mapping(Entry("address", "ip"))
Full == Mapping(Entry("port", "5353") \o Entry("address", "ip") \o Entry("protocol", "dns+tls")
                \o Entry("dnssec", "no") \o Entry("priority", "5") \o Entry("name", "corp")
                \o ListEntry("routing_domains", <<Scalar("corp")>>)
                \o ListEntry("networks", <<Scalar("net")>>))
Tls == Mapping(Entry("protocol", "dns+tls") \o Entry("port", "0") \o Entry("dnssec", "1")
               \o Entry("address", "ip") \o ListEntry("search_domains", <<>>))

ServerLists == {Good \o Full, Tls \o Good, Entry("stray", "words") \o Good}
    \cup {Good \o Mapping(bad) : bad \in
            {<<>>, Entry("address", "ip.") , Entry("port", "65536"), Entry("priority", "9"),
             Entry("protocol", "dns+quic"), Entry("colour", "red"), Mapping(Entry("address", "ip")),
             ListEntry("address", <<Scalar("ip")>>), ListEntry("networks", <<Scalar("net/129")>>),
             ListEntry("routing_domains", Broken), Broken}}
    \cup {ListEntry("stray", <<>>)}

Zone(entries) == Mapping(Entry("name", "z") \o entries)

ZoneLists == {Zone(Entry("master", "ip")) \o Zone(Entry("zonefile", "f")),
              Entry("stray", "words") \o Zone(Entry("master", "ip")), Zone(<<>>),
              Mapping(Entry("master", "ip")), Zone(Entry("master", "ip") \o Entry("serial", "1")),
              Zone(Mapping(<<>>)), Broken}

Mains ==
    {ListEntry("static_servers", l) : l \in ServerLists} \cup {ListEntry("rpz", l) : l \in ZoneLists}
    \cup {Entry("log_level", "loud"), Entry("log_level", "debug") \o Entry("log_level", "loud"),
          Entry("stderr_log", "yes") \o Entry("syslog_log", "true"), Entry("listen_address", "ip"),
          Entry("listen_address", "ip."), Entry("unknown", "x"), Entry("static_servers", "ip"),
          Entry("resolv_conf_path", "r") \o Entry("resolv_conf_path", "s"),
          ListEntry("resolver_options", <<Scalar("edns0")>>), ListEntry("file_log", Mapping(<<>>)),
          ListEntry("include", Broken)}

Arg(option, value) == [option |-> option, value |-> value]

Arguments ==
    {<<Arg("file_log", "x"), Arg("file_log", "y"), Arg("command", "status")>>,
     <<Arg("log_level", "debug"), Arg("config_file", "b"), Arg("stderr_log", "yes")>>,
     <<Arg("log_level", "loud")>>, <<Arg("command", "stop")>>, <<Arg("listen_address", "ip.")>>}

Environments ==
    {[file_log |-> "e", config_file |-> "a", stderr_log |-> "no"], [log_level |-> "loud"],
     [listen_address |-> "ip.", file_log |-> "e"]}

NoVariables == [o \in {} |-> "none"]

SomeFiles == [main |-> Entry("log_level", "err") \o Entry("include", "dir"),
              a |-> Named("a", Entry("stderr_log", "0")), b |-> Named("b", <<>>)]

MCStart ==
    {[fs |-> g, argv |-> <<>>, environ |-> NoVariables] : g \in Graphs}
    \cup {[fs |-> [SomeFiles EXCEPT !["main"] = m \o Entry("include", "a")], argv |-> <<>>,
            environ |-> NoVariables] : m \in Mains}
    \cup {[fs |-> SomeFiles, argv |-> args, environ |-> env] :
            args \in Arguments \cup {<<>>}, env \in Environments \cup {NoVariables}}
=============================================================================
