---------------------------- MODULE Configuration ----------------------------
(***************************************************************************)
(* parse_configuration: how a dnsconfd process finds its configuration.    *)
(* The options of the command line come first, then the environment, then  *)
(* the configuration file with the files it includes, then the defaults    *)
(* (configuration_parsing/global_options.c, environment_config.c and       *)
(* config_file.c).                                                         *)
(*                                                                         *)
(* Somebody may change files while they are read: each file is opened in a *)
(* step of its own, and each path of an include is looked up in one.       *)
(* Directories and patterns do not come and go, so that the stat and the   *)
(* glob of a path are one look at the files that match.                    *)
(***************************************************************************)
EXTENDS ConfigFile, FiniteSets

CONSTANTS
    File,               \* the paths of files
    Glob,               \* for each directory and pattern: the files that match, in order
    Start,              \* records with the files, arguments and environment of a process
    Content,            \* what an edit may leave in a file
    Default,            \* the defaults of the options
    MAX_INCLUDE_FILES,  \* 1000 in the code
    MaxEdits            \* bound on edits while a process reads its configuration

ASSUME ConfigurationAssumption ==
    /\ MAX_INCLUDE_FILES \in Nat \ {0}
    /\ MaxEdits \in Nat
    /\ Default \in [Option -> STRING] /\ \A o \in Option \ {"file_log"} : Default[o] # Unset

VARIABLES
    fs,                 \* contents of the files
    argv,               \* options of the command line, then perhaps a command
    environ,
    config,             \* the configuration with the higher priority
    temp_config,        \* the one with the lower priority
    files_to_parse,
    include_paths,      \* paths of the last file that are not resolved yet
    files_processed,
    stage,              \* how far parse_configuration has got
    error,              \* why the configuration is refused
    edits

inputVars == <<argv, environ>>
walkVars == <<files_to_parse, include_paths, files_processed>>
vars == <<fs, inputVars, config, temp_config, walkVars, stage, error, edits>>

\* A file that is not there
Absent == <<[type |-> "absent"]>>

-----------------------------------------------------------------------------
Refuse(reason) ==
    /\ stage' = "refused" /\ error' = reason

\* An option of the command line or a variable of the environment
OptionAccepts(option, value) ==
    /\ option = "log_level" => value \in Level
    /\ option = "listen_address" => value \in Address

\* The argument that is no option is a command and has the rest for itself.
IsCommand(arg) == arg.option = "command"

\* parse_global_opt, argument by argument: the last value of an option counts.
ParseGlobalOpt(conf, arg) ==
    IF IsCommand(arg) THEN conf
    ELSE [conf EXCEPT !.values[arg.option] = ParseValue(arg.option, arg.value)]

BadArgument(arg) ==
    IF IsCommand(arg) THEN arg.value \notin {"status", "reload", "config", "update"}
    ELSE ~OptionAccepts(arg.option, arg.value)

ParseOptions ==
    /\ stage = "options"
    /\ \/ /\ \E i \in DOMAIN argv : BadArgument(argv[i])
          /\ Refuse("arguments") /\ UNCHANGED config
       \/ /\ \A i \in DOMAIN argv : ~BadArgument(argv[i])
          /\ config' = Consume(ParseGlobalOpt, EmptyConfig, argv)
          /\ stage' = "environment" /\ UNCHANGED error
    /\ UNCHANGED <<fs, inputVars, temp_config, walkVars, edits>>

\* Variant: the lower priority wins
MergeConfigsSwapped(high, low) ==
    [values |-> [o \in Option |-> IF low.values[o] # Unset THEN low.values[o] ELSE high.values[o]],
     static_servers |-> IF high.static_servers # <<>> THEN high.static_servers
                        ELSE low.static_servers,
     rpz_zones |-> IF high.rpz_zones # <<>> THEN high.rpz_zones ELSE low.rpz_zones]

MergeConfigs(high, low) ==
    [values |-> [o \in Option |-> IF high.values[o] # Unset THEN high.values[o] ELSE low.values[o]],
     static_servers |-> IF high.static_servers # <<>> THEN high.static_servers
                        ELSE low.static_servers,
     rpz_zones |-> IF high.rpz_zones # <<>> THEN high.rpz_zones ELSE low.rpz_zones]

\* Options that are still unset get their defaults.
WithDefaults(conf, options) ==
    [values |-> [o \in Option |-> IF conf.values[o] = Unset /\ o \in options THEN Default[o]
                                  ELSE conf.values[o]],
     static_servers |-> conf.static_servers, rpz_zones |-> conf.rpz_zones]

\* parse_environment_variables
EnvironmentConfig ==
    [EmptyConfig EXCEPT !.values = [o \in Option |->
        IF o \in DOMAIN environ THEN ParseValue(o, environ[o]) ELSE Unset]]

\* The environment may name the configuration file.
ParseEnvironment ==
    /\ stage = "environment"
    /\ \/ /\ \E o \in DOMAIN environ : ~OptionAccepts(o, environ[o])
          /\ Refuse("environment") /\ UNCHANGED <<config, temp_config, walkVars>>
       \/ /\ \A o \in DOMAIN environ : OptionAccepts(o, environ[o])
          /\ config' = WithDefaults(MergeConfigs(config, EnvironmentConfig), {"config_file"})
          /\ temp_config' = EmptyConfig
          /\ files_to_parse' = <<config'.values["config_file"]>>
          /\ include_paths' = <<>> /\ files_processed' = 0
          /\ stage' = "files" /\ UNCHANGED error
    /\ UNCHANGED <<fs, inputVars, edits>>

-----------------------------------------------------------------------------
(* parse_config_file                                                       *)

Exists(file) == fs[file] # Absent

\* Variant: the limit is reached one file early
ParseNextFileEarlyLimit ==
    /\ stage = "files" /\ include_paths = <<>> /\ files_to_parse # <<>>
    /\ files_processed' = files_processed + 1
    /\ LET file == Head(files_to_parse)
           result == ParseSingleConfigFile(fs[file], temp_config)
       IN  IF files_processed' >= MAX_INCLUDE_FILES
           THEN Refuse("limit") /\ UNCHANGED <<temp_config, files_to_parse, include_paths>>
           ELSE IF ~Exists(file) \/ result.error
           THEN Refuse("file") /\ UNCHANGED <<temp_config, files_to_parse, include_paths>>
           ELSE /\ temp_config' = result.config
                /\ files_to_parse' = Tail(files_to_parse)
                /\ include_paths' = result.includes
                /\ UNCHANGED <<stage, error>>
    /\ UNCHANGED <<fs, inputVars, config, edits>>

\* The next file of the queue is opened and parsed.
ParseNextFile ==
    /\ stage = "files" /\ include_paths = <<>> /\ files_to_parse # <<>>
    /\ files_processed' = files_processed + 1
    /\ LET file == Head(files_to_parse)
           result == ParseSingleConfigFile(fs[file], temp_config)
       IN  IF files_processed' > MAX_INCLUDE_FILES
           THEN Refuse("limit") /\ UNCHANGED <<temp_config, files_to_parse, include_paths>>
           ELSE IF ~Exists(file) \/ result.error
           THEN Refuse("file") /\ UNCHANGED <<temp_config, files_to_parse, include_paths>>
           ELSE /\ temp_config' = result.config
                /\ files_to_parse' = Tail(files_to_parse)
                /\ include_paths' = result.includes
                /\ UNCHANGED <<stage, error>>
    /\ UNCHANGED <<fs, inputVars, config, edits>>

\* The files a path stands for: the matches of a directory or a pattern, or
\* the file itself. What is not there is passed over.
Resolved(path) ==
    IF path \in DOMAIN Glob THEN SelectSeq(Glob[path], Exists)
    ELSE IF path \in File /\ Exists(path) THEN <<path>>
    ELSE <<>>

\* Variant: an included file comes before the ones that wait
ResolveIncludeFirst ==
    /\ stage = "files" /\ include_paths # <<>>
    /\ include_paths' = Tail(include_paths)
    /\ files_to_parse' = Resolved(Head(include_paths)) \o files_to_parse
    /\ UNCHANGED <<fs, inputVars, config, temp_config, files_processed, stage, error, edits>>

\* Variant: a path that stands for nothing is not passed over
ResolveIncludeRetrying ==
    /\ stage = "files" /\ include_paths # <<>>
    /\ include_paths' = IF Resolved(Head(include_paths)) = <<>> THEN include_paths
                        ELSE Tail(include_paths)
    /\ files_to_parse' = files_to_parse \o Resolved(Head(include_paths))
    /\ UNCHANGED <<fs, inputVars, config, temp_config, files_processed, stage, error, edits>>

\* resolve_include_path
ResolveInclude ==
    /\ stage = "files" /\ include_paths # <<>>
    /\ include_paths' = Tail(include_paths)
    /\ files_to_parse' = files_to_parse \o Resolved(Head(include_paths))
    /\ UNCHANGED <<fs, inputVars, config, temp_config, files_processed, stage, error, edits>>

\* The files have been read.
ApplyDefaults ==
    /\ stage = "files" /\ include_paths = <<>> /\ files_to_parse = <<>>
    /\ config' = WithDefaults(MergeConfigs(config, temp_config), Option)
    /\ temp_config' = EmptyConfig
    /\ stage' = "accepted"
    /\ UNCHANGED <<fs, inputVars, walkVars, error, edits>>

Running == stage \notin {"accepted", "refused"}

\* An allocation fails somewhere.
OutOfMemory ==
    /\ Running
    /\ Refuse("memory")
    /\ UNCHANGED <<fs, inputVars, config, temp_config, walkVars, edits>>

\* Somebody writes, creates or removes a file meanwhile.
Edit ==
    /\ Running /\ edits < MaxEdits /\ edits' = edits + 1
    /\ \E file \in File, content \in Content \cup {Absent} : fs' = [fs EXCEPT ![file] = content]
    /\ UNCHANGED <<inputVars, config, temp_config, walkVars, stage, error>>

Init ==
    /\ \E s \in Start : fs = s.fs /\ argv = s.argv /\ environ = s.environ
    /\ config = EmptyConfig /\ temp_config = EmptyConfig
    /\ files_to_parse = <<>> /\ include_paths = <<>> /\ files_processed = 0
    /\ stage = "options" /\ error = "none"
    /\ edits = 0

ParseStep == ParseOptions \/ ParseEnvironment \/ ParseNextFile \/ ResolveInclude \/ ApplyDefaults

Next == ParseStep \/ OutOfMemory \/ Edit

Spec == Init /\ [][Next]_vars

\* The process is not stopped while it reads.
FairSpec == Spec /\ WF_vars(ParseStep)

-----------------------------------------------------------------------------
(* What the files say, read without the parser: keys are at the odd        *)
(* positions of a good file, and the files come level by level.            *)

Keys(content, key) ==
    {i \in DOMAIN content : i % 2 = 1 /\ content[i] = [type |-> "scalar", value |-> key]}

Included(content) ==
    FlattenSeq([i \in DOMAIN content |->
        IF i - 1 \notin Keys(content, "include") THEN <<>>
        ELSE IF content[i].type = "scalar" THEN <<content[i].value>> ELSE Strings(content[i].items)])

NamedBy(file) ==
    IF ~Exists(file) THEN <<>>
    ELSE LET paths == Included(fs[file])
         IN  FlattenSeq([i \in DOMAIN paths |-> Resolved(paths[i])])

FirstSet(values) ==
    LET set == SelectSeq(values, LAMBDA v : v # Unset) IN IF set = <<>> THEN Unset ELSE set[1]

ArgvValue(option) ==
    LET given == {i \in DOMAIN argv : argv[i].option = option}
    IN  IF given = {} THEN Unset ELSE ParseValue(option, argv[Max(given)].value)

EnvironValue(option) ==
    IF option \in DOMAIN environ THEN ParseValue(option, environ[option]) ELSE Unset

MainFile == FirstSet(<<ArgvValue("config_file"), EnvironValue("config_file"), Default["config_file"]>>)

\* The files at a distance from the main file, once for each way to them
LevelOf ==
    LET level[n \in 0..Cardinality(File)] ==
            IF n = 0 THEN <<MainFile>>
            ELSE FlattenSeq([i \in DOMAIN level[n - 1] |-> NamedBy(level[n - 1][i])])
    IN  level

Order == FlattenSeq([n \in 1..Cardinality(File) |-> LevelOf[n - 1]])

-----------------------------------------------------------------------------
(* Good files, as dnsconfd.conf(5) describes them. What the manual does    *)
(* not mention and the parser lets pass is said where it is allowed.       *)

IsScalar(e) == e.type = "scalar"
AllScalar(items) == \A i \in DOMAIN items : IsScalar(items[i])

\* Keys and values take turns, and each value is good for its key.
GoodEntries(events, GoodEntry(_, _)) ==
    /\ Len(events) % 2 = 0
    /\ \A i \in DOMAIN events : i % 2 = 1 =>
            IsScalar(events[i]) /\ GoodEntry(events[i].value, events[i + 1])

KeysOf(events) == {events[i].value : i \in {j \in DOMAIN events : j % 2 = 1}}

\* The attributes of a server
GoodServerEntry(key, e) ==
    LET InRange(low, high) == e.value \in DOMAIN Number /\ Number[e.value] \in low..high
    IN  CASE key = "address" -> IsScalar(e) /\ e.value \in Address
          [] key = "port" -> IsScalar(e) /\ InRange(0, 65535)
          [] key = "priority" -> IsScalar(e) /\ InRange(INT_MIN, INT_MAX)
          [] key = "protocol" -> IsScalar(e) /\ e.value \in {"dns+udp", "dns+tcp", "dns+tls"}
          [] key \in {"name", "dnssec"} -> IsScalar(e)
          [] key \in {"routing_domains", "search_domains"} ->
                e.type = "sequence" /\ AllScalar(e.items)
          [] key = "networks" ->
                e.type = "sequence" /\ AllScalar(e.items) /\ ToSet(Strings(e.items)) \subseteq Network
          [] OTHER -> FALSE

GoodServer(body) == GoodEntries(body, GoodServerEntry) /\ "address" \in KeysOf(body)

GoodZone(body) ==
    /\ GoodEntries(body, LAMBDA key, e : key \in {"name", "master", "zonefile"} /\ IsScalar(e))
    /\ "name" \in KeysOf(body) /\ KeysOf(body) \cap {"master", "zonefile"} # {}

\* A list of mappings with good bodies. Words in front of a mapping, which
\* have no business there, are let pass if they come in pairs.
GoodMappings(e, GoodBody(_)) ==
    /\ e.type = "sequence"
    /\ LET marks == {i \in DOMAIN e.items : e.items[i].type \in {"mapping_start", "mapping_end"}}
           mappings == {m \in marks \X marks :
                /\ m[1] < m[2] /\ e.items[m[1]].type = "mapping_start"
                /\ e.items[m[2]].type = "mapping_end"
                /\ marks \cap (m[1] + 1)..(m[2] - 1) = {}}
           outside == DOMAIN e.items \ UNION {m[1]..m[2] : m \in mappings}
       IN  /\ \A i \in outside : IsScalar(e.items[i])
           /\ \A m \in mappings :
                /\ Cardinality({i \in outside : i < m[1]}) % 2 = 0
                /\ GoodBody(SubSeq(e.items, m[1] + 1, m[2] - 1))

\* The value of an option. A list with a single string is let pass for it.
GoodOptionValue(option, e) ==
    LET Fits(value) == /\ option = "listen_address" => value \in Address
                       /\ option = "log_level" => value \in Level
    IN  \/ IsScalar(e) /\ Fits(e.value)
        \/ e.type = "sequence" /\ Len(e.items) = 1 /\ AllScalar(e.items) /\ Fits(e.items[1].value)

GoodFileEntry(key, e) ==
    CASE key = "static_servers" -> GoodMappings(e, GoodServer)
      [] key = "rpz" -> GoodMappings(e, GoodZone)
      [] key = "include" -> IsScalar(e) \/ (e.type = "sequence" /\ AllScalar(e.items))
      [] key \in FileOption -> GoodOptionValue(key, e)
      [] OTHER -> FALSE

GoodFile(file) == Exists(file) /\ GoodEntries(fs[file], GoodFileEntry)

GoodOptions ==
    /\ \A i \in DOMAIN argv : ~BadArgument(argv[i])
    /\ \A o \in DOMAIN environ : OptionAccepts(o, environ[o])

Undisturbed == edits = 0 /\ error # "memory"

\* The value of a key, also of a list with a single string
ValueAt(content, i) ==
    IF content[i].type = "scalar" THEN content[i].value ELSE Strings(content[i].items)[1]

\* No file that is read has a log level that is no level. The parser means to
\* refuse such a file ("Failed to parse log level in configuration") but
\* compares an unsigned level with 0, and takes the file as if the level was
\* not set: nothing is said here of what becomes of it.
KnownLevels ==
    \A i \in DOMAIN Order : \A k \in Keys(fs[Order[i]], "log_level") :
        ValueAt(fs[Order[i]], k + 1) \in Level

\* Good options and good files without a cycle, at most so many of them
Sound(most) ==
    /\ GoodOptions
    /\ LevelOf[Cardinality(File)] = <<>>
    /\ Len(Order) <= most
    /\ \A i \in DOMAIN Order : GoodFile(Order[i])

\* While nobody changes the files, a configuration that is accepted is sound:
\* the options and every file that is read are good, no file includes itself
\* in a roundabout way, and no more files are included than the manual
\* allows. A sound configuration is accepted: the limit of parse_config_file
\* refuses cycles, and no tree of files within it. The limit of the code
\* counts the main file, the one of dnsconfd.conf(5), "A maximum of 1000
\* files may be included in total", does not; the one number of files for
\* which they differ is left open, and so are the files without KnownLevels.
AcceptedIffSound ==
    ~Running /\ Undisturbed =>
        /\ stage = "accepted" /\ KnownLevels => Sound(MAX_INCLUDE_FILES + 1)
        /\ Sound(MAX_INCLUDE_FILES) => stage = "accepted"

FilesValue(option) ==
    LET setting == {i \in DOMAIN Order : Keys(fs[Order[i]], option) # {}}
        content == fs[Order[Max(setting)]]
    IN  IF option = "config_file" \/ setting = {} THEN Unset
        ELSE ParseValue(option, ValueAt(content, Max(Keys(content, option)) + 1))

\* Each option of an accepted configuration has the value of the command
\* line, else of the environment, else of the file that is farthest down the
\* includes, else the default.
PrecedenceHolds ==
    stage = "accepted" /\ Undisturbed /\ KnownLevels =>
        \A o \in Option : config.values[o] =
            FirstSet(<<ArgvValue(o), EnvironValue(o), FilesValue(o), Default[o]>>)

\* A value that a source of higher priority has set is never replaced by the
\* sources read after it, whatever they hold and whoever edits them.
HigherWins ==
    [][stage # "options" =>
        \A o \in Option : config.values[o] # Unset => config'.values[o] = config.values[o]]_vars

Servers(content) ==
    LET lists == {i \in DOMAIN content : i - 1 \in Keys(content, "static_servers")}
        Ends(i) == {j \in DOMAIN content[i].items : content[i].items[j].type = "mapping_end"}
    IN  UNION {{<<i, j>> : j \in Ends(i)} : i \in lists}

\* No static server of any file is lost, and each can be used as it is: it
\* has an address, a port and a domain.
StaticServersComplete ==
    stage = "accepted" /\ Undisturbed =>
        /\ Len(config.static_servers) =
                Len(FlattenSeq([i \in DOMAIN Order |-> SetToSeq(Servers(fs[Order[i]]))]))
        /\ \A i \in DOMAIN config.static_servers :
                LET server == config.static_servers[i]
                IN  /\ server.address \in Address /\ server.port \in 1..65535
                    /\ server.routing_domains # <<>>

\* Reading the configuration comes to an end, with includes in a cycle and
\* with files that come and go meanwhile.
WalkEnds == <>(~Running)
=============================================================================
