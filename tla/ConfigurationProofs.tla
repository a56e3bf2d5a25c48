------------------------ MODULE ConfigurationProofs ------------------------
(* Theorems about Configuration, for any files, options and limits.        *)
EXTENDS Configuration, TLAPS

\* The time that each prover has for a step
USE SMTT(30), ZenonT(30)

\* What merge_configs does to one option
LEMMA MergedValue ==
    ASSUME NEW high, NEW low, NEW o \in Option
    PROVE  /\ high.values[o] # Unset => MergeConfigs(high, low).values[o] = high.values[o]
           /\ high.values[o] = Unset => MergeConfigs(high, low).values[o] = low.values[o]
  BY DEF MergeConfigs

\* The defaults change no value that is set.
LEMMA DefaultedValue ==
    ASSUME NEW conf, NEW options, NEW o \in Option, conf.values[o] # Unset
    PROVE  WithDefaults(conf, options).values[o] = conf.values[o]
  BY DEF WithDefaults

\* One step of parse_configuration never replaces a value that is set.
LEMMA HigherWinsStep ==
    ASSUME [Next]_vars, stage # "options", NEW o \in Option, config.values[o] # Unset
    PROVE  config'.values[o] = config.values[o]
<1>1. CASE ParseOptions
  BY <1>1 DEF ParseOptions
<1>2. CASE ParseEnvironment
  <2>1. MergeConfigs(config, EnvironmentConfig).values[o] = config.values[o]
    BY MergedValue
  <2>2. \/ config' = config
        \/ config' = WithDefaults(MergeConfigs(config, EnvironmentConfig), {"config_file"})
    BY <1>2 DEF ParseEnvironment
  <2> QED
    BY <2>1, <2>2, DefaultedValue
<1>3. CASE ApplyDefaults
  <2>1. MergeConfigs(config, temp_config).values[o] = config.values[o]
    BY MergedValue
  <2>2. config' = WithDefaults(MergeConfigs(config, temp_config), Option)
    BY <1>3 DEF ApplyDefaults
  <2> QED
    BY <2>1, <2>2, DefaultedValue
<1>4. CASE ParseNextFile \/ ResolveInclude \/ OutOfMemory \/ Edit \/ UNCHANGED vars
  BY <1>4 DEF ParseNextFile, ResolveInclude, OutOfMemory, Edit, vars
<1> QED
  BY <1>1, <1>2, <1>3, <1>4 DEF Next, ParseStep

\* The values of the command line, of the environment and of the files never
\* replace each other against their priority (merge_configs).
THEOREM HigherWinsHolds == Spec => HigherWins
<1>1. [Next]_vars => [stage # "options" =>
            \A o \in Option : config.values[o] # Unset => config'.values[o] = config.values[o]]_vars
  BY HigherWinsStep
<1> QED
  BY <1>1, PTL DEF Spec, HigherWins

-----------------------------------------------------------------------------
\* The values the command line gives
CommandLine == Consume(ParseGlobalOpt, EmptyConfig, argv)

\* The command line counts before the environment, and the environment
\* before the files and the defaults.
OptionsBeforeFiles ==
    /\ stage = "environment" => config = CommandLine
    /\ stage \in {"files", "accepted"} =>
        \A o \in Option :
            /\ CommandLine.values[o] # Unset => config.values[o] = CommandLine.values[o]
            /\ CommandLine.values[o] = Unset /\ EnvironValue(o) # Unset =>
                    config.values[o] = EnvironValue(o)

\* The order of dnsconfd-config(8), "lower priority than command line options
\* but higher than configuration file", holds for every option, whatever the
\* files contain and however they change while they are read.
THEOREM OptionsBeforeFilesHolds == Spec => []OptionsBeforeFiles
<1>1. Init => OptionsBeforeFiles
  BY DEF Init, OptionsBeforeFiles
<1>2. OptionsBeforeFiles /\ [Next]_vars => OptionsBeforeFiles'
  <2> SUFFICES ASSUME OptionsBeforeFiles, [Next]_vars PROVE OptionsBeforeFiles'
    OBVIOUS
  <2>0. /\ CommandLine' = CommandLine
        /\ \A o \in Option : EnvironValue(o)' = EnvironValue(o)
    <3>1. argv' = argv /\ environ' = environ
      BY DEF Next, ParseStep, ParseOptions, ParseEnvironment, ParseNextFile, ResolveInclude,
             ApplyDefaults, OutOfMemory, Edit, vars, inputVars
    <3> QED
      BY <3>1 DEF CommandLine, EnvironValue
  <2>1. CASE ParseOptions
    BY <2>1, <2>0 DEF ParseOptions, Refuse, OptionsBeforeFiles, CommandLine
  <2>2. CASE ParseEnvironment
    <3>1. CASE stage' = "refused"
      BY <3>1 DEF OptionsBeforeFiles
    <3>2. CASE stage' = "files"
      <4>1. config = CommandLine
        BY <2>2 DEF ParseEnvironment, OptionsBeforeFiles
      <4>2. config' = WithDefaults(MergeConfigs(config, EnvironmentConfig), {"config_file"})
        BY <2>2, <3>2 DEF ParseEnvironment, Refuse
      <4>3. ASSUME NEW o \in Option
            PROVE  EnvironmentConfig.values[o] = EnvironValue(o)
        BY DEF EnvironmentConfig, EnvironValue, EmptyConfig
      <4>4. ASSUME NEW o \in Option, CommandLine.values[o] # Unset
            PROVE  config'.values[o] = CommandLine.values[o]
        <5>1. MergeConfigs(config, EnvironmentConfig).values[o] = CommandLine.values[o]
          BY <4>1, <4>4, MergedValue
        <5> QED
          BY <5>1, <4>2, <4>4, DefaultedValue
      <4>5. ASSUME NEW o \in Option, CommandLine.values[o] = Unset, EnvironValue(o) # Unset
            PROVE  config'.values[o] = EnvironValue(o)
        <5>1. MergeConfigs(config, EnvironmentConfig).values[o] = EnvironValue(o)
          BY <4>1, <4>3, <4>5, MergedValue
        <5> QED
          BY <5>1, <4>2, <4>5, DefaultedValue
      <4> QED
        BY <4>4, <4>5, <3>2, <2>0 DEF OptionsBeforeFiles
    <3> QED
      BY <2>2, <3>1, <3>2 DEF ParseEnvironment, Refuse
  <2>3. CASE ParseNextFile \/ ResolveInclude \/ ApplyDefaults \/ OutOfMemory \/ Edit \/ UNCHANGED vars
    <3>1. \/ stage' = "refused"
          \/ stage = "files" /\ stage' \in {"files", "accepted"}
          \/ stage' = stage /\ config' = config
      BY <2>3 DEF ParseNextFile, ResolveInclude, ApplyDefaults, OutOfMemory, Edit, Refuse, vars
    <3>2. ASSUME stage = "files", NEW o \in Option, config.values[o] # Unset
          PROVE  config'.values[o] = config.values[o]
      BY <3>2, HigherWinsStep
    <3>3. CASE stage = "files" /\ stage' \in {"files", "accepted"}
      BY <3>2, <3>3, <2>0 DEF OptionsBeforeFiles
    <3> QED
      BY <3>1, <3>3, <2>0 DEF OptionsBeforeFiles
  <2> QED
    BY <2>1, <2>2, <2>3 DEF Next, ParseStep
<1> QED
  BY <1>1, <1>2, PTL DEF Spec
=============================================================================
