------------------------------ MODULE Startup ------------------------------
(***************************************************************************)
(* main (src/src/miner.cpp) up to the call of run_stratum_loop or mine(),  *)
(* and its exit codes: the default file is read, the arguments are applied *)
(* in their order (parse_args, src/src/lib/miner_cli.cpp), the environment *)
(* may replace the password, the result is validated.                      *)
(*                                                                         *)
(* What surrounds the process is chosen at its start: the readable,        *)
(* well-formed files, the command line and the environment.                *)
(***************************************************************************)
EXTENDS MinerConfig, Integers

CONSTANTS
    ULongMax,       \* std::stoul's maximum: UIntMax on Windows, 2^64 - 1 elsewhere
    FileSystems,    \* functions from paths to parsed files
    CommandLines,   \* sequences of arguments
    Environments    \* functions from names of variables to their values

ASSUME StartupAssumption == ULongMax \in Nat /\ ULongMax >= UIntMax

\* What parse_args can be given: an option without the word after it, with a text,
\* or with a text that std::stoul reads (or fails to read) a number from.
Arguments ==
    [option : {"--help", "--unknown", "--config", "--prefix", "--bits", "--threads",
               "--report-ms"}]
        \cup [option : {"--config", "--prefix"}, text : Texts]
        \cup [option : {"--bits", "--threads", "--report-ms"}, number : Int]

\* A file is what the JSON parser makes of its text: numbers without a sign.
ASSUME SurroundingsAssumption ==
    /\ \A disk \in FileSystems : \A path \in DOMAIN disk : \A place \in DOMAIN disk[path] :
          LET value == disk[path][place]
          IN /\ "number" \in DOMAIN value => value.number \in Nat
             /\ "bool" \in DOMAIN value => value.bool \in BOOLEAN
             /\ "text" \in DOMAIN value => value.text \in Texts
    /\ CommandLines \subseteq Seq(Arguments)
    /\ \A variables \in Environments : \A name \in DOMAIN variables : variables[name] \in Texts

VARIABLES
    files, argv, env,   \* the surroundings, which do not change
    at,                 \* "start", "arguments", "configured", "secrets", then
                        \* "pool" or "solo", and "exited"
    next_arg,           \* parse_args' i
    config_path,
    default_config_loaded,
    cfg,
    stop_requested,
    exit_code

surroundings == <<files, argv, env>>
startupVars == <<surroundings, at, next_arg, config_path, default_config_loaded, cfg,
                 stop_requested, exit_code>>

DefaultPath == "config/miner-local-stratum.json"

StartupInit ==
    /\ files \in FileSystems
    /\ argv \in CommandLines
    /\ env \in Environments
    /\ at = "start"
    /\ next_arg = 1
    /\ config_path = DefaultPath
    /\ default_config_loaded = FALSE
    /\ cfg = Defaults
    /\ stop_requested = FALSE
    /\ exit_code = 0

-----------------------------------------------------------------------------
Exit(code) == at' = "exited" /\ exit_code' = code

\* load_config of a path: the settings start from the defaults also if the file
\* cannot be read or is malformed.
Load(path) == cfg' = IF path \in DOMAIN files THEN LoadConfig(files[path]) ELSE Defaults

LoadDefault ==
    /\ at = "start"
    /\ Load(DefaultPath)
    /\ default_config_loaded' = (DefaultPath \in DOMAIN files)
    /\ at' = "arguments"
    /\ UNCHANGED <<surroundings, next_arg, config_path, stop_requested, exit_code>>

-----------------------------------------------------------------------------
(* parse_args.  An argument is an option with the word after it, if there  *)
(* is one.                                                                 *)

OverrideOptions == {"--prefix", "--bits", "--threads", "--report-ms"}
ValueOptions == OverrideOptions \cup {"--config"}

OptionKey(option) == CASE option = "--prefix" -> "prefix"
                       [] option = "--bits" -> "difficulty_bits"
                       [] option = "--threads" -> "threads"
                       [] option = "--report-ms" -> "report_interval_ms"

Argument(option) ==
    /\ at = "arguments"
    /\ next_arg <= Len(argv)
    /\ argv[next_arg].option = option
    /\ UNCHANGED <<surroundings, default_config_loaded, stop_requested>>

HasValue == DOMAIN argv[next_arg] # {"option"}
Text == argv[next_arg].text
Number == argv[next_arg].number

Help ==
    /\ Argument("--help")
    /\ Exit(0)
    /\ UNCHANGED <<next_arg, config_path, cfg>>

BadOption ==
    /\ \E option \in ValueOptions \cup {"--unknown"} : Argument(option)
    /\ argv[next_arg].option = "--unknown" \/ ~HasValue
    /\ Exit(1)
    /\ UNCHANGED <<next_arg, config_path, cfg>>

\* Mutant: the new file is read over what the arguments before it set.
ConfigOptionOver ==
    /\ Argument("--config")
    /\ HasValue
    /\ config_path' = Text
    /\ Text \in DOMAIN files
    /\ cfg' = [LoadConfig(files[Text]) EXCEPT !.prefix = cfg.prefix]
    /\ next_arg' = next_arg + 1
    /\ UNCHANGED <<at, exit_code>>

ConfigOption ==
    /\ Argument("--config")
    /\ HasValue
    /\ config_path' = Text
    /\ Load(Text)
    /\ IF Text \in DOMAIN files
       THEN next_arg' = next_arg + 1 /\ UNCHANGED <<at, exit_code>>
       ELSE Exit(1) /\ UNCHANGED next_arg

\* parse_uint32: std::stoul takes a minus sign and negates modulo its own width.
\* A word that is no number is one that parses to none.
StoulValue(n) == IF n < 0 THEN n + ULongMax + 1 ELSE n
ParsesToUInt32(n) == n \in -ULongMax .. ULongMax /\ StoulValue(n) \in 0 .. UIntMax

OptionRange(option) ==
    CASE option = "--bits" -> 0 .. 255
      [] option \in {"--threads", "--report-ms"} -> 1 .. UIntMax

SetPrefix ==
    /\ Argument("--prefix")
    /\ HasValue
    /\ cfg' = [cfg EXCEPT !.prefix = Text]
    /\ next_arg' = next_arg + 1
    /\ UNCHANGED <<at, exit_code, config_path>>

\* A value that parses is stored before its range is looked at.
SetNumber(option) ==
    /\ Argument(option)
    /\ HasValue
    /\ cfg' = IF ParsesToUInt32(Number)
              THEN [cfg EXCEPT ![OptionKey(option)] = StoulValue(Number)]
              ELSE cfg
    /\ IF ParsesToUInt32(Number) /\ StoulValue(Number) \in OptionRange(option)
       THEN next_arg' = next_arg + 1 /\ UNCHANGED <<at, exit_code>>
       ELSE Exit(1) /\ UNCHANGED next_arg
    /\ UNCHANGED config_path

\* Back in main: without --config the default file must have been read.
ArgumentsEnd ==
    /\ at = "arguments"
    /\ next_arg > Len(argv)
    /\ IF config_path = DefaultPath /\ ~default_config_loaded
       THEN Exit(1)
       ELSE at' = "configured" /\ UNCHANGED exit_code
    /\ UNCHANGED <<surroundings, next_arg, config_path, default_config_loaded, cfg,
                   stop_requested>>

-----------------------------------------------------------------------------
\* apply_secret_overrides_from_env: a variable that is unset or empty leaves the
\* password of the file.
EnvPassword(settings) ==
    IF settings.password_env \in DOMAIN env THEN env[settings.password_env] ELSE ""

ApplySecrets ==
    /\ at = "configured"
    /\ cfg' = IF cfg.password_env # "" /\ EnvPassword(cfg) # ""
              THEN [cfg EXCEPT !.password = EnvPassword(cfg)]
              ELSE cfg
    /\ at' = "secrets"
    /\ UNCHANGED <<surroundings, next_arg, config_path, default_config_loaded,
                   stop_requested, exit_code>>

Validate ==
    /\ at = "secrets"
    /\ IF ValidConfig(cfg)
       THEN at' = (IF cfg.enabled THEN "pool" ELSE "solo") /\ UNCHANGED exit_code
       ELSE Exit(1)
    /\ UNCHANGED <<surroundings, next_arg, config_path, default_config_loaded, cfg,
                   stop_requested>>

\* run_stratum_loop returns its code (MinerRuntime).
PoolReturns ==
    /\ at = "pool"
    /\ \E rc \in {0, 4, 6, 8} : Exit(rc)
    /\ UNCHANGED <<surroundings, next_arg, config_path, default_config_loaded, cfg,
                   stop_requested>>

\* mine() returns: aborted (only after a stop request) or found is success, and
\* otherwise no nonce was found.
SoloReturns ==
    /\ at = "solo"
    /\ \E aborted, found \in BOOLEAN :
          /\ aborted => stop_requested
          /\ Exit(IF aborted \/ found THEN 0 ELSE 2)
    /\ UNCHANGED <<surroundings, next_arg, config_path, default_config_loaded, cfg,
                   stop_requested>>

\* on_signal, installed first of all.  Only the two calls look at the flag.
Signal ==
    /\ at # "exited"
    /\ stop_requested' = TRUE
    /\ UNCHANGED <<surroundings, at, next_arg, config_path, default_config_loaded, cfg,
                   exit_code>>

StartupExited == at = "exited" /\ UNCHANGED startupVars

StartupNext ==
    \/ LoadDefault
    \/ Help
    \/ BadOption
    \/ ConfigOption
    \/ SetPrefix
    \/ \E option \in OverrideOptions \ {"--prefix"} : SetNumber(option)
    \/ ArgumentsEnd
    \/ ApplySecrets
    \/ Validate
    \/ PoolReturns
    \/ SoloReturns
    \/ Signal
    \/ StartupExited

StartupSpec == StartupInit /\ [][StartupNext]_startupVars

-----------------------------------------------------------------------------
(* Properties.                                                             *)

Started == at \in {"pool", "solo"}

\* Every variable holds a value of its type.
StartupTypeOK ==
    /\ at \in {"start", "arguments", "configured", "secrets", "pool", "solo", "exited"}
    /\ next_arg \in 1 .. Len(argv) + 1
    /\ default_config_loaded \in BOOLEAN
    /\ DOMAIN cfg = Keys
    /\ \A key \in Keys : CASE Type(key) = "number" -> cfg[key] \in 0 .. UIntMax
                           [] Type(key) = "bool" -> cfg[key] \in BOOLEAN
                           [] OTHER -> cfg[key] \in Texts
    /\ stop_requested \in BOOLEAN
    /\ exit_code \in {0, 1, 2, 4, 6, 8}

\* Where an option stands last on the command line, 0 if nowhere.
LastOf(option) ==
    LET positions == {i \in DOMAIN argv : argv[i].option = option}
    IN IF positions = {} THEN 0 ELSE CHOOSE i \in positions : \A j \in positions : j <= i

\* What the words say a file means for a setting: its own place counts if it has
\* a value of the type, else the flat one, and a number counts within its range.
MeansInFile(file, key, value) ==
    LET own == <<Section(key), key>>
        flat == <<"root", key>>
        speaks == IF Readable(file, own, Type(key)) THEN own ELSE flat
    IN IF /\ Readable(file, speaks, Type(key))
          /\ Type(key) = "number" => file[speaks].number \in FileRange[key]
       THEN value = file[speaks][Type(key)]
       ELSE value = Defaults[key]

\* When mining starts, each setting is what the last --config file and the
\* options after it say (options before a --config are void), the variable the
\* file names is the password if it has a value, and the file was really read.
EffectiveSettings ==
    Started =>
        LET chosen == IF LastOf("--config") = 0 THEN DefaultPath
                      ELSE argv[LastOf("--config")].text
            overridden(option) == LastOf(option) > LastOf("--config")
        IN /\ config_path = chosen
           /\ chosen \in DOMAIN files
           /\ \A key \in Keys :
                 IF \E option \in OverrideOptions : OptionKey(option) = key /\ overridden(option)
                 THEN \A option \in OverrideOptions :
                         OptionKey(option) = key =>
                            cfg[key] = argv[LastOf(option)][Type(key)]
                 ELSE IF key = "password" /\ EnvPassword(cfg) # "" /\ cfg.password_env # ""
                 THEN cfg[key] = EnvPassword(cfg)
                 ELSE MeansInFile(files[chosen], key, cfg[key])

\* What starts can run: mine() gets a worker at least and no more of them than
\* the UIntMax + 1 nonces (MineAssumption), the waits of the pool path are those
\* of ClientAssumption and RuntimeAssumption, and none of the templates'
\* placeholders is sent to a pool.  That every worker has two nonces (SharesOfTwo)
\* is not among it: no upper bound of threads is checked.
StartedIsRunnable ==
    Started =>
        /\ cfg.threads \in 1 .. UIntMax
        /\ cfg.difficulty_bits \in 0 .. 255
        /\ cfg.enabled =>
              /\ cfg.notify_timeout_sec \in 1 .. UIntMax
              /\ cfg.reconnect_initial_sec \in 1 .. UIntMax
              /\ cfg.reconnect_max_sec \in cfg.reconnect_initial_sec .. UIntMax
              /\ cfg.port \in Ports
              /\ Placeholder \notin UsernameParts(cfg) \cup {cfg.password}
              /\ "" # cfg.password
=============================================================================
