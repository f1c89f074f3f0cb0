---------------------------- MODULE StartupProofs ----------------------------
(***************************************************************************)
(* Proofs about Startup, for every content of the files, every command     *)
(* line and every environment: the types, what starts can run, and that    *)
(* mining uses the settings that the file and the command line state.      *)
(***************************************************************************)
EXTENDS Startup, SequenceTheorems, TLAPS

-----------------------------------------------------------------------------
(* The settings.                                                           *)

\* The keys of MinerConfig, one by one.
LEMMA KeysAre ==
    Keys = {"node_id", "worker_id", "payout_address", "username", "host", "port", "password",
            "password_env", "require_tls", "enabled", "notify_timeout_sec", "max_cycles",
            "max_reconnect_attempts", "reconnect_initial_sec", "reconnect_max_sec", "prefix",
            "difficulty_bits", "threads", "report_interval_ms", "output", "health_output",
            "health_emit_each_cycle"}
BY DEF Keys, Defaults

\* Those of the numbers, with what load_config takes of each.
LEMMA RangesAre ==
    /\ DOMAIN FileRange = {"port", "difficulty_bits", "notify_timeout_sec", "max_cycles",
                           "max_reconnect_attempts", "reconnect_initial_sec",
                           "reconnect_max_sec", "threads", "report_interval_ms"}
    /\ \A key \in DOMAIN FileRange : FileRange[key] \subseteq 0 .. UIntMax
    /\ FileRange["difficulty_bits"] = 0 .. 255
<1>1. DOMAIN FileRange = {"port", "difficulty_bits", "notify_timeout_sec", "max_cycles",
                          "max_reconnect_attempts", "reconnect_initial_sec",
                          "reconnect_max_sec", "threads", "report_interval_ms"}
    BY DEF FileRange
<1>2. UIntMax \in Nat /\ 65535 <= UIntMax
    BY ConfigAssumption
<1>3. /\ FileRange["port"] = Ports
      /\ FileRange["difficulty_bits"] = 0 .. 255
      /\ FileRange["notify_timeout_sec"] = 1 .. UIntMax
      /\ FileRange["max_cycles"] = 0 .. UIntMax
      /\ FileRange["max_reconnect_attempts"] = 0 .. UIntMax
      /\ FileRange["reconnect_initial_sec"] = 1 .. UIntMax
      /\ FileRange["reconnect_max_sec"] = 1 .. UIntMax
      /\ FileRange["threads"] = 1 .. UIntMax
      /\ FileRange["report_interval_ms"] = 1 .. UIntMax
    BY DEF FileRange
<1> DEFINE highest == 65535
<1>ports. Ports \subseteq 0 .. UIntMax
    <2>1. Ports = 1 .. highest /\ highest \in Nat /\ highest <= UIntMax
        BY <1>2, SMT DEF Ports
    <2> HIDE DEF highest
    <2> QED
        BY <1>2, <2>1, SMT
<1>4. ASSUME NEW key \in DOMAIN FileRange PROVE FileRange[key] \subseteq 0 .. UIntMax
    <2>1. \/ FileRange[key] = Ports
          \/ FileRange[key] = 0 .. 255
          \/ FileRange[key] = 1 .. UIntMax
          \/ FileRange[key] = 0 .. UIntMax
        BY <1>1, <1>3, <1>4
    <2>2. /\ 0 .. 255 \subseteq 0 .. UIntMax
          /\ 1 .. UIntMax \subseteq 0 .. UIntMax
        BY <1>2
    <2> QED
        BY <1>ports, <2>1, <2>2
<1> QED
    BY <1>1, <1>3, <1>4

\* The type of each key.
LEMMA TypesAre ==
    \A key \in Keys : /\ Type(key) \in {"number", "bool", "text"}
                      /\ Type(key) = "number" <=> key \in DOMAIN FileRange
                      /\ Type(key) = "bool" <=>
                            key \in {"require_tls", "enabled", "health_emit_each_cycle"}
BY RangesAre DEF Type

\* A value of the type of its key.
Typed(key, value) ==
    CASE Type(key) = "number" -> value \in 0 .. UIntMax
      [] Type(key) = "bool" -> value \in BOOLEAN
      [] OTHER -> value \in Texts

WellTyped(settings) ==
    /\ DOMAIN settings = Keys
    /\ \A key \in Keys : Typed(key, settings[key])

\* The defaults are settings, with a difficulty that --bits would accept.
LEMMA DefaultsTyped == WellTyped(Defaults) /\ Defaults.difficulty_bits \in 0 .. 255
<1>1. UIntMax \in Nat /\ 65535 <= UIntMax /\ HardwareConcurrency \in 0 .. UIntMax
    BY ConfigAssumption
<1>texts. {"", "CP-1", "cp1", "pool.example.com", "x", "hello-bitcoin", "logs/miner.log"}
             \subseteq Texts
    BY TextsAssumption
<1>2. Defaults.difficulty_bits = 24
    BY DEF Defaults
<1>3. ASSUME NEW key \in DOMAIN FileRange PROVE Defaults[key] \in 0 .. UIntMax
    <2>1. /\ Defaults["port"] = 3333
          /\ Defaults["difficulty_bits"] = 24
          /\ Defaults["notify_timeout_sec"] = 30
          /\ Defaults["max_cycles"] = 0
          /\ Defaults["max_reconnect_attempts"] = 0
          /\ Defaults["reconnect_initial_sec"] = 1
          /\ Defaults["reconnect_max_sec"] = 30
          /\ Defaults["threads"] \in {1, HardwareConcurrency}
          /\ Defaults["report_interval_ms"] = 1000
        BY DEF Defaults
    <2> QED
        BY <1>1, <1>3, <2>1, RangesAre
<1>4. ASSUME NEW key \in {"require_tls", "enabled", "health_emit_each_cycle"}
      PROVE  Defaults[key] \in BOOLEAN
    <2>1. /\ Defaults["require_tls"] = FALSE
          /\ Defaults["enabled"] = FALSE
          /\ Defaults["health_emit_each_cycle"] = FALSE
        BY DEF Defaults
    <2> QED
        BY <2>1
<1>5. ASSUME NEW key \in Keys, key \notin DOMAIN FileRange,
             key \notin {"require_tls", "enabled", "health_emit_each_cycle"}
      PROVE  Defaults[key] \in Texts
    <2>1. key \in {"node_id", "worker_id", "payout_address", "username", "host", "password",
                   "password_env", "prefix", "output", "health_output"}
        BY <1>5, KeysAre, RangesAre
    <2>2. /\ Defaults["node_id"] = "CP-1"
          /\ Defaults["worker_id"] = "cp1"
          /\ Defaults["payout_address"] = ""
          /\ Defaults["username"] = ""
          /\ Defaults["host"] = "pool.example.com"
          /\ Defaults["password"] = "x"
          /\ Defaults["password_env"] = ""
          /\ Defaults["prefix"] = "hello-bitcoin"
          /\ Defaults["output"] = "logs/miner.log"
          /\ Defaults["health_output"] = ""
        BY DEF Defaults
    <2> QED
        BY <1>texts, <2>1, <2>2, Zenon
<1>6. ASSUME NEW key \in Keys PROVE Typed(key, Defaults[key])
    BY <1>3, <1>4, <1>5, TypesAre DEF Typed
<1>7. DOMAIN Defaults = Keys
    BY DEF Keys
<1> QED
    BY <1>2, <1>6, <1>7 DEF WellTyped

-----------------------------------------------------------------------------
(* load_config.                                                            *)

Own(key) == <<Section(key), key>>
Flat(key) == <<"root", key>>
Speaks(file, key) == IF Readable(file, Own(key), Type(key)) THEN Own(key) ELSE Flat(key)

\* The first place with a value of the type is the setting's own one, if that has
\* such a value, else the flat one.
LEMMA FirstPlaceSpeaks ==
    ASSUME NEW file, NEW key
    PROVE  /\ ReadablePlaces(file, key) # {} <=> Readable(file, Speaks(file, key), Type(key))
           /\ ReadablePlaces(file, key) # {} =>
                 Stated(file, key) = file[Speaks(file, key)][Type(key)]
<1> DEFINE places == ReadablePlaces(file, key)
<1> DEFINE first == CHOOSE i \in places : \A j \in places : i <= j
<1> DEFINE own == Readable(file, Own(key), Type(key))
<1> DEFINE flat == Readable(file, Flat(key), Type(key))
<1>1. /\ DOMAIN Places(key) = {1, 2}
      /\ Places(key)[1] = Own(key) /\ Places(key)[2] = Flat(key)
    <2>1. /\ Places(key) = <<Own(key), Flat(key)>>
        BY DEF Places, Own, Flat
    <2> QED
        BY <2>1
<1>2. \A i : i \in places <=> (i = 1 /\ own) \/ (i = 2 /\ flat)
    BY <1>1 DEF ReadablePlaces
<1>3. Stated(file, key) = file[Places(key)[first]][Type(key)]
    BY DEF Stated
<1> HIDE DEF places, own, flat
<1>4. CASE own
    <2>1. 1 \in places /\ \A j \in places : 1 <= j
        BY <1>2, <1>4
    <2>2. \A i \in places : (\A j \in places : i <= j) => i = 1
        BY <1>2, <2>1
    <2>3. first = 1
        BY <2>1, <2>2
    <2> QED
        BY <1>1, <1>3, <1>4, <2>1, <2>3 DEF Speaks, own, places
<1>5. CASE ~own /\ flat
    <2>1. places = {2}
        BY <1>2, <1>5
    <2>2. first = 2
        BY <2>1
    <2> QED
        BY <1>1, <1>3, <1>5, <2>1, <2>2 DEF Speaks, own, flat, places
<1>6. CASE ~own /\ ~flat
    <2>1. places = {}
        BY <1>2, <1>6
    <2> QED
        BY <1>6, <2>1 DEF Speaks, own, flat, places
<1> QED
    BY <1>4, <1>5, <1>6

\* load_config takes from a file what the words say it means.
LEMMA LoadMeans ==
    ASSUME NEW file, NEW key \in Keys
    PROVE  MeansInFile(file, key, LoadConfig(file)[key])
<1> DEFINE value == LoadSetting(file, key)
<1>1. LoadConfig(file)[key] = value
    BY DEF LoadConfig
<1>2. Type(key) = "number" <=> key \in DOMAIN FileRange
    BY TypesAre
<1>3. MeansInFile(file, key, value) <=>
        IF /\ Readable(file, Speaks(file, key), Type(key))
           /\ Type(key) = "number" => file[Speaks(file, key)].number \in FileRange[key]
        THEN value = file[Speaks(file, key)][Type(key)]
        ELSE value = Defaults[key]
    BY DEF MeansInFile, Speaks, Own, Flat
<1>4. value = IF /\ Readable(file, Speaks(file, key), Type(key))
                 /\ key \in DOMAIN FileRange =>
                       file[Speaks(file, key)][Type(key)] \in FileRange[key]
              THEN file[Speaks(file, key)][Type(key)]
              ELSE Defaults[key]
    BY FirstPlaceSpeaks DEF LoadSetting, InFileRange
<1> HIDE DEF value
<1> QED
    BY <1>1, <1>2, <1>3, <1>4

\* What is loaded are settings, with a difficulty that --bits would accept.
LEMMA LoadedTyped ==
    ASSUME NEW disk \in FileSystems, NEW path \in DOMAIN disk
    PROVE  /\ WellTyped(LoadConfig(disk[path]))
           /\ LoadConfig(disk[path]).difficulty_bits \in 0 .. 255
<1> DEFINE file == disk[path]
<1> DEFINE loaded == LoadConfig(file)
<1>1. \A place \in DOMAIN file :
         /\ "number" \in DOMAIN file[place] => file[place]["number"] \in Nat
         /\ "bool" \in DOMAIN file[place] => file[place]["bool"] \in BOOLEAN
         /\ "text" \in DOMAIN file[place] => file[place]["text"] \in Texts
    BY SurroundingsAssumption
<1>2. DOMAIN loaded = Keys
    BY DEF LoadConfig
<1> HIDE DEF file, loaded
<1>3. ASSUME NEW key \in Keys
      PROVE  /\ Typed(key, loaded[key])
             /\ key \in DOMAIN FileRange => loaded[key] \in FileRange[key] \cup {Defaults[key]}
    <2> DEFINE place == Speaks(file, key)
    <2>1. MeansInFile(file, key, loaded[key])
        BY LoadMeans DEF loaded
    <2>2. \/ loaded[key] = Defaults[key]
          \/ /\ place \in DOMAIN file /\ Type(key) \in DOMAIN file[place]
             /\ loaded[key] = file[place][Type(key)]
             /\ Type(key) = "number" => file[place]["number"] \in FileRange[key]
        BY <2>1 DEF MeansInFile, Speaks, Own, Flat, Readable
    <2> HIDE DEF place
    <2>3. CASE loaded[key] = Defaults[key]
        BY <2>3, DefaultsTyped DEF WellTyped
    <2>4. CASE /\ place \in DOMAIN file /\ Type(key) \in DOMAIN file[place]
               /\ loaded[key] = file[place][Type(key)]
               /\ Type(key) = "number" => file[place]["number"] \in FileRange[key]
        BY <1>1, <2>4, TypesAre, RangesAre DEF Typed
    <2> QED
        BY <2>2, <2>3, <2>4
<1>4. "difficulty_bits" \in Keys
    BY KeysAre
<1>5. loaded["difficulty_bits"] \in 0 .. 255
    BY <1>3, <1>4, RangesAre, DefaultsTyped
<1> QED
    BY <1>2, <1>3, <1>5 DEF WellTyped, loaded, file

-----------------------------------------------------------------------------
(* The types.                                                              *)

\* The surroundings are of those the constants allow, and what is about to be
\* validated has a difficulty in range.
Surrounded == files \in FileSystems /\ argv \in CommandLines /\ env \in Environments

TypeInv ==
    /\ Surrounded
    /\ StartupTypeOK
    /\ at # "exited" => cfg.difficulty_bits \in 0 .. 255
    /\ Started => ValidConfig(cfg)

\* What follows an option is what the option takes.
LEMMA ArgumentValues ==
    ASSUME NEW argument \in Arguments, DOMAIN argument # {"option"}
    PROVE  /\ argument.option \in {"--config", "--prefix"} => argument.text \in Texts
           /\ argument.option \in {"--bits", "--threads", "--report-ms"} =>
                 argument.number \in Int
BY DEF Arguments

\* Where parse_args is, and the types of what follows it there.
LEMMA ArgumentTypes ==
    ASSUME Surrounded, StartupTypeOK
    PROVE  /\ argv \in Seq(Arguments) /\ Len(argv) \in Nat /\ next_arg \in Nat
           /\ next_arg <= Len(argv) => /\ next_arg + 1 \in 1 .. Len(argv) + 1
                                       /\ argv[next_arg] \in Arguments
<1>1. argv \in Seq(Arguments)
    BY SurroundingsAssumption DEF Surrounded
<1>2. Len(argv) \in Nat /\ next_arg \in 1 .. Len(argv) + 1
    BY <1>1, LenProperties DEF StartupTypeOK
<1>3. \A i \in 1 .. Len(argv) : argv[i] \in Arguments
    BY <1>1, ElementOfSeq
<1> QED
    BY <1>1, <1>2, <1>3

\* What StartupTypeOK says of the settings.
LEMMA TypeOfSettings ==
    StartupTypeOK <=>
        /\ at \in {"start", "arguments", "configured", "secrets", "pool", "solo", "exited"}
        /\ next_arg \in 1 .. Len(argv) + 1
        /\ default_config_loaded \in BOOLEAN
        /\ WellTyped(cfg)
        /\ stop_requested \in BOOLEAN
        /\ exit_code \in {0, 1, 2, 4, 6, 8}
BY DEF StartupTypeOK, WellTyped, Typed

\* The types hold at the start.
LEMMA TypeInvInit == StartupInit => TypeInv
<1> SUFFICES ASSUME StartupInit PROVE TypeInv
    OBVIOUS
<1>1. Surrounded
    BY DEF StartupInit, Surrounded
<1>2. Len(argv) \in Nat
    BY <1>1, SurroundingsAssumption, LenProperties DEF Surrounded
<1>3. WellTyped(cfg) /\ cfg.difficulty_bits \in 0 .. 255
    BY DefaultsTyped DEF StartupInit
<1>4. default_config_loaded \in BOOLEAN /\ stop_requested \in BOOLEAN
    BY DEF StartupInit
<1>5. /\ at = "start" /\ next_arg \in 1 .. Len(argv) + 1 /\ exit_code = 0
    BY <1>2 DEF StartupInit
<1>6. StartupTypeOK
    BY <1>3, <1>4, <1>5, TypeOfSettings
<1> QED
    BY <1>1, <1>3, <1>5, <1>6 DEF TypeInv, Started

\* Every step keeps the types.
LEMMA TypeInvStep == TypeInv /\ [StartupNext]_startupVars => TypeInv'
<1> SUFFICES ASSUME TypeInv, [StartupNext]_startupVars PROVE TypeInv'
    OBVIOUS
<1>1. UNCHANGED <<files, argv, env>>
    BY DEF StartupNext, LoadDefault, Help, BadOption, ConfigOption, SetPrefix, SetNumber,
        ArgumentsEnd, ApplySecrets, Validate, PoolReturns, SoloReturns, Signal, StartupExited,
        Argument, surroundings, startupVars
<1>2. /\ Surrounded /\ Surrounded'
      /\ at \in {"start", "arguments", "configured", "secrets", "pool", "solo", "exited"}
      /\ next_arg \in 1 .. Len(argv) + 1
      /\ default_config_loaded \in BOOLEAN /\ stop_requested \in BOOLEAN
      /\ exit_code \in {0, 1, 2, 4, 6, 8}
      /\ WellTyped(cfg)
    BY <1>1, TypeOfSettings DEF TypeInv, Surrounded
<1>3. /\ argv \in Seq(Arguments) /\ Len(argv) \in Nat
      /\ next_arg <= Len(argv) => /\ next_arg + 1 \in 1 .. Len(argv) + 1
                                  /\ argv[next_arg] \in Arguments
    BY ArgumentTypes DEF TypeInv
\* A step keeps the types if what it changes has them.
<1>typed. ASSUME /\ at' \in {"start", "arguments", "configured", "secrets", "pool", "solo",
                             "exited"}
                 /\ next_arg' \in 1 .. Len(argv) + 1
                 /\ exit_code' \in {0, 1, 2, 4, 6, 8}
                 /\ WellTyped(cfg'),
                 default_config_loaded' \in BOOLEAN,
                 stop_requested' \in BOOLEAN,
                 at' # "exited" => cfg'.difficulty_bits \in 0 .. 255,
                 at' \in {"pool", "solo"} => ValidConfig(cfg')
          PROVE  TypeInv'
    <2>1. \A key \in Keys : Typed(key, cfg'[key])
        BY <1>typed DEF WellTyped
    <2>2. DOMAIN cfg' = Keys
        BY <1>typed DEF WellTyped
    <2>3. \A key \in Keys : CASE Type(key) = "number" -> cfg'[key] \in 0 .. UIntMax
                              [] Type(key) = "bool" -> cfg'[key] \in BOOLEAN
                              [] OTHER -> cfg'[key] \in Texts
        BY <2>1 DEF Typed
    <2>4. StartupTypeOK'
        BY <1>1, <1>typed, <2>2, <2>3 DEF StartupTypeOK
    <2>5. (Started => ValidConfig(cfg))'
        BY <1>typed DEF Started
    <2> QED
        BY <1>2, <1>typed, <2>4, <2>5 DEF TypeInv
\* The same where the settings and the flag stay.
<1>kept. ASSUME UNCHANGED <<cfg, default_config_loaded, stop_requested>>,
                at' \in {"start", "arguments", "configured", "secrets", "pool", "solo", "exited"},
                next_arg' \in 1 .. Len(argv) + 1,
                exit_code' \in {0, 1, 2, 4, 6, 8},
                at # "exited" \/ at' = "exited",
                at' \in {"pool", "solo"} => ValidConfig(cfg)
         PROVE  TypeInv'
    <2>1. at' # "exited" => cfg'.difficulty_bits \in 0 .. 255
        BY <1>kept DEF TypeInv
    <2> QED
        BY <1>2, <1>typed, <1>kept, <2>1
<1>4. CASE LoadDefault
    <2>1. /\ WellTyped(cfg') /\ cfg'.difficulty_bits \in 0 .. 255
        BY <1>2, <1>4, LoadedTyped, DefaultsTyped DEF LoadDefault, Load, Surrounded
    <2>2. default_config_loaded' \in BOOLEAN
        BY <1>4 DEF LoadDefault
    <2>3. at' = "arguments" /\ UNCHANGED <<next_arg, exit_code, stop_requested>>
        BY <1>4 DEF LoadDefault
    <2> QED
        BY <1>2, <1>typed, <2>1, <2>2, <2>3
<1>5. CASE Help \/ BadOption
    BY <1>2, <1>5, <1>kept DEF Help, BadOption, Argument, Exit
<1>6. CASE ConfigOption
    <2>1. WellTyped(cfg') /\ cfg'.difficulty_bits \in 0 .. 255
        BY <1>2, <1>6, LoadedTyped, DefaultsTyped DEF ConfigOption, Load, Surrounded
    <2>2. UNCHANGED <<default_config_loaded, stop_requested>> /\ next_arg <= Len(argv)
        BY <1>6 DEF ConfigOption, Argument
    <2>3. /\ at = "arguments"
          /\ \/ next_arg' = next_arg + 1 /\ UNCHANGED <<at, exit_code>>
             \/ at' = "exited" /\ exit_code' = 1 /\ UNCHANGED next_arg
        BY <1>6 DEF ConfigOption, Argument, Exit
    <2> QED
        BY <1>2, <1>3, <1>typed, <2>1, <2>2, <2>3
<1>7. CASE SetPrefix
    <2>1. argv[next_arg].text \in Texts /\ next_arg <= Len(argv)
        BY <1>3, <1>7, ArgumentValues DEF SetPrefix, Argument, HasValue
    <2>2. /\ "prefix" \in Keys /\ "difficulty_bits" \in Keys \ {"prefix"}
          /\ Type("prefix") = "text"
        BY KeysAre, RangesAre DEF Type
    <2> DEFINE prefix == argv[next_arg].text
    <2>3. cfg' = [cfg EXCEPT !["prefix"] = prefix]
        BY <1>7 DEF SetPrefix, Text
    <2>4. Typed("prefix", prefix)
        BY <2>1, <2>2 DEF Typed
    <2> HIDE DEF prefix
    <2>w. WellTyped(cfg)
        BY <1>2
    <2>5. /\ WellTyped(cfg')
          /\ \A other \in Keys \ {"prefix"} : cfg'[other] = cfg[other]
        BY <2>w, <2>2, <2>3, <2>4 DEF WellTyped
    <2>6. /\ at = "arguments" /\ UNCHANGED <<at, exit_code, default_config_loaded, stop_requested>>
          /\ next_arg' = next_arg + 1
        BY <1>7 DEF SetPrefix, Argument
    <2>7. cfg'.difficulty_bits \in 0 .. 255
        BY <2>2, <2>5, <2>6 DEF TypeInv
    <2> QED
        BY <1>2, <1>3, <1>typed, <2>1, <2>5, <2>6, <2>7
<1>8. ASSUME NEW option \in OverrideOptions \ {"--prefix"}, SetNumber(option) PROVE TypeInv'
    <2> DEFINE key == OptionKey(option)
    <2> DEFINE value == StoulValue(argv[next_arg].number)
    <2> DEFINE parsed == ParsesToUInt32(argv[next_arg].number)
    <2>1. /\ option \in {"--bits", "--threads", "--report-ms"}
          /\ option = "--bits" <=> key = "difficulty_bits"
          /\ key \in {"difficulty_bits", "threads", "report_interval_ms"}
        BY DEF OverrideOptions, OptionKey
    <2>2. parsed => value \in 0 .. UIntMax
        BY DEF ParsesToUInt32
    <2>3. /\ cfg' = IF parsed THEN [cfg EXCEPT ![key] = value] ELSE cfg
          /\ \/ /\ parsed /\ value \in OptionRange(option)
                /\ next_arg' = next_arg + 1 /\ UNCHANGED <<at, exit_code>>
             \/ at' = "exited" /\ exit_code' = 1 /\ UNCHANGED next_arg
          /\ at = "arguments" /\ next_arg <= Len(argv)
          /\ UNCHANGED <<default_config_loaded, stop_requested>>
        BY <1>8 DEF SetNumber, Number, Argument, Exit
    <2>4. /\ key \in Keys /\ Type(key) = "number" /\ "difficulty_bits" \in Keys
        BY <2>1, KeysAre, TypesAre, RangesAre
    <2>5. option = "--bits" => OptionRange(option) = 0 .. 255
        BY DEF OptionRange
    <2> HIDE DEF key, value, parsed
    <2>6. parsed => Typed(key, value)
        BY <2>2, <2>4 DEF Typed
    <2>7. CASE ~parsed
        BY <1>2, <1>typed, <2>3, <2>7
    <2>8. CASE parsed
        <3>1. /\ WellTyped(cfg') /\ cfg'[key] = value
              /\ \A other \in Keys \ {key} : cfg'[other] = cfg[other]
            BY <1>2, <2>3, <2>4, <2>6, <2>8 DEF WellTyped
        <3>2. at' # "exited" => cfg'.difficulty_bits \in 0 .. 255
            <4>1. CASE option = "--bits"
                BY <2>1, <2>3, <2>5, <3>1, <4>1
            <4>2. CASE option # "--bits"
                BY <2>1, <2>3, <2>4, <3>1, <4>2 DEF TypeInv
            <4> QED
                BY <4>1, <4>2
        <3> QED
            BY <1>2, <1>3, <1>typed, <2>3, <3>1, <3>2
    <2> QED
        BY <2>7, <2>8
<1>9. CASE ArgumentsEnd
    BY <1>2, <1>9, <1>kept DEF ArgumentsEnd, Exit
<1>10. CASE ApplySecrets
    <2> DEFINE secret == EnvPassword(cfg)
    <2>1. secret # "" => secret \in Texts
        BY <1>2, SurroundingsAssumption DEF EnvPassword, Surrounded
    <2>2. /\ "password" \in Keys /\ "difficulty_bits" \in Keys \ {"password"}
          /\ Type("password") = "text"
        BY KeysAre, RangesAre DEF Type
    <2>3. /\ cfg' = cfg \/ (cfg' = [cfg EXCEPT !["password"] = secret] /\ secret # "")
          /\ at = "configured" /\ at' = "secrets"
          /\ UNCHANGED <<next_arg, default_config_loaded, stop_requested, exit_code>>
        BY <1>10 DEF ApplySecrets
    <2> HIDE DEF secret
    <2>4. secret # "" => Typed("password", secret)
        BY <2>1, <2>2 DEF Typed
    <2>5. WellTyped(cfg') /\ cfg'["difficulty_bits"] = cfg["difficulty_bits"]
        BY <1>2, <2>2, <2>3, <2>4 DEF WellTyped
    <2>6. cfg'.difficulty_bits \in 0 .. 255
        BY <2>3, <2>5 DEF TypeInv
    <2> QED
        BY <1>2, <1>typed, <2>3, <2>5, <2>6
<1>11. CASE Validate
    BY <1>2, <1>11, <1>kept DEF Validate, Exit
<1>12. CASE PoolReturns \/ SoloReturns
    BY <1>2, <1>12, <1>kept DEF PoolReturns, SoloReturns, Exit
<1>13. CASE Signal
    <2>1. stop_requested' \in BOOLEAN
        BY <1>13 DEF Signal
    <2>2. UNCHANGED <<at, next_arg, cfg, default_config_loaded, exit_code>>
        BY <1>13 DEF Signal
    <2>3. /\ at' # "exited" => cfg'.difficulty_bits \in 0 .. 255
          /\ at' \in {"pool", "solo"} => ValidConfig(cfg')
        BY <2>2 DEF TypeInv, Started
    <2> QED
        BY <1>2, <1>typed, <2>1, <2>2, <2>3
<1>14. CASE StartupExited \/ UNCHANGED startupVars
    <2>1. UNCHANGED <<at, next_arg, cfg, default_config_loaded, stop_requested, exit_code>>
        BY <1>14 DEF StartupExited, startupVars
    <2>2. /\ at' # "exited" => cfg'.difficulty_bits \in 0 .. 255
          /\ at' \in {"pool", "solo"} => ValidConfig(cfg')
        BY <2>1 DEF TypeInv, Started
    <2> QED
        BY <1>2, <1>typed, <2>1, <2>2
<1> QED
    BY <1>4, <1>5, <1>6, <1>7, <1>8, <1>9, <1>10, <1>11, <1>12, <1>13, <1>14 DEF StartupNext

\* The invariant the theorems below rest on.
THEOREM StartupInvariant == StartupSpec => []TypeInv
BY TypeInvInit, TypeInvStep, PTL DEF StartupSpec

\* Every variable of the start keeps its type: no file, word or variable of the
\* environment makes a setting of another type or a number wider than its field.
THEOREM StartupTypeCorrect == StartupSpec => []StartupTypeOK
<1>1. TypeInv => StartupTypeOK
    BY DEF TypeInv
<1> QED
    BY <1>1, StartupInvariant, PTL

\* Whatever the files, the command line and the environment are, what starts has
\* settings for which the other modules are stated: MineAssumption of mine()'s
\* threads, and the waits of ClientAssumption and RuntimeAssumption.
THEOREM StartedCanRun == StartupSpec => []StartedIsRunnable
<1>1. TypeInv => StartedIsRunnable
    <2> SUFFICES ASSUME TypeInv, Started PROVE StartedIsRunnable
        BY DEF StartedIsRunnable
    <2>1. \A key \in Keys : Typed(key, cfg[key])
        BY TypeOfSettings DEF TypeInv, WellTyped
    <2>2. \A key \in DOMAIN FileRange : key \in Keys /\ Type(key) = "number"
        BY KeysAre, RangesAre, TypesAre
    <2>3. \A key \in DOMAIN FileRange : cfg[key] \in 0 .. UIntMax
        BY <2>1, <2>2 DEF Typed
    <2>4. /\ cfg.threads \in 0 .. UIntMax
          /\ cfg.notify_timeout_sec \in 0 .. UIntMax
          /\ cfg.reconnect_initial_sec \in 0 .. UIntMax
          /\ cfg.reconnect_max_sec \in 0 .. UIntMax
        BY <2>3, RangesAre
    <2>5. /\ cfg.difficulty_bits \in 0 .. 255
          /\ ValidConfig(cfg)
        BY DEF TypeInv, Started
    <2>6. UIntMax \in Nat
        BY ConfigAssumption
    <2>7. cfg.threads \in 1 .. UIntMax
        BY <2>4, <2>5, <2>6 DEF ValidConfig
    <2>8. cfg.enabled => ValidPool(cfg)
        BY <2>5 DEF ValidConfig
    <2>waits. ValidPool(cfg) => /\ cfg.notify_timeout_sec > 0
                                /\ cfg.reconnect_initial_sec > 0
                                /\ cfg.reconnect_max_sec >= cfg.reconnect_initial_sec
                                /\ cfg.port \in Ports
        BY Zenon DEF ValidPool
    <2>9. ValidPool(cfg) => /\ cfg.notify_timeout_sec \in 1 .. UIntMax
                            /\ cfg.reconnect_initial_sec \in 1 .. UIntMax
                            /\ cfg.reconnect_max_sec \in cfg.reconnect_initial_sec .. UIntMax
                            /\ cfg.port \in Ports
        BY <2>4, <2>6, <2>waits
    <2>10. ValidPool(cfg) => /\ Placeholder \notin UsernameParts(cfg) \cup {cfg.password}
                             /\ "" # cfg.password
        BY DEF ValidPool
    <2> QED
        BY <2>5, <2>7, <2>8, <2>9, <2>10 DEF StartedIsRunnable
<1> QED
    BY <1>1, StartupInvariant, PTL

-----------------------------------------------------------------------------
(* What the settings are.                                                  *)

\* Where an option stands last among the first n - 1 arguments of a line.
LastIn(line, option, n) ==
    LET positions == {i \in DOMAIN line : i < n /\ line[i].option = option}
    IN IF positions = {} THEN 0 ELSE CHOOSE i \in positions : \A j \in positions : j <= i

\* None of the arguments is an option.
LEMMA LastOfNone ==
    ASSUME NEW line \in Seq(Arguments), NEW option
    PROVE  LastIn(line, option, 1) = 0
<1>1. DOMAIN line = 1 .. Len(line) /\ Len(line) \in Nat
    BY LenProperties
<1>2. {i \in DOMAIN line : i < 1 /\ line[i].option = option} = {}
    BY <1>1
<1> QED
    BY <1>2 DEF LastIn

\* One more argument is the last of its option and changes no other.
LEMMA LastOfMore ==
    ASSUME NEW line \in Seq(Arguments), NEW n \in 1 .. Len(line), NEW option
    PROVE  LastIn(line, option, n + 1) =
              IF line[n].option = option THEN n ELSE LastIn(line, option, n)
<1> DEFINE before == {i \in DOMAIN line : i < n /\ line[i].option = option}
<1> DEFINE after == {i \in DOMAIN line : i < n + 1 /\ line[i].option = option}
<1>1. DOMAIN line = 1 .. Len(line) /\ Len(line) \in Nat
    BY LenProperties
<1>2. /\ LastIn(line, option, n) =
            IF before = {} THEN 0 ELSE CHOOSE i \in before : \A j \in before : j <= i
      /\ LastIn(line, option, n + 1) =
            IF after = {} THEN 0 ELSE CHOOSE i \in after : \A j \in after : j <= i
    BY DEF LastIn
<1>3. CASE line[n].option = option
    <2>1. n \in after /\ \A j \in after : j \in Int /\ j <= n
        BY <1>1, <1>3
    <2> HIDE DEF before, after
    <2>2. \A i \in after : (\A j \in after : j <= i) => i = n
        BY <2>1
    <2>3. (CHOOSE i \in after : \A j \in after : j <= i) = n
        BY <2>1, <2>2
    <2> QED
        BY <1>2, <1>3, <2>1, <2>3
<1>4. CASE line[n].option # option
    <2>1. before = after
        BY <1>1, <1>4
    <2> HIDE DEF before, after
    <2> QED
        BY <1>2, <1>4, <2>1
<1> QED
    BY <1>3, <1>4

\* All of the arguments are those before the end.
LEMMA LastOfAll ==
    ASSUME argv \in Seq(Arguments), NEW option
    PROVE  LastOf(option) = LastIn(argv, option, Len(argv) + 1)
<1> DEFINE all == {i \in DOMAIN argv : argv[i].option = option}
<1> DEFINE before == {i \in DOMAIN argv : i < Len(argv) + 1 /\ argv[i].option = option}
<1>1. DOMAIN argv = 1 .. Len(argv) /\ Len(argv) \in Nat
    BY LenProperties
<1>2. all = before
    BY <1>1
<1>3. /\ LastOf(option) = IF all = {} THEN 0 ELSE CHOOSE i \in all : \A j \in all : j <= i
      /\ LastIn(argv, option, Len(argv) + 1) =
            IF before = {} THEN 0 ELSE CHOOSE i \in before : \A j \in before : j <= i
    BY DEF LastOf, LastIn
<1> HIDE DEF all, before
<1> QED
    BY <1>2, <1>3

\* The file that is read last, and whether an option follows it.
Chosen(line, n) ==
    IF LastIn(line, "--config", n) = 0 THEN DefaultPath
    ELSE line[LastIn(line, "--config", n)].text

Overrides(line, n, option) == LastIn(line, option, n) > LastIn(line, "--config", n)

\* What the files and the arguments before n say that a setting is; of a file
\* that cannot be read nothing is required.
Says(disk, line, n, key, value) ==
    IF \E option \in OverrideOptions : OptionKey(option) = key /\ Overrides(line, n, option)
    THEN \A option \in OverrideOptions :
            OptionKey(option) = key => value = line[LastIn(line, option, n)][Type(key)]
    ELSE Chosen(line, n) \in DOMAIN disk => MeansInFile(disk[Chosen(line, n)], key, value)

\* A setting of the default file before any argument.
LEMMA SaysDefault ==
    ASSUME NEW disk, NEW line \in Seq(Arguments), NEW key \in Keys, NEW value,
           DefaultPath \in DOMAIN disk => value = LoadConfig(disk[DefaultPath])[key]
    PROVE  Says(disk, line, 1, key, value)
<1>1. \A option : LastIn(line, option, 1) = 0
    BY LastOfNone
<1>2. Chosen(line, 1) = DefaultPath
    BY <1>1 DEF Chosen
<1>3. \A option : ~Overrides(line, 1, option)
    BY <1>1 DEF Overrides
<1>4. DefaultPath \in DOMAIN disk => MeansInFile(disk[DefaultPath], key, value)
    BY LoadMeans
<1> QED
    BY <1>2, <1>3, <1>4, Zenon DEF Says

\* A setting after --config: options before it are void.
LEMMA SaysConfig ==
    ASSUME NEW disk, NEW line \in Seq(Arguments), NEW n \in 1 .. Len(line),
           line[n].option = "--config", line[n].text \in DOMAIN disk,
           \A option \in ValueOptions : LastIn(line, option, n) \in 0 .. n - 1,
           NEW key \in Keys
    PROVE  /\ Chosen(line, n + 1) = line[n].text
           /\ Says(disk, line, n + 1, key, LoadConfig(disk[line[n].text])[key])
<1>1. LastIn(line, "--config", n + 1) = n /\ n # 0
    <2>1. LastIn(line, "--config", n + 1) = n
        BY LastOfMore
    <2> QED
        BY <2>1
<1>2. Chosen(line, n + 1) = line[n].text
    BY <1>1 DEF Chosen
<1>3. ASSUME NEW option \in OverrideOptions PROVE ~Overrides(line, n + 1, option)
    <2>1. option # "--config" /\ option \in ValueOptions
        BY DEF OverrideOptions, ValueOptions
    <2>2. LastIn(line, option, n + 1) = LastIn(line, option, n)
        BY <2>1, LastOfMore
    <2>3. LastIn(line, option, n) \in 0 .. n - 1
        BY <2>1
    <2> QED
        BY <1>1, <2>2, <2>3 DEF Overrides
<1>4. MeansInFile(disk[line[n].text], key, LoadConfig(disk[line[n].text])[key])
    BY LoadMeans
<1> QED
    BY <1>2, <1>3, <1>4, Zenon DEF Says

\* The options set different settings.
LEMMA OptionKeysDiffer ==
    /\ \A option \in OverrideOptions : OptionKey(option) \in Keys \ {"password", "password_env"}
    /\ \A option, other \in OverrideOptions : OptionKey(option) = OptionKey(other) => option = other
    /\ OptionKey("--prefix") = "prefix"
    /\ \A option \in OverrideOptions \ {"--prefix"} : Type(OptionKey(option)) = "number"
    /\ Type("prefix") = "text"
<1>1. /\ OptionKey("--prefix") = "prefix" /\ OptionKey("--bits") = "difficulty_bits"
      /\ OptionKey("--threads") = "threads" /\ OptionKey("--report-ms") = "report_interval_ms"
    BY DEF OptionKey
<1>2. OverrideOptions = {"--prefix", "--bits", "--threads", "--report-ms"}
    BY DEF OverrideOptions
<1>3. /\ Type("difficulty_bits") = "number" /\ Type("threads") = "number"
      /\ Type("report_interval_ms") = "number" /\ Type("prefix") = "text"
    BY RangesAre DEF Type
<1> QED
    BY <1>1, <1>2, <1>3, KeysAre

\* The setting of an option after it, and every other setting.
LEMMA SaysOption ==
    ASSUME NEW disk, NEW line \in Seq(Arguments), NEW n \in 1 .. Len(line),
           NEW option \in OverrideOptions, line[n].option = option,
           \A other \in ValueOptions : LastIn(line, other, n) \in 0 .. n - 1,
           NEW key \in Keys, NEW value,
           IF key = OptionKey(option) THEN value = line[n][Type(key)]
                                      ELSE Says(disk, line, n, key, value)
    PROVE  /\ Chosen(line, n + 1) = Chosen(line, n)
           /\ Says(disk, line, n + 1, key, value)
<1>1. /\ "--config" \in ValueOptions /\ option # "--config"
      /\ OverrideOptions \subseteq ValueOptions /\ "--config" \notin OverrideOptions
    BY DEF OverrideOptions, ValueOptions
<1>2. LastIn(line, "--config", n + 1) = LastIn(line, "--config", n)
    BY <1>1, LastOfMore
<1>3. Chosen(line, n + 1) = Chosen(line, n)
    BY <1>2 DEF Chosen
<1>4. LastIn(line, option, n + 1) = n
    BY LastOfMore
<1>5. CASE key = OptionKey(option)
    <2>1. Overrides(line, n + 1, option)
        BY <1>1, <1>2, <1>4 DEF Overrides
    <2>2. \A other \in OverrideOptions : OptionKey(other) = key => other = option
        BY <1>5, OptionKeysDiffer
    <2> QED
        BY <1>3, <1>4, <1>5, <2>1, <2>2 DEF Says
<1>6. CASE key # OptionKey(option)
    <2>1. ASSUME NEW other \in OverrideOptions, OptionKey(other) = key
          PROVE  LastIn(line, other, n + 1) = LastIn(line, other, n)
        BY <1>6, <2>1, LastOfMore
    <2>2. ASSUME NEW other \in OverrideOptions, OptionKey(other) = key
          PROVE  Overrides(line, n + 1, other) <=> Overrides(line, n, other)
        BY <1>2, <2>1, <2>2 DEF Overrides
    <2>3. Says(disk, line, n, key, value)
        BY <1>6
    <2> QED
        BY <1>3, <2>1, <2>2, <2>3, Zenon DEF Says
<1> QED
    BY <1>5, <1>6

\* No number is so far below zero that std::stoul turns it into one that a setting
\* can hold; with a 64-bit unsigned long, -1 is not.
NoNumberWraps ==
    \A line \in CommandLines : \A i \in DOMAIN line :
        "number" \in DOMAIN line[i] => line[i].number >= UIntMax - ULongMax

\* The settings are those that what has been read says, until the password of the
\* environment replaces the one of the file.
SettingsInv ==
    /\ at = "start" => next_arg = 1 /\ config_path = DefaultPath
    /\ at \in {"arguments", "configured", "secrets", "pool", "solo"} =>
        /\ \A option \in ValueOptions : LastIn(argv, option, next_arg) \in 0 .. next_arg - 1
        /\ config_path = Chosen(argv, next_arg)
        /\ LastIn(argv, "--config", next_arg) # 0 => config_path \in DOMAIN files
        /\ default_config_loaded = (DefaultPath \in DOMAIN files)
        /\ at # "arguments" => next_arg = Len(argv) + 1 /\ config_path \in DOMAIN files
        /\ \A key \in Keys : key # "password" => Says(files, argv, next_arg, key, cfg[key])
        /\ IF at \in {"secrets", "pool", "solo"} /\ cfg.password_env # "" /\ EnvPassword(cfg) # ""
           THEN cfg["password"] = EnvPassword(cfg)
           ELSE Says(files, argv, next_arg, "password", cfg["password"])

\* Before anything is read there is nothing to say.
LEMMA SettingsInvInit == StartupInit => SettingsInv
BY DEF StartupInit, SettingsInv

\* No option of the command line names the password, so the defaults, the files
\* and the arguments say it as they say the others.
LEMMA SettingsBefore ==
    ASSUME SettingsInv, at \in {"arguments", "configured"}
    PROVE  \A key \in Keys : Says(files, argv, next_arg, key, cfg[key])
BY DEF SettingsInv

\* A number that is accepted is the one that was written.
LEMMA NumberAsWritten ==
    ASSUME NoNumberWraps, Surrounded, StartupTypeOK, next_arg <= Len(argv), HasValue,
           argv[next_arg].option \in {"--bits", "--threads", "--report-ms"},
           ParsesToUInt32(Number)
    PROVE  StoulValue(Number) = Number
<1>1. argv[next_arg] \in Arguments /\ next_arg \in DOMAIN argv
    BY ArgumentTypes, LenProperties DEF StartupTypeOK
<1>2. "number" \in DOMAIN argv[next_arg] /\ Number \in Int
    BY <1>1 DEF HasValue, Number, Arguments
<1>3. Number >= UIntMax - ULongMax
    BY <1>1, <1>2 DEF NoNumberWraps, Surrounded, Number
<1>4. UIntMax \in Nat /\ ULongMax \in Nat
    BY ConfigAssumption, StartupAssumption
<1> QED
    BY <1>2, <1>3, <1>4 DEF ParsesToUInt32, StoulValue

\* The word after an option becomes the setting.
Sets(option) ==
    /\ at = "arguments" /\ next_arg <= Len(argv) /\ argv[next_arg].option = option
    /\ cfg' = [cfg EXCEPT ![OptionKey(option)] = argv[next_arg][Type(OptionKey(option))]]
    /\ next_arg' = next_arg + 1
    /\ UNCHANGED <<files, argv, env, at, config_path, default_config_loaded>>

\* So it does after --prefix.
LEMMA PrefixSets == SetPrefix => "--prefix" \in OverrideOptions /\ Sets("--prefix")
BY OptionKeysDiffer DEF SetPrefix, Argument, Text, surroundings, Sets, OverrideOptions

\* And after an option that takes a number, if it is accepted.
LEMMA NumberSets ==
    ASSUME NoNumberWraps, TypeInv, at' # "exited",
           NEW option \in OverrideOptions \ {"--prefix"}, SetNumber(option)
    PROVE  Sets(option)
<1>1. /\ option \in {"--bits", "--threads", "--report-ms"}
      /\ Type(OptionKey(option)) = "number"
    BY OptionKeysDiffer DEF OverrideOptions
<1>2. /\ next_arg <= Len(argv) /\ HasValue /\ at = "arguments"
      /\ argv[next_arg].option = option
      /\ UNCHANGED <<files, argv, env, config_path, default_config_loaded>>
    BY DEF SetNumber, Argument, surroundings
<1>3. ParsesToUInt32(Number) /\ UNCHANGED at /\ next_arg' = next_arg + 1
    BY DEF SetNumber, Exit
<1>4. cfg' = [cfg EXCEPT ![OptionKey(option)] = StoulValue(Number)]
    BY <1>3 DEF SetNumber
<1>5. StoulValue(Number) = argv[next_arg]["number"]
    BY <1>1, <1>2, <1>3, NumberAsWritten DEF TypeInv, Number
<1> QED
    BY <1>1, <1>2, <1>3, <1>4, <1>5 DEF Sets

\* Every step keeps the settings what the files and the arguments say.
LEMMA SettingsInvStep ==
    NoNumberWraps /\ TypeInv /\ SettingsInv /\ [StartupNext]_startupVars => SettingsInv'
<1> SUFFICES ASSUME NoNumberWraps, TypeInv, SettingsInv, [StartupNext]_startupVars,
                    at' # "exited"
             PROVE  SettingsInv'
    BY DEF SettingsInv
<1>1. /\ argv \in Seq(Arguments) /\ Len(argv) \in Nat
      /\ next_arg \in Nat \ {0}
      /\ WellTyped(cfg) /\ "password" \in Keys /\ "--config" \in ValueOptions
    BY ArgumentTypes, TypeOfSettings, KeysAre DEF TypeInv, ValueOptions, StartupTypeOK
<1>2. CASE LoadDefault
    <2>1. /\ files' = files /\ argv' = argv /\ next_arg' = 1 /\ at' = "arguments"
          /\ config_path' = DefaultPath
          /\ default_config_loaded' = (DefaultPath \in DOMAIN files)
          /\ DefaultPath \in DOMAIN files => cfg' = LoadConfig(files[DefaultPath])
        BY <1>2 DEF LoadDefault, Load, SettingsInv, surroundings
    <2>2. \A option : LastIn(argv, option, 1) = 0
        BY <1>1, LastOfNone
    <2>3. Chosen(argv, 1) = DefaultPath
        BY <2>2 DEF Chosen
    <2>4. \A key \in Keys : Says(files, argv, 1, key, cfg'[key])
        BY <1>1, <2>1, SaysDefault
    <2>5. \A option \in ValueOptions : LastIn(argv, option, 1) \in 0 .. 1 - 1
        BY <2>2
    <2> QED
        BY <1>1, <2>1, <2>2, <2>3, <2>4, <2>5, Zenon DEF SettingsInv
<1>3. CASE ConfigOption
    <2>1. /\ argv[next_arg].option = "--config" /\ next_arg <= Len(argv)
          /\ argv[next_arg].text \in DOMAIN files
          /\ cfg' = LoadConfig(files[argv[next_arg].text])
          /\ config_path' = argv[next_arg].text
          /\ next_arg' = next_arg + 1 /\ at = "arguments"
          /\ UNCHANGED <<files, argv, at, default_config_loaded>>
        BY <1>3 DEF ConfigOption, Argument, Exit, Text, Load, surroundings
    <2>2. /\ next_arg \in 1 .. Len(argv)
          /\ \A option \in ValueOptions : LastIn(argv, option, next_arg) \in 0 .. next_arg - 1
        BY <1>1, <2>1 DEF SettingsInv
    <2>3. \A key \in Keys : /\ Chosen(argv, next_arg + 1) = argv[next_arg].text
                            /\ Says(files, argv, next_arg + 1, key, cfg'[key])
        BY <1>1, <2>1, <2>2, SaysConfig
    <2>4. \A option \in ValueOptions :
             LastIn(argv, option, next_arg + 1) \in 0 .. (next_arg + 1) - 1
        BY <1>1, <2>2, LastOfMore
    <2> QED
        BY <1>1, <2>1, <2>3, <2>4 DEF SettingsInv
<1>4. ASSUME NEW option \in OverrideOptions, Sets(option) PROVE SettingsInv'
    <2> DEFINE set == OptionKey(option)
    <2> DEFINE word == argv[next_arg][Type(set)]
    <2>1. /\ cfg' = [cfg EXCEPT ![set] = word]
          /\ next_arg <= Len(argv) /\ next_arg' = next_arg + 1 /\ at = "arguments"
          /\ argv[next_arg].option = option
          /\ UNCHANGED <<files, argv, at, config_path, default_config_loaded>>
        BY <1>4 DEF Sets
    <2>2. /\ next_arg \in 1 .. Len(argv)
          /\ \A other \in ValueOptions : LastIn(argv, other, next_arg) \in 0 .. next_arg - 1
          /\ \A key \in Keys : Says(files, argv, next_arg, key, cfg[key])
        BY <1>1, <2>1, SettingsBefore DEF SettingsInv
    <2>3. set \in Keys
        BY OptionKeysDiffer
    <2>4. \A key \in Keys : IF key = set THEN cfg'[key] = argv[next_arg][Type(key)]
                                         ELSE cfg'[key] = cfg[key]
        BY <1>1, <2>1, <2>3 DEF WellTyped
    <2>5. ASSUME NEW key \in Keys
          PROVE  /\ Chosen(argv, next_arg + 1) = Chosen(argv, next_arg)
                 /\ Says(files, argv, next_arg + 1, key, cfg'[key])
        <3>1. IF key = set THEN cfg'[key] = argv[next_arg][Type(key)]
                           ELSE Says(files, argv, next_arg, key, cfg'[key])
            BY <2>2, <2>4
        <3> QED
            BY <1>1, <2>1, <2>2, <3>1, SaysOption
    <2>6. \A other \in ValueOptions :
             LastIn(argv, other, next_arg + 1) \in 0 .. (next_arg + 1) - 1
        BY <1>1, <2>2, LastOfMore
    <2>7. LastIn(argv, "--config", next_arg + 1) = LastIn(argv, "--config", next_arg)
        <3>1. argv[next_arg].option # "--config"
            BY <2>1 DEF OverrideOptions
        <3> QED
            BY <1>1, <2>2, <3>1, LastOfMore
    <2> QED
        BY <1>1, <2>1, <2>5, <2>6, <2>7 DEF SettingsInv
<1>5. CASE ArgumentsEnd
    <2>1. /\ next_arg > Len(argv) /\ at = "arguments" /\ at' = "configured"
          /\ config_path # DefaultPath \/ default_config_loaded
          /\ UNCHANGED <<files, argv, next_arg, config_path, default_config_loaded, cfg>>
        BY <1>5 DEF ArgumentsEnd, Exit, surroundings
    <2>2. next_arg = Len(argv) + 1
        BY <1>1, <2>1 DEF TypeInv, StartupTypeOK
    <2>3. config_path \in DOMAIN files
        BY <2>1 DEF SettingsInv, Chosen
    <2> QED
        BY <2>1, <2>2, <2>3 DEF SettingsInv
<1>6. CASE ApplySecrets
    <2>1. /\ at = "configured" /\ at' = "secrets"
          /\ UNCHANGED <<files, argv, env, next_arg, config_path, default_config_loaded>>
          /\ cfg' = IF cfg.password_env # "" /\ EnvPassword(cfg) # ""
                    THEN [cfg EXCEPT !["password"] = EnvPassword(cfg)]
                    ELSE cfg
        BY <1>6 DEF ApplySecrets, surroundings
    <2>2. \A key \in Keys : Says(files, argv, next_arg, key, cfg[key])
        BY <2>1, SettingsBefore
    <2>3. \A key \in Keys \ {"password"} : cfg'[key] = cfg[key]
        BY <1>1, <2>1 DEF WellTyped
    <2>4. cfg'.password_env = cfg.password_env
        BY <2>3, KeysAre
    <2>5. EnvPassword(cfg)' = EnvPassword(cfg)
        <3>1. env' = env
            BY <2>1
        <3> QED
            BY <2>4, <3>1 DEF EnvPassword
    <2>6. cfg'["password"] = IF cfg.password_env # "" /\ EnvPassword(cfg) # ""
                             THEN EnvPassword(cfg) ELSE cfg["password"]
        BY <1>1, <2>1 DEF WellTyped
    <2>7. \A key \in Keys : key # "password" => Says(files, argv, next_arg, key, cfg'[key])
        BY <2>2, <2>3
    <2>8. IF cfg'.password_env # "" /\ EnvPassword(cfg)' # ""
          THEN cfg'["password"] = EnvPassword(cfg)'
          ELSE Says(files, argv, next_arg, "password", cfg'["password"])
        BY <1>1, <2>2, <2>4, <2>5, <2>6
    <2> QED
        BY <2>1, <2>7, <2>8 DEF SettingsInv
<1>7. CASE \/ Help \/ BadOption \/ PoolReturns \/ SoloReturns \/ StartupExited
    BY <1>7 DEF Help, BadOption, PoolReturns, SoloReturns, StartupExited, Exit, startupVars
<1>8. CASE Validate
    <2>1. /\ at = "secrets" /\ at' \in {"pool", "solo"}
          /\ UNCHANGED <<files, argv, env, next_arg, config_path, default_config_loaded, cfg>>
        BY <1>8 DEF Validate, Exit, surroundings
    <2> QED
        BY <2>1 DEF SettingsInv, EnvPassword
<1>9. CASE Signal \/ UNCHANGED startupVars
    <2>1. UNCHANGED <<files, argv, env, at, next_arg, config_path, default_config_loaded, cfg>>
        BY <1>9 DEF Signal, startupVars, surroundings
    <2> QED
        BY <2>1 DEF SettingsInv, EnvPassword
<1>10. CASE SetPrefix
    BY <1>4, <1>10, PrefixSets
<1>11. CASE \E option \in OverrideOptions \ {"--prefix"} : SetNumber(option)
    BY <1>4, <1>11, NumberSets
<1> QED
    BY <1>2, <1>3, <1>5, <1>6, <1>7, <1>8, <1>9, <1>10, <1>11 DEF StartupNext

\* Mining uses exactly what the last --config file, the options after it and the
\* environment state, for every order and repetition of the options, as long as no
\* negative number wraps into range.
THEOREM SettingsAreEffective == NoNumberWraps => (StartupSpec => []EffectiveSettings)
<1>1. TypeInv /\ SettingsInv => EffectiveSettings
    <2> SUFFICES ASSUME TypeInv, SettingsInv, Started PROVE EffectiveSettings
        BY DEF EffectiveSettings
    <2> DEFINE chosen == Chosen(argv, next_arg)
    <2>1. /\ argv \in Seq(Arguments) /\ next_arg = Len(argv) + 1
          /\ config_path = chosen /\ chosen \in DOMAIN files
          /\ at \in {"pool", "solo"}
        BY ArgumentTypes DEF TypeInv, SettingsInv, Started
    <2>2. \A option : LastOf(option) = LastIn(argv, option, next_arg)
        BY <2>1, LastOfAll
    <2>3. chosen = IF LastOf("--config") = 0 THEN DefaultPath
                   ELSE argv[LastOf("--config")].text
        BY <2>2 DEF Chosen
    <2>4. /\ \A key \in Keys : key # "password" => Says(files, argv, next_arg, key, cfg[key])
          /\ IF cfg.password_env # "" /\ EnvPassword(cfg) # ""
             THEN cfg["password"] = EnvPassword(cfg)
             ELSE Says(files, argv, next_arg, "password", cfg["password"])
        BY <2>1 DEF SettingsInv
    <2>5. \A option : Overrides(argv, next_arg, option) <=> LastOf(option) > LastOf("--config")
        BY <2>2 DEF Overrides
    <2> HIDE DEF chosen
    <2>6. \A key, value :
             Says(files, argv, next_arg, key, value) =>
                IF \E option \in OverrideOptions :
                      OptionKey(option) = key /\ LastOf(option) > LastOf("--config")
                THEN \A option \in OverrideOptions :
                        OptionKey(option) = key => value = argv[LastOf(option)][Type(key)]
                ELSE MeansInFile(files[chosen], key, value)
        BY <2>1, <2>2, <2>5, Zenon DEF Says, chosen
    <2>7. ~\E option \in OverrideOptions : OptionKey(option) = "password"
        BY OptionKeysDiffer
    <2>8. ASSUME NEW key \in Keys
          PROVE  IF \E option \in OverrideOptions :
                       OptionKey(option) = key /\ LastOf(option) > LastOf("--config")
                 THEN \A option \in OverrideOptions :
                         OptionKey(option) = key => cfg[key] = argv[LastOf(option)][Type(key)]
                 ELSE IF key = "password" /\ EnvPassword(cfg) # "" /\ cfg.password_env # ""
                 THEN cfg[key] = EnvPassword(cfg)
                 ELSE MeansInFile(files[chosen], key, cfg[key])
        <3>1. CASE key = "password"
            BY <2>4, <2>6, <2>7, <3>1, Zenon
        <3>2. CASE key # "password"
            BY <2>4, <2>6, <3>2, Zenon
        <3> QED
            BY <3>1, <3>2
    <2> QED
        BY <2>1, <2>3, <2>8, Zenon DEF EffectiveSettings
<1>2. CASE NoNumberWraps
    <2>1. StartupSpec => []SettingsInv
        BY <1>2, SettingsInvInit, SettingsInvStep, StartupInvariant, PTL DEF StartupSpec
    <2> QED
        BY <1>1, <2>1, StartupInvariant, PTL
<1> QED
    BY <1>2
=============================================================================
