---------------------------- MODULE MinerConfig ----------------------------
(***************************************************************************)
(* The settings of the miner: their defaults and ranges, how a file is     *)
(* turned into them (load_config) and what validate_config accepts         *)
(* (src/src/lib/miner_config.cpp).                                         *)
(*                                                                         *)
(* A parsed file is a function from places, <<section, key>>, to typed     *)
(* values, [number |-> 4]; a section that is no object states nothing.     *)
(* Of a text only three things matter: whether it is empty, whether it     *)
(* holds the placeholder of the templates, and whether it is the same as   *)
(* another.                                                                *)
(***************************************************************************)
EXTENDS Naturals, Sequences

CONSTANTS
    UIntMax,                \* 2^32 - 1
    HardwareConcurrency,    \* std::thread::hardware_concurrency(), may be 0
    Texts                   \* what std::string holds; the texts of the code are among them

ASSUME ConfigAssumption ==
    /\ UIntMax \in Nat /\ UIntMax >= 65535
    /\ HardwareConcurrency \in 0 .. UIntMax

ASSUME TextsAssumption ==
    {"", "CP-1", "cp1", "pool.example.com", "x", "hello-bitcoin", "logs/miner.log"} \subseteq Texts

\* A text that contains "REPLACE_WITH".
Placeholder == "REPLACE_WITH_YOURS"

Defaults == [
    node_id |-> "CP-1", worker_id |-> "cp1", payout_address |-> "",
    username |-> "", host |-> "pool.example.com", port |-> 3333, password |-> "x",
    password_env |-> "", require_tls |-> FALSE, enabled |-> FALSE,
    notify_timeout_sec |-> 30, max_cycles |-> 0, max_reconnect_attempts |-> 0,
    reconnect_initial_sec |-> 1, reconnect_max_sec |-> 30,
    prefix |-> "hello-bitcoin", difficulty_bits |-> 24,
    threads |-> IF HardwareConcurrency = 0 THEN 1 ELSE HardwareConcurrency,
    report_interval_ms |-> 1000,
    output |-> "logs/miner.log", health_output |-> "", health_emit_each_cycle |-> FALSE]

Keys == DOMAIN Defaults

RootKeys == {"node_id", "worker_id", "payout_address"}
HashingKeys == {"prefix", "difficulty_bits", "threads", "report_interval_ms"}
LoggingKeys == {"output", "health_output", "health_emit_each_cycle"}
Section(key) == CASE key \in RootKeys -> "root"
                  [] key \in HashingKeys -> "hashing"
                  [] key \in LoggingKeys -> "logging"
                  [] OTHER -> "pool"

\* The numbers of TCP ports.
Ports == 1 .. 65535

\* What load_config takes from a file; validate_config has ranges of its own.
FileRange == [
    port |-> Ports, difficulty_bits |-> 0 .. 255,
    notify_timeout_sec |-> 1 .. UIntMax, max_cycles |-> 0 .. UIntMax,
    max_reconnect_attempts |-> 0 .. UIntMax, reconnect_initial_sec |-> 1 .. UIntMax,
    reconnect_max_sec |-> 1 .. UIntMax, threads |-> 1 .. UIntMax,
    report_interval_ms |-> 1 .. UIntMax]

Type(key) == IF key \in DOMAIN FileRange THEN "number"
             ELSE IF key \in {"require_tls", "enabled", "health_emit_each_cycle"} THEN "bool"
             ELSE "text"

-----------------------------------------------------------------------------
\* read_string_field, read_uint_field, read_bool_field
Readable(file, place, type) == place \in DOMAIN file /\ type \in DOMAIN file[place]

\* The places of a setting in the order they are tried: its section, then the
\* flat form of older files.
Places(key) == << <<Section(key), key>>, <<"root", key>> >>

\* Which of them have a value of the right type, and what the first one says.
ReadablePlaces(file, key) ==
    {i \in DOMAIN Places(key) : Readable(file, Places(key)[i], Type(key))}

Stated(file, key) ==
    LET first == CHOOSE i \in ReadablePlaces(file, key) :
                     \A j \in ReadablePlaces(file, key) : i <= j
    IN file[Places(key)[first]][Type(key)]

InFileRange(file, key) == key \in DOMAIN FileRange => Stated(file, key) \in FileRange[key]

\* The first value of the right type decides.  If it is out of range the default
\* stays, and the next place is not tried.
LoadSetting(file, key) ==
    IF ReadablePlaces(file, key) # {} /\ InFileRange(file, key)
    THEN Stated(file, key)
    ELSE Defaults[key]

\* Mutant: a number is taken from the file as it is.
LoadConfigUnchecked(file) ==
    [key \in Keys |-> IF ReadablePlaces(file, key) = {} THEN Defaults[key] ELSE Stated(file, key)]

\* Whatever the settings were, they start from the defaults.
LoadConfig(file) == [key \in Keys |-> LoadSetting(file, key)]

-----------------------------------------------------------------------------
\* pool_username, as the set of texts it is put together from.
UsernameParts(cfg) ==
    IF cfg.username # "" THEN {cfg.username}
    ELSE IF cfg.payout_address = "" THEN {cfg.worker_id}
    ELSE {cfg.payout_address, cfg.worker_id}

\* Mutant: the two waits are not compared.
ValidPoolUnordered(cfg) ==
    /\ cfg.host # ""
    /\ cfg.port \in Ports
    /\ UsernameParts(cfg) # {""}
    /\ Placeholder \notin UsernameParts(cfg)
    /\ cfg.password \notin {"", Placeholder}
    /\ cfg.notify_timeout_sec > 0
    /\ cfg.reconnect_initial_sec > 0 /\ cfg.reconnect_max_sec > 0
    /\ ~cfg.require_tls

ValidPool(cfg) ==
    /\ cfg.host # ""
    /\ cfg.port \in Ports
    /\ UsernameParts(cfg) # {""}
    /\ Placeholder \notin UsernameParts(cfg)
    /\ cfg.password \notin {"", Placeholder}
    /\ cfg.notify_timeout_sec > 0
    /\ cfg.reconnect_initial_sec > 0 /\ cfg.reconnect_max_sec > 0
    /\ cfg.reconnect_max_sec >= cfg.reconnect_initial_sec
    /\ ~cfg.require_tls

\* validate_config
ValidConfig(cfg) ==
    /\ cfg.threads > 0
    /\ cfg.report_interval_ms > 0
    /\ cfg.enabled => ValidPool(cfg)
=============================================================================
