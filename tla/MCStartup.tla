------------------------------ MODULE MCStartup ------------------------------
(***************************************************************************)
(* Startup for TLC: one other file beside the default one, whose           *)
(* statements deviate from a runnable pool configuration in up to two      *)
(* places, and every command line of up to three arguments.                *)
(***************************************************************************)
EXTENDS Startup, FiniteSetsExt, SequencesExt

MCTexts == {"", "CP-1", "cp1", "pool.example.com", "x", "hello-bitcoin", "logs/miner.log",
            Placeholder, "flat", "me", "POOL_PASSWORD", "no", "4", "wallet", "text", "secret",
            "other.json", "missing.json"}

States(section, key, value) == <<section, key>> :> value

DefaultFile == States("hashing", "threads", [number |-> 2]) @@ States("root", "prefix", [text |-> "flat"])

Runnable ==
    States("pool", "enabled", [bool |-> TRUE]) @@ States("pool", "username", [text |-> "me"])
        @@ States("pool", "password_env", [text |-> "POOL_PASSWORD"])

Deviations == {
    States("pool", "enabled", [text |-> "no"]), States("root", "enabled", [bool |-> FALSE]),
    States("pool", "port", [number |-> 65535]), States("pool", "port", [number |-> 65536]),
    States("root", "port", [number |-> 0]), States("root", "port", [number |-> 4444]),
    States("hashing", "threads", [number |-> 0]), States("root", "threads", [number |-> UIntMax]),
    States("root", "threads", [number |-> UIntMax + 1]), States("hashing", "threads", [text |-> "4"]),
    States("hashing", "difficulty_bits", [number |-> 255]),
    States("root", "difficulty_bits", [number |-> 256]),
    States("pool", "reconnect_initial_sec", [number |-> 31]),
    States("pool", "reconnect_max_sec", [number |-> 31]),
    States("root", "reconnect_max_sec", [number |-> 0]),
    States("pool", "username", [text |-> ""]), States("pool", "username", [text |-> Placeholder]),
    States("root", "worker_id", [text |-> ""]), States("root", "payout_address", [text |-> Placeholder]),
    States("root", "payout_address", [text |-> "wallet"]),
    States("pool", "password", [text |-> ""]), States("pool", "password", [text |-> Placeholder]),
    States("pool", "password_env", [text |-> ""]), States("root", "password_env", [number |-> 1]),
    States("pool", "require_tls", [bool |-> TRUE]), States("pool", "host", [text |-> ""])}

OtherFiles == {Runnable} \cup {d @@ Runnable : d \in Deviations}
                \cup {d @@ e @@ Runnable : d, e \in Deviations}

Word(option, text) == [option |-> option, text |-> text]
Count(option, number) == [option |-> option, number |-> number]
Without(option) == [option |-> option]

Read == <<Word("--config", "other.json")>>

Options == {
    Word("--config", "other.json"), Word("--config", "missing.json"),
    Word("--prefix", "text"), Count("--bits", 255), Count("--bits", 256),
    Count("--threads", 1), Count("--threads", 0), Count("--threads", UIntMax),
    Count("--threads", -1), Count("--report-ms", UIntMax + 1), Count("--report-ms", 5),
    Without("--help"), Without("--unknown")}

MCCommandLines ==
    BoundedSeq(Options, 3)
        \cup {Append(line, Without(option)) :
                 line \in BoundedSeq(Options, 1), option \in {"--config", "--bits"}}

MCEnvironments == {<<>>, "POOL_PASSWORD" :> "", "POOL_PASSWORD" :> "secret",
                   "POOL_PASSWORD" :> Placeholder}

MCFileSystems == {
    "other.json" :> other @@ default :
        other \in OtherFiles, default \in {<<>>, DefaultPath :> DefaultFile}}

\* Either side in full against a few of the other.
FewFiles == {"other.json" :> Runnable @@ default : default \in {<<>>, DefaultPath :> DefaultFile}}
FewLines == {Read, <<Word("--prefix", "text")>> \o Read \o <<Count("--bits", 255)>>}
MCInit == StartupInit /\ (files \in FewFiles \/ argv \in FewLines)
MCSpec == MCInit /\ [][StartupNext]_startupVars
=============================================================================
