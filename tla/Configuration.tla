--------------------------- MODULE Configuration ---------------------------
(***************************************************************************)
(* config.Load and logging.New: from the variables of the environment and  *)
(* the flags to a configuration the process may start with.                *)
(*                                                                         *)
(* The four timeouts of the HTTP server are one setting.  Settings whose   *)
(* value cannot be wrong (paths and the channel name fall back to a value  *)
(* that is not empty) and sizes nothing depends on are left out.           *)
(***************************************************************************)
EXTENDS Integers

CONSTANTS
    Unset,      \* an empty variable, or a flag that is not given
    Garbage,    \* a text that does not parse, a number that does not fit, or
                \* a flag without its value
    Settings    \* the environments and flags a process is started with

\* The limits are read by strconv: numbers, or one of the two.
ASSUME SettingsAssumption ==
    \A s \in Settings :
        \A raw \in {s.env.maxConns, s.env.bufferSize, s.env.maxPageSize,
                   s.env.maxDepth, s.env.complexity} :
            raw \in {Unset, Garbage} \/ raw \in Int

Profiles == {"local", "dev", "prod"}
LocalOrigins == {"http://localhost:3000", "http://localhost:8080"}

envString(raw, fallback) == IF raw = Unset THEN fallback ELSE raw

\* envInt, envInt32, envBool and envDuration: the fallback also stands in for
\* what does not parse.
envInt(raw, fallback) == IF raw \in {Unset, Garbage} THEN fallback ELSE raw

\* A list of separators only is an empty list, not the fallback.
envCSV(raw, fallback) == IF raw = Unset THEN fallback ELSE raw

defaultOrigins(profile) == IF profile = "prod" THEN {} ELSE LocalOrigins
defaultLogLevel(profile) == IF profile = "local" THEN "debug" ELSE "info"
defaultLogFormat(profile) == IF profile = "prod" THEN "json" ELSE "text"

\* flags.Parse: a flag that lacks its value, or is not known, is an error.
Parse(flag) == Garbage \notin {flag.environment, flag.backend, flag.addr}

\* The configuration of the settings: s.env are the variables, s.flag the flags;
\* Load returns none when they are not parsed.
\* The defaults that depend on the profile follow the variable, not the flag.
Read(s) ==
    LET profile == envString(s.env.environment, "local") IN
    [parsed      |-> Parse(s.flag),
     environment |-> envString(s.flag.environment, profile),
     backend     |-> envString(s.flag.backend, envString(s.env.backend, "memory")),
     addr        |-> envString(s.flag.addr, envString(s.env.addr, ":8080")),
     timeout     |-> envInt(s.env.timeout, 10),
     dsn         |-> envString(s.env.dsn, ""),
     maxConns    |-> envInt(s.env.maxConns, 10),
     minConns    |-> envInt(s.env.minConns, 1),
     maxPageSize |-> envInt(s.env.maxPageSize, 100),
     maxDepth    |-> envInt(s.env.maxDepth, 12),
     complexity  |-> envInt(s.env.complexity, 500),
     playground  |-> envInt(s.env.playground, profile # "prod"),
     origins     |-> envCSV(s.env.origins, defaultOrigins(profile)),
     keepAlive   |-> envInt(s.env.keepAlive, 15),
     bufferSize  |-> envInt(s.env.bufferSize, 16),
     level       |-> envString(s.env.level, defaultLogLevel(profile)),
     format      |-> envString(s.env.format, defaultLogFormat(profile))]

\* Mutant of Validate: that the pool may be empty is not looked at.
ValidatePoolHalf(c) ==
    /\ c.environment \in Profiles
    /\ c.backend \in {"memory", "postgres"}
    /\ c.addr # ""
    /\ c.timeout > 0
    /\ c.backend = "postgres" => c.dsn # ""
    /\ c.minConns >= 0 /\ c.minConns <= c.maxConns
    /\ c.maxPageSize > 0 /\ c.maxDepth > 0 /\ c.complexity > 0
    /\ c.keepAlive > 0
    /\ c.environment = "prod" => c.origins # {}
    /\ c.bufferSize > 0

Validate(c) ==
    /\ c.environment \in Profiles
    /\ c.backend \in {"memory", "postgres"}
    /\ c.addr # ""
    /\ c.timeout > 0
    /\ c.backend = "postgres" => c.dsn # ""
    /\ c.maxConns > 0 /\ c.minConns >= 0 /\ c.minConns <= c.maxConns
    /\ c.maxPageSize > 0 /\ c.maxDepth > 0 /\ c.complexity > 0
    /\ c.keepAlive > 0
    /\ c.environment = "prod" => c.origins # {}
    /\ c.bufferSize > 0

\* logging.New knows the level and the format.
Loggable(c) ==
    /\ c.level \in {"debug", "info", "warn", "error"}
    /\ c.format \in {"text", "json"}
=============================================================================
