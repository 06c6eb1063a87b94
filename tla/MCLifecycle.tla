---------------------------- MODULE MCLifecycle ----------------------------
(***************************************************************************)
(* Instances of Lifecycle for TLC: either backend as it is meant to be     *)
(* started, and with one setting that deviates from that.                  *)
(***************************************************************************)
EXTENDS Lifecycle

Keys == {"environment", "backend", "addr", "timeout", "dsn", "maxConns",
         "minConns", "maxPageSize", "maxDepth", "complexity", "playground",
         "origins", "keepAlive", "bufferSize", "level", "format"}
FlagKeys == {"environment", "backend", "addr"}

Nothing == [env |-> [k \in Keys |-> Unset], flag |-> [k \in FlagKeys |-> Unset]]
Postgres == [Nothing EXCEPT !.env.backend = "postgres", !.env.dsn = "dsn"]

Numbers == {"timeout", "maxConns", "maxPageSize", "maxDepth", "complexity",
            "keepAlive", "bufferSize"}

Deviations(s) ==
    {[s EXCEPT !.env[k] = 0] : k \in Numbers}
    \cup {[s EXCEPT !.env.environment = p] : p \in {"prod", "staging"}}
    \cup {[s EXCEPT !.env.environment = "prod", !.env.origins = {"origin"}],
          [s EXCEPT !.env.origins = {}],
          [s EXCEPT !.env.level = "verbose"], [s EXCEPT !.env.format = "xml"],
          [s EXCEPT !.env.playground = Garbage],
          [s EXCEPT !.env.maxConns = Garbage],
          [s EXCEPT !.env.minConns = 11], [s EXCEPT !.env.minConns = -1],
          [s EXCEPT !.env.minConns = 0, !.env.maxConns = 0],
          [s EXCEPT !.flag.environment = "prod"],
          [s EXCEPT !.flag.backend = "postgres"],
          [s EXCEPT !.flag.addr = ""], [s EXCEPT !.flag.addr = Garbage]}

MCSettings == UNION {{s} \cup Deviations(s) : s \in {Nothing, Postgres}}
=============================================================================
