---------------------------- MODULE ServerConfig ----------------------------
(***************************************************************************)
(* How eventkit-server and eventkit-mcp turn flags and environment into    *)
(* the settings of the HTTP server and its rate limiter (parseConfig of    *)
(* both binaries).  Durations are in ticks of the clock.                   *)
(***************************************************************************)
EXTENDS Integers

CONSTANTS
    Unset,     \* a flag or an environment variable that is not given
    BadValue,  \* an environment value that does not parse
    DefaultWriteTimeout, DefaultRequestTimeout,   \* 15s and 30s
    DefaultRPS, DefaultBurst                      \* eventkit-mcp: 5 and 20

(* A setting as given: [flag, env].  eventkit-server cannot tell a flag of 0 *)
(* from none, and lets the environment and the default win over it.          *)
Effective(s, default) ==
    LET flagVal == IF s.flag = Unset THEN 0 ELSE s.flag
    IN  IF flagVal > 0 THEN flagVal ELSE IF s.env = Unset THEN default ELSE s.env

(* intOr and float64Or of eventkit-mcp: -1 stands for no flag, 0 counts.     *)
EffectiveFromZero(s, default) ==
    LET flagVal == IF s.flag = Unset THEN -1 ELSE s.flag
    IN  IF flagVal >= 0 THEN flagVal ELSE IF s.env = Unset THEN default ELSE s.env

LoopbackHost(h) == h \in {"", "localhost", "127.0.0.1", "::1", "127.0.0.2"}
BindAllowed(raw) == raw.insecureBind \/ LoopbackHost(raw.listen)

ServerSettings(raw) ==
    [write   |-> Effective(raw.write, DefaultWriteTimeout),
     request |-> Effective(raw.request, DefaultRequestTimeout),
     rps     |-> Effective(raw.rps, 0),
     burst   |-> Effective(raw.burst, 0)]

(* eventkit-mcp sets no write timeout and wraps no handler in one.           *)
McpSettings(raw) ==
    [write   |-> 0,
     request |-> Unset,
     rps     |-> EffectiveFromZero(raw.rps, DefaultRPS),
     burst   |-> EffectiveFromZero(raw.burst, DefaultBurst)]

Settings(raw) == IF raw.binary = "server" THEN ServerSettings(raw) ELSE McpSettings(raw)

(* parseConfig and the bind check of run succeed.                            *)
Accepted(raw) ==
    /\ BindAllowed(raw)
    /\ \A field \in DOMAIN Settings(raw) : Settings(raw)[field] # BadValue
=============================================================================
