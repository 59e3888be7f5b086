---------------------------- MODULE MCHttpServer ----------------------------
(* Settings that make the interesting cases: a full and a slow bucket, no    *)
(* limiter, a write deadline before, at and behind the request timeout.      *)
EXTENDS HttpServer

Given(flag, env) == [flag |-> flag, env |-> env]
None == Given(Unset, Unset)
Raw(binary, listen, write, request, rps, burst) ==
    [binary |-> binary, listen |-> listen, insecureBind |-> FALSE, write |-> write,
     request |-> request, rps |-> rps, burst |-> burst]

MCRaws ==
    {Raw("server", "127.0.0.1", None, None, Given(1, Unset), Given(Unset, 1)),
     Raw("server", "", Given(4, 1), Given(Unset, 0), Given(2, Unset), Given(2, Unset)),
     Raw("server", "localhost", Given(3, Unset), Given(2, Unset), Given(0, Unset), None),
     Raw("server", "localhost", Given(2, Unset), Given(2, Unset), Given(1, Unset), Given(1, Unset)),
     Raw("server", "localhost", None, Given(0, BadValue), None, None),
     Raw("server", "0.0.0.0", None, None, None, None),
     Raw("mcp", "127.0.0.1", None, None, Given(0, 1), None),
     Raw("mcp", "::1", None, None, None, Given(Unset, 1))}
=============================================================================
