--------------------------- MODULE MCPolicyResolve ---------------------------
(* Every policy with at most MaxEntries entries over two IDs and two sources. *)
EXTENDS PolicyResolve

CONSTANTS MaxEntries, i1, i2, s1, s2

MCIds == {i1, i2}
MCSources == {s1, s2}
MCEntries ==
    [id : {i1, i2}, source : {None}, mode : 0..2] \cup
    [id : {None}, source : {s1, s2}, mode : 0..2]
MCPolicies ==
    [default : 0..2, entries : UNION {[1..n -> MCEntries] : n \in 0..MaxEntries}]
=============================================================================
