--------------------------- MODULE MCPolicyReload ---------------------------
(* Documents that differ in every way buildPackage tells apart. *)
EXTENDS PolicyReload

CONSTANTS t1, t2, s1

MCIds == {t1, t2}
MCSources == {s1}

E(id, list, source, mode) == [id |-> id, list_id |-> list, source |-> source, mode |-> mode]
P(default, allow) == [default |-> default, allow |-> allow]
Doc(c, r) == [calendar |-> c, reminders |-> r]

CalPackages ==
    {P("", <<E(t1, None, None, "read")>>), P("rw", <<E(t1, None, None, "")>>),
     P("deny", <<E(None, None, s1, "readwrite"), E(t1, None, None, "read_write")>>)}
RemPackages == {P("read", <<>>), P("", <<E(None, t2, None, "rw")>>)}
BadDocs ==
    {Doc(c, P("", <<>>)) : c \in {P("write", <<>>), P("rw", <<E(t1, None, s1, "rw")>>),
        P("", <<E(None, t1, None, "rw")>>), P("", <<E(None, None, None, "rw")>>),
        P("", <<E(t1, None, None, "write")>>)}}
    \cup {Doc(P("", <<>>), P("", <<E(t1, None, None, "rw")>>))}

MCDocs == {Doc(c, r) : c \in CalPackages, r \in RemPackages} \cup BadDocs
=============================================================================
