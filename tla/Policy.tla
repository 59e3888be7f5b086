------------------------------- MODULE Policy -------------------------------
(***************************************************************************)
(* The allowlist of server/policy: access modes, validated entries, and    *)
(* the decision PackagePolicy.Resolve takes for one target.  The decision  *)
(* is stated here by what it returns; module PolicyResolve models the two  *)
(* loops that compute it.                                                  *)
(***************************************************************************)
EXTENDS Integers, Sequences

CONSTANTS
    Ids,      \* identifiers of calendars (or reminder lists)
    Sources,  \* account names ("iCloud", "Exchange", ...)
    None      \* the empty string of an unset ID or Source

ASSUME NoneIsNoName == None \notin Ids /\ None \notin Sources

(* Mode: a higher value is more permissive. *)
ModeDeny == 0
ModeRead == 1
ModeReadWrite == 2
Mode == {ModeDeny, ModeRead, ModeReadWrite}

CanRead(m) == m >= ModeRead
CanWrite(m) == m >= ModeReadWrite

(* An entry that passed buildPackage names an ID or a source, never both. *)
IdEntry == [id : Ids, source : {None}, mode : Mode]
SourceEntry == [id : {None}, source : Sources, mode : Mode]
Entry == IdEntry \cup SourceEntry

PackagePolicy == [default : Mode, entries : Seq(Entry)]

(* The two filters of Resolve, applied to one entry. *)
NamesId(e, id) == e.id # None /\ e.id = id
NamesSource(e, src) == e.id = None /\ e.source # None /\ e.source = src

IdModes(p, id) ==
    {p.entries[k].mode : k \in {j \in 1..Len(p.entries) : NamesId(p.entries[j], id)}}
SourceModes(p, src) ==
    {p.entries[k].mode : k \in {j \in 1..Len(p.entries) : NamesSource(p.entries[j], src)}}

IsLeast(m, S) == m \in S /\ \A n \in S : m <= n
IsGreatest(m, S) == m \in S /\ \A n \in S : n <= m

(***************************************************************************)
(* The decision: entries that name the ID override those that name its     *)
(* source; among several for the ID the most restrictive wins, among       *)
(* several for the source the most permissive; the default decides last.   *)
(***************************************************************************)
Decides(p, id, src, m) ==
    IF IdModes(p, id) # {} THEN IsLeast(m, IdModes(p, id))
    ELSE IF SourceModes(p, src) # {} THEN IsGreatest(m, SourceModes(p, src))
    ELSE m = p.default

Resolve(p, id, src) == CHOOSE m \in Mode : Decides(p, id, src, m)
=============================================================================
