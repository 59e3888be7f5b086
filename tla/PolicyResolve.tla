---------------------------- MODULE PolicyResolve ----------------------------
(***************************************************************************)
(* PackagePolicy.Resolve as the program runs it: one pass over the entries *)
(* that keeps the lowest mode named for the ID (a nil pointer until one is *)
(* found), an early return, a second pass that keeps the highest mode      *)
(* named for the source, and the default.  One action per loop iteration.  *)
(***************************************************************************)
EXTENDS Policy

CONSTANT Policies   \* the policies a call may be made on

ASSUME PoliciesAreBuilt == Policies \subseteq PackagePolicy

VARIABLES
    pol, id, source,   \* the receiver and the arguments; never assigned
    pc,                \* "ids", "sources" or "done"
    next,              \* index of the entry the loop looks at next
    idMode,            \* the lowest mode found for the ID, or Nil
    bestSource,        \* the highest mode found for the source so far
    hasSource,         \* an entry for the source was found
    result             \* the mode returned, or Nil

args == <<pol, id, source>>
resolveVars == <<pol, id, source, pc, next, idMode, bestSource, hasSource, result>>

Nil == -1

ResolveInit ==
    /\ pol \in Policies
    /\ id \in Ids \cup {None}
    /\ source \in Sources
    /\ pc = "ids" /\ next = 1 /\ idMode = Nil
    /\ bestSource = ModeDeny /\ hasSource = FALSE /\ result = Nil

(* Mutant of ScanId: the last entry for the ID wins. *)
ScanIdLastWins ==
    /\ pc = "ids" /\ next <= Len(pol.entries)
    /\ idMode' = IF NamesId(pol.entries[next], id) THEN pol.entries[next].mode ELSE idMode
    /\ next' = next + 1
    /\ UNCHANGED <<args, pc, bestSource, hasSource, result>>

(* for _, e := range p.Entries: the ID pass. *)
ScanId ==
    /\ pc = "ids" /\ next <= Len(pol.entries)
    /\ LET e == pol.entries[next]
       IN  idMode' = IF NamesId(e, id) /\ (idMode = Nil \/ e.mode < idMode)
                     THEN e.mode ELSE idMode
    /\ next' = next + 1
    /\ UNCHANGED <<args, pc, bestSource, hasSource, result>>

(* if idMode != nil { return *idMode } *)
ReturnIdMode ==
    /\ pc = "ids" /\ next > Len(pol.entries) /\ idMode # Nil
    /\ result' = idMode /\ pc' = "done"
    /\ UNCHANGED <<args, next, idMode, bestSource, hasSource>>

(* Mutant of BeginSources: the second loop starts in front of the slice. *)
BeginSourcesAtZero ==
    /\ pc = "ids" /\ next > Len(pol.entries) /\ idMode = Nil
    /\ pc' = "sources" /\ next' = 0
    /\ UNCHANGED <<args, idMode, bestSource, hasSource, result>>

BeginSources ==
    /\ pc = "ids" /\ next > Len(pol.entries) /\ idMode = Nil
    /\ pc' = "sources" /\ next' = 1
    /\ UNCHANGED <<args, idMode, bestSource, hasSource, result>>

(* for _, e := range p.Entries: the source pass. *)
ScanSource ==
    /\ pc = "sources" /\ next <= Len(pol.entries)
    /\ LET e == pol.entries[next]
           better == NamesSource(e, source) /\ (~hasSource \/ e.mode > bestSource)
       IN  /\ bestSource' = IF better THEN e.mode ELSE bestSource
           /\ hasSource' = (hasSource \/ better)
    /\ next' = next + 1
    /\ UNCHANGED <<args, pc, idMode, result>>

ReturnSourceMode ==
    /\ pc = "sources" /\ next > Len(pol.entries)
    /\ result' = IF hasSource THEN bestSource ELSE pol.default
    /\ pc' = "done"
    /\ UNCHANGED <<args, next, idMode, bestSource, hasSource>>

ResolveNext == ScanId \/ ReturnIdMode \/ BeginSources \/ ScanSource \/ ReturnSourceMode

ResolveSpec == ResolveInit /\ [][ResolveNext]_resolveVars

-----------------------------------------------------------------------------
(* The variables keep their types (policy.go:89-123). *)
TypeOK ==
    /\ pol \in PackagePolicy /\ id \in Ids \cup {None} /\ source \in Sources
    /\ pc \in {"ids", "sources", "done"}
    /\ next \in 1..(Len(pol.entries) + 1)
    /\ idMode \in Mode \cup {Nil} /\ result \in Mode \cup {Nil}
    /\ bestSource \in Mode /\ hasSource \in BOOLEAN

(***************************************************************************)
(* Whatever the order and the number of the entries, the mode returned is  *)
(* the one the precedence rules give: a deny for an ID is never outvoted   *)
(* by another entry, and an entry for an ID is never outvoted by its       *)
(* source (policy.go:86-123).                                              *)
(***************************************************************************)
ReturnsTheDecision ==
    pc = "done" => Decides(pol, id, source, result)

(***************************************************************************)
(* What the proof of ReturnsTheDecision carries through the loops: the     *)
(* decision restricted to the entries already scanned.                     *)
(***************************************************************************)
ScannedIds == {pol.entries[k].mode : k \in {j \in 1..(next - 1) : NamesId(pol.entries[j], id)}}
ScannedSources ==
    {pol.entries[k].mode : k \in {j \in 1..(next - 1) : NamesSource(pol.entries[j], source)}}

LoopInv ==
    /\ pc = "ids" =>
        /\ idMode = Nil => ScannedIds = {}
        /\ idMode # Nil => IsLeast(idMode, ScannedIds)
        /\ ~hasSource /\ bestSource = ModeDeny
    /\ pc = "sources" =>
        /\ IdModes(pol, id) = {}
        /\ ~hasSource => ScannedSources = {}
        /\ hasSource => IsGreatest(bestSource, ScannedSources)
=============================================================================
