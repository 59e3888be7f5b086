---------------------------- MODULE PolicyProofs ----------------------------
(***************************************************************************)
(* What an access policy decides and which one is in force: Resolve returns *)
(* the mode the precedence rules give, for every policy that passed        *)
(* validation, of any length; reloads settle on the file and grant no more *)
(* than it spells out, for any documents and any number of edits and       *)
(* signals.                                                                *)
(***************************************************************************)
EXTENDS PolicyResolve, PolicyReload, TLAPS

-----------------------------------------------------------------------------
(* The loops of Resolve. *)

(* An entry of a validated policy has one of the three modes. *)
LEMMA EntryMode ==
    ASSUME NEW p \in PackagePolicy, NEW k \in 1..Len(p.entries)
    PROVE  p.entries[k] \in Entry /\ p.entries[k].mode \in Mode
<1>1. p.entries \in Seq(Entry)
    BY DEF PackagePolicy
<1>2. p.entries[k] \in Entry
    BY <1>1
<1> QED BY <1>2 DEF Entry, IdEntry, SourceEntry

LEMMA ResolveBegins == ResolveInit => TypeOK /\ LoopInv
<1> SUFFICES ASSUME ResolveInit PROVE TypeOK /\ LoopInv
    OBVIOUS
<1>1. pol \in PackagePolicy
    BY PoliciesAreBuilt DEF ResolveInit
<1>2. Len(pol.entries) \in Nat
    BY <1>1 DEF PackagePolicy
<1>3. TypeOK
  <2>1. next \in 1..(Len(pol.entries) + 1)
    BY <1>2 DEF ResolveInit
  <2>2. bestSource \in Mode /\ idMode \in Mode \cup {Nil} /\ result \in Mode \cup {Nil}
    BY DEF ResolveInit, Mode
  <2>3. hasSource \in BOOLEAN /\ pc \in {"ids", "sources", "done"}
    BY DEF ResolveInit
  <2> QED BY <1>1, <2>1, <2>2, <2>3 DEF ResolveInit, TypeOK
<1>4. ScannedIds = {}
    BY DEF ResolveInit, ScannedIds
<1> QED BY <1>3, <1>4 DEF ResolveInit, LoopInv, Nil

LEMMA ResolveTypeStep == TypeOK /\ [ResolveNext]_resolveVars => TypeOK'
<1> SUFFICES ASSUME TypeOK, [ResolveNext]_resolveVars PROVE TypeOK'
    OBVIOUS
<1>n. Len(pol.entries) \in Nat
    BY DEF TypeOK, PackagePolicy
<1>1. CASE ScanId
  <2>1. pol.entries[next].mode \in Mode
    BY <1>1, <1>n, EntryMode DEF ScanId, TypeOK
  <2> QED BY <1>1, <1>n, <2>1 DEF ScanId, TypeOK, args
<1>2. CASE ReturnIdMode
    BY <1>2 DEF ReturnIdMode, TypeOK, args
<1>3. CASE BeginSources
    BY <1>3, <1>n DEF BeginSources, TypeOK, args
<1>4. CASE ScanSource
  <2>1. pol.entries[next].mode \in Mode
    BY <1>4, <1>n, EntryMode DEF ScanSource, TypeOK
  <2> QED BY <1>4, <1>n, <2>1 DEF ScanSource, TypeOK, args
<1>5. CASE ReturnSourceMode
  <2>1. pol.default \in Mode
    BY DEF TypeOK, PackagePolicy
  <2> QED BY <1>5, <2>1 DEF ReturnSourceMode, TypeOK, args
<1>6. CASE UNCHANGED resolveVars
    BY <1>6 DEF resolveVars, args, TypeOK
<1> QED BY <1>1, <1>2, <1>3, <1>4, <1>5, <1>6 DEF ResolveNext

(* The modes found among the first entries, one iteration later. *)
LEMMA ScannedIdsGrow ==
    ASSUME TypeOK, ScanId
    PROVE  ScannedIds' = IF NamesId(pol.entries[next], id)
                         THEN ScannedIds \cup {pol.entries[next].mode} ELSE ScannedIds
<1>1. next \in Nat \ {0} /\ next' = next + 1 /\ pol' = pol /\ id' = id
    BY DEF TypeOK, ScanId, args
<1>2. 1..(next' - 1) = (1..(next - 1)) \cup {next}
    BY <1>1
<1> QED BY <1>1, <1>2 DEF ScannedIds

LEMMA ScannedSourcesGrow ==
    ASSUME TypeOK, ScanSource
    PROVE  ScannedSources' = IF NamesSource(pol.entries[next], source)
                             THEN ScannedSources \cup {pol.entries[next].mode} ELSE ScannedSources
<1>1. next \in Nat \ {0} /\ next' = next + 1 /\ pol' = pol /\ source' = source
    BY DEF TypeOK, ScanSource, args
<1>2. 1..(next' - 1) = (1..(next - 1)) \cup {next}
    BY <1>1
<1> QED BY <1>1, <1>2 DEF ScannedSources

(* When a pass ends, what it scanned is the whole list. *)
LEMMA PassEnds ==
    ASSUME TypeOK, next > Len(pol.entries)
    PROVE  ScannedIds = IdModes(pol, id) /\ ScannedSources = SourceModes(pol, source)
<1>1. Len(pol.entries) \in Nat
    BY DEF TypeOK, PackagePolicy
<1>2. 1..(next - 1) = 1..Len(pol.entries)
    BY <1>1 DEF TypeOK
<1> QED BY <1>2 DEF ScannedIds, ScannedSources, IdModes, SourceModes

LEMMA LoopStep == TypeOK /\ LoopInv /\ [ResolveNext]_resolveVars => LoopInv'
<1> SUFFICES ASSUME TypeOK, LoopInv, [ResolveNext]_resolveVars PROVE LoopInv'
    OBVIOUS
<1>n. Len(pol.entries) \in Nat
    BY DEF TypeOK, PackagePolicy
<1>1. CASE ScanId
  <2>1. pol.entries[next].mode \in Mode
    BY <1>1, <1>n, EntryMode DEF ScanId, TypeOK
  <2>2. idMode = Nil => ScannedIds = {}
    BY <1>1 DEF ScanId, LoopInv
  <2>3. idMode # Nil => IsLeast(idMode, ScannedIds)
    BY <1>1 DEF ScanId, LoopInv
  <2>4. \A m \in ScannedIds : m \in Int
    <3>1. \A k \in 1..(next - 1) : pol.entries[k].mode \in Mode
      BY <1>1, <1>n, EntryMode DEF ScanId, TypeOK
    <3> QED BY <3>1 DEF ScannedIds, Mode, ModeDeny, ModeRead, ModeReadWrite
  <2>5. idMode' = Nil => ScannedIds' = {}
    BY <1>1, <2>1, <2>2, ScannedIdsGrow
    DEF ScanId, TypeOK, Nil, Mode, ModeDeny, ModeRead, ModeReadWrite
  <2>6. idMode' # Nil => IsLeast(idMode', ScannedIds')
    BY <1>1, <2>1, <2>2, <2>3, <2>4, ScannedIdsGrow
    DEF ScanId, TypeOK, IsLeast, Nil, Mode, ModeDeny, ModeRead, ModeReadWrite
  <2> QED BY <1>1, <2>5, <2>6 DEF ScanId, LoopInv
<1>2. CASE ReturnIdMode
    BY <1>2 DEF ReturnIdMode, LoopInv
<1>3. CASE BeginSources
  <2>1. IdModes(pol, id) = {}
    BY <1>3, PassEnds DEF BeginSources, LoopInv, TypeOK
  <2>2. ScannedSources' = {}
    BY <1>3 DEF BeginSources, ScannedSources
  <2> QED BY <1>3, <2>1, <2>2 DEF BeginSources, LoopInv, args
<1>4. CASE ScanSource
  <2>1. pol.entries[next].mode \in Mode
    BY <1>4, <1>n, EntryMode DEF ScanSource, TypeOK
  <2>2. /\ ~hasSource => ScannedSources = {}
        /\ hasSource => IsGreatest(bestSource, ScannedSources)
    BY <1>4 DEF ScanSource, LoopInv
  <2>3. \A m \in ScannedSources : m \in Int
    <3>1. \A k \in 1..(next - 1) : pol.entries[k].mode \in Mode
      BY <1>4, <1>n, EntryMode DEF ScanSource, TypeOK
    <3> QED BY <3>1 DEF ScannedSources, Mode, ModeDeny, ModeRead, ModeReadWrite
  <2>4. ~hasSource' => ScannedSources' = {}
    BY <1>4, <2>2, ScannedSourcesGrow DEF ScanSource
  <2>5. hasSource' => IsGreatest(bestSource', ScannedSources')
    BY <1>4, <2>1, <2>2, <2>3, ScannedSourcesGrow
    DEF ScanSource, TypeOK, IsGreatest, Mode, ModeDeny, ModeRead, ModeReadWrite
  <2>6. IdModes(pol, id)' = {}
    BY <1>4 DEF ScanSource, LoopInv, args
  <2> QED BY <1>4, <2>4, <2>5, <2>6 DEF ScanSource, LoopInv
<1>5. CASE ReturnSourceMode
    BY <1>5 DEF ReturnSourceMode, LoopInv
<1>6. CASE UNCHANGED resolveVars
    BY <1>6 DEF resolveVars, args, LoopInv, ScannedIds, ScannedSources
<1> QED BY <1>1, <1>2, <1>3, <1>4, <1>5, <1>6 DEF ResolveNext

LEMMA DecisionStep ==
    TypeOK /\ LoopInv /\ ReturnsTheDecision /\ [ResolveNext]_resolveVars => ReturnsTheDecision'
<1> SUFFICES ASSUME TypeOK, LoopInv, ReturnsTheDecision, [ResolveNext]_resolveVars
             PROVE  ReturnsTheDecision'
    OBVIOUS
<1>1. CASE ScanId \/ BeginSources \/ ScanSource
    BY <1>1 DEF ScanId, BeginSources, ScanSource, ReturnsTheDecision
<1>2. CASE ReturnIdMode
  <2>1. IsLeast(idMode, IdModes(pol, id))
    BY <1>2, PassEnds DEF ReturnIdMode, LoopInv
  <2>2. IdModes(pol, id) # {}
    BY <2>1 DEF IsLeast
  <2> QED BY <1>2, <2>1, <2>2 DEF ReturnIdMode, ReturnsTheDecision, Decides, args
<1>3. CASE ReturnSourceMode
  <2>1. IdModes(pol, id) = {}
    BY <1>3 DEF ReturnSourceMode, LoopInv
  <2>2. CASE hasSource
    <3>1. IsGreatest(bestSource, SourceModes(pol, source))
      BY <1>3, <2>2, PassEnds DEF ReturnSourceMode, LoopInv
    <3>2. SourceModes(pol, source) # {}
      BY <3>1 DEF IsGreatest
    <3> QED BY <1>3, <2>1, <2>2, <3>1, <3>2
            DEF ReturnSourceMode, ReturnsTheDecision, Decides, args
  <2>3. CASE ~hasSource
    <3>1. SourceModes(pol, source) = {}
      BY <1>3, <2>3, PassEnds DEF ReturnSourceMode, LoopInv
    <3> QED BY <1>3, <2>1, <2>3, <3>1
            DEF ReturnSourceMode, ReturnsTheDecision, Decides, args
  <2> QED BY <2>2, <2>3
<1>4. CASE UNCHANGED resolveVars
    BY <1>4 DEF resolveVars, args, ReturnsTheDecision
<1> QED BY <1>1, <1>2, <1>3, <1>4 DEF ResolveNext

LEMMA LoopsAreSound == ResolveSpec => [](TypeOK /\ ReturnsTheDecision)
<1>1. ResolveInit => ReturnsTheDecision
    BY DEF ResolveInit, ReturnsTheDecision
<1> QED BY <1>1, ResolveBegins, ResolveTypeStep, LoopStep, DecisionStep, PTL DEF ResolveSpec

(***************************************************************************)
(* The loops stay within the policy they scan, for every validated policy. *)
(***************************************************************************)
THEOREM ResolveTypes == ResolveSpec => []TypeOK
BY LoopsAreSound, PTL

(***************************************************************************)
(* The decision of Resolve (policy.go:86-123) is the declared one, for     *)
(* every validated policy, ID and source.                                  *)
(***************************************************************************)
THEOREM ResolveIsCorrect == ResolveSpec => []ReturnsTheDecision
BY LoopsAreSound, PTL

-----------------------------------------------------------------------------
(* What a policy decides. *)

(* A set of modes has a least and a greatest element. *)
LEMMA ModesAreOrdered ==
    ASSUME NEW S, S \subseteq Mode, S # {}
    PROVE  (\E m \in Mode : IsLeast(m, S)) /\ (\E m \in Mode : IsGreatest(m, S))
<1> USE DEF Mode, ModeDeny, ModeRead, ModeReadWrite, IsLeast, IsGreatest
<1>1. \E m \in Mode : IsLeast(m, S)
  <2>1. CASE 0 \in S
    BY <2>1
  <2>2. CASE 0 \notin S /\ 1 \in S
    BY <2>2
  <2>3. CASE 0 \notin S /\ 1 \notin S
    <3>1. S = {2}
      BY <2>3
    <3> QED BY <3>1
  <2> QED BY <2>1, <2>2, <2>3
<1>2. \E m \in Mode : IsGreatest(m, S)
  <2>1. CASE 2 \in S
    BY <2>1
  <2>2. CASE 2 \notin S /\ 1 \in S
    BY <2>2
  <2>3. CASE 2 \notin S /\ 1 \notin S
    <3>1. S = {0}
      BY <2>3
    <3> QED BY <3>1
  <2> QED BY <2>1, <2>2, <2>3
<1> QED BY <1>1, <1>2

(* Resolve returns a mode that the precedence rules give. *)
LEMMA ResolveDecides ==
    ASSUME NEW p \in PackagePolicy, NEW i, NEW src
    PROVE  Resolve(p, i, src) \in Mode /\ Decides(p, i, src, Resolve(p, i, src))
<1>1. \A k \in 1..Len(p.entries) : p.entries[k].mode \in Mode
  <2>1. p.entries \in Seq(Entry)
    BY DEF PackagePolicy
  <2>2. \A e \in Entry : e.mode \in Mode
    BY DEF Entry, IdEntry, SourceEntry
  <2> QED BY <2>1, <2>2
<1>2. IdModes(p, i) \subseteq Mode /\ SourceModes(p, src) \subseteq Mode
    BY <1>1 DEF IdModes, SourceModes
<1>3. p.default \in Mode
    BY DEF PackagePolicy
<1>4. \E m \in Mode : Decides(p, i, src, m)
  <2>1. CASE IdModes(p, i) # {}
    BY <1>2, <2>1, ModesAreOrdered DEF Decides
  <2>2. CASE IdModes(p, i) = {} /\ SourceModes(p, src) # {}
    BY <1>2, <2>2, ModesAreOrdered DEF Decides
  <2>3. CASE IdModes(p, i) = {} /\ SourceModes(p, src) = {}
    BY <1>3, <2>3 DEF Decides
  <2> QED BY <2>1, <2>2, <2>3
<1> QED BY <1>4 DEF Resolve

(* The rules leave no choice. *)
LEMMA OneDecision ==
    ASSUME NEW p \in PackagePolicy, NEW i, NEW src, NEW m, NEW n,
           Decides(p, i, src, m), Decides(p, i, src, n)
    PROVE  m = n
<1>1. \A k \in 1..Len(p.entries) : p.entries[k].mode \in Int
    BY EntryMode DEF Mode, ModeDeny, ModeRead, ModeReadWrite
<1>2. \A x \in IdModes(p, i) \cup SourceModes(p, src) : x \in Int
    BY <1>1 DEF IdModes, SourceModes
<1> QED BY <1>2 DEF Decides, IsLeast, IsGreatest

(***************************************************************************)
(* The loops return what the wrappers take for their decision: ModeOf of   *)
(* the scoped calendar and reminders is an application of Resolve          *)
(* (policy.go:86-123, 155-164).                                            *)
(***************************************************************************)
THEOREM LoopsComputeResolve ==
    ResolveSpec => [](pc = "done" => result = Resolve(pol, id, source))
<1>1. TypeOK /\ ReturnsTheDecision => (pc = "done" => result = Resolve(pol, id, source))
    BY ResolveDecides, OneDecision DEF TypeOK, ReturnsTheDecision
<1> QED BY <1>1, LoopsAreSound, PTL

-----------------------------------------------------------------------------
(* What a document says. *)

(* The three modes are what parseMode makes of words. *)
LEMMA ParsedModes ==
    ASSUME NEW w \in Words, ParseMode(w) # NoMode
    PROVE  /\ ParseMode(w) \in Mode
           /\ \A m \in {ModeRead, ModeReadWrite} : ParseMode(w) >= m => w \in WordsFor(m)
<1> USE DEF Mode, ModeDeny, ModeRead, ModeReadWrite, NoMode, WordsFor
<1>1. CASE w \in {"deny", ""}
  <2>1. ParseMode(w) = 0
    BY <1>1 DEF ParseMode
  <2> QED BY <2>1
<1>2. CASE w = "read"
  <2>1. ParseMode(w) = 1
    BY <1>2 DEF ParseMode
  <2> QED BY <1>2, <2>1
<1>3. CASE w \in {"readwrite", "read_write", "rw"}
  <2>1. ParseMode(w) = 2
    BY <1>3 DEF ParseMode
  <2> QED BY <1>3, <2>1
<1>4. CASE w = "write"
  <2>1. ParseMode(w) = -1
    BY <1>4 DEF ParseMode
  <2> QED BY <2>1
<1>5. w \in {"deny", ""} \/ w = "read" \/ w \in {"readwrite", "read_write", "rw"} \/ w = "write"
    BY DEF Words
<1> QED BY <1>1, <1>2, <1>3, <1>4, <1>5

(* buildPackage makes a policy of every package it does not refuse. *)
LEMMA BuiltIsPolicy ==
    ASSUME NEW p \in RawPackage, NEW u \in BOOLEAN, ValidPackage(p, u)
    PROVE  /\ BuildPackage(p, u) \in PackagePolicy
           /\ Len(BuildPackage(p, u).entries) = Len(p.allow)
<1> DEFINE built == BuildPackage(p, u)
           entry(k) == [id |-> NameIn(p.allow[k], u), source |-> p.allow[k].source,
                        mode |-> ParseMode(p.allow[k].mode)]
<1>1. p.default \in Words /\ p.allow \in Seq(RawEntry)
    BY DEF RawPackage
<1>2. ASSUME NEW k \in DOMAIN p.allow PROVE entry(k) \in Entry
  <2>1. p.allow[k] \in RawEntry /\ ValidEntry(p.allow[k], u)
    BY <1>1, <1>2 DEF ValidPackage
  <2>2. ParseMode(p.allow[k].mode) \in Mode
    BY <2>1, ParsedModes DEF RawEntry, ValidEntry
  <2>3. /\ NameIn(p.allow[k], u) \in Ids \cup {None} /\ p.allow[k].source \in Sources \cup {None}
        /\ (NameIn(p.allow[k], u) = None) # (p.allow[k].source = None)
    BY <2>1 DEF RawEntry, ValidEntry, NameIn
  <2>4. CASE NameIn(p.allow[k], u) = None
    <3>1. p.allow[k].source \in Sources
      BY <2>3, <2>4
    <3>2. entry(k) \in SourceEntry
      BY <2>2, <2>4, <3>1 DEF SourceEntry
    <3> QED BY <3>2 DEF Entry
  <2>5. CASE NameIn(p.allow[k], u) # None
    <3>1. p.allow[k].source = None
      BY <2>3, <2>5, Zenon
    <3>2. entry(k) \in IdEntry
      BY <2>2, <2>3, <2>5, <3>1 DEF IdEntry
    <3> QED BY <3>2 DEF Entry
  <2> QED BY <2>4, <2>5
<1>3. built.default \in Mode
    BY <1>1, ParsedModes DEF BuildPackage, ValidPackage
<1>4. built.entries = [k \in 1..Len(p.allow) |-> entry(k)]
    BY <1>1 DEF BuildPackage
<1>5. built.entries \in Seq(Entry) /\ Len(built.entries) = Len(p.allow)
  <2>1. Len(p.allow) \in Nat /\ DOMAIN p.allow = 1..Len(p.allow)
    BY <1>1
  <2> HIDE DEF entry, built
  <2>2. \A k \in 1..Len(p.allow) : entry(k) \in Entry
    BY <1>2, <2>1
  <2> QED BY <1>4, <2>1, <2>2
<1> QED BY <1>3, <1>5 DEF BuildPackage, PackagePolicy

(* Whatever a built policy grants, its document spells out. *)
LEMMA GrantsAreSpelled ==
    ASSUME NEW p \in RawPackage, NEW u \in BOOLEAN, ValidPackage(p, u),
           NEW i \in Ids, NEW src \in Sources, NEW m \in {ModeRead, ModeReadWrite},
           Resolve(BuildPackage(p, u), i, src) >= m
    PROVE  Spelled(p, u, i, src, m)
<1> DEFINE granting == BuildPackage(p, u)
           naming == {k \in DOMAIN p.allow : NameIn(p.allow[k], u) = i}
           granted == Resolve(granting, i, src)
<1>1. granting \in PackagePolicy /\ Len(granting.entries) = Len(p.allow)
    BY BuiltIsPolicy
<1>2. granted \in Mode /\ Decides(granting, i, src, granted)
    BY <1>1, ResolveDecides
<1>3. p.default \in Words /\ p.allow \in Seq(RawEntry)
    BY DEF RawPackage
<1>4. \A k \in 1..Len(p.allow) :
        /\ granting.entries[k].id = NameIn(p.allow[k], u)
        /\ granting.entries[k].source = p.allow[k].source
        /\ granting.entries[k].mode = ParseMode(p.allow[k].mode)
    BY <1>3 DEF BuildPackage
<1>5. ASSUME NEW k \in 1..Len(p.allow)
      PROVE  p.allow[k].mode \in Words /\ ParseMode(p.allow[k].mode) # NoMode
  <2>1. p.allow[k] \in RawEntry
    BY <1>3
  <2>2. ValidEntry(p.allow[k], u)
    BY <1>3 DEF ValidPackage
  <2> QED BY <2>1, <2>2 DEF ValidEntry, RawEntry
<1>6. i # None
    BY NoneIsNoName
<1>7. IdModes(granting, i) = {granting.entries[k].mode : k \in naming}
    BY <1>1, <1>3, <1>4, <1>6 DEF IdModes, NamesId
<1>8. CASE naming # {}
  <2>1. IsLeast(granted, IdModes(granting, i))
    BY <1>2, <1>7, <1>8 DEF Decides
  <2>2. ASSUME NEW k \in naming PROVE p.allow[k].mode \in WordsFor(m)
    <3>1. k \in 1..Len(p.allow)
      BY <1>3
    <3>2. granted <= ParseMode(p.allow[k].mode)
      BY <1>4, <1>7, <2>1, <2>2, <3>1 DEF IsLeast
    <3>3. ParseMode(p.allow[k].mode) \in Mode
      BY <1>5, <3>1, ParsedModes
    <3>4. ParseMode(p.allow[k].mode) >= m
      BY <1>2, <3>2, <3>3 DEF Mode, ModeDeny, ModeRead, ModeReadWrite
    <3> QED BY <1>5, <3>1, <3>4, ParsedModes
  <2> QED BY <1>8, <2>2 DEF Spelled
<1>9. CASE naming = {} /\ SourceModes(granting, src) # {}
  <2>1. granted \in SourceModes(granting, src)
    BY <1>2, <1>7, <1>9 DEF Decides, IsGreatest
  <2>2. PICK k \in 1..Len(p.allow) : NamesSource(granting.entries[k], src) /\ granting.entries[k].mode = granted
    BY <1>1, <2>1 DEF SourceModes
  <2>3. p.allow[k].source = src /\ ParseMode(p.allow[k].mode) >= m
    BY <1>4, <2>2 DEF NamesSource
  <2>4. p.allow[k].mode \in WordsFor(m)
    BY <1>5, <2>3, ParsedModes
  <2>5. k \in DOMAIN p.allow
    BY <1>3
  <2> QED BY <1>9, <2>3, <2>4, <2>5 DEF Spelled
<1>10. CASE naming = {} /\ SourceModes(granting, src) = {}
  <2>1. granted = ParseMode(p.default)
    BY <1>2, <1>7, <1>10 DEF Decides, BuildPackage
  <2>2. p.default \in WordsFor(m)
    BY <1>3, <2>1, ParsedModes DEF ValidPackage
  <2> QED BY <1>10, <2>2 DEF Spelled
<1> QED BY <1>8, <1>9, <1>10

(* So it is for the wrapper that runs on it. *)
LEMMA BuiltIsWritten ==
    ASSUME NEW p \in RawPackage, NEW u \in BOOLEAN, ValidPackage(p, u)
    PROVE  WrittenIn(BuildPackage(p, u), p, u)
BY GrantsAreSpelled DEF WrittenIn, GrantsOnly

(* The implicit policy grants its default target and nothing else. *)
LEMMA OnlyGrantsOne ==
    ASSUME NEW c \in Ids \cup {None}, NEW i \in Ids, NEW src \in Sources,
           NEW m \in {ModeRead, ModeReadWrite}, Resolve(Only(c), i, src) >= m
    PROVE  i = c
<1>1. Only(c) \in PackagePolicy
  <2>1. CASE c = None
    <3>1. Only(c).entries = <<>> /\ Only(c).default \in Mode
      BY <2>1 DEF Only, Mode
    <3> QED BY <3>1 DEF Only, PackagePolicy
  <2>2. CASE c # None
    <3>1. [id |-> c, source |-> None, mode |-> ModeReadWrite] \in Entry
      BY <2>2 DEF Entry, IdEntry, Mode
    <3>2. Only(c).entries \in Seq(Entry) /\ Only(c).default \in Mode
      BY <2>2, <3>1 DEF Only, Mode
    <3> QED BY <3>2 DEF Only, PackagePolicy
  <2> QED BY <2>1, <2>2
<1>2. Decides(Only(c), i, src, Resolve(Only(c), i, src))
    BY <1>1, ResolveDecides
<1>3. SUFFICES ASSUME i # c PROVE FALSE
    OBVIOUS
<1>4. IdModes(Only(c), i) = {} /\ SourceModes(Only(c), src) = {}
  <2>1. CASE c = None
    <3>1. Len(Only(c).entries) = 0
      BY <2>1 DEF Only
    <3> QED BY <3>1 DEF IdModes, SourceModes
  <2>2. CASE c # None
    <3>1. Len(Only(c).entries) = 1 /\ Only(c).entries[1].id = c
      BY <2>2 DEF Only
    <3> QED BY <1>3, <2>2, <3>1 DEF IdModes, SourceModes, NamesId, NamesSource
  <2> QED BY <2>1, <2>2
<1>5. Resolve(Only(c), i, src) = ModeDeny
    BY <1>2, <1>4 DEF Decides, Only
<1> QED BY <1>5 DEF ModeDeny, ModeRead, ModeReadWrite

-----------------------------------------------------------------------------
(* The inductive invariant. *)

ReloadTypes ==
    /\ policyPath \in BOOLEAN
    /\ main \in {"bind", "load", "read", "connect", "serve", "exited"}
    /\ watcher \in {"absent", "starting", "idle", "load", "read", "swap", "swapRem", "returned"}
    /\ file \in Contents /\ opened \in Contents
    /\ raised \in BOOLEAN /\ hupCh \in {0, 1} /\ asked \in BOOLEAN
    /\ defaults.cal \in Ids \cup {None} /\ defaults.list \in Ids \cup {None}
    /\ watcher # "absent" => main \in {"serve", "exited"}
    /\ Watching => policyPath
    /\ asked => Watching

(* A reload that has not opened the file is due. *)
Due == raised \/ hupCh > 0 \/ watcher = "load"

(* Where no other reload is due, the one under way carries the file as it is *)
(* from step to step.                                                        *)
SettleInv ==
    asked /\ main = "serve" /\ ~Due =>
        /\ watcher = "read" => opened = file
        /\ watcher = "swap" /\ Loads(file) => loaded = Build(file)
        /\ watcher = "swapRem" /\ Loads(file) =>
                loaded = Build(file) /\ calPol = Build(file).Calendar
        /\ watcher = "idle" /\ Loads(file) => InForce(file)

(* What was loaded and what is in force come from good documents. *)
GrantInv ==
    /\ policyPath /\ main \in {"connect", "serve"} => \E d \in Docs : Valid(d) /\ loaded = Build(d)
    /\ policyPath /\ main = "serve" =>
            /\ \E d \in Docs : Valid(d) /\ calPol = Build(d).Calendar
            /\ \E d \in Docs : Valid(d) /\ remPol = Build(d).Reminders
    /\ ~policyPath /\ main = "serve" => calPol = Only(defaults.cal) /\ remPol = Only(defaults.list)

ReloadInv == ReloadTypes /\ SettleInv /\ GrantInv

LEMMA InitReload == Init => ReloadInv
<1> SUFFICES ASSUME Init PROVE ReloadInv
    OBVIOUS
<1>1. ReloadTypes
    BY DEF Init, ReloadTypes, Watching, Contents
<1> QED BY <1>1 DEF Init, ReloadInv, SettleInv, GrantInv

LEMMA TypesStep == ReloadTypes /\ [Next]_vars => ReloadTypes'
<1> SUFFICES ASSUME ReloadTypes, [Next]_vars PROVE ReloadTypes'
    OBVIOUS
<1> USE DEF ReloadTypes, Watching, operator, signals, policies
<1>1. CASE Bind
    BY <1>1 DEF Bind
<1>2. CASE Open
    BY <1>2 DEF Open
<1>3. CASE LoadAtStart
    BY <1>3 DEF LoadAtStart
<1>4. CASE New
    BY <1>4 DEF New
<1>5. CASE Exit
    BY <1>5 DEF Exit
<1>6. CASE Notify
    BY <1>6 DEF Notify
<1>7. CASE Receive
    BY <1>7 DEF Receive
<1>8. CASE LoadAgain
    BY <1>8 DEF LoadAgain
<1>9. CASE SwapCalendar
    BY <1>9 DEF SwapCalendar
<1>10. CASE SwapReminders
    BY <1>10 DEF SwapReminders
<1>11. CASE Edit
    BY <1>11 DEF Edit
<1>12. CASE Hup
    BY <1>12 DEF Hup
<1>13. CASE Forward
    BY <1>13 DEF Forward
<1>14. CASE UNCHANGED vars
    BY <1>14 DEF vars
<1> QED
    BY <1>1, <1>2, <1>3, <1>4, <1>5, <1>6, <1>7, <1>8, <1>9, <1>10, <1>11, <1>12, <1>13, <1>14
    DEF Next, Start, Reload

LEMMA SettleStep == ReloadTypes /\ SettleInv /\ [Next]_vars => SettleInv'
<1> SUFFICES ASSUME ReloadTypes, SettleInv, [Next]_vars,
                    asked', main' = "serve", ~Due'
             PROVE  /\ (watcher = "read" => opened = file)'
                    /\ (watcher = "swap" /\ Loads(file) => loaded = Build(file))'
                    /\ (watcher = "swapRem" /\ Loads(file) =>
                            loaded = Build(file) /\ calPol = Build(file).Calendar)'
                    /\ (watcher = "idle" /\ Loads(file) => InForce(file))'
    BY DEF SettleInv
<1> USE DEF ReloadTypes, SettleInv, Due, Watching, operator, signals, policies, InForce
<1>1. CASE Bind
    BY <1>1 DEF Bind
<1>2. CASE Open
  <2>1. Gone \notin Docs
    BY ReloadConstants
  <2> QED BY <1>2, <2>1 DEF Open, Loads
<1>3. CASE LoadAtStart
    BY <1>3 DEF LoadAtStart
<1>4. CASE New
    BY <1>4 DEF New
<1>5. CASE Exit
    BY <1>5 DEF Exit
<1>6. CASE Notify
    BY <1>6 DEF Notify
<1>7. CASE Receive
    BY <1>7 DEF Receive
<1>8. CASE LoadAgain
  <2>1. opened = file
    BY <1>8 DEF LoadAgain
  <2>2. \A c \in Content : c = file
    BY <2>1 DEF Content
  <2> QED BY <1>8, <2>2 DEF LoadAgain, Loads
<1>9. CASE SwapCalendar
    BY <1>9 DEF SwapCalendar, Loads
<1>10. CASE SwapReminders
    BY <1>10 DEF SwapReminders, Loads
<1>11. CASE Edit
    BY <1>11 DEF Edit
<1>12. CASE Hup
    BY <1>12 DEF Hup
<1>13. CASE Forward
    BY <1>13 DEF Forward
<1>14. CASE UNCHANGED vars
    BY <1>14 DEF vars, Loads
<1> QED
    BY <1>1, <1>2, <1>3, <1>4, <1>5, <1>6, <1>7, <1>8, <1>9, <1>10, <1>11, <1>12, <1>13, <1>14
    DEF Next, Start, Reload

LEMMA GrantStep == ReloadTypes /\ GrantInv /\ [Next]_vars => GrantInv'
<1> SUFFICES ASSUME ReloadTypes, GrantInv, [Next]_vars PROVE GrantInv'
    OBVIOUS
<1> USE DEF ReloadTypes, GrantInv, Watching, operator, signals, policies
<1>1. CASE Bind
    BY <1>1 DEF Bind
<1>2. CASE Open
    BY <1>2 DEF Open
<1>3. CASE LoadAtStart
    BY <1>3 DEF LoadAtStart, Loads
<1>4. CASE New
  <2>1. CASE policyPath
    BY <1>4, <2>1 DEF New
  <2>2. CASE ~policyPath
    BY <1>4, <2>2 DEF New, DefaultPolicy
  <2> QED BY <2>1, <2>2
<1>5. CASE Exit
    BY <1>5 DEF Exit
<1>6. CASE Notify
    BY <1>6 DEF Notify
<1>7. CASE Receive
    BY <1>7 DEF Receive
<1>8. CASE LoadAgain
    BY <1>8 DEF LoadAgain, Loads
<1>9. CASE SwapCalendar
    BY <1>9 DEF SwapCalendar
<1>10. CASE SwapReminders
    BY <1>10 DEF SwapReminders
<1>11. CASE Edit
    BY <1>11 DEF Edit
<1>12. CASE Hup
    BY <1>12 DEF Hup
<1>13. CASE Forward
    BY <1>13 DEF Forward
<1>14. CASE UNCHANGED vars
    BY <1>14 DEF vars
<1> QED
    BY <1>1, <1>2, <1>3, <1>4, <1>5, <1>6, <1>7, <1>8, <1>9, <1>10, <1>11, <1>12, <1>13, <1>14
    DEF Next, Start, Reload

LEMMA InvariantHolds == Spec => []ReloadInv
<1>1. ReloadInv /\ [Next]_vars => ReloadInv'
    BY TypesStep, SettleStep, GrantStep DEF ReloadInv
<1> QED BY InitReload, <1>1, PTL DEF Spec

-----------------------------------------------------------------------------
(***************************************************************************)
(* Whatever overlaps, once a SIGHUP has come after the last edit and       *)
(* nothing is under way both wrappers run on the file (main.go:353-371).   *)
(***************************************************************************)
THEOREM SettlesAlways == Spec => []SettlesOnTheFile
<1>1. ReloadInv => SettlesOnTheFile
    BY DEF ReloadInv, SettleInv, SettlesOnTheFile, Quiet, Due, ReloadTypes
<1> QED BY InvariantHolds, <1>1, PTL

(***************************************************************************)
(* At any time each wrapper runs on a document that loaded as a whole, and *)
(* what it grants is spelled out there; without a file it grants the       *)
(* default target alone (policy.go:60-71, 183-244; server.go:126-171).     *)
(***************************************************************************)
THEOREM GrantsAlwaysWritten == Spec => []GrantsAreWritten
<1>1. ASSUME ReloadInv, main = "serve", policyPath
      PROVE  /\ \E d \in Docs : Valid(d) /\ WrittenIn(calPol, d.calendar, FALSE)
             /\ \E d \in Docs : Valid(d) /\ WrittenIn(remPol, d.reminders, TRUE)
  <2>1. \A d \in Docs : d.calendar \in RawPackage /\ d.reminders \in RawPackage
    BY ReloadConstants DEF RawPolicy
  <2>2. PICK d \in Docs : Valid(d) /\ calPol = Build(d).Calendar
    BY <1>1 DEF ReloadInv, GrantInv
  <2>3. WrittenIn(calPol, d.calendar, FALSE)
    BY <2>1, <2>2, BuiltIsWritten DEF Valid, Build
  <2>4. PICK e \in Docs : Valid(e) /\ remPol = Build(e).Reminders
    BY <1>1 DEF ReloadInv, GrantInv
  <2>5. WrittenIn(remPol, e.reminders, TRUE)
    BY <2>1, <2>4, BuiltIsWritten DEF Valid, Build
  <2> QED BY <2>2, <2>3, <2>4, <2>5
<1>2. ASSUME ReloadInv, main = "serve", ~policyPath
      PROVE  /\ GrantsOnly(calPol, LAMBDA i, src, m : i = defaults.cal)
             /\ GrantsOnly(remPol, LAMBDA i, src, m : i = defaults.list)
  <2>1. calPol = Only(defaults.cal) /\ remPol = Only(defaults.list)
    BY <1>2 DEF ReloadInv, GrantInv
  <2>2. defaults.cal \in Ids \cup {None} /\ defaults.list \in Ids \cup {None}
    BY <1>2 DEF ReloadInv, ReloadTypes
  <2> QED BY <2>1, <2>2, OnlyGrantsOne DEF GrantsOnly
<1>3. ReloadInv => policyPath \in BOOLEAN
    BY DEF ReloadInv, ReloadTypes
<1>4. ReloadInv => GrantsAreWritten
    BY <1>1, <1>2, <1>3 DEF GrantsAreWritten
<1> QED BY InvariantHolds, <1>4, PTL
=============================================================================
