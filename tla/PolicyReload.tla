---------------------------- MODULE PolicyReload ----------------------------
(***************************************************************************)
(* The policy of a running eventkit-server: run brings it up (bind check,  *)
(* policy file, bridges, server.New), watchReloads replaces it on SIGHUP,  *)
(* while an operator edits the file and sends signals at any moment.       *)
(* main and the watcher read the file in two steps (open, decode).         *)
(***************************************************************************)
EXTENDS PolicyLoad

CONSTANTS
    Docs,       \* documents the operator may write, good and bad
    Gone,       \* the file does not exist or cannot be opened
    Garbled,    \* no document: empty, half written, or with an unknown key
    MaxEdits,   \* bound: how often the file is edited
    MaxHups     \* bound: how many SIGHUPs are sent

ASSUME ReloadConstants ==
    /\ Docs \subseteq RawPolicy /\ Gone \notin Docs /\ Garbled \notin Docs
    /\ Gone # Garbled /\ MaxEdits \in Nat /\ MaxHups \in Nat

Contents == Docs \cup {Gone, Garbled}
Unset == [Calendar |-> None, Reminders |-> None]   \* no policy in hand

VARIABLES
    policyPath,  \* the command line names a policy file
    main,      \* where run is
    file,      \* what the policy file holds
    opened,    \* what it held when it was last opened
    loaded,    \* the policy a load returned
    calPol,    \* the policy pointer of the scoped calendar
    remPol,    \* the policy pointer of the scoped reminders
    watcher,   \* where watchReloads is
    raised,    \* a SIGHUP the runtime has not forwarded yet
    hupCh,     \* signals in the channel, which holds one
    edits, hups,
    asked,     \* history: a SIGHUP was sent since the last edit
    defaults   \* history: the default calendar and list of the implicit policy

operator == <<file, edits>>
signals == <<raised, hupCh, hups>>
policies == <<calPol, remPol>>
vars == <<policyPath, main, file, opened, loaded, calPol, remPol, watcher, raised, hupCh,
          edits, hups, asked, defaults>>

Init ==
    /\ policyPath \in BOOLEAN
    /\ main = "bind" /\ watcher = "absent"
    /\ file \in Contents /\ opened = Gone
    /\ loaded = Unset /\ calPol = None /\ remPol = None
    /\ raised = FALSE /\ hupCh = 0
    /\ edits = 0 /\ hups = 0 /\ asked = FALSE /\ defaults = [cal |-> None, list |-> None]

Loads(c) == c \in Docs /\ Valid(c)
Content == IF file = Gone THEN {opened} ELSE {opened, file}   \* what a read may see

-----------------------------------------------------------------------------
(* enforceLoopbackBind, then loadPolicy, which does nothing without a path.  *)
Bind ==
    /\ main = "bind"
    /\ main' \in {"exited", IF policyPath THEN "load" ELSE "connect"}
    /\ UNCHANGED <<policyPath, operator, opened, loaded, policies, watcher, signals, asked, defaults>>

(* os.Open, by main or by the watcher, and what follows when it fails.       *)
Open ==
    /\ opened' = file
    /\ \/ /\ main = "load" /\ main' = IF file = Gone THEN "exited" ELSE "read"
          /\ UNCHANGED watcher
       \/ /\ main = "serve" /\ watcher = "load"
          /\ watcher' = IF file = Gone THEN "idle" ELSE "read"
          /\ UNCHANGED main
    /\ UNCHANGED <<policyPath, operator, loaded, policies, signals, asked, defaults>>

(* policy.Load: at start an error ends the process.                          *)
LoadAtStart ==
    /\ main = "read"
    /\ \E c \in Content :
        IF Loads(c) THEN main' = "connect" /\ loaded' = Build(c)
        ELSE main' = "exited" /\ UNCHANGED loaded
    /\ UNCHANGED <<policyPath, operator, opened, policies, watcher, signals, asked, defaults>>

(* The bridges, then server.New, which gives both wrappers one policy.       *)
New ==
    /\ main = "connect"
    /\ \/ main' = "exited" /\ UNCHANGED <<policies, watcher, defaults>>
       \/ \E c, l \in IF policyPath THEN {None} ELSE Ids \cup {None} :
            LET pol == IF policyPath THEN loaded ELSE DefaultPolicy(c, l)
            IN  /\ main' = "serve" /\ watcher' = "starting"
                /\ calPol' = pol.Calendar /\ remPol' = pol.Reminders
                /\ defaults' = [cal |-> c, list |-> l]
    /\ UNCHANGED <<policyPath, operator, opened, loaded, signals, asked>>

(* ListenAndServe returns: the port is taken, or the server was shut down.   *)
Exit ==
    /\ main = "serve" /\ main' = "exited"
    /\ UNCHANGED <<policyPath, operator, opened, loaded, policies, watcher, signals, asked, defaults>>

-----------------------------------------------------------------------------
(* The goroutine: signal.Notify, unless there is nothing to reload.          *)
Notify ==
    /\ main = "serve" /\ watcher = "starting"
    /\ watcher' = IF policyPath THEN "idle" ELSE "returned"
    /\ UNCHANGED <<policyPath, main, operator, opened, loaded, policies, signals, asked, defaults>>

(* for range hupCh *)
Receive ==
    /\ main = "serve" /\ watcher = "idle" /\ hupCh > 0
    /\ hupCh' = hupCh - 1 /\ watcher' = "load"
    /\ UNCHANGED <<policyPath, main, operator, opened, loaded, policies, raised, hups, asked, defaults>>

(* Mutant of LoadAgain: signals that came meanwhile count as served.         *)
LoadAgainDraining ==
    /\ main = "serve" /\ watcher = "read"
    /\ hupCh' = 0
    /\ \E c \in Content :
        IF Loads(c) THEN watcher' = "swap" /\ loaded' = Build(c)
        ELSE watcher' = "idle" /\ UNCHANGED loaded
    /\ UNCHANGED <<policyPath, main, operator, opened, policies, raised, hups, asked, defaults>>

(* Load again; on an error the old policy stays.                             *)
LoadAgain ==
    /\ main = "serve" /\ watcher = "read"
    /\ \E c \in Content :
        IF Loads(c) THEN watcher' = "swap" /\ loaded' = Build(c)
        ELSE watcher' = "idle" /\ UNCHANGED loaded
    /\ UNCHANGED <<policyPath, main, operator, opened, policies, signals, asked, defaults>>

(* ReplacePolicy: two atomic stores, one after the other.                    *)
SwapCalendar ==
    /\ main = "serve" /\ watcher = "swap"
    /\ calPol' = loaded.Calendar /\ watcher' = "swapRem"
    /\ UNCHANGED <<policyPath, main, operator, opened, loaded, remPol, signals, asked, defaults>>

SwapReminders ==
    /\ main = "serve" /\ watcher = "swapRem"
    /\ remPol' = loaded.Reminders /\ watcher' = "idle"
    /\ UNCHANGED <<policyPath, main, operator, opened, loaded, calPol, signals, asked, defaults>>

-----------------------------------------------------------------------------
(* The operator. *)
Edit ==
    /\ edits < MaxEdits /\ edits' = edits + 1
    /\ file' \in Contents \ {file} /\ asked' = FALSE
    /\ UNCHANGED <<policyPath, main, opened, loaded, policies, watcher, signals, defaults>>

Watching == watcher \notin {"absent", "starting", "returned"}

(* Until signal.Notify has been called a SIGHUP ends the process.            *)
Hup ==
    /\ main # "exited" /\ hups < MaxHups /\ hups' = hups + 1
    /\ IF Watching THEN raised' = TRUE /\ asked' = TRUE /\ UNCHANGED main
       ELSE main' = "exited" /\ UNCHANGED <<raised, asked>>
    /\ UNCHANGED <<policyPath, operator, opened, loaded, policies, watcher, hupCh, defaults>>

(* The runtime does not block on a full channel: the signal is dropped.      *)
Forward ==
    /\ main # "exited" /\ raised /\ raised' = FALSE
    /\ hupCh' = 1
    /\ UNCHANGED <<policyPath, main, operator, opened, loaded, policies, watcher, hups, asked, defaults>>

Reload == Receive \/ (watcher = "load" /\ Open) \/ LoadAgain \/ SwapCalendar \/ SwapReminders
Start == Bind \/ (main = "load" /\ Open) \/ LoadAtStart \/ New \/ Notify

Next == Start \/ Reload \/ Forward \/ Edit \/ Hup \/ Exit

Spec == Init /\ [][Next]_vars

(* The scheduler runs the watcher and the runtime's signal goroutine; nobody *)
(* owes an edit, a signal or an end of the process.                          *)
FairSpec == Spec /\ WF_vars(Reload) /\ WF_vars(Forward)

-----------------------------------------------------------------------------
InForce(d) == calPol = Build(d).Calendar /\ remPol = Build(d).Reminders
Quiet == main = "serve" /\ watcher = "idle" /\ ~raised /\ hupCh = 0

(***************************************************************************)
(* No signal is lost that matters: when nothing is under way and a SIGHUP  *)
(* came after the last edit, both wrappers run on the file as it is, if it *)
(* is good, however signals and edits overlapped with earlier reloads      *)
(* (main.go:353-371).                                                      *)
(***************************************************************************)
SettlesOnTheFile == Quiet /\ asked /\ Loads(file) => InForce(file)

(* What the words of a document allow, read by a person.                     *)
WordsFor(m) == IF m = ModeRead THEN {"read", "readwrite", "read_write", "rw"}
               ELSE {"readwrite", "read_write", "rw"}

Spelled(p, useListID, id, src, m) ==
    LET naming == {k \in DOMAIN p.allow : NameIn(p.allow[k], useListID) = id}
    IN  IF naming # {} THEN \A k \in naming : p.allow[k].mode \in WordsFor(m)
        ELSE \/ p.default \in WordsFor(m)
             \/ \E k \in DOMAIN p.allow : p.allow[k].source = src /\ p.allow[k].mode \in WordsFor(m)

GrantsOnly(pol, Allowed(_, _, _)) ==
    \A id \in Ids, src \in Sources, m \in {ModeRead, ModeReadWrite} :
        Resolve(pol, id, src) >= m => Allowed(id, src, m)

WrittenIn(pol, p, useListID) ==
    /\ pol = BuildPackage(p, useListID)
    /\ GrantsOnly(pol, LAMBDA id, src, m : Spelled(p, useListID, id, src, m))

(***************************************************************************)
(* With a policy file each wrapper always runs on a document that loaded   *)
(* as a whole: a bad file changes nothing.  And whatever is readable or    *)
(* writable was spelled out there, with no entry naming the target that    *)
(* says less; without a policy file it is the default target alone         *)
(* (policy.go:60-71, 183-244; server.go:126-171; main.go:346-364).         *)
(***************************************************************************)
GrantsAreWritten ==
    main = "serve" =>
        IF policyPath
        THEN /\ \E d \in Docs : Valid(d) /\ WrittenIn(calPol, d.calendar, FALSE)
             /\ \E d \in Docs : Valid(d) /\ WrittenIn(remPol, d.reminders, TRUE)
        ELSE /\ GrantsOnly(calPol, LAMBDA id, src, m : id = defaults.cal)
             /\ GrantsOnly(remPol, LAMBDA id, src, m : id = defaults.list)

(***************************************************************************)
(* A good file the operator asked for comes into force, unless the file is *)
(* edited again or the process ends first (main.go:346-371).               *)
(***************************************************************************)
ReloadTakesEffect ==
    \A d \in Docs :
        (main = "serve" /\ asked /\ file = d /\ Valid(d))
            ~> (InForce(d) \/ file # d \/ main = "exited")
=============================================================================
