----------------------------- MODULE HealthCheck -----------------------------
(***************************************************************************)
(* The health endpoint of a sidecar: every probe runs the checkers of the  *)
(* components manager and of the runtime side by side, each behind a       *)
(* timeout that answers for it (pkg/healthcheck).  The manager asks the    *)
(* installed pubsubs one after the other with its lock held; connections   *)
(* come and go meanwhile.  A version is the sequence of its characters.    *)
(***************************************************************************)
EXTENDS Naturals, FiniteSets, SequencesExt

CONSTANTS
    Probes, Conns,      \* probes, each made once; pubsubs by their connections
    Version, MinVersions    \* the runtime's version; required ones, <<>> for none

VARIABLES
    hcMin,          \* the version that the configuration requires
    hcInstalled,    \* the pubsubs that are installed
    hcUp,           \* those that are connected and not closed
    hcProbe,        \* each probe: "none", "checking", or the code it answered
    hcExpired,      \* its context is done
    hcManager, hcRuntime,   \* what is known of its checkers: "waiting", or the result
    hcReader,       \* the goroutine of the manager's check: "none", "reading", the result
                    \* it waits to hand over, "ended"
    hcLeft,         \* the pubsubs it has still to ask
    hcWasUp, hcWasDown, hcHadNone   \* what was so at some time during the probe
hcVars == <<hcMin, hcInstalled, hcUp, hcProbe, hcExpired, hcManager, hcRuntime,
            hcReader, hcLeft, hcWasUp, hcWasDown, hcHadNone>>
probeVars == <<hcProbe, hcExpired, hcManager, hcRuntime, hcReader, hcLeft>>
history == <<hcWasUp, hcWasDown, hcHadNone>>

Each(value) == [p \in Probes |-> value]
Checking(p) == hcProbe[p] = "checking"

\* Go compares strings character by character: version 1.10 is less than 1.9.
LessString(s, t) ==
    \/ IsStrictPrefix(s, t)
    \/ \E i \in DOMAIN s \cap DOMAIN t :
          s[i] < t[i] /\ \A j \in 1 .. i - 1 : s[j] = t[j]

RuntimeHealth == IF hcMin # <<>> /\ LessString(Version, hcMin) THEN "unhealthy" ELSE "healthy"

HealthInit ==
    /\ hcMin \in MinVersions
    /\ hcInstalled = {} /\ hcUp = Conns
    /\ hcProbe = Each("none") /\ hcExpired = Each(FALSE)
    /\ hcManager = Each("waiting") /\ hcRuntime = Each("waiting")
    /\ hcReader = Each("none") /\ hcLeft = Each({})
    /\ hcWasUp = Each({}) /\ hcWasDown = Each({}) /\ hcHadNone = Each(FALSE)

-----------------------------------------------------------------------------
(* A probe. *)
Arrive(p) ==
    /\ hcProbe[p] = "none"
    /\ hcProbe' = [hcProbe EXCEPT ![p] = "checking"]
    /\ hcWasUp' = [hcWasUp EXCEPT ![p] = hcInstalled \cap hcUp]
    /\ hcWasDown' = [hcWasDown EXCEPT ![p] = hcInstalled \ hcUp]
    /\ hcHadNone' = [hcHadNone EXCEPT ![p] = hcInstalled = {}]
    /\ UNCHANGED <<hcMin, hcInstalled, hcUp, hcExpired, hcManager, hcRuntime, hcReader, hcLeft>>

BeginReading(p) ==
    /\ Checking(p) /\ hcReader[p] = "none"
    /\ hcReader' = [hcReader EXCEPT ![p] = "reading"]
    /\ hcLeft' = [hcLeft EXCEPT ![p] = hcInstalled]
    /\ UNCHANGED <<hcMin, hcInstalled, hcUp, hcProbe, hcExpired, hcManager, hcRuntime, history>>

\* The first pubsub that is not connected ends the check.
AskPubSub(p, c) ==
    /\ hcReader[p] = "reading" /\ c \in hcLeft[p]
    /\ IF c \in hcUp
         THEN hcLeft' = [hcLeft EXCEPT ![p] = @ \ {c}] /\ UNCHANGED hcReader
         ELSE hcReader' = [hcReader EXCEPT ![p] = "unhealthy"] /\ UNCHANGED hcLeft
    /\ UNCHANGED <<hcMin, hcInstalled, hcUp, hcProbe, hcExpired, hcManager, hcRuntime, history>>

EndReading(p) ==
    /\ hcReader[p] = "reading" /\ hcLeft[p] = {}
    /\ hcReader' = [hcReader EXCEPT ![p] = IF hcInstalled = {} THEN "unhealthy" ELSE "healthy"]
    /\ UNCHANGED <<hcMin, hcInstalled, hcUp, hcProbe, hcExpired, hcManager, hcRuntime, hcLeft, history>>

\* The unbuffered channel hands a result over only while it is waited for: a check
\* that outlives its timeout keeps its goroutine for ever.
ManagerAnswers(p) ==
    /\ Checking(p) /\ hcManager[p] = "waiting"
    /\ \/ /\ hcReader[p] \in {"healthy", "unhealthy"}
          /\ hcManager' = [hcManager EXCEPT ![p] = hcReader[p]]
          /\ hcReader' = [hcReader EXCEPT ![p] = "ended"]
       \/ /\ hcExpired[p]
          /\ hcManager' = [hcManager EXCEPT ![p] = "unhealthy"] /\ UNCHANGED hcReader
    /\ UNCHANGED <<hcMin, hcInstalled, hcUp, hcProbe, hcExpired, hcRuntime, hcLeft, history>>

RuntimeAnswers(p) ==
    /\ Checking(p) /\ hcRuntime[p] = "waiting"
    /\ \E r \in {RuntimeHealth} \cup (IF hcExpired[p] THEN {"unhealthy"} ELSE {}) :
          hcRuntime' = [hcRuntime EXCEPT ![p] = r]
    /\ UNCHANGED <<hcMin, hcInstalled, hcUp, hcProbe, hcExpired, hcManager, hcReader, hcLeft, history>>

Expire(p) ==
    /\ Checking(p) /\ ~hcExpired[p]
    /\ hcExpired' = [hcExpired EXCEPT ![p] = TRUE]
    /\ UNCHANGED <<hcMin, hcInstalled, hcUp, hcProbe, hcManager, hcRuntime, hcReader, hcLeft, history>>

(* Mutant of Respond: the endpoint waits for one checker only. *)
RespondEarly(p) ==
    /\ Checking(p) /\ {hcManager[p], hcRuntime[p]} # {"waiting"}
    /\ hcProbe' = [hcProbe EXCEPT ![p] = IF "unhealthy" \in {hcManager[p], hcRuntime[p]} THEN "503" ELSE "200"]
    /\ UNCHANGED <<hcMin, hcInstalled, hcUp, hcExpired, hcManager, hcRuntime, hcReader, hcLeft, history>>

Respond(p) ==
    /\ Checking(p) /\ "waiting" \notin {hcManager[p], hcRuntime[p]}
    /\ hcProbe' = [hcProbe EXCEPT ![p] = IF "unhealthy" \in {hcManager[p], hcRuntime[p]} THEN "503" ELSE "200"]
    /\ UNCHANGED <<hcMin, hcInstalled, hcUp, hcExpired, hcManager, hcRuntime, hcReader, hcLeft, history>>

-----------------------------------------------------------------------------
(* The sidecar around it.  The manager installs with its lock held.         *)
Observe ==
    LET during(h, now) == [p \in Probes |-> IF Checking(p) THEN h[p] \cup now ELSE h[p]]
    IN  /\ hcWasUp' = during(hcWasUp, hcInstalled' \cap hcUp')
        /\ hcWasDown' = during(hcWasDown, hcInstalled' \ hcUp')
        /\ UNCHANGED <<hcMin, hcHadNone, probeVars>>

InstallConn(c) ==
    /\ c \notin hcInstalled /\ \A p \in Probes : hcReader[p] # "reading"
    /\ hcInstalled' = hcInstalled \cup {c} /\ UNCHANGED hcUp
    /\ Observe

ConnectionChanges(c) ==
    /\ c \in hcInstalled
    /\ hcUp' = IF c \in hcUp THEN hcUp \ {c} ELSE hcUp \cup {c}
    /\ UNCHANGED hcInstalled /\ Observe

HealthNext ==
    \/ \E p \in Probes :
          \/ Arrive(p) \/ BeginReading(p) \/ EndReading(p) \/ ManagerAnswers(p)
          \/ RuntimeAnswers(p) \/ Expire(p) \/ Respond(p)
          \/ \E c \in Conns : AskPubSub(p, c)
    \/ \E c \in Conns : InstallConn(c) \/ ConnectionChanges(c)
HealthSpec == HealthInit /\ [][HealthNext]_hcVars

-----------------------------------------------------------------------------
\* A probe that is answered 200 found the version sufficient and every pubsub that
\* was there when it arrived connected at some time while it lasted; one that is
\* answered 503 without having expired has a reason: a pubsub was not connected,
\* or none installed, while it lasted, or the version does not suffice
\* (health.go:55, components_manager.go:219, runtime.go:179).
ProbesTellTheTruth ==
    [][\A p \in Probes :
        /\ hcProbe'[p] = "200" /\ Checking(p) =>
              hcWasDown[p] \subseteq hcWasUp[p] /\ RuntimeHealth = "healthy" /\ hcInstalled # {}
        /\ hcProbe'[p] = "503" /\ Checking(p) /\ ~hcExpired[p] =>
              hcWasDown[p] # {} \/ hcHadNone[p] \/ RuntimeHealth = "unhealthy"]_hcVars
=============================================================================
