---------------------------- MODULE ControlPlane ----------------------------
(***************************************************************************)
(* The process around the data path: its start from command line,          *)
(* environment and policy file, the management API with its                *)
(* authentication and its handlers, the policy store with reload and       *)
(* watcher, the health check and the database scan, with crashes and       *)
(* restarts by a supervisor.                                               *)
(***************************************************************************)
EXTENDS ConfigStore, ApiAccess, Health, DbScanner

(* More of a scene: launches and scans to choose from, and probes, the bound  *)
(* on those of one process.                                                   *)

CONSTANTS NoRequest  \* a handler is not called

\* An address to bind is on the loopback interface, or it is beyond.
Binds(source) ==
    "apiBind" \in DOMAIN source => source["apiBind"] \in {"loopback", "everywhere", Invalid}

ASSUME ControlPlaneAssumption ==
    \A s \in Scenes :
        /\ \A c \in s.files \cup s.edits : InEffect(c.health) \in Limits /\ Binds(c.settings)
        /\ \A l \in s.launches : Binds(l.cli) /\ Binds(l.env)
        /\ \A scan \in s.scans \ {NoScan} : IsJob(scan)
        /\ \A asked \in s.requests : \A h \in Handlers :
              asked[h] # NoRequest => IsRequest(asked[h])

VARIABLES probed  \* probes so far, of every process

vars == <<store, launched, checker, scanner, probed>>

\* The caller is a part of its request.
Caller(h) == request[h].caller

Init ==
    /\ StoreInit
    /\ launch \in scene.launches
    /\ LaunchInit(NoFile)
    /\ HealthInit
    /\ job \in scene.scans
    /\ ScanInit
    /\ probed = 0

\* main: the policy loads, every setting is understood, the tasks are spawned.
Start ==
    /\ Boot
    /\ Launched(Loaded(File))
    /\ StartChecking(Loaded(File).health)
    /\ UNCHANGED <<scanner, probed>>

\* start_api_server in its task, on the policy of that moment.
OpenApi ==
    /\ up
    /\ ApiListens(live)
    /\ UNCHANGED <<store, checker, scanner, probed>>

\* main goes on to the listener.
OpenListener ==
    /\ up
    /\ Listen
    /\ UNCHANGED <<store, checker, scanner, probed>>

Dies ==
    /\ Gone(NoFile)
    /\ StopChecking
    /\ stage' = IF stage = "done" THEN "done" ELSE "asked"
    /\ todo' = {} /\ findings' = {} /\ columns' = 0
    /\ UNCHANGED <<job, answer, probed>>

\* main returns an error, or the API's task calls exit.
GiveUp ==
    /\ up
    /\ ApiRefuses(live) \/ AuthFails
    /\ Exit
    /\ UNCHANGED crashes
    /\ Dies

Die == Crash /\ Dies

\* api_auth decides on the live policy; the handler reads it again.
Call(h) ==
    /\ request[h] # NoRequest
    /\ Reaches(Caller(h))
    /\ Allows(live.api, Caller(h))
    /\ Admit(h)
    /\ UNCHANGED <<launched, checker, scanner, probed>>

Refuse(h) ==
    /\ up
    /\ request[h] # NoRequest
    /\ pc[h] = "idle"
    /\ Reaches(Caller(h))
    /\ ~Allows(live.api, Caller(h))
    /\ GoTo(h, "refused")
    /\ UNCHANGED <<scene, files, process, fd, new, request, detached, reloader, watcher,
                   saves, crashes, seen, raced, launched, checker, scanner, probed>>

Reload(r) ==
    /\ api \notin {"off", "starting"}
    /\ ApiReload(r)
    /\ UNCHANGED <<launched, checker, scanner, probed>>

Check(connected) ==
    /\ up
    /\ probed < scene.probes
    /\ Probe(connected, live.health)
    /\ probed' = probed + 1
    /\ UNCHANGED <<store, launched, scanner>>

Scan ==
    /\ up
    /\ api \notin {"off", "starting"}
    /\ ScanStep
    /\ UNCHANGED <<store, launched, checker, probed>>

others == <<launched, checker, scanner, probed>>
Store == StoreStep /\ UNCHANGED others

\* Nothing is under way; the proxy waits for whatever comes next, or cannot start.
AtRest ==
    /\ InFlight = {} /\ Reloading = {}
    /\ UNCHANGED vars

Next ==
    \/ Start \/ OpenApi \/ OpenListener \/ GiveUp \/ Die
    \/ \E h \in Handlers : Call(h) \/ Refuse(h)
    \/ \E r \in Reloaders : Reload(r)
    \/ Store
    \/ \E connected \in BOOLEAN : Check(connected)
    \/ Scan
    \/ AtRest

\* The runtime polls the watcher and ends a reload it has begun; time passes; a
\* supervisor restarts the proxy.
Fairness ==
    /\ WF_vars(DropEvent /\ UNCHANGED others)
    /\ WF_vars(SecondPasses /\ UNCHANGED others)
    /\ WF_vars(Start)
    /\ \A r \in Reloaders : WF_vars(WatcherStep(r) /\ UNCHANGED others)

Spec == Init /\ [][Next]_vars

FairSpec == Spec /\ Fairness

-----------------------------------------------------------------------------
(* Properties *)

TypeOK ==
    /\ StoreTypeOK
    /\ HealthTypeOK
    /\ ScanTypeOK
    /\ api \in {"off", "starting", "loopback", "everywhere"}
    /\ listening \in BOOLEAN
    /\ IF up THEN IsPolicy(booted) ELSE booted = NoFile /\ api = "off" /\ ~listening

\* "It may only be reachable beyond loopback when credentials are configured"
\* (start_api_server), "CLI > env > config file > default" (main.rs): a request
\* without a right credential gets to a handler only if proxy.yaml has held a policy
\* that asks for none; if it comes from the network, moreover, the most explicit of
\* command line, environment and file has opened the API to it, and proxy.yaml has
\* held a policy that asks for credentials too.  And the proxy listens only when
\* its own clients have a password to show, or the upstream does the asking.
Explicit(s, value) ==
    LET sources == <<launch.cli, launch.env, booted.settings>>
    IN \E i \in DOMAIN sources :
          /\ s \in DOMAIN sources[i] /\ sources[i][s] = value
          /\ \A j \in 1..(i - 1) : s \notin DOMAIN sources[j]
Handled(h) == pc[h] \notin {"idle", "refused"}
StrangersHandled ==
    \A h \in Handlers : Handled(h) /\ Stranger(Caller(h)) => \E c \in seen : c.api = {}
StrangersKeptOut ==
    /\ StrangersHandled
    /\ \A h \in Handlers :
          h \in InFlight /\ Stranger(Caller(h)) /\ Caller(h).from = "network" =>
                Explicit("apiBind", "everywhere") /\ \E c \in seen : c.api # {}
    /\ listening /\ booted.auth # Passthrough =>
          /\ launch.protocol = "mysql"
          /\ \E source \in {launch.env, booted.auth.files, booted.auth.inline} :
                "clientPassword" \in DOMAIN source /\ source["clientPassword"] \in Given

HealthTold == up => HealthIsHistory(live.health)
=============================================================================
