------------------------------- MODULE Health -------------------------------
(***************************************************************************)
(* The upstream health check: run_health_check_task probes the upstream by *)
(* connecting to it, update_health_status counts failures and successes in *)
(* a row, and GET /health tells what came of it.  The task is spawned when *)
(* the process starts, with the interval and the timeout of that moment;   *)
(* the thresholds are those of the live policy at each probe.              *)
(***************************************************************************)
EXTENDS Naturals, Sequences

CONSTANTS NoSection  \* there is no health_check section in the policy

VARIABLES
    prober,  \* run_health_check_task runs
    health,  \* AppState.health_status
    probes   \* history: every probe of this process, with its thresholds

checker == <<prober, health, probes>>

Settings(enabled, unhealthy, healthy) ==
    [enabled |-> enabled, unhealthy |-> unhealthy, healthy |-> healthy]

Limits == [enabled : BOOLEAN, unhealthy : Nat, healthy : Nat]

\* A policy without the section is as one with these.
InEffect(settings) == IF settings = NoSection THEN Settings(TRUE, 3, 1) ELSE settings

Unchecked == [checked |-> FALSE, healthy |-> FALSE, failures |-> 0, successes |-> 0]

HealthInit ==
    /\ prober = FALSE
    /\ health = Unchecked
    /\ probes = <<>>

\* The process starts, or is gone.
StartChecking(settings) ==
    /\ prober' = InEffect(settings).enabled
    /\ health' = Unchecked
    /\ probes' = <<>>

StopChecking ==
    /\ prober' = FALSE
    /\ health' = Unchecked
    /\ probes' = <<>>

Counted_KeepsRun(connected) ==
    [health EXCEPT !.checked = TRUE,
                   !.failures = IF connected THEN 0 ELSE @ + 1,
                   !.successes = IF connected THEN @ + 1 ELSE @]
\* A connection that is refused and one that times out count the same.
Counted(connected) ==
    [health EXCEPT !.checked = TRUE,
                   !.failures = IF connected THEN 0 ELSE @ + 1,
                   !.successes = IF connected THEN @ + 1 ELSE 0]

Probe(connected, settings) ==
    /\ prober
    /\ LET limits  == InEffect(settings)
           counted == Counted(connected)
       IN /\ health' = [counted EXCEPT !.healthy =
                            IF counted.failures >= limits.unhealthy THEN FALSE
                            ELSE @ \/ counted.successes >= limits.healthy]
          /\ probes' = Append(probes, [connected |-> connected, limits |-> limits])
    /\ UNCHANGED prober

\* GET /health.
Reported(settings) ==
    CASE ~InEffect(settings).enabled                   -> "unknown"
      [] InEffect(settings).enabled /\ ~health.checked -> "starting"
      [] OTHER -> IF health.healthy THEN "ok" ELSE "degraded"

-----------------------------------------------------------------------------
(* Properties *)

HealthTypeOK ==
    /\ prober \in BOOLEAN
    /\ health.checked \in BOOLEAN /\ health.healthy \in BOOLEAN
    /\ health.failures \in 0..Len(probes) /\ health.successes \in 0..Len(probes)

\* "healthy status based on thresholds" (update_health_status), "reporting healthy
\* before the first probe let CI gates and readiness probes pass against a dead
\* upstream" (HealthStatus): at every moment the upstream counts as healthy exactly
\* if at some probe as many in a row as were asked for had connected, and since then
\* never as many in a row have failed as bring it down; and only of such an
\* upstream does GET /health say "ok".
InARow(n, i, connected) ==
    n <= i /\ \A j \in (i - n + 1)..i : probes[j].connected = connected
RoseAt(i) == InARow(probes[i].limits.healthy, i, TRUE)
FellAt(i) == InARow(probes[i].limits.unhealthy, i, FALSE)
HealthIsHistory(settings) ==
    LET risen == \E i \in DOMAIN probes :
                    RoseAt(i) /\ \A j \in i..Len(probes) : ~FellAt(j)
    IN /\ health.healthy <=> risen
       /\ Reported(settings) = "ok" => prober /\ risen
=============================================================================
