------------------------------- MODULE Launch -------------------------------
(***************************************************************************)
(* The start of the process: where each setting comes from (command line,  *)
(* environment, policy file, default), the credentials that terminate      *)
(* MySQL authentication, and the order in which main brings up the         *)
(* management API, the health check and the proxy's listener.              *)
(*                                                                         *)
(* A source of settings is a function on those it gives; an empty value in *)
(* the environment, or an empty address in the file, is one not given.     *)
(***************************************************************************)
EXTENDS Naturals, SequencesExt

CONSTANTS
    Given,       \* values of settings and secrets
    Invalid,     \* a value that does not parse, or a file that cannot be read
    EmptyValue,  \* a secret that is empty
    Absent,      \* nobody gives it
    Passthrough  \* auth.mode: passthrough, or no auth section

ASSUME LaunchAssumption == Absent \notin Given

ListenSettings == {"bind", "port", "apiBind", "apiPort", "apiEnabled"}
Default ==
    [s \in ListenSettings |->
        CASE s = "bind"       -> "everywhere"
          [] s = "apiBind"    -> "loopback"
          [] s = "apiEnabled" -> "on"
          [] OTHER            -> "default port"]

\* resolve_listen_addr, resolve_listen_port, resolve_flag, resolve_secret: the first
\* of the sources that says anything decides, even if what it says is wrong.
Resolve(sources, s, default) ==
    LET giving == {i \in DOMAIN sources : s \in DOMAIN sources[i]}
    IN IF giving = {} THEN default ELSE sources[Min(giving)][s]

\* Of a launch and a policy: command line, environment, file.
Told(launch, c, s) ==
    Resolve(<<launch.cli, launch.env, c.settings>>, s, Default[s])
Understood(launch, c) == \A s \in ListenSettings : Told(launch, c, s) # Invalid

\* AuthConfig::resolve_with: environment, file, inline.
Secret(launch, c, s) == Resolve(<<launch.env, c.auth.files, c.auth.inline>>, s, Absent)
Name(launch, c, s)   == Resolve(<<launch.env, c.auth.inline>>, s, Absent)

\* The password of clients must be there, the upstream's need not; the key is
\* parsed when the process starts (TerminatingAuth::from_resolved), a blank one is
\* none.
AuthComplete(launch, c) ==
    c.auth # Passthrough =>
        /\ launch.protocol = "mysql"
        /\ {Name(launch, c, "clientUser"), Name(launch, c, "upstreamUser"),
            Secret(launch, c, "clientPassword")} \subseteq Given
        /\ Secret(launch, c, "upstreamPassword") # Invalid
        /\ Resolve(<<c.auth.inline>>, "clientPlugin", Absent) # Invalid
        /\ Secret(launch, c, "rsaKey") # Invalid

-----------------------------------------------------------------------------

VARIABLES
    launch,    \* the command line, the environment and the protocol
    booted,    \* main's config: the policy the process has been started with
    api,       \* the management API: "off", "starting", or where it listens
    listening  \* the proxy's listener is bound

launched == <<launch, booted, api, listening>>

LaunchInit(nothing) ==
    /\ booted = nothing
    /\ api = "off"
    /\ listening = FALSE

\* main up to the tasks it spawns.
Launched(c) ==
    /\ Understood(launch, c)
    /\ booted' = c
    /\ api' = IF Told(launch, c, "apiEnabled") = "on" THEN "starting" ELSE "off"
    /\ UNCHANGED <<launch, listening>>

Gone(nothing) ==
    /\ booted' = nothing
    /\ api' = "off"
    /\ listening' = FALSE
    /\ UNCHANGED launch

\* start_api_server, in a task of its own: beyond loopback only with credentials.
HasCredentials(c) == c.api # {}
MayListen(c) == Told(launch, booted, "apiBind") = "loopback" \/ HasCredentials(c)

ApiListens(c) ==
    /\ api = "starting"
    /\ MayListen(c)
    /\ api' = Told(launch, booted, "apiBind")
    /\ UNCHANGED <<launch, booted, listening>>

ApiRefuses(c) == api = "starting" /\ ~MayListen(c)

\* main, after it has spawned the tasks.
Listen ==
    /\ ~listening
    /\ AuthComplete(launch, booted)
    /\ listening' = TRUE
    /\ UNCHANGED <<launch, booted, api>>

AuthFails == ~listening /\ ~AuthComplete(launch, booted)
=============================================================================
