------------------------------ MODULE PgSession ------------------------------
(***************************************************************************)
(* A whole PostgreSQL session: its start (PgStartup), then the relay of    *)
(* statements and answers (PgRelay), which begins with the ReadyForQuery   *)
(* of a server that has accepted the client.                               *)
(***************************************************************************)
EXTENDS PgStartup, PgRelay

vars == <<startup, relayVars>>

Init == StartupInit /\ RelayInit

\* A session that ends before it is open never relays.
StartupStep ==
    /\ at \notin {"open", "closed"}
    /\ StartupNext
    /\ relay' = IF at' = "closed" THEN "closed" ELSE relay
    /\ UNCHANGED <<config, client, fromClient, toServer, fromServer, answers, delivered,
                   boot, anonymizer>>

RelayStep == at = "open" /\ RelayNext /\ UNCHANGED startup

Ended == at = "closed" /\ UNCHANGED vars

Next == StartupStep \/ RelayStep \/ Ended

Spec == Init /\ [][Next]_vars

\* The runtime polls the task and its deadlines fire, a server that is asked for TLS
\* answers and goes through with it, as the code waits for that without a deadline;
\* of the client nothing is assumed.  Once the session is open the server answers, and
\* select! starves neither direction.
FairSpec ==
    /\ Spec
    /\ WF_vars(StartupStep /\ TaskStep)
    /\ WF_vars(StartupStep /\ IdleTimesOut)
    /\ WF_vars(StartupStep /\ ServeSsl)
    /\ WF_vars(RelayStep /\ ForwardClient)
    /\ WF_vars(RelayStep /\ Upstream)
    /\ WF_vars(RelayStep /\ Bootstrap)
    /\ WF_vars(RelayStep /\ Serve)

-----------------------------------------------------------------------------
(* Properties *)

TypeOK == StartupTypeOK /\ RelayTypeOK
=============================================================================
