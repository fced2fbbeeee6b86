----------------------------- MODULE Admission -----------------------------
(***************************************************************************)
(* The life of a client connection in iron-veil, from accept() to the end  *)
(* of its task: the accept loop with its rate limit and its connection     *)
(* semaphore, the upstream slot pool with its wait timeout, the            *)
(* active_connections counter, and the shutdown that drains it (main.rs).  *)
(*                                                                         *)
(* PostgreSQL and MySQL take the same steps in different orders, chosen by *)
(* protocol: a PostgreSQL task counts itself, reads the client's prelude   *)
(* and only then asks the pool for a slot, which it gives back before it   *)
(* uncounts itself; a MySQL task asks for the slot first and keeps it      *)
(* until the task ends.                                                    *)
(***************************************************************************)
EXTENDS Naturals, FiniteSets

(* A definition named Step_Slip is Step with the slip made: it is no part of  *)
(* the specification, and shows which property would notice.                  *)

CONSTANTS Conns,           \* clients; each has at most one connection at a time
          Protocols,       \* those of "postgres" and "mysql" to look at
          MaxConnections,  \* limits.max_connections
          PoolSize,        \* limits.upstream_pool_size
          MaxRate          \* limits.connections_per_second

\* A limit that is not configured is a limit no instance reaches.
ASSUME AdmissionAssumption ==
    /\ IsFiniteSet(Conns)
    /\ Protocols \subseteq {"postgres", "mysql"}
    /\ MaxConnections \in Nat
    /\ PoolSize \in Nat
    /\ MaxRate \in Nat

VARIABLES
    protocol,    \* AppState.db_protocol (--protocol), fixed for the process
    main,        \* the main task: "accepting", "draining", "leaving" or "exited"
    signalled,   \* the token spawn_shutdown_watcher returned is cancelled
    clean,       \* what drain_connections returned
    pc,          \* where each connection's task is
    tokens,      \* rate_limit_tokens
    windowOver,  \* last_refill.elapsed() >= 1s
    permits,     \* available permits of connection_semaphore
    slots,       \* available permits of the upstream pool semaphore
    granted,     \* waiters the pool has assigned a permit to, not polled yet
    leases,      \* connections holding an UpstreamSlotLease
    active       \* state.active_connections

vars == <<protocol, main, signalled, clean, pc, tokens, windowOver, permits,
          slots, granted, leases, active>>

Stages == {"away",        \* no connection
           "spawned",     \* the task exists and has run nothing yet
           "prelude",     \* PostgreSQL: startup peek and client TLS
           "queued",      \* inside pool.acquire
           "leased",      \* MySQL: has its slot, not counted yet
           "connecting",  \* dialling the upstream, upstream TLS, authentication
           "relaying",    \* the select! loop between the two sockets
           "closing",     \* process_*_connection returned
           "declined",    \* MySQL: told that the pool is at capacity
           "finished"}    \* uncounted, about to drop its guards

\* The steps at which each protocol counts itself and asks for its slot, and
\* where a wait that timed out leads: a PostgreSQL task is already counted.
BeforeCount == IF protocol = "mysql" THEN "leased" ELSE "spawned"
AfterCount  == IF protocol = "mysql" THEN "connecting" ELSE "prelude"
BeforeSlot  == IF protocol = "mysql" THEN "spawned" ELSE "prelude"
AfterSlot   == IF protocol = "mysql" THEN "leased" ELSE "connecting"
AfterWait   == IF protocol = "mysql" THEN "declined" ELSE "closing"

\* The stages between the fetch_add and the fetch_sub of active_connections.
CountedStages ==
    {"prelude", "connecting", "relaying", "closing"}
        \cup IF protocol = "postgres" THEN {"queued"} ELSE {}

\* The stages at which an upstream socket is open or being opened.
UpstreamStages == {"connecting", "relaying"}

\* The stages at which a task owns an UpstreamSlotLease.
LeaseStages ==
    IF protocol = "postgres"
    THEN {"connecting", "relaying"}
    ELSE {"leased", "connecting", "relaying", "closing", "finished"}

At(stages) == {c \in Conns : pc[c] \in stages}
Tasks      == At(Stages \ {"away"})
Counted    == At(CountedStages)
Upstream   == At(UpstreamStages)
Waiting    == At({"queued"}) \ granted

GoTo(c, stage) == pc' = [pc EXCEPT ![c] = stage]

Init ==
    /\ protocol \in Protocols
    /\ main = "accepting"
    /\ signalled = FALSE
    /\ clean = FALSE
    /\ pc = [c \in Conns |-> "away"]
    /\ tokens = MaxRate
    /\ windowOver = FALSE
    /\ permits = MaxConnections
    /\ slots = PoolSize
    /\ granted = {}
    /\ leases = {}
    /\ active = 0

-----------------------------------------------------------------------------
(* The accept loop *)

SecondPasses ==
    /\ main # "exited"
    /\ ~windowOver
    /\ windowOver' = TRUE
    /\ UNCHANGED <<protocol, main, signalled, clean, pc, tokens, permits,
                   slots, granted, leases, active>>

\* The bucket is refilled to the full rate by the first accept that finds the
\* last refill at least a second old.
Refilled_Accumulates == IF windowOver THEN tokens + MaxRate ELSE tokens
Refilled == IF windowOver THEN MaxRate ELSE tokens

RejectForRate(c) ==
    /\ main = "accepting"
    /\ pc[c] = "away"
    /\ Refilled = 0
    /\ tokens' = 0
    /\ windowOver' = FALSE
    /\ UNCHANGED <<protocol, main, signalled, clean, pc, permits, slots,
                   granted, leases, active>>

\* The token is spent before the connection limit is consulted.
RejectForLimit(c) ==
    /\ main = "accepting"
    /\ pc[c] = "away"
    /\ Refilled > 0
    /\ permits = 0
    /\ tokens' = Refilled - 1
    /\ windowOver' = FALSE
    /\ UNCHANGED <<protocol, main, signalled, clean, pc, permits, slots,
                   granted, leases, active>>

Spawn_PermitNotHeld(c) ==
    /\ main = "accepting"
    /\ pc[c] = "away"
    /\ Refilled > 0
    /\ permits > 0
    /\ tokens' = Refilled - 1
    /\ windowOver' = FALSE
    /\ GoTo(c, "spawned")
    /\ UNCHANGED <<protocol, main, signalled, clean, permits, slots, granted,
                   leases, active>>
Spawn(c) ==
    /\ main = "accepting"
    /\ pc[c] = "away"
    /\ Refilled > 0
    /\ permits > 0
    /\ tokens' = Refilled - 1
    /\ windowOver' = FALSE
    /\ permits' = permits - 1
    /\ GoTo(c, "spawned")
    /\ UNCHANGED <<protocol, main, signalled, clean, slots, granted, leases,
                   active>>

-----------------------------------------------------------------------------
(* One connection's task *)

\* active_connections.fetch_add(1).
Count(c) ==
    /\ main # "exited"
    /\ pc[c] = BeforeCount
    /\ active' = active + 1
    /\ GoTo(c, AfterCount)
    /\ UNCHANGED <<protocol, main, signalled, clean, tokens, windowOver,
                   permits, slots, granted, leases>>

\* PostgreSQL: the client sent nothing usable before HANDSHAKE_DEADLINE, or its
\* TLS handshake failed.
PreludeFails_SkipsUncount(c) ==
    /\ main # "exited"
    /\ pc[c] = "prelude"
    /\ GoTo(c, "finished")
    /\ UNCHANGED <<protocol, main, signalled, clean, tokens, windowOver,
                   permits, slots, granted, leases, active>>
PreludeFails(c) ==
    /\ main # "exited"
    /\ pc[c] = "prelude"
    /\ GoTo(c, "closing")
    /\ UNCHANGED <<protocol, main, signalled, clean, tokens, windowOver,
                   permits, slots, granted, leases, active>>

\* UpstreamSlotManager::acquire, first poll.
AcquireSlot_LeaseNotBound(c) ==
    /\ main # "exited"
    /\ pc[c] = BeforeSlot
    /\ slots > 0
    /\ GoTo(c, AfterSlot)
    /\ UNCHANGED <<protocol, main, signalled, clean, tokens, windowOver,
                   permits, slots, granted, leases, active>>
AcquireSlot(c) ==
    /\ main # "exited"
    /\ pc[c] = BeforeSlot
    /\ \/ /\ slots > 0
          /\ slots' = slots - 1
          /\ leases' = leases \cup {c}
          /\ GoTo(c, AfterSlot)
       \/ /\ slots = 0
          /\ GoTo(c, "queued")
          /\ UNCHANGED <<slots, leases>>
    /\ UNCHANGED <<protocol, main, signalled, clean, tokens, windowOver,
                   permits, granted, active>>

\* The waiter is polled after the pool assigned it a permit.
SlotGranted(c) ==
    /\ main # "exited"
    /\ c \in granted
    /\ granted' = granted \ {c}
    /\ leases' = leases \cup {c}
    /\ GoTo(c, AfterSlot)
    /\ UNCHANGED <<protocol, main, signalled, clean, tokens, windowOver,
                   permits, slots, active>>

\* The wait timeout fires.  timeout() polls the acquisition first, so a permit
\* that was already assigned wins over a deadline that has also passed.
WaitTimesOut_DropsPermit(c) ==
    /\ main # "exited"
    /\ pc[c] = "queued"
    /\ GoTo(c, AfterWait)
    /\ granted' = granted \ {c}
    /\ UNCHANGED <<protocol, main, signalled, clean, tokens, windowOver,
                   permits, slots, leases, active>>
WaitTimesOut_NoTimer(c) ==
    /\ FALSE
    /\ UNCHANGED vars
WaitTimesOut(c) ==
    /\ main # "exited"
    /\ c \in Waiting
    /\ GoTo(c, AfterWait)
    /\ UNCHANGED <<protocol, main, signalled, clean, tokens, windowOver,
                   permits, slots, granted, leases, active>>

UpstreamReady(c) ==
    /\ main # "exited"
    /\ pc[c] = "connecting"
    /\ GoTo(c, "relaying")
    /\ UNCHANGED <<protocol, main, signalled, clean, tokens, windowOver,
                   permits, slots, granted, leases, active>>

\* Dropping an UpstreamSlotLease: the permit goes straight to a waiter when
\* there is one (which one is left open), back to the pool otherwise.
DropLease_NoHandOver(c) ==
    /\ leases' = leases \ {c}
    /\ slots' = IF c \in leases THEN slots + 1 ELSE slots
    /\ UNCHANGED granted
DropLease(c) ==
    /\ leases' = leases \ {c}
    /\ \/ c \notin leases /\ UNCHANGED <<slots, granted>>
       \/ /\ c \in leases
          /\ Waiting = {}
          /\ slots' = slots + 1
          /\ UNCHANGED granted
       \/ /\ c \in leases
          /\ \E w \in Waiting : granted' = granted \cup {w}
          /\ UNCHANGED slots

\* The session ends: either peer closed, a timeout, an error, or the cancel arm
\* of the select! loop.  The lease of a PostgreSQL session lives in
\* handle_postgres_protocol and goes with it.
EndSession(c) ==
    /\ main # "exited"
    /\ c \in Upstream
    /\ GoTo(c, "closing")
    /\ IF protocol = "postgres" THEN DropLease(c)
                                ELSE UNCHANGED <<slots, granted, leases>>
    /\ UNCHANGED <<protocol, main, signalled, clean, tokens, windowOver,
                   permits, active>>

\* active_connections.fetch_sub(1).
Uncount(c) ==
    /\ main # "exited"
    /\ pc[c] = "closing"
    /\ active' = active - 1
    /\ GoTo(c, "finished")
    /\ UNCHANGED <<protocol, main, signalled, clean, tokens, windowOver,
                   permits, slots, granted, leases>>

\* The task's future is dropped with the guards it still owns: a MySQL lease,
\* and the permit of connection_semaphore.
EndTask(c) ==
    /\ main # "exited"
    /\ pc[c] \in {"declined", "finished"}
    /\ GoTo(c, "away")
    /\ DropLease(c)
    /\ permits' = permits + 1
    /\ UNCHANGED <<protocol, main, signalled, clean, tokens, windowOver,
                   active>>

-----------------------------------------------------------------------------
(* Shutdown *)

Signal ==
    /\ main # "exited"
    /\ ~signalled
    /\ signalled' = TRUE
    /\ UNCHANGED <<protocol, main, clean, pc, tokens, windowOver, permits,
                   slots, granted, leases, active>>

\* The accept loop sees the token, breaks, and cancels every connection's token.
StopAccepting ==
    /\ main = "accepting"
    /\ signalled
    /\ main' = "draining"
    /\ UNCHANGED <<protocol, signalled, clean, pc, tokens, windowOver, permits,
                   slots, granted, leases, active>>

\* drain_connections returns: the count is zero, or the deadline has passed
\* with connections still counted.  The tasks run on meanwhile.
Drain_AlwaysClean ==
    /\ main = "draining"
    /\ main' = "leaving"
    /\ clean' = TRUE
    /\ UNCHANGED <<protocol, signalled, pc, tokens, windowOver, permits, slots,
                   granted, leases, active>>
Drain_NoDeadline ==
    /\ main = "draining"
    /\ active = 0
    /\ main' = "leaving"
    /\ clean' = TRUE
    /\ UNCHANGED <<protocol, signalled, pc, tokens, windowOver, permits, slots,
                   granted, leases, active>>
Drain ==
    /\ main = "draining"
    /\ main' = "leaving"
    /\ clean' = (active = 0)
    /\ UNCHANGED <<protocol, signalled, pc, tokens, windowOver, permits, slots,
                   granted, leases, active>>

\* main logs and returns; the runtime goes with it, and with the runtime every
\* task, the one that was not counted when the drain looked included.
Exit ==
    /\ main = "leaving"
    /\ main' = "exited"
    /\ UNCHANGED <<protocol, signalled, clean, pc, tokens, windowOver, permits,
                   slots, granted, leases, active>>

\* The process is gone.
Exited == main = "exited" /\ UNCHANGED vars

-----------------------------------------------------------------------------

Accept(c) == RejectForRate(c) \/ RejectForLimit(c) \/ Spawn(c)

TaskStep(c) ==
    \/ Count(c) \/ PreludeFails(c) \/ AcquireSlot(c) \/ SlotGranted(c)
    \/ WaitTimesOut(c) \/ UpstreamReady(c) \/ EndSession(c) \/ Uncount(c)
    \/ EndTask(c)

Next ==
    \/ SecondPasses \/ Signal \/ StopAccepting \/ Drain \/ Exit \/ Exited
    \/ \E c \in Conns : Accept(c) \/ TaskStep(c)

\* The runtime polls tasks that can run and fires timers that are due.  Nothing
\* is assumed of a session's end, which is up to the peers.
Fairness ==
    /\ WF_vars(StopAccepting)
    /\ WF_vars(Drain)
    /\ WF_vars(Exit)
    /\ \A c \in Conns : WF_vars(SlotGranted(c) \/ WaitTimesOut(c))

Spec == Init /\ [][Next]_vars

FairSpec == Spec /\ Fairness

-----------------------------------------------------------------------------
(* Properties *)

TypeOK ==
    /\ protocol \in Protocols
    /\ main \in {"accepting", "draining", "leaving", "exited"}
    /\ signalled \in BOOLEAN
    /\ clean \in BOOLEAN
    /\ pc \in [Conns -> Stages]
    /\ tokens \in 0..MaxRate
    /\ windowOver \in BOOLEAN
    /\ permits \in 0..MaxConnections
    /\ slots \in 0..PoolSize
    /\ granted \in SUBSET Conns
    /\ leases \in SUBSET Conns
    /\ active \in Nat

\* No guard is lost or dropped twice on any path through a task, error and
\* timeout paths included: free permits and live tasks add up to the limit, free
\* slots, assigned slots and leases to the pool size.
GuardsConserved ==
    /\ permits + Cardinality(Tasks) = MaxConnections
    /\ slots + Cardinality(granted) + Cardinality(leases) = PoolSize

\* active_connections, which the drain, the history and GET /connections read,
\* is the number of tasks between their fetch_add and their fetch_sub.
ActiveIsCounted == active = Cardinality(Counted)

\* No lost wake-up: the pool never keeps a free slot while a task waits for one.
NoIdleSlot == Waiting # {} => slots = 0

\* Every upstream socket is covered by a slot of the pool.
LeaseCoversUpstream == Upstream \subseteq leases

\* What makes the accounting above inductive: a lease is owned exactly at the
\* lease stages, a permit is assigned to tasks in the queue only, and the steps
\* of one protocol are never taken under the other.
StagesMatch ==
    /\ leases = At(LeaseStages)
    /\ granted \subseteq At({"queued"})
    /\ At({"prelude"}) # {} => protocol = "postgres"
    /\ At({"leased", "declined"}) # {} => protocol = "mysql"

\* The drain looks at active_connections, not at the sessions: when it returns
\* clean no upstream session is open, so none of those open until then is cut
\* off.  It promises nothing of a task it could not see, which may begin its
\* session before main is gone.
CleanDrain ==
    [][main = "draining" /\ main' # "draining" /\ clean' => Upstream = {}]_vars

\* The inductive invariant.
IndInv ==
    /\ TypeOK
    /\ StagesMatch
    /\ GuardsConserved
    /\ ActiveIsCounted
    /\ NoIdleSlot

\* limits.upstream_pool_size caps concurrent upstream sessions and
\* limits.max_connections caps concurrent connections.
UpstreamSessions == IF main = "exited" THEN {} ELSE Upstream
Pool == INSTANCE SlotQuota
            WITH Users <- Conns, Quota <- PoolSize, holders <- UpstreamSessions
PoolIsQuota == Pool!Spec

LiveTasks == IF main = "exited" THEN {} ELSE Tasks
Inbound == INSTANCE SlotQuota
            WITH Users <- Conns, Quota <- MaxConnections, holders <- LiveTasks
InboundIsQuota == Inbound!Spec

\* "Shutdown is prompt": once a signal has landed the process exits, whatever
\* the connections do.
SignalledExits == signalled ~> (main = "exited")

\* Nobody waits for a slot for ever: each wait ends in a slot or a refusal.
WaitEnds == \A c \in Conns :
    pc[c] = "queued" ~> (pc[c] # "queued" \/ main = "exited")
=============================================================================
