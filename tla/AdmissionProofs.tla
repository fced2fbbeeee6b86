-------------------------- MODULE AdmissionProofs --------------------------
(***************************************************************************)
(* The accounting of Admission holds for any number of clients and any     *)
(* limits, under either protocol.                                          *)
(***************************************************************************)
EXTENDS Admission, FiniteSetTheorems, TLAPS

\* A task that starts, is counted or gets its slot adds one to the size of a set
\* of connections: the arithmetic behind every fetch_add and every permit taken.
LEMMA AddOne ==
    ASSUME NEW S, IsFiniteSet(S), NEW x, x \notin S
    PROVE  /\ IsFiniteSet(S \cup {x})
           /\ Cardinality(S) \in Nat
           /\ Cardinality(S \cup {x}) = Cardinality(S) + 1
BY FS_AddElement, FS_CardinalityType

\* A task that ends, is uncounted or drops its lease takes one off the size of a
\* set: the arithmetic behind every fetch_sub and every guard dropped.
LEMMA DropOne ==
    ASSUME NEW S, IsFiniteSet(S), NEW x \in S
    PROVE  /\ IsFiniteSet(S \ {x})
           /\ Cardinality(S) \in Nat \ {0}
           /\ Cardinality(S \ {x}) = Cardinality(S) - 1
<1>1. S # {}
  OBVIOUS
<1>2. Cardinality(S) # 0
  BY <1>1, FS_EmptySet
<1>3. QED
  BY <1>2, FS_RemoveElement, FS_CardinalityType

\* Every set of connections is finite, so its size is a number that a semaphore's
\* permits can be compared with.
LEMMA ConnSets ==
    ASSUME NEW S \in SUBSET Conns
    PROVE  IsFiniteSet(S) /\ Cardinality(S) \in Nat
BY AdmissionAssumption, FS_Subset, FS_CardinalityType

\* The accounting holds when main reaches its accept loop: all permits and slots
\* are free and nothing is counted.
THEOREM InitIndInv == Init => IndInv
<1> SUFFICES ASSUME Init PROVE IndInv
  OBVIOUS
<1>1. \A T : "away" \notin T => At(T) = {}
  BY DEF Init, At
<1>2. Tasks = {} /\ Counted = {} /\ Upstream = {} /\ At(LeaseStages) = {}
      /\ At({"prelude"}) = {} /\ At({"leased", "declined"}) = {}
  BY <1>1 DEF Tasks, Counted, Upstream, CountedStages, UpstreamStages, LeaseStages
<1>3. Waiting = {}
  BY <1>1 DEF Waiting
<1>4. /\ Cardinality(Tasks) = 0
      /\ Cardinality(Counted) = 0
      /\ Cardinality(granted) = 0
      /\ Cardinality(leases) = 0
  BY <1>2, FS_EmptySet DEF Init
<1>5. TypeOK
  <2>1. signalled \in BOOLEAN /\ clean \in BOOLEAN /\ windowOver \in BOOLEAN
    BY DEF Init
  <2>2. /\ tokens \in 0..MaxRate
        /\ permits \in 0..MaxConnections
        /\ slots \in 0..PoolSize
        /\ active \in Nat
    BY AdmissionAssumption DEF Init
  <2>3. /\ main \in {"accepting", "draining", "leaving", "exited"}
        /\ granted \in SUBSET Conns
        /\ leases \in SUBSET Conns
        /\ protocol \in Protocols
    BY DEF Init
  <2>4. pc \in [Conns -> Stages]
    BY DEF Init, Stages
  <2>5. QED
    BY <2>1, <2>2, <2>3, <2>4 DEF TypeOK
<1>6. StagesMatch
  BY <1>2 DEF Init, StagesMatch
<1>7. GuardsConserved /\ ActiveIsCounted /\ NoIdleSlot
  BY <1>3, <1>4, AdmissionAssumption DEF Init, GuardsConserved, ActiveIsCounted, NoIdleSlot
<1>8. QED
  BY <1>5, <1>6, <1>7 DEF IndInv

-----------------------------------------------------------------------------
(* The step lemmas.  Each says where one connection moves, which of the sets   *)
(* of connections that changes, and what that does to the counters.            *)

\* What the accounting says of the values after a step, in the order in which
\* the step lemmas establish it.
LEMMA Assemble ==
    ASSUME IndInv, main # "exited", UNCHANGED <<protocol, main, signalled, clean>>,
           pc' \in [Conns -> Stages],
           tokens' \in 0..MaxRate, windowOver' \in BOOLEAN,
           permits' \in Nat, slots' \in Nat, active' \in Nat,
           granted' \in SUBSET Conns, leases' \in SUBSET Conns,
           StagesMatch', GuardsConserved', ActiveIsCounted', NoIdleSlot'
    PROVE  IndInv'
<1> USE DEF IndInv
<1>1. /\ Tasks' \in SUBSET Conns
      /\ permits' + Cardinality(Tasks') = MaxConnections
      /\ slots' + Cardinality(granted') + Cardinality(leases') = PoolSize
  BY DEF GuardsConserved, Tasks, At
<1>2. permits' \in 0..MaxConnections /\ slots' \in 0..PoolSize
  BY <1>1, ConnSets, AdmissionAssumption
<1>3. /\ signalled' \in BOOLEAN /\ clean' \in BOOLEAN
      /\ main' \in {"accepting", "draining", "leaving", "exited"}
  BY DEF TypeOK
<1>4. TypeOK'
  BY <1>2, <1>3 DEF TypeOK
<1>5. QED
  BY <1>4

\* try_acquire_owned and tokio::spawn: the permit taken is the permit the new task
\* owns.
LEMMA SpawnStep ==
    ASSUME IndInv, NEW c \in Conns, Spawn(c)
    PROVE  IndInv'
<1> USE DEF IndInv, TypeOK, GoTo, Spawn
<1>1. Refilled \in 0..MaxRate
  BY AdmissionAssumption DEF Refilled
<1>2. tokens' \in 0..MaxRate /\ windowOver' \in BOOLEAN
  <2>1. tokens' \in 0..MaxRate
    BY <1>1, AdmissionAssumption
  <2>2. windowOver' \in BOOLEAN
    OBVIOUS
  <2>3. QED
    BY <2>1, <2>2
<1>3. pc' \in [Conns -> Stages] /\ permits' \in Nat /\ slots' \in Nat
  BY AdmissionAssumption DEF Stages
<1>4. c \notin Tasks /\ Tasks' = Tasks \cup {c} /\ Tasks \in SUBSET Conns
  BY DEF Tasks, At, Stages
<1>5. Counted' = Counted
  BY DEF Counted, CountedStages, At, Stages
<1>6. Waiting' = Waiting
  BY DEF Waiting, At
<1>7. StagesMatch'
  BY DEF StagesMatch, LeaseStages, At, Stages
<1>8. Cardinality(Tasks') = Cardinality(Tasks) + 1 /\ Cardinality(Tasks) \in Nat
  BY <1>4, ConnSets, AddOne
<1>9. GuardsConserved'
  BY <1>8, AdmissionAssumption DEF GuardsConserved
<1>10. ActiveIsCounted' /\ NoIdleSlot'
  BY <1>5, <1>6 DEF ActiveIsCounted, NoIdleSlot
<1>11. QED
  BY <1>2, <1>3, <1>7, <1>9, <1>10, Assemble

\* fetch_add(1) comes as the task enters the counted stages, once.
LEMMA CountStep ==
    ASSUME IndInv, NEW c \in Conns, Count(c)
    PROVE  IndInv'
<1> USE DEF IndInv, TypeOK, GoTo, Count
<1>1. pc' \in [Conns -> Stages] /\ active' \in Nat /\ slots' \in Nat
      /\ permits' \in Nat
  BY AdmissionAssumption DEF AfterCount, Stages
<1>2. c \notin Counted /\ Counted' = Counted \cup {c} /\ Counted \in SUBSET Conns
  BY AdmissionAssumption
  DEF Counted, CountedStages, At, BeforeCount, AfterCount
<1>3. Tasks' = Tasks
  BY DEF Tasks, At, Stages, BeforeCount, AfterCount
<1>4. Waiting' = Waiting
  BY DEF Waiting, At, BeforeCount, AfterCount
<1>5. StagesMatch'
  BY AdmissionAssumption
  DEF StagesMatch, LeaseStages, At, BeforeCount, AfterCount
<1>6. Cardinality(Counted') = Cardinality(Counted) + 1
  BY <1>2, ConnSets, AddOne
<1>7. GuardsConserved' /\ ActiveIsCounted' /\ NoIdleSlot'
  BY <1>3, <1>4, <1>6 DEF GuardsConserved, ActiveIsCounted, NoIdleSlot
<1>8. QED
  BY <1>1, <1>5, <1>7, Assemble

\* A PostgreSQL client that sends no usable startup message leaves by the same
\* fetch_sub as everyone else.
LEMMA PreludeFailsStep ==
    ASSUME IndInv, NEW c \in Conns, PreludeFails(c)
    PROVE  IndInv'
<1> USE DEF IndInv, TypeOK, GoTo, PreludeFails
<1>1. pc' \in [Conns -> Stages] /\ slots' \in Nat /\ permits' \in Nat
  BY AdmissionAssumption DEF Stages
<1>2. Counted' = Counted /\ Tasks' = Tasks /\ Waiting' = Waiting
  BY DEF Counted, CountedStages, Tasks, Waiting, At, Stages
<1>3. StagesMatch'
  BY AdmissionAssumption DEF StagesMatch, LeaseStages, At
<1>4. GuardsConserved' /\ ActiveIsCounted' /\ NoIdleSlot'
  BY <1>2 DEF GuardsConserved, ActiveIsCounted, NoIdleSlot
<1>5. QED
  BY <1>1, <1>3, <1>4, Assemble

\* A session that is established keeps its lease and stays counted.
LEMMA UpstreamReadyStep ==
    ASSUME IndInv, NEW c \in Conns, UpstreamReady(c)
    PROVE  IndInv'
<1> USE DEF IndInv, TypeOK, GoTo, UpstreamReady
<1>1. pc' \in [Conns -> Stages] /\ slots' \in Nat /\ permits' \in Nat
  BY AdmissionAssumption DEF Stages
<1>2. Counted' = Counted /\ Tasks' = Tasks /\ Waiting' = Waiting
  BY DEF Counted, CountedStages, Tasks, Waiting, At, Stages
<1>3. StagesMatch'
  BY AdmissionAssumption DEF StagesMatch, LeaseStages, At
<1>4. GuardsConserved' /\ ActiveIsCounted' /\ NoIdleSlot'
  BY <1>2 DEF GuardsConserved, ActiveIsCounted, NoIdleSlot
<1>5. QED
  BY <1>1, <1>3, <1>4, Assemble

\* pool.acquire: a free slot becomes a lease, and without one the task queues with
\* nothing in hand.
LEMMA AcquireSlotStep ==
    ASSUME IndInv, NEW c \in Conns, AcquireSlot(c)
    PROVE  IndInv'
<1> USE DEF IndInv, TypeOK, GoTo, AcquireSlot
<1>1. c \notin leases /\ c \notin granted
  BY AdmissionAssumption DEF StagesMatch, LeaseStages, At, BeforeSlot
<1>2. Counted' = Counted /\ Tasks' = Tasks
  BY AdmissionAssumption
  DEF Counted, CountedStages, Tasks, At, Stages, BeforeSlot, AfterSlot,
      StagesMatch
<1>3. CASE slots > 0
  <2>1. /\ slots' = slots - 1 /\ leases' = leases \cup {c}
        /\ pc' = [pc EXCEPT ![c] = AfterSlot]
    BY <1>3
  <2>2. /\ pc' \in [Conns -> Stages] /\ slots' \in Nat /\ permits' \in Nat
        /\ leases' \in SUBSET Conns
    BY <1>3, <2>1, AdmissionAssumption DEF AfterSlot, Stages
  <2>3. StagesMatch'
    BY <2>1, AdmissionAssumption
    DEF StagesMatch, LeaseStages, At, BeforeSlot, AfterSlot
  <2>4. Cardinality(leases') = Cardinality(leases) + 1
    BY <1>1, <2>1, ConnSets, AddOne
  <2>5. Cardinality(leases) \in Nat /\ Cardinality(granted) \in Nat
    BY ConnSets
  <2>6. GuardsConserved' /\ ActiveIsCounted'
    BY <1>2, <1>3, <2>1, <2>4, <2>5, AdmissionAssumption
    DEF GuardsConserved, ActiveIsCounted
  <2>7. Waiting' = {}
    BY <1>3, <2>1, AdmissionAssumption
    DEF NoIdleSlot, Waiting, At, BeforeSlot, AfterSlot
  <2>8. NoIdleSlot'
    BY <2>7 DEF NoIdleSlot
  <2>9. QED
    BY <2>2, <2>3, <2>6, <2>8, Assemble
<1>4. CASE slots = 0
  <2>1. UNCHANGED <<slots, leases>> /\ pc' = [pc EXCEPT ![c] = "queued"]
    BY <1>4
  <2>2. /\ pc' \in [Conns -> Stages] /\ slots' \in Nat /\ permits' \in Nat
        /\ leases' \in SUBSET Conns
    BY <2>1, AdmissionAssumption DEF Stages
  <2>3. StagesMatch'
    BY <2>1, AdmissionAssumption DEF StagesMatch, LeaseStages, At, BeforeSlot
  <2>4. GuardsConserved' /\ ActiveIsCounted' /\ NoIdleSlot'
    BY <1>2, <1>4, <2>1 DEF GuardsConserved, ActiveIsCounted, NoIdleSlot
  <2>5. QED
    BY <2>2, <2>3, <2>4, Assemble
<1>5. QED
  BY <1>3, <1>4

\* A waiter that is polled after it was assigned a permit turns it into a lease.
LEMMA SlotGrantedStep ==
    ASSUME IndInv, NEW c \in Conns, SlotGranted(c)
    PROVE  IndInv'
<1> USE DEF IndInv, TypeOK, GoTo, SlotGranted
<1>1. pc[c] = "queued" /\ c \notin leases
  BY AdmissionAssumption DEF StagesMatch, LeaseStages, At
<1>2. /\ pc' \in [Conns -> Stages] /\ slots' \in Nat /\ permits' \in Nat
      /\ leases' \in SUBSET Conns /\ granted' \in SUBSET Conns
  BY AdmissionAssumption DEF AfterSlot, Stages
<1>3. Counted' = Counted /\ Tasks' = Tasks /\ Waiting' = Waiting
  BY <1>1, AdmissionAssumption
  DEF Counted, CountedStages, Tasks, Waiting, At, Stages, AfterSlot
<1>4. StagesMatch'
  BY <1>1, AdmissionAssumption DEF StagesMatch, LeaseStages, At, AfterSlot
<1>5. /\ Cardinality(leases') = Cardinality(leases) + 1
      /\ Cardinality(granted') = Cardinality(granted) - 1
  BY <1>1, ConnSets, AddOne, DropOne
<1>6. Cardinality(leases) \in Nat /\ Cardinality(granted) \in Nat
  BY ConnSets
<1>7. GuardsConserved' /\ ActiveIsCounted' /\ NoIdleSlot'
  BY <1>3, <1>5, <1>6, AdmissionAssumption
  DEF GuardsConserved, ActiveIsCounted, NoIdleSlot
<1>8. QED
  BY <1>2, <1>4, <1>7, Assemble

\* A wait that times out (UpstreamPoolAcquireError::Timeout) takes no slot with
\* it, and the task stays counted exactly when it was.
LEMMA WaitTimesOutStep ==
    ASSUME IndInv, NEW c \in Conns, WaitTimesOut(c)
    PROVE  IndInv'
<1> USE DEF IndInv, TypeOK, GoTo, WaitTimesOut
<1>1. pc[c] = "queued" /\ c \notin granted
  BY DEF Waiting, At
<1>2. pc' \in [Conns -> Stages] /\ slots' \in Nat /\ permits' \in Nat
  BY AdmissionAssumption DEF AfterWait, Stages
<1>3. Counted' = Counted /\ Tasks' = Tasks
  BY <1>1, AdmissionAssumption
  DEF Counted, CountedStages, Tasks, At, Stages, AfterWait
<1>4. Waiting' \subseteq Waiting
  BY <1>1 DEF Waiting, At, AfterWait
<1>5. StagesMatch'
  BY <1>1, AdmissionAssumption DEF StagesMatch, LeaseStages, At, AfterWait
<1>6. GuardsConserved' /\ ActiveIsCounted' /\ NoIdleSlot'
  BY <1>3, <1>4 DEF GuardsConserved, ActiveIsCounted, NoIdleSlot
<1>7. QED
  BY <1>2, <1>5, <1>6, Assemble

\* Dropping a lease keeps the slots of the pool accounted for, and never leaves
\* a free slot beside a task that was already waiting.
LEMMA DropLeaseKeepsSlots ==
    ASSUME IndInv, NEW c \in Conns, DropLease(c)
    PROVE  /\ slots' \in Nat
           /\ granted' \in SUBSET Conns
           /\ leases' \in SUBSET Conns
           /\ granted \subseteq granted' /\ granted' \subseteq granted \cup Waiting
           /\ slots' + Cardinality(granted') + Cardinality(leases') = PoolSize
           /\ Waiting # {} => slots' = 0
<1> USE DEF IndInv, TypeOK, DropLease
<1>1. /\ slots \in Nat /\ Waiting \in SUBSET Conns
      /\ Cardinality(leases) \in Nat /\ Cardinality(granted) \in Nat
      /\ slots + Cardinality(granted) + Cardinality(leases) = PoolSize
  BY ConnSets, AdmissionAssumption DEF GuardsConserved, Waiting, At
<1>2. CASE c \notin leases
  BY <1>1, <1>2 DEF NoIdleSlot
<1>3. CASE c \in leases /\ Waiting = {}
  <2>1. slots' = slots + 1 /\ granted' = granted /\ leases' = leases \ {c}
    BY <1>3
  <2>2. Cardinality(leases') = Cardinality(leases) - 1
    BY <1>3, <2>1, ConnSets, DropOne
  <2>3. QED
    BY <1>1, <1>3, <2>1, <2>2, AdmissionAssumption
<1>4. CASE c \in leases /\ Waiting # {}
  <2>1. PICK w \in Waiting : granted' = granted \cup {w}
    BY <1>4
  <2>2. slots' = slots /\ slots = 0 /\ leases' = leases \ {c}
    BY <1>4 DEF NoIdleSlot
  <2>3. Cardinality(leases') = Cardinality(leases) - 1
    BY <1>4, <2>2, ConnSets, DropOne
  <2>4. Cardinality(granted') = Cardinality(granted) + 1
    BY <2>1, ConnSets, AddOne DEF Waiting
  <2>5. QED
    BY <1>1, <2>1, <2>2, <2>3, <2>4, AdmissionAssumption
<1>5. QED
  BY <1>2, <1>3, <1>4

\* The end of a session gives the slot back under PostgreSQL, where the lease lives
\* in handle_postgres_protocol, and keeps it under MySQL until the task ends.
LEMMA EndSessionStep ==
    ASSUME IndInv, NEW c \in Conns, EndSession(c)
    PROVE  IndInv'
<1> USE DEF IndInv, TypeOK, GoTo, EndSession
<1>1. pc[c] \in {"connecting", "relaying"}
  BY DEF Upstream, UpstreamStages, At
<1>2. pc' \in [Conns -> Stages] /\ permits' \in Nat
  BY AdmissionAssumption DEF Stages
<1>3. /\ Counted' = Counted /\ Tasks' = Tasks
      /\ Waiting' = At({"queued"}) \ granted'
      /\ At({"queued"})' = At({"queued"})
  BY <1>1 DEF Counted, CountedStages, Tasks, Waiting, At, Stages
<1>4. CASE protocol = "postgres"
  <2>1. DropLease(c)
    BY <1>4
  <2>2. StagesMatch'
    BY <1>1, <1>4, <2>1 DEF StagesMatch, LeaseStages, At, DropLease, Waiting
  <2>3. GuardsConserved' /\ ActiveIsCounted'
    BY <1>3, <2>1, DropLeaseKeepsSlots DEF GuardsConserved, ActiveIsCounted
  <2>4. NoIdleSlot'
    BY <1>3, <2>1, DropLeaseKeepsSlots DEF NoIdleSlot, Waiting
  <2>5. QED
    BY <1>2, <2>1, <2>2, <2>3, <2>4, DropLeaseKeepsSlots, Assemble
<1>5. CASE protocol = "mysql"
  <2>1. UNCHANGED <<slots, granted, leases>>
    BY <1>5
  <2>2. StagesMatch'
    BY <1>1, <1>5, <2>1 DEF StagesMatch, LeaseStages, At
  <2>3. slots' \in Nat /\ granted' \in SUBSET Conns /\ leases' \in SUBSET Conns
    BY <2>1, AdmissionAssumption
  <2>4. GuardsConserved' /\ ActiveIsCounted' /\ NoIdleSlot'
    BY <1>3, <2>1 DEF GuardsConserved, ActiveIsCounted, NoIdleSlot, Waiting
  <2>5. QED
    BY <1>2, <2>2, <2>3, <2>4, Assemble
<1>6. QED
  BY <1>4, <1>5, AdmissionAssumption

\* fetch_sub(1) comes as the task leaves the counted stages, once.
LEMMA UncountStep ==
    ASSUME IndInv, NEW c \in Conns, Uncount(c)
    PROVE  IndInv'
<1> USE DEF IndInv, TypeOK, GoTo, Uncount
<1>1. c \in Counted /\ Counted' = Counted \ {c} /\ Counted \in SUBSET Conns
  BY DEF Counted, CountedStages, At
<1>2. /\ Cardinality(Counted') = Cardinality(Counted) - 1
      /\ Cardinality(Counted) \in Nat \ {0}
  BY <1>1, ConnSets, DropOne
<1>3. Tasks' = Tasks /\ Waiting' = Waiting
  BY DEF Tasks, Waiting, At, Stages
<1>4. active' \in Nat /\ ActiveIsCounted'
  BY <1>2 DEF ActiveIsCounted
<1>5. pc' \in [Conns -> Stages] /\ slots' \in Nat /\ permits' \in Nat
  BY AdmissionAssumption DEF Stages
<1>6. StagesMatch'
  BY AdmissionAssumption DEF StagesMatch, LeaseStages, At
<1>7. GuardsConserved' /\ NoIdleSlot'
  BY <1>3 DEF GuardsConserved, NoIdleSlot
<1>8. QED
  BY <1>4, <1>5, <1>6, <1>7, Assemble

\* A task that ends drops its inbound permit and, under MySQL, its lease.
LEMMA EndTaskStep ==
    ASSUME IndInv, NEW c \in Conns, EndTask(c)
    PROVE  IndInv'
<1> USE DEF IndInv, TypeOK, GoTo, EndTask
<1>1. c \in Tasks /\ Tasks' = Tasks \ {c} /\ Tasks \in SUBSET Conns
  BY DEF Tasks, At, Stages
<1>2. /\ Cardinality(Tasks') = Cardinality(Tasks) - 1
      /\ Cardinality(Tasks) \in Nat \ {0}
  BY <1>1, ConnSets, DropOne
<1>3. Counted' = Counted /\ At({"queued"})' = At({"queued"})
  BY DEF Counted, CountedStages, At
<1>4. pc' \in [Conns -> Stages] /\ permits' \in Nat
  BY AdmissionAssumption DEF Stages
<1>5. StagesMatch'
  <2>1. leases' = At(LeaseStages)'
    BY AdmissionAssumption DEF StagesMatch, LeaseStages, At, DropLease
  <2>2. granted' \subseteq At({"queued"})'
    BY <1>3, DropLeaseKeepsSlots DEF StagesMatch, Waiting
  <2>3. QED
    BY <2>1, <2>2 DEF StagesMatch, At
<1>6. GuardsConserved'
  BY <1>2, DropLeaseKeepsSlots, AdmissionAssumption DEF GuardsConserved
<1>7. ActiveIsCounted' /\ NoIdleSlot'
  BY <1>3, DropLeaseKeepsSlots DEF ActiveIsCounted, NoIdleSlot, Waiting
<1>8. QED
  BY <1>4, <1>5, <1>6, <1>7, DropLeaseKeepsSlots, Assemble

\* The accept loop's refusals, the clock and every step of the shutdown touch no
\* guard: whatever they change, the accounting stands.
LEMMA QuietStep ==
    ASSUME IndInv,
           UNCHANGED <<protocol, pc, permits, slots, granted, leases, active>>,
           main' \in {"accepting", "draining", "leaving", "exited"},
           clean' \in BOOLEAN, signalled' \in BOOLEAN, windowOver' \in BOOLEAN,
           tokens' \in 0..MaxRate
    PROVE  IndInv'
<1> USE DEF IndInv
<1>1. pc' \in [Conns -> Stages] /\ granted' \in SUBSET Conns
      /\ leases' \in SUBSET Conns /\ permits' \in 0..MaxConnections
      /\ slots' \in 0..PoolSize /\ active' \in Nat
  BY DEF TypeOK
<1>2. TypeOK'
  BY <1>1 DEF TypeOK
<1>3. \A T : At(T)' = At(T)
  BY DEF At
<1>4. /\ Tasks' = Tasks /\ Counted' = Counted /\ Waiting' = Waiting
      /\ At(LeaseStages)' = At(LeaseStages)
  BY <1>3 DEF Tasks, Counted, CountedStages, Waiting, LeaseStages, At
<1>5. StagesMatch'
  BY <1>3, <1>4 DEF StagesMatch, At
<1>6. GuardsConserved' /\ ActiveIsCounted' /\ NoIdleSlot'
  BY <1>4 DEF GuardsConserved, ActiveIsCounted, NoIdleSlot
<1>7. QED
  BY <1>2, <1>5, <1>6

\* A refused connection costs a token and nothing else.
LEMMA RejectStep ==
    ASSUME IndInv, NEW c \in Conns, RejectForRate(c) \/ RejectForLimit(c)
    PROVE  IndInv'
<1>1. Refilled \in 0..MaxRate
  BY AdmissionAssumption DEF Refilled, IndInv, TypeOK
<1>2. tokens' \in 0..MaxRate
  BY <1>1, AdmissionAssumption DEF RejectForRate, RejectForLimit
<1>3. /\ UNCHANGED <<protocol, pc, permits, slots, granted, leases, active>>
      /\ main' = "accepting" /\ windowOver' \in BOOLEAN
  BY DEF RejectForRate, RejectForLimit
<1>4. signalled' \in BOOLEAN /\ clean' \in BOOLEAN
  BY DEF RejectForRate, RejectForLimit, IndInv, TypeOK
<1>5. QED
  BY <1>2, <1>3, <1>4, QuietStep

\* A zero count leaves no upstream session open: what drain_connections reads is
\* what it is read for.
LEMMA ZeroCountNoSession ==
    ASSUME IndInv, active = 0
    PROVE  Upstream = {}
<1>1. Counted \in SUBSET Conns /\ Cardinality(Counted) = 0
  BY DEF IndInv, ActiveIsCounted, Counted, At
<1>2. Counted = {}
  BY <1>1, ConnSets, FS_EmptySet
<1>3. Upstream \subseteq Counted
  BY DEF Upstream, UpstreamStages, Counted, CountedStages, At
<1>4. QED
  BY <1>2, <1>3

\* No step of the accept loop, of a connection's task or of the shutdown breaks
\* the accounting.
THEOREM StepIndInv == IndInv /\ [Next]_vars => IndInv'
<1> SUFFICES ASSUME IndInv, [Next]_vars PROVE IndInv'
  OBVIOUS
<1>1. CASE UNCHANGED vars
  <2>1. \A T : At(T)' = At(T)
    BY <1>1 DEF vars, At
  <2>2. TypeOK'
    BY <1>1 DEF IndInv, TypeOK, vars
  <2>3. /\ Tasks' = Tasks /\ Counted' = Counted /\ Waiting' = Waiting
        /\ Upstream' = Upstream
    BY <1>1 DEF vars, Tasks, Counted, CountedStages, Waiting, Upstream, At
  <2>4. StagesMatch'
    BY <1>1 DEF IndInv, StagesMatch, LeaseStages, At, vars
  <2>5. GuardsConserved' /\ ActiveIsCounted' /\ NoIdleSlot'
    BY <1>1, <2>3
    DEF IndInv, vars, GuardsConserved, ActiveIsCounted, NoIdleSlot
  <2>6. QED
    BY <2>2, <2>4, <2>5 DEF IndInv
<1>2. CASE SecondPasses \/ Signal \/ StopAccepting \/ Drain \/ Exit
  <2>1. /\ UNCHANGED <<protocol, pc, tokens, permits, slots, granted, leases, active>>
        /\ main' = main \/ main' \in {"draining", "leaving", "exited"}
        /\ signalled' = signalled \/ signalled' = TRUE
        /\ windowOver' = windowOver \/ windowOver' = TRUE
        /\ clean' = clean \/ clean' = (active = 0)
    BY <1>2 DEF SecondPasses, Signal, StopAccepting, Drain, Exit
  <2>2. tokens' \in 0..MaxRate
    BY <2>1 DEF IndInv, TypeOK
  <2>3. main' \in {"accepting", "draining", "leaving", "exited"}
    BY <2>1 DEF IndInv, TypeOK
  <2>4. signalled' \in BOOLEAN /\ windowOver' \in BOOLEAN /\ clean' \in BOOLEAN
    BY <2>1 DEF IndInv, TypeOK
  <2>5. QED
    BY <2>1, <2>2, <2>3, <2>4, QuietStep
<1>4. ASSUME NEW c \in Conns, Accept(c) PROVE IndInv'
  BY <1>4, RejectStep, SpawnStep DEF Accept
<1>5. ASSUME NEW c \in Conns, TaskStep(c) PROVE IndInv'
  BY <1>5, CountStep, PreludeFailsStep, AcquireSlotStep, SlotGrantedStep,
     WaitTimesOutStep, UpstreamReadyStep, EndSessionStep, UncountStep, EndTaskStep
  DEF TaskStep
<1>6. QED
  BY <1>1, <1>2, <1>4, <1>5 DEF Next, Exited

\* The inductive invariant holds in every state iron-veil's connection handling
\* reaches.
THEOREM Accounting == Spec => []IndInv
<1>1. Init => IndInv
  BY InitIndInv
<1>2. IndInv /\ [Next]_vars => IndInv'
  BY StepIndInv
<1>3. QED
  BY <1>1, <1>2, PTL DEF Spec

\* The counters stay within their limits and every task at a stage it has.
THEOREM TypeCorrect == Spec => []TypeOK
<1>1. IndInv => TypeOK
  BY DEF IndInv
<1>2. QED
  BY <1>1, Accounting, PTL

\* connection_semaphore's permits and the pool's slots are conserved on every
\* path through accept, wait, relay, error and drop.
THEOREM GuardsAreConserved == Spec => []GuardsConserved
<1>1. IndInv => GuardsConserved
  BY DEF IndInv
<1>2. QED
  BY <1>1, Accounting, PTL

\* active_connections never drifts from the tasks it counts.
THEOREM CountIsExact == Spec => []ActiveIsCounted
<1>1. IndInv => ActiveIsCounted
  BY DEF IndInv
<1>2. QED
  BY <1>1, Accounting, PTL

\* pool.acquire loses no wake-up.
THEOREM NoLostWakeUp == Spec => []NoIdleSlot
<1>1. IndInv => NoIdleSlot
  BY DEF IndInv
<1>2. QED
  BY <1>1, Accounting, PTL

\* No upstream connection is open without a lease of the pool.
THEOREM SlotsCoverUpstream == Spec => []LeaseCoversUpstream
<1>1. IndInv => LeaseCoversUpstream
  <2>1. UpstreamStages \subseteq LeaseStages
    BY DEF UpstreamStages, LeaseStages
  <2>2. QED
    BY <2>1 DEF IndInv, StagesMatch, LeaseCoversUpstream, Upstream, At
<1>2. QED
  BY <1>1, Accounting, PTL

\* drain_connections returns true only when no upstream session is open.
THEOREM CleanDrainIsClean == Spec => CleanDrain
<1>1. ASSUME IndInv, [Next]_vars, main = "draining", main' # "draining", clean'
      PROVE  Upstream = {}
  <2>1. Drain
    BY <1>1 DEF Next, vars, Exited, Exit, SecondPasses, Signal, StopAccepting, Accept,
       RejectForRate, RejectForLimit, Spawn, TaskStep, Count, PreludeFails, AcquireSlot,
       SlotGranted, WaitTimesOut, UpstreamReady, EndSession, Uncount, EndTask
  <2>2. active = 0
    BY <1>1, <2>1 DEF Drain
  <2>3. QED
    BY <1>1, <2>2, ZeroCountNoSession
<1>2. QED
  BY <1>1, Accounting, PTL DEF Spec, CleanDrain

-----------------------------------------------------------------------------
(* The two limits implement the quota of SlotQuota.                            *)

\* limits.upstream_pool_size: a step of the code opens or closes at most one
\* upstream session, and opens one only while fewer than PoolSize are open.
LEMMA PoolStep ==
    ASSUME IndInv, IndInv', [Next]_vars
    PROVE  [Pool!Next]_UpstreamSessions
<1> USE DEF UpstreamSessions
<1>1. CASE main' = "exited"
  BY <1>1 DEF Pool!Next, Pool!Vanish
<1>2. CASE main' # "exited" /\ (UNCHANGED pc \/ Upstream' = Upstream)
  <2>1. Upstream' = Upstream
    BY <1>2 DEF Upstream, At
  <2>2. main # "exited"
    BY <1>2 DEF Next, vars, Exited, Exit, SecondPasses, Signal, StopAccepting, Drain, Accept,
       RejectForRate, RejectForLimit, Spawn, TaskStep, Count, PreludeFails, AcquireSlot,
       SlotGranted, WaitTimesOut, UpstreamReady, EndSession, Uncount, EndTask
  <2>3. QED
    BY <1>2, <2>1, <2>2
<1>3. ASSUME NEW c \in Conns, main # "exited", main' # "exited",
             c \notin Upstream, Upstream' = Upstream \cup {c}
      PROVE  Pool!Next
  <2>1. /\ Upstream' \subseteq leases' /\ leases' \in SUBSET Conns
        /\ Upstream \in SUBSET Conns /\ granted' \in SUBSET Conns
    <3>1. UpstreamStages \subseteq LeaseStages
      BY DEF UpstreamStages, LeaseStages
    <3>2. leases' = At(LeaseStages)'
      BY DEF IndInv, StagesMatch
    <3>3. granted' \in SUBSET Conns /\ leases' \in SUBSET Conns
      BY DEF IndInv, TypeOK
    <3>4. QED
      BY <3>1, <3>2, <3>3 DEF Upstream, At, UpstreamStages, LeaseStages
  <2>2. Cardinality(leases') <= PoolSize
    <3>1. slots' + Cardinality(granted') + Cardinality(leases') = PoolSize
          /\ slots' \in Nat
      BY AdmissionAssumption DEF IndInv, GuardsConserved, TypeOK
    <3>2. QED
      BY <2>1, <3>1, ConnSets, AdmissionAssumption
  <2>3. Cardinality(Upstream') <= Cardinality(leases')
    BY <2>1, ConnSets, FS_Subset
  <2>4. Cardinality(Upstream') = Cardinality(Upstream) + 1
    BY <1>3, <2>1, ConnSets, AddOne
  <2>5. /\ Cardinality(Upstream) \in Nat /\ Cardinality(Upstream') \in Nat
        /\ Cardinality(leases') \in Nat
    BY <1>3, <2>1, ConnSets
  <2>6. Cardinality(Upstream) < PoolSize
    BY <2>2, <2>3, <2>4, <2>5, AdmissionAssumption
  <2>7. Pool!Cardinality(Upstream) = Cardinality(Upstream)
    BY DEF Pool!Cardinality, Cardinality
  <2>8. QED
    BY <1>3, <2>6, <2>7 DEF Pool!Next, Pool!Take
<1>4. ASSUME NEW c \in Conns, main # "exited", main' # "exited",
             c \in Upstream, Upstream' = Upstream \ {c}
      PROVE  Pool!Next
  BY <1>4 DEF Pool!Next, Pool!GiveBack
<1>5. CASE SecondPasses \/ Signal \/ StopAccepting \/ Drain \/ Exit \/ Exited
  BY <1>1, <1>2, <1>5
  DEF SecondPasses, Signal, StopAccepting, Drain, Exit, Exited, vars
<1>6. ASSUME NEW c \in Conns, Accept(c) PROVE [Pool!Next]_UpstreamSessions
  <2>1. Upstream' = Upstream
    BY <1>6 DEF Accept, RejectForRate, RejectForLimit, Spawn, GoTo, Upstream,
       UpstreamStages, At, IndInv, TypeOK
  <2>2. QED
    BY <1>1, <1>2, <2>1
<1>7. ASSUME NEW c \in Conns, TaskStep(c), main' # "exited"
      PROVE  [Pool!Next]_UpstreamSessions
  <2> USE DEF IndInv, TypeOK, GoTo
  <2>1. main # "exited"
    BY <1>7 DEF TaskStep, Count, PreludeFails, AcquireSlot, SlotGranted, WaitTimesOut,
       UpstreamReady, EndSession, Uncount, EndTask
  <2>2. CASE PreludeFails(c) \/ UpstreamReady(c) \/ Uncount(c) \/ EndTask(c)
             \/ WaitTimesOut(c)
    <3>1. Upstream' = Upstream
      BY <2>2 DEF PreludeFails, UpstreamReady, Uncount, EndTask, WaitTimesOut,
         AfterWait, Waiting, Upstream, UpstreamStages, At
    <3>2. QED
      BY <1>2, <1>7, <3>1
  <2>3. CASE Count(c) \/ AcquireSlot(c) \/ SlotGranted(c)
    <3>1. c \notin Upstream
      BY <2>3 DEF Count, AcquireSlot, SlotGranted, BeforeCount, BeforeSlot,
         StagesMatch, Upstream, UpstreamStages, At
    <3>2. Upstream' = Upstream \/ Upstream' = Upstream \cup {c}
      BY <2>3 DEF Count, AcquireSlot, SlotGranted, AfterCount, AfterSlot,
         BeforeCount, BeforeSlot, StagesMatch, Upstream, UpstreamStages, At
    <3>3. QED
      BY <1>2, <1>3, <1>7, <2>1, <3>1, <3>2
  <2>4. CASE EndSession(c)
    <3>1. c \in Upstream /\ Upstream' = Upstream \ {c}
      BY <2>4 DEF EndSession, Upstream, UpstreamStages, At
    <3>2. QED
      BY <1>4, <1>7, <2>1, <3>1
  <2>5. QED
    BY <1>7, <2>2, <2>3, <2>4 DEF TaskStep
<1>8. QED
  BY <1>1, <1>2, <1>5, <1>6, <1>7 DEF Next, vars

\* upstream_pool_size is a quota of concurrent upstream sessions.
THEOREM PoolImplementsQuota == Spec => PoolIsQuota
<1>1. Init => Pool!Init
  <2>1. ASSUME Init PROVE Upstream = {}
    BY <2>1 DEF Init, Upstream, UpstreamStages, At
  <2>2. QED
    BY <2>1 DEF Pool!Init, UpstreamSessions
<1>2. IndInv /\ IndInv' /\ [Next]_vars => [Pool!Next]_UpstreamSessions
  BY PoolStep
<1>3. QED
  BY <1>1, <1>2, Accounting, PTL DEF Spec, PoolIsQuota, Pool!Spec

\* limits.max_connections: a step of the code starts or ends at most one task,
\* and starts one only while fewer than MaxConnections are live.
LEMMA InboundStep ==
    ASSUME IndInv, IndInv', [Next]_vars
    PROVE  [Inbound!Next]_LiveTasks
<1> USE DEF LiveTasks, IndInv, TypeOK
<1>1. CASE main' = "exited"
  BY <1>1 DEF Inbound!Next, Inbound!Vanish
<1>2. CASE main' # "exited" /\ main # "exited" /\ Tasks' = Tasks
  BY <1>2
<1>3. CASE UNCHANGED vars \/ SecondPasses \/ Signal \/ StopAccepting \/ Drain \/ Exit \/ Exited
  BY <1>1, <1>2, <1>3
  DEF SecondPasses, Signal, StopAccepting, Drain, Exit, Exited, vars, Tasks, At
<1>4. ASSUME NEW c \in Conns, Spawn(c), main' # "exited" PROVE Inbound!Next
  <2>1. main # "exited"
    BY <1>4 DEF Spawn
  <2>2. c \notin Tasks /\ Tasks' = Tasks \cup {c} /\ Tasks \in SUBSET Conns
    BY <1>4 DEF Spawn, GoTo, Tasks, At, Stages
  <2>3. permits + Cardinality(Tasks) = MaxConnections /\ permits \in Nat /\ permits > 0
    BY <1>4, AdmissionAssumption DEF GuardsConserved, Spawn
  <2>4. Cardinality(Tasks) < MaxConnections
    BY <2>2, <2>3, ConnSets, AdmissionAssumption
  <2>5. Inbound!Cardinality(Tasks) = Cardinality(Tasks)
    BY DEF Inbound!Cardinality, Cardinality
  <2>6. QED
    BY <1>4, <2>1, <2>2, <2>4, <2>5 DEF Inbound!Next, Inbound!Take
<1>5. ASSUME NEW c \in Conns, EndTask(c), main' # "exited" PROVE Inbound!Next
  <2>1. main # "exited"
    BY <1>5 DEF EndTask
  <2>2. c \in Tasks /\ Tasks' = Tasks \ {c}
    BY <1>5 DEF EndTask, GoTo, Tasks, At, Stages
  <2>3. QED
    BY <1>5, <2>1, <2>2 DEF Inbound!Next, Inbound!GiveBack
<1>6. ASSUME NEW c \in Conns, Accept(c) PROVE [Inbound!Next]_LiveTasks
  BY <1>1, <1>2, <1>4, <1>6 DEF Accept, RejectForRate, RejectForLimit, Tasks, At
<1>7. ASSUME NEW c \in Conns, TaskStep(c), main' # "exited"
      PROVE  [Inbound!Next]_LiveTasks
  <2>1. CASE EndTask(c)
    BY <1>5, <1>7, <2>1
  <2>2. CASE Count(c) \/ PreludeFails(c) \/ AcquireSlot(c) \/ SlotGranted(c)
             \/ WaitTimesOut(c)
    <3>1. main # "exited"
      BY <2>2 DEF Count, PreludeFails, AcquireSlot, SlotGranted, WaitTimesOut
    <3>2. Tasks' = Tasks
      BY <2>2 DEF Count, PreludeFails, AcquireSlot, SlotGranted, WaitTimesOut,
         GoTo, AfterCount, AfterSlot, AfterWait, BeforeCount, BeforeSlot, Waiting,
         StagesMatch, Tasks, At, Stages
    <3>3. QED
      BY <1>2, <1>7, <3>1, <3>2
  <2>3. CASE UpstreamReady(c) \/ EndSession(c) \/ Uncount(c)
    <3>1. main # "exited"
      BY <2>3 DEF UpstreamReady, EndSession, Uncount
    <3>2. Tasks' = Tasks
      BY <2>3 DEF UpstreamReady, EndSession, Uncount, GoTo, Upstream,
         UpstreamStages, Tasks, At, Stages
    <3>3. QED
      BY <1>2, <1>7, <3>1, <3>2
  <2>4. QED
    BY <1>7, <2>1, <2>2, <2>3 DEF TaskStep
<1>8. QED
  BY <1>1, <1>3, <1>6, <1>7 DEF Next

\* max_connections is a quota of concurrent connection tasks.
THEOREM InboundImplementsQuota == Spec => InboundIsQuota
<1>1. Init => Inbound!Init
  <2>1. ASSUME Init PROVE Tasks = {}
    BY <2>1 DEF Init, Tasks, Stages, At
  <2>2. QED
    BY <2>1 DEF Inbound!Init, LiveTasks
<1>2. IndInv /\ IndInv' /\ [Next]_vars => [Inbound!Next]_LiveTasks
  BY InboundStep
<1>3. QED
  BY <1>1, <1>2, Accounting, PTL DEF Spec, InboundIsQuota, Inbound!Spec
=============================================================================
