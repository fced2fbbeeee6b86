--------------------------- MODULE AuditLogProofs ---------------------------
(***************************************************************************)
(* Proofs about the audit logger, for any number of calls, reloads,        *)
(* rotated generations, file operations that fail and clients that hang    *)
(* up: the locks exclude what they should, a line goes to the file that is *)
(* configured when it is written, and the trail is kept.                   *)
(***************************************************************************)
EXTENDS AuditLog, SetInduction, SequenceTheorems

-----------------------------------------------------------------------------
(* The inductive invariant                                                  *)

Tasks == Entries \cup Reloaders

\* The locks a call or a reload has a place in the queue of.
WantedAt(stage) ==
    CASE stage \in {"filtering", "configuring"} -> {"config"}
      [] stage = "locating"                     -> {"config", "path"}
      [] stage \in {"queueing", "writing"}      -> Locks
      [] OTHER                                  -> {}
Wanted(t) ==
    IF t \in Entries THEN WantedAt(pc[t])
    ELSE IF reload[t] = "idle" THEN {} ELSE {reload[t]}

Member(t, queue) == \E i \in DOMAIN queue : queue[i] = t
Distinct(queue) == \A i, j \in DOMAIN queue : queue[i] = queue[j] => i = j

\* Nobody is in a queue twice, and each is in those of the locks it holds or awaits.
Places ==
    \A l \in Locks :
        /\ Distinct(locks[l])
        /\ \A t \in Tasks : Member(t, locks[l]) <=> l \in Wanted(t)

\* A call keeps every guard up to the end of its write.
Guarded ==
    \A e \in Entries :
        /\ pc[e] \in {"locating", "queueing", "writing"} => Holds("config", e)
        /\ pc[e] \in {"queueing", "writing"} => Holds("path", e)
        /\ pc[e] = "writing" => Holds("file", e)

\* Calls are numbered as they come.
Numbered == \A e \in Entries : e > started => pc[e] = "idle"

\* A write belongs to a call that waits for it, or to one that was dropped, and goes
\* to the path the call has read and guards.
Writes ==
    \A e \in Entries :
        /\ job[e].stage # "none" =>
              /\ job[e].path \in Paths
              /\ pc[e] \in {"writing", "returned"}
              /\ pc[e] = "returned" => orphaned
        /\ pc[e] = "queueing" \/ (pc[e] = "writing" /\ job[e].stage # "none") =>
              job[e].path = path /\ path # NoFile
        /\ job[e].stage = "deleting" => job[e].at = MaxFiles
        /\ job[e].stage = "shifting" => job[e].at \in 0..(MaxFiles - 1)

LockInv == TypeOK /\ Places /\ Guarded /\ Numbered /\ Writes

-----------------------------------------------------------------------------
(* The queues of the locks                                                  *)

HoldsIn(queue, lock, t) ==
    \E i \in DOMAIN queue :
        /\ queue[i] = t
        /\ i = 1 \/ \A j \in 1..i : Shares(lock, queue[j])

\* Giving up a place in a queue takes nobody else's, and no lock from who has it.
LEMMA PlaceGivenUp ==
  ASSUME NEW T, NEW queue \in Seq(T), NEW t, Distinct(queue)
  PROVE  /\ RemoveFirst(queue, t) \in Seq(T)
         /\ Distinct(RemoveFirst(queue, t))
         /\ ~Member(t, RemoveFirst(queue, t))
         /\ \A u : u # t => (Member(u, RemoveFirst(queue, t)) <=> Member(u, queue))
         /\ \A u, lock : u # t /\ HoldsIn(queue, lock, u) =>
                            HoldsIn(RemoveFirst(queue, t), lock, u)
<1>1. CASE ~Member(t, queue)
  <2>1. RemoveFirst(queue, t) = queue
    BY <1>1 DEF RemoveFirst, Member
  <2> QED BY <1>1, <2>1
<1>2. CASE Member(t, queue)
  <2> DEFINE n == Len(queue)
             rest == RemoveFirst(queue, t)
  <2>1. PICK k \in 1..n : queue[k] = t
    BY <1>2 DEF Member
  <2>2. {i \in 1..n : queue[i] = t} = {k}
    BY <2>1 DEF Distinct
  <2>3. SelectInSeq(queue, LAMBDA v : v = t) = k
    <3>1. Min({k}) = k
      BY DEF Min
    <3> QED BY <2>2, <3>1 DEF SelectInSeq
  <2>4. rest = SubSeq(queue, 1, k - 1) \o SubSeq(queue, k + 1, n)
    BY <2>1, <2>3 DEF RemoveFirst, RemoveAt
  <2> HIDE DEF rest
  <2>5. /\ rest \in Seq(T) /\ Len(rest) = n - 1
        /\ \A i \in 1..(k - 1) : rest[i] = queue[i]
        /\ \A i \in k..(n - 1) : rest[i] = queue[i + 1]
    <3> DEFINE before == SubSeq(queue, 1, k - 1)
               after  == SubSeq(queue, k + 1, n)
    <3>1. /\ before \in Seq(T) /\ Len(before) = k - 1
          /\ \A i \in 1..(k - 1) : before[i] = queue[i]
      OBVIOUS
    <3>2. /\ after \in Seq(T) /\ Len(after) = n - k
          /\ \A i \in 1..(n - k) : after[i] = queue[k + i]
      OBVIOUS
    <3> HIDE DEF before, after
    <3>3. rest = before \o after
      BY <2>4 DEF before, after
    <3>4. rest \in Seq(T) /\ Len(rest) = n - 1
      BY <3>1, <3>2, <3>3
    <3>5. \A i \in 1..(k - 1) : rest[i] = queue[i]
      BY <3>1, <3>2, <3>3
    <3>6. ASSUME NEW i \in k..(n - 1) PROVE rest[i] = queue[i + 1]
      <4>1. rest[i] = after[i - (k - 1)]
        BY <3>1, <3>2, <3>3, <3>6
      <4>2. i - (k - 1) \in 1..(n - k) /\ k + (i - (k - 1)) = i + 1
        BY <3>6
      <4> QED BY <3>2, <4>1, <4>2
    <3> QED BY <3>4, <3>5, <3>6
  <2>6. Distinct(rest)
    <3>0. /\ n \in Nat /\ DOMAIN queue = 1..n /\ DOMAIN rest = 1..(n - 1)
          /\ \A i, j \in 1..n : queue[i] = queue[j] => i = j
      BY <2>5, LenProperties DEF Distinct
    <3> SUFFICES ASSUME NEW i \in 1..(n - 1), NEW j \in 1..(n - 1), i < j
                 PROVE  rest[i] # rest[j]
      BY <3>0 DEF Distinct
    <3>1. CASE j < k
      <4>1. rest[i] = queue[i] /\ rest[j] = queue[j] /\ i \in 1..n /\ j \in 1..n /\ i # j
        BY <2>1, <2>5, <3>0, <3>1
      <4> QED BY <3>0, <4>1
    <3>2. CASE i >= k
      <4>1. rest[i] = queue[i + 1] /\ rest[j] = queue[j + 1] /\ {i + 1, j + 1} \subseteq 1..n
        BY <2>5, <3>2
      <4> QED BY <4>1 DEF Distinct
    <3>3. CASE i < k /\ j >= k
      <4>1. rest[i] = queue[i] /\ rest[j] = queue[j + 1] /\ {i, j + 1} \subseteq 1..n
        BY <2>5, <3>3
      <4> QED BY <3>3, <4>1 DEF Distinct
    <3> QED BY <3>1, <3>2, <3>3
  <2>7. ~Member(t, rest)
    <3> SUFFICES ASSUME NEW i \in 1..(n - 1) PROVE rest[i] # t
      BY <2>5 DEF Member
    <3>1. CASE i < k
      BY <2>1, <2>5, <3>1 DEF Distinct
    <3>2. CASE i >= k
      <4>1. rest[i] = queue[i + 1] /\ i + 1 \in 1..n /\ i + 1 # k
        BY <2>1, <2>5, <3>2
      <4> QED BY <2>1, <4>1 DEF Distinct
    <3> QED BY <3>1, <3>2
  <2>8. ASSUME NEW u, u # t PROVE Member(u, rest) <=> Member(u, queue)
    <3>1. ASSUME NEW i \in 1..n, queue[i] = u PROVE Member(u, rest)
      <4>1. i # k
        BY <2>1, <2>8, <3>1
      <4>2. CASE i < k
        BY <2>5, <3>1, <4>2 DEF Member
      <4>3. CASE i > k
        <5>1. i - 1 \in 1..(n - 1) /\ rest[i - 1] = u
          BY <2>5, <3>1, <4>3
        <5> QED BY <2>5, <5>1 DEF Member
      <4> QED BY <4>1, <4>2, <4>3
    <3>2. ASSUME NEW i \in 1..(n - 1), rest[i] = u PROVE Member(u, queue)
      <4>1. CASE i < k
        <5>1. queue[i] = u /\ i \in 1..n
          BY <2>1, <2>5, <3>2, <4>1
        <5> QED BY <5>1 DEF Member
      <4>2. CASE i >= k
        <5>1. queue[i + 1] = u /\ i + 1 \in 1..n
          BY <2>1, <2>5, <3>2, <4>2
        <5> QED BY <5>1 DEF Member
      <4> QED BY <2>1, <4>1, <4>2
    <3> QED BY <2>5, <3>1, <3>2 DEF Member
  <2>9. ASSUME NEW u, NEW lock, u # t, HoldsIn(queue, lock, u)
        PROVE  HoldsIn(rest, lock, u)
    <3>1. PICK i \in 1..n : /\ queue[i] = u
                            /\ i = 1 \/ \A j \in 1..i : Shares(lock, queue[j])
      BY <2>9 DEF HoldsIn
    <3>2. i # k
      BY <2>1, <2>9, <3>1
    <3>3. CASE i < k
      <4>1. i \in 1..(n - 1) /\ \A j \in 1..i : rest[j] = queue[j]
        BY <2>5, <3>3
      <4> QED BY <2>5, <3>1, <4>1 DEF HoldsIn
    <3>4. CASE i > k
      <4>1. i - 1 \in 1..(n - 1) /\ rest[i - 1] = u
        BY <2>5, <3>1, <3>4
      <4>2. ASSUME NEW j \in 1..(i - 1) PROVE Shares(lock, rest[j])
        <5>1. CASE j < k
          BY <2>5, <3>1, <3>4, <5>1
        <5>2. CASE j >= k
          BY <2>5, <3>1, <3>4, <5>2
        <5> QED BY <5>1, <5>2
      <4> QED BY <2>5, <4>1, <4>2 DEF HoldsIn
    <3> QED BY <3>2, <3>3, <3>4
  <2> QED BY <2>5, <2>6, <2>7, <2>8, <2>9 DEF rest
<1> QED BY <1>1, <1>2

\* A place at the end of a queue takes nothing from those before it.
LEMMA PlaceTaken ==
  ASSUME NEW T, NEW queue \in Seq(T), NEW t \in T, Distinct(queue), ~Member(t, queue)
  PROVE  /\ Append(queue, t) \in Seq(T)
         /\ Distinct(Append(queue, t))
         /\ \A u : Member(u, Append(queue, t)) <=> u = t \/ Member(u, queue)
         /\ \A u, lock : HoldsIn(queue, lock, u) => HoldsIn(Append(queue, t), lock, u)
<1> DEFINE longer == Append(queue, t)
           n == Len(queue)
<1>1. /\ longer \in Seq(T) /\ Len(longer) = n + 1 /\ longer[n + 1] = t
      /\ \A i \in 1..n : longer[i] = queue[i]
  OBVIOUS
<1> HIDE DEF longer
<1>2. Distinct(longer)
  BY <1>1 DEF Distinct, Member
<1>3. ASSUME NEW u PROVE Member(u, longer) <=> u = t \/ Member(u, queue)
  BY <1>1 DEF Member
<1>4. ASSUME NEW u, NEW lock, HoldsIn(queue, lock, u) PROVE HoldsIn(longer, lock, u)
  <2>1. PICK i \in 1..n : /\ queue[i] = u
                          /\ i = 1 \/ \A j \in 1..i : Shares(lock, queue[j])
    BY <1>4 DEF HoldsIn
  <2> QED BY <1>1, <2>1 DEF HoldsIn
<1> QED BY <1>1, <1>2, <1>3, <1>4 DEF longer

\* What a call or reload does with its places changes nothing for the others, who hold
\* what they held; it keeps what it has not released.
LEMMA Relocking ==
  ASSUME TypeOK, Places, NEW t \in Tasks,
         NEW released \in SUBSET Locks, NEW wanted \in SUBSET Locks,
         \A l \in wanted \ released : ~Member(t, locks[l]),
         Relock(t, released, wanted)
  PROVE  /\ locks' \in [Locks -> Seq(Tasks)]
         /\ \A l \in Locks : Distinct(locks'[l])
         /\ \A l \in Locks, u \in Tasks :
               Member(u, locks'[l]) <=>
                  IF u = t THEN l \in wanted \/ (l \notin released /\ Member(t, locks[l]))
                           ELSE Member(u, locks[l])
         /\ \A l \in Locks, u \in Tasks :
               Holds(l, u) /\ (u # t \/ l \notin released) => HoldsIn(locks'[l], l, u)
<1>1. locks' = Relocked(t, released, wanted)
  BY DEF Relock
<1>2. ASSUME NEW l \in Locks
      PROVE  /\ locks'[l] \in Seq(Tasks)
             /\ Distinct(locks'[l])
             /\ \A u \in Tasks :
                   Member(u, locks'[l]) <=>
                      IF u = t THEN l \in wanted \/ (l \notin released /\ Member(t, locks[l]))
                               ELSE Member(u, locks[l])
             /\ \A u \in Tasks : HoldsIn(locks[l], l, u) /\ (u # t \/ l \notin released) =>
                                    HoldsIn(locks'[l], l, u)
  <2> DEFINE queue == locks[l]
             left == IF l \in released THEN RemoveFirst(queue, t) ELSE queue
  <2>1. locks'[l] = IF l \in wanted THEN Append(left, t) ELSE left
    BY <1>1 DEF Relocked
  <2>2. queue \in Seq(Tasks) /\ Distinct(queue)
    BY DEF TypeOK, Tasks, Places
  <2> HIDE DEF queue
  <2>3. /\ left \in Seq(Tasks) /\ Distinct(left)
        /\ \A u \in Tasks : Member(u, left) <=>
              IF u = t THEN l \notin released /\ Member(t, queue) ELSE Member(u, queue)
        /\ \A u \in Tasks : HoldsIn(queue, l, u) /\ (u # t \/ l \notin released) =>
                               HoldsIn(left, l, u)
    <3>1. CASE l \in released
      BY <2>2, <3>1, PlaceGivenUp
    <3>2. CASE l \notin released
      BY <2>2, <3>2
    <3> QED BY <3>1, <3>2
  <2>4. l \in wanted => ~Member(t, left)
    BY <2>3 DEF queue
  <2> HIDE DEF left
  <2>5. CASE l \in wanted
    BY <2>1, <2>3, <2>4, <2>5, PlaceTaken DEF queue
  <2>6. CASE l \notin wanted
    BY <2>1, <2>3, <2>6 DEF queue
  <2> QED BY <2>5, <2>6
<1>3. DOMAIN locks' = Locks /\ locks' = [l \in Locks |-> locks'[l]]
  BY <1>1 DEF Relocked
<1>4. \A l, u : Holds(l, u) => HoldsIn(locks[l], l, u)
  BY DEF Holds, HoldsIn
<1> QED BY <1>2, <1>3, <1>4

\* A lock that is not shared has one holder, and who holds it alone excludes the rest.
LEMMA Exclusion ==
  ASSUME TypeOK, NEW l \in Locks, NEW t, NEW u, Holds(l, t), Holds(l, u), ~Shares(l, t)
  PROVE  t = u
<1>1. locks[l] \in Seq(Tasks)
  BY DEF TypeOK, Tasks
<1>2. PICK i \in 1..Len(locks[l]) :
         locks[l][i] = t /\ (i = 1 \/ \A j \in 1..i : Shares(l, locks[l][j]))
  BY <1>1 DEF Holds
<1>3. PICK k \in 1..Len(locks[l]) :
         locks[l][k] = u /\ (k = 1 \/ \A j \in 1..k : Shares(l, locks[l][j]))
  BY <1>1 DEF Holds
<1>4. i = 1
  BY <1>2
<1>5. k = 1
  BY <1>2, <1>3, <1>4
<1> QED BY <1>2, <1>3, <1>4, <1>5

\* A task that changes its places as its program counter says keeps the queues in order
\* and everybody's guards.
LEMMA LocksFollow ==
  ASSUME TypeOK, Places, Guarded, NEW t \in Tasks,
         NEW released \in SUBSET Locks, NEW wanted \in SUBSET Locks,
         (wanted \ released) \cap Wanted(t) = {},
         Relock(t, released, wanted),
         \A u \in Tasks :
            Wanted(u)' = IF u = t THEN (Wanted(t) \ released) \cup wanted ELSE Wanted(u),
         \A e \in Entries \ {t} : pc'[e] = pc[e],
         t \in Entries =>
            /\ pc'[t] \in {"locating", "queueing", "writing"} =>
                  Holds("config", t) /\ "config" \notin released
            /\ pc'[t] \in {"queueing", "writing"} =>
                  Holds("path", t) /\ "path" \notin released
            /\ pc'[t] = "writing" => Holds("file", t) /\ "file" \notin released
  PROVE  locks' \in [Locks -> Seq(Tasks)] /\ Places' /\ Guarded'
<1>1. \A l \in wanted \ released : ~Member(t, locks[l])
  BY DEF Places
<1>2. /\ locks' \in [Locks -> Seq(Tasks)]
      /\ \A l \in Locks : Distinct(locks'[l])
      /\ \A l \in Locks, u \in Tasks :
            Member(u, locks'[l]) <=>
               IF u = t THEN l \in wanted \/ (l \notin released /\ Member(t, locks[l]))
                        ELSE Member(u, locks[l])
      /\ \A l \in Locks, u \in Tasks :
            Holds(l, u) /\ (u # t \/ l \notin released) => HoldsIn(locks'[l], l, u)
  BY <1>1, Relocking
<1>3. Places'
  <2> SUFFICES ASSUME NEW l \in Locks, NEW u \in Tasks
               PROVE  Member(u, locks'[l]) <=> l \in Wanted(u)'
    BY <1>2 DEF Places
  <2>1. Member(u, locks[l]) <=> l \in Wanted(u)
    BY DEF Places
  <2>2. CASE u = t
    BY <1>2, <2>1, <2>2
  <2>3. CASE u # t
    BY <1>2, <2>1, <2>3
  <2> QED BY <2>2, <2>3
<1>4. Guarded'
  <2>1. \A l \in Locks, u \in Tasks : HoldsIn(locks'[l], l, u) => Holds(l, u)'
    BY DEF Holds, HoldsIn
  <2>2. {"config", "path", "file"} = Locks /\ Entries \subseteq Tasks
    BY DEF Locks, Tasks
  <2>3. \A l \in Locks, u \in Tasks : Holds(l, u) /\ (u # t \/ l \notin released) => Holds(l, u)'
    BY <1>2, <2>1
  <2> SUFFICES ASSUME NEW e \in Entries
               PROVE  /\ pc'[e] \in {"locating", "queueing", "writing"} => Holds("config", e)'
                      /\ pc'[e] \in {"queueing", "writing"} => Holds("path", e)'
                      /\ pc'[e] = "writing" => Holds("file", e)'
    BY DEF Guarded
  <2>4. CASE e = t
    BY <2>2, <2>3, <2>4
  <2>5. CASE e # t
    BY <2>2, <2>3, <2>5 DEF Guarded
  <2> QED BY <2>4, <2>5
<1> QED BY <1>2, <1>3, <1>4

\* The same for a call that goes to another stage.
LEMMA CallMoves ==
  ASSUME TypeOK, Places, Guarded, NEW e \in Entries, NEW stage,
         NEW released \in SUBSET Locks, NEW wanted \in SUBSET Locks,
         GoTo(e, stage), Relock(e, released, wanted), UNCHANGED reload,
         WantedAt(stage) = (WantedAt(pc[e]) \ released) \cup wanted,
         (wanted \ released) \cap WantedAt(pc[e]) = {},
         stage \in {"locating", "queueing", "writing"} =>
            Holds("config", e) /\ "config" \notin released,
         stage \in {"queueing", "writing"} => Holds("path", e) /\ "path" \notin released,
         stage = "writing" => Holds("file", e) /\ "file" \notin released
  PROVE  /\ locks' \in [Locks -> Seq(Tasks)] /\ Places' /\ Guarded'
         /\ pc'[e] = stage
         /\ \A f \in Entries \ {e} : pc'[f] = pc[f]
<1>1. pc'[e] = stage /\ \A f \in Entries \ {e} : pc'[f] = pc[f]
  BY DEF GoTo, TypeOK
<1>2. \A u \in Tasks :
         Wanted(u)' = IF u = e THEN (Wanted(e) \ released) \cup wanted ELSE Wanted(u)
  BY <1>1 DEF Wanted
<1>3. e \in Tasks /\ (wanted \ released) \cap Wanted(e) = {}
  BY DEF Tasks, Wanted
<1> HIDE DEF Wanted
<1> QED BY <1>1, <1>2, <1>3, LocksFollow

\* And for a reload, which no call is.
LEMMA ReloadMoves ==
  ASSUME TypeOK, Places, Guarded, NEW r \in Reloaders, NEW stage \in {"idle", "path", "config"},
         NEW released \in SUBSET Locks, NEW wanted \in SUBSET Locks,
         reload' = [reload EXCEPT ![r] = stage], Relock(r, released, wanted), UNCHANGED pc,
         (IF stage = "idle" THEN {} ELSE {stage})
            = ((IF reload[r] = "idle" THEN {} ELSE {reload[r]}) \ released) \cup wanted,
         reload[r] = "idle" \/ reload[r] \notin wanted \ released
  PROVE  locks' \in [Locks -> Seq(Tasks)] /\ Places' /\ Guarded'
<1>1. r \in Tasks /\ r \notin Entries
  BY AuditLogAssumption DEF Tasks, Entries
<1>2. reload'[r] = stage /\ \A u \in Reloaders \ {r} : reload'[u] = reload[u]
  BY DEF TypeOK
<1>3. Wanted(r) = IF reload[r] = "idle" THEN {} ELSE {reload[r]}
  BY <1>1 DEF Wanted
<1>4. \A u \in Tasks :
         Wanted(u)' = IF u = r THEN (Wanted(r) \ released) \cup wanted ELSE Wanted(u)
  BY <1>1, <1>2, <1>3 DEF Wanted, Tasks
<1>5. (wanted \ released) \cap Wanted(r) = {}
  BY <1>3
<1> QED BY <1>1, <1>4, <1>5, LocksFollow

\* Steps that leave the queues alone and change no call's locks.
LEMMA LocksStay ==
  ASSUME Places, Guarded, UNCHANGED <<locks, reload>>,
         \A e \in Entries : WantedAt(pc'[e]) = WantedAt(pc[e]),
         \A e \in Entries :
            pc'[e] # pc[e] => /\ pc'[e] = "writing" => Holds("file", e) /\ pc[e] = "queueing"
                              /\ pc'[e] \notin {"locating", "queueing"}
  PROVE  Places' /\ Guarded'
<1>1. \A u : Wanted(u)' = Wanted(u)
  BY DEF Wanted
<1>2. \A l, t : Holds(l, t)' <=> Holds(l, t)
  BY DEF Holds
<1>3. Places'
  BY <1>1 DEF Places
<1>4. Guarded'
  BY <1>2 DEF Guarded
<1> QED BY <1>3, <1>4

-----------------------------------------------------------------------------
(* The invariant of the locks                                               *)

Stages == {"none", "checking", "deleting", "shifting", "appending"}
Job == [stage : Stages, at : 0..MaxFiles, path : Paths \cup {NoFile}]

LEMMA NoJobIsJob == NoJob \in Job
BY AuditLogAssumption DEF NoJob, Job, Stages

\* A step of a write changes the stage and the generation of its own job.
LEMMA JobGoes ==
  ASSUME job \in [Entries -> Job], NEW e \in Entries, NEW stage \in Stages,
         NEW at \in 0..MaxFiles, Goes(e, stage, at)
  PROVE  /\ job' \in [Entries -> Job]
         /\ job'[e].stage = stage /\ job'[e].at = at /\ job'[e].path = job[e].path
         /\ \A f \in Entries \ {e} : job'[f] = job[f]
<1> DEFINE staged == [job[e] EXCEPT !.stage = stage]
           moved == [staged EXCEPT !.at = at]
<1>1. job' = [job EXCEPT ![e] = moved]
  BY DEF Goes
<1>2. job[e] \in Job
  OBVIOUS
<1>3. staged \in Job /\ staged.stage = stage /\ staged.path = job[e].path
  BY <1>2 DEF Job
<1>4. moved \in Job /\ moved.stage = stage /\ moved.at = at /\ moved.path = job[e].path
  <2> HIDE DEF staged
  <2> QED BY <1>3 DEF Job
<1> HIDE DEF moved
<1> QED BY <1>1, <1>4

LEMMA JobEnds ==
  ASSUME job \in [Entries -> Job], NEW e \in Entries, job' = [job EXCEPT ![e] = NoJob]
  PROVE  /\ job' \in [Entries -> Job]
         /\ job'[e].stage = "none"
         /\ \A f \in Entries \ {e} : job'[f] = job[f]
BY NoJobIsJob DEF NoJob

LEMMA LockInit == Init => LockInv
<1> SUFFICES ASSUME Init PROVE LockInv
  OBVIOUS
<1>1. TypeOK
  <2>1. job \in [Entries -> Job]
    BY NoJobIsJob DEF Init
  <2>2. config \in Configs /\ config.file \in Paths \cup {NoFile}
    BY AuditLogAssumption DEF Init
  <2>3. files \in [Paths -> [0..MaxFiles -> Seq(Entries)]] /\ written \in [Paths -> Seq(Entries)]
    BY DEF Init
  <2>4. /\ {faults, hangUps} \subseteq 0..MaxMishaps /\ started \in 0..MaxEntries
        /\ reloads \in 0..MaxReloads
    BY AuditLogAssumption DEF Init
  <2>5. ring \in Seq(Entries) /\ Len(ring) <= RingSize
    BY AuditLogAssumption DEF Init
  <2>6. locks \in [Locks -> Seq(Entries \cup Reloaders)]
    BY DEF Init
  <2> QED BY <2>1, <2>2, <2>3, <2>4, <2>5, <2>6 DEF Init, TypeOK, Job, Stages
<1>2. Places
  BY DEF Init, Places, Wanted, WantedAt, Distinct, Member, Tasks
<1> QED BY <1>1, <1>2 DEF Init, LockInv, Guarded, Numbered, Writes, NoJob

\* Each action of a call, its write or a reload keeps the queues, the guards, the order of
\* the calls and what is known of the writes.
LEMMA LockStep == LockInv /\ [Next]_vars => LockInv'
<1> SUFFICES ASSUME LockInv, [Next]_vars PROVE LockInv'
  OBVIOUS
<1> USE DEF LockInv
<1>a. /\ MaxFiles \in Nat \ {0} /\ RingSize \in Nat \ {0}
      /\ MaxEntries \in Nat /\ MaxReloads \in Nat /\ MaxMishaps \in Nat
  BY AuditLogAssumption
<1>b. /\ job \in [Entries -> Job] /\ faults \in 0..MaxMishaps /\ hangUps \in 0..MaxMishaps
      /\ started \in 0..MaxEntries
  BY DEF TypeOK, Job, Stages
<1>0. CASE UNCHANGED vars
  <2>1. Places' /\ Guarded'
    BY <1>0, LocksStay DEF vars, reloader
  <2>2. TypeOK'
    BY <1>0 DEF vars, settings, trail, reloader, bounds, TypeOK
  <2> QED BY <1>0, <2>1, <2>2 DEF vars, settings, trail, reloader, bounds, Numbered, Writes
<1>1. ASSUME NEW e \in Entries, Log(e) PROVE LockInv'
  <2>1. pc[e] = "idle" /\ e \in 1..MaxEntries /\ started' = e
    BY <1>1 DEF Log, Numbered, Entries, TypeOK
  <2>2. /\ locks' \in [Locks -> Seq(Tasks)] /\ Places' /\ Guarded'
        /\ pc'[e] = "filtering" /\ \A f \in Entries \ {e} : pc'[f] = pc[f]
    <3>1. GoTo(e, "filtering") /\ Relock(e, {}, {"config"}) /\ UNCHANGED reload
      BY <1>1 DEF Log, reloader
    <3>2. WantedAt("filtering") = {"config"} /\ WantedAt(pc[e]) = {}
      BY <2>1 DEF WantedAt
    <3> QED BY <3>1, <3>2, CallMoves DEF Locks
  <2>3. TypeOK'
    BY <1>1, <2>1, <2>2 DEF Log, GoTo, TypeOK, Tasks, settings, trail, reloader
  <2>4. Numbered' /\ Writes'
    BY <1>1, <2>1, <2>2 DEF Log, Numbered, Writes, Entries, TypeOK, settings, trail, reloader
  <2> QED BY <2>2, <2>3, <2>4
<1>2. ASSUME NEW e \in Entries, ShouldLog(e) PROVE LockInv'
  <2>1. pc[e] = "filtering"
    BY <1>2 DEF ShouldLog
  <2>2. /\ locks' \in [Locks -> Seq(Tasks)] /\ Places' /\ Guarded'
        /\ pc'[e] \in {"returned", "configuring"} /\ \A f \in Entries \ {e} : pc'[f] = pc[f]
    <3>1. CASE GoTo(e, "returned") /\ Relock(e, {"config"}, {}) /\ UNCHANGED reload
      <4>1. WantedAt("returned") = {} /\ WantedAt(pc[e]) = {"config"}
        BY <2>1 DEF WantedAt
      <4> QED BY <3>1, <4>1, CallMoves DEF Locks
    <3>2. CASE GoTo(e, "configuring") /\ Relock(e, {"config"}, {"config"}) /\ UNCHANGED reload
      <4>1. WantedAt("configuring") = {"config"} /\ WantedAt(pc[e]) = {"config"}
        BY <2>1 DEF WantedAt
      <4> QED BY <3>2, <4>1, CallMoves DEF Locks
    <3> QED BY <1>2, <3>1, <3>2 DEF ShouldLog, reloader
  <2>3. TypeOK'
    BY <1>2, <2>2 DEF ShouldLog, GoTo, TypeOK, Tasks, settings, trail, reloader, bounds
  <2>4. Numbered' /\ Writes'
    BY <1>2, <2>1, <2>2 DEF ShouldLog, Numbered, Writes, settings, bounds
  <2> QED BY <2>2, <2>3, <2>4
<1>3. ASSUME NEW e \in Entries, ReadConfig(e) PROVE LockInv'
  <2>1. pc[e] = "configuring"
    BY <1>3 DEF ReadConfig
  <2>2. /\ locks' \in [Locks -> Seq(Tasks)] /\ Places' /\ Guarded'
        /\ pc'[e] = "locating" /\ \A f \in Entries \ {e} : pc'[f] = pc[f]
    <3>1. GoTo(e, "locating") /\ Relock(e, {}, {"path"}) /\ UNCHANGED reload /\ Holds("config", e)
      BY <1>3 DEF ReadConfig, reloader
    <3>2. WantedAt("locating") = {"config", "path"} /\ WantedAt(pc[e]) = {"config"}
      BY <2>1 DEF WantedAt
    <3> QED BY <3>1, <3>2, CallMoves DEF Locks
  <2>3. TypeOK'
    BY <1>3, <2>2 DEF ReadConfig, GoTo, TypeOK, Tasks, settings, trail, reloader, bounds
  <2>4. Numbered' /\ Writes'
    BY <1>3, <2>1, <2>2 DEF ReadConfig, Numbered, Writes, settings, bounds
  <2> QED BY <2>2, <2>3, <2>4
<1>4. ASSUME NEW e \in Entries, ReadPath(e) PROVE LockInv'
  <2>1. pc[e] = "locating" /\ Holds("path", e) /\ Holds("config", e)
    BY <1>4 DEF ReadPath, Guarded
  <2>2. /\ locks' \in [Locks -> Seq(Tasks)] /\ Places' /\ Guarded'
        /\ pc'[e] = (IF path = NoFile THEN "storing" ELSE "queueing")
        /\ \A f \in Entries \ {e} : pc'[f] = pc[f]
    <3>1. CASE /\ path = NoFile
               /\ GoTo(e, "storing") /\ Relock(e, {"config", "path"}, {}) /\ UNCHANGED reload
      <4>1. WantedAt("storing") = {} /\ WantedAt(pc[e]) = {"config", "path"}
        BY <2>1 DEF WantedAt
      <4> QED BY <3>1, <4>1, CallMoves DEF Locks
    <3>2. CASE /\ path # NoFile
               /\ GoTo(e, "queueing") /\ Relock(e, {}, {"file"}) /\ UNCHANGED reload
      <4>1. WantedAt("queueing") = Locks /\ WantedAt(pc[e]) = {"config", "path"}
        BY <2>1 DEF WantedAt
      <4> QED BY <2>1, <3>2, <4>1, CallMoves DEF Locks
    <3> QED BY <1>4, <3>1, <3>2 DEF ReadPath, reloader
  <2>3. TypeOK'
    <3>1. /\ pc' \in [Entries -> {"idle", "filtering", "configuring", "locating",
                                  "queueing", "writing", "storing", "returned"}]
          /\ job' \in [Entries -> Job]
      <4>1. /\ pc' = [pc EXCEPT ![e] = "storing"] \/ pc' = [pc EXCEPT ![e] = "queueing"]
            /\ job' = [job EXCEPT ![e].path = path] /\ path \in Paths \cup {NoFile}
        BY <1>4 DEF ReadPath, GoTo, TypeOK
      <4>2. pc' \in [Entries -> {"idle", "filtering", "configuring", "locating",
                                 "queueing", "writing", "storing", "returned"}]
        BY <4>1 DEF TypeOK
      <4>3. job' \in [Entries -> Job]
        BY <1>b, <4>1 DEF Job
      <4> QED BY <4>2, <4>3
    <3>2. UNCHANGED <<config, path, files, written, ring, reload, new, started, reloads, faults,
                      hangUps, orphaned>>
      BY <1>4 DEF ReadPath, settings, trail, reloader, bounds
    <3> QED BY <2>2, <3>1, <3>2 DEF TypeOK, Job, Stages, Tasks
  <2>4. Numbered' /\ Writes'
    BY <1>4, <2>1, <2>2 DEF ReadPath, Numbered, Writes, TypeOK, settings, bounds
  <2> QED BY <2>2, <2>3, <2>4
<1>5. ASSUME NEW e \in Entries, SpawnWrite(e) PROVE LockInv'
  <2>1. pc[e] = "queueing" /\ Holds("file", e) /\ pc'[e] = "writing"
        /\ \A f \in Entries \ {e} : pc'[f] = pc[f]
    BY <1>5 DEF SpawnWrite, GoTo, TypeOK
  <2>2. Places' /\ Guarded'
    <3>1. \A f \in Entries : WantedAt(pc'[f]) = WantedAt(pc[f])
      BY <2>1 DEF WantedAt
    <3> QED BY <1>5, <2>1, <3>1, LocksStay DEF SpawnWrite, reloader
  <2>3. TypeOK'
    BY <1>5 DEF SpawnWrite, GoTo, TypeOK, settings, trail, reloader, bounds
  <2>4. Numbered' /\ Writes'
    BY <1>5, <2>1 DEF SpawnWrite, Numbered, Writes, TypeOK, settings, bounds
  <2> QED BY <2>2, <2>3, <2>4
<1>6. ASSUME NEW e \in Entries, Written(e) PROVE LockInv'
  <2>1. pc[e] = "writing" /\ job[e].stage = "none"
    BY <1>6 DEF Written
  <2>2. /\ locks' \in [Locks -> Seq(Tasks)] /\ Places' /\ Guarded'
        /\ pc'[e] = "storing" /\ \A f \in Entries \ {e} : pc'[f] = pc[f]
    <3>1. GoTo(e, "storing") /\ Relock(e, Locks, {}) /\ UNCHANGED reload
      BY <1>6 DEF Written, reloader
    <3>2. WantedAt("storing") = {} /\ WantedAt(pc[e]) = Locks
      BY <2>1 DEF WantedAt
    <3> QED BY <3>1, <3>2, CallMoves
  <2>3. TypeOK'
    BY <1>6, <2>2 DEF Written, GoTo, TypeOK, Tasks, settings, trail, reloader, bounds
  <2>4. Numbered' /\ Writes'
    BY <1>6, <2>1, <2>2 DEF Written, Numbered, Writes, settings, bounds
  <2> QED BY <2>2, <2>3, <2>4
<1>7. ASSUME NEW e \in Entries, Store(e) PROVE LockInv'
  <2>1. pc[e] = "storing" /\ pc'[e] = "returned" /\ \A f \in Entries \ {e} : pc'[f] = pc[f]
    BY <1>7 DEF Store, GoTo, TypeOK
  <2>2. Places' /\ Guarded'
    <3>1. \A f \in Entries : WantedAt(pc'[f]) = WantedAt(pc[f])
      BY <2>1 DEF WantedAt
    <3> QED BY <1>7, <2>1, <3>1, LocksStay DEF Store, reloader
  <2>3. ring' \in Seq(Entries) /\ Len(ring') <= RingSize
    <3> DEFINE kept == IF Len(ring) >= RingSize THEN Front(ring) ELSE ring
    <3>1. kept \in Seq(Entries) /\ Len(kept) < RingSize
      <4>1. ring \in Seq(Entries) /\ Len(ring) <= RingSize
        BY DEF TypeOK
      <4>2. \A n \in 0..Len(ring) : /\ SubSeq(ring, 1, n) \in Seq(Entries)
                                    /\ Len(SubSeq(ring, 1, n)) = n
        BY <4>1
      <4>3. Len(ring) >= RingSize => Len(ring) - 1 \in 0..Len(ring)
        BY <1>a, <4>1
      <4> QED BY <1>a, <4>1, <4>2, <4>3 DEF Front
    <3>2. ring' = <<e>> \o kept
      BY <1>7 DEF Store
    <3> HIDE DEF kept
    <3> QED BY <1>a, <3>1, <3>2
  <2>4. TypeOK'
    BY <1>7, <2>3 DEF Store, GoTo, TypeOK, settings, trail, reloader, bounds
  <2>5. Numbered' /\ Writes'
    BY <1>7, <2>1 DEF Store, Numbered, Writes, settings, bounds
  <2> QED BY <2>2, <2>4, <2>5
<1>8. ASSUME NEW e \in Entries, HangUp(e) PROVE LockInv'
  <2>1. pc[e] \notin {"idle", "returned"}
    BY <1>8 DEF HangUp, UnderWay
  <2>2. /\ locks' \in [Locks -> Seq(Tasks)] /\ Places' /\ Guarded'
        /\ pc'[e] = "returned" /\ \A f \in Entries \ {e} : pc'[f] = pc[f]
    <3>1. GoTo(e, "returned") /\ Relock(e, Locks, {}) /\ UNCHANGED reload
      BY <1>8 DEF HangUp, reloader
    <3>2. WantedAt("returned") = {} /\ WantedAt(pc[e]) \subseteq Locks
      BY DEF WantedAt, Locks
    <3> QED BY <3>1, <3>2, CallMoves
  <2>3. /\ job' \in [Entries -> Job] /\ \A f \in Entries \ {e} : job'[f] = job[f]
        /\ job'[e].stage # "none" => orphaned' /\ job' = job
        /\ orphaned' \in {orphaned, TRUE}
    BY <1>b, <1>8, JobEnds DEF HangUp
  <2>4. TypeOK'
    <3>1. hangUps' \in 0..MaxMishaps /\ faults' = faults
      BY <1>a, <1>b, <1>8 DEF HangUp
    <3>2. pc' \in [Entries -> {"idle", "filtering", "configuring", "locating",
                               "queueing", "writing", "storing", "returned"}]
      BY <1>8 DEF HangUp, GoTo, TypeOK
    <3>3. UNCHANGED <<config, path, files, written, ring, reload, new, started, reloads>>
      BY <1>8 DEF HangUp, settings, trail, reloader
    <3> QED BY <2>2, <2>3, <3>1, <3>2, <3>3 DEF TypeOK, Tasks, Job, Stages
  <2>5. Numbered'
    BY <1>8, <2>1, <2>2 DEF HangUp, Numbered
  <2>6. Writes'
    <3> SUFFICES ASSUME NEW f \in Entries
                 PROVE  Writes!(f)'
      BY DEF Writes
    <3>1. CASE f = e
      BY <1>8, <2>2, <2>3, <3>1 DEF HangUp, Writes, settings
    <3>2. CASE f # e
      BY <1>8, <2>2, <2>3, <3>2 DEF HangUp, Writes, settings
    <3> QED BY <3>1, <3>2
  <2> QED BY <2>2, <2>4, <2>5, <2>6
<1>9. ASSUME NEW e \in Entries, WriteStep(e) PROVE LockInv'
  <2>1. Places' /\ Guarded' /\ Numbered'
    BY <1>9, LocksStay DEF WriteStep, reloader, Numbered
  <2>2. /\ job[e].stage # "none" /\ job[e].path \in Paths
        /\ job[e].stage = "shifting" => job[e].at \in 0..(MaxFiles - 1)
        /\ job[e].stage \in Stages /\ job[e].at \in 0..MaxFiles
    BY <1>b, <1>9 DEF WriteStep, CheckSize, DeleteOldest, Shift, AppendLine, Fault, Writes, Job
  <2>3. /\ job' \in [Entries -> Job] /\ \A f \in Entries \ {e} : job'[f] = job[f]
        /\ job'[e].stage # "none" => job'[e].path = job[e].path
        /\ job'[e].stage = "deleting" => job'[e].at = MaxFiles
        /\ job'[e].stage = "shifting" => job'[e].at \in 0..(MaxFiles - 1)
    <3>1. CASE CheckSize(e)
      <4>1. Goes(e, "deleting", MaxFiles) \/ Goes(e, "appending", 0)
        BY <3>1 DEF CheckSize
      <4> QED BY <1>a, <1>b, <4>1, JobGoes DEF Stages
    <3>2. CASE DeleteOldest(e)
      BY <1>a, <1>b, <3>2, JobGoes DEF DeleteOldest, Stages
    <3>3. CASE Shift(e)
      <4>1. job[e].stage = "shifting"
        BY <3>3 DEF Shift
      <4>2. CASE job[e].at = 0
        BY <1>a, <1>b, <3>3, <4>2, JobGoes DEF Shift, Stages
      <4>3. CASE job[e].at # 0
        <5>1. Goes(e, "shifting", job[e].at - 1) /\ job[e].at - 1 \in 0..(MaxFiles - 1)
          BY <1>a, <2>2, <3>3, <4>1, <4>3 DEF Shift
        <5> QED BY <1>a, <1>b, <5>1, JobGoes DEF Stages
      <4> QED BY <4>2, <4>3
    <3>4. CASE AppendLine(e) \/ Fault(e)
      BY <1>b, <3>4, JobEnds DEF AppendLine, Fault
    <3> QED BY <1>9, <3>1, <3>2, <3>3, <3>4 DEF WriteStep
  <2>4. files' \in [Paths -> [0..MaxFiles -> Seq(Entries)]]
    <3>1. files \in [Paths -> [0..MaxFiles -> Seq(Entries)]]
      BY DEF TypeOK
    <3>2. CASE files' = files
      BY <3>1, <3>2
    <3>3. CASE DeleteOldest(e)
      BY <2>2, <3>1, <3>3 DEF DeleteOldest
    <3>4. CASE Shift(e)
      <4>1. job[e].at \in 0..(MaxFiles - 1)
        BY <2>2, <3>4 DEF Shift
      <4>2. /\ job[e].at \in 0..MaxFiles /\ job[e].at + 1 \in 0..MaxFiles
            /\ files[job[e].path] \in [0..MaxFiles -> Seq(Entries)]
        <5>1. PICK at : at = job[e].at
          OBVIOUS
        <5>2. MaxFiles \in Nat /\ at \in 0..(MaxFiles - 1)
          BY <1>a, <4>1, <5>1
        <5>3. at \in 0..MaxFiles /\ at + 1 \in 0..MaxFiles
          BY ONLY <5>2
        <5>4. files[job[e].path] \in [0..MaxFiles -> Seq(Entries)]
          BY <2>2, <3>1
        <5> QED BY <5>1, <5>3, <5>4
      <4>3. Moved(files[job[e].path], job[e].at) \in [0..MaxFiles -> Seq(Entries)]
        <5> DEFINE old == files[job[e].path]
                   n == job[e].at
        <5>1. old \in [0..MaxFiles -> Seq(Entries)] /\ n \in 0..MaxFiles /\ n + 1 \in 0..MaxFiles
          BY <4>2
        <5> HIDE DEF old, n
        <5>2. [old EXCEPT ![n] = <<>>, ![n + 1] = old[n]] \in [0..MaxFiles -> Seq(Entries)]
          <6>1. old[n] \in Seq(Entries) /\ <<>> \in Seq(Entries)
            BY <5>1
          <6> QED BY <5>1, <6>1, Zenon
        <5> QED BY <5>1, <5>2 DEF Moved, old, n
      <4> QED BY <3>1, <3>4, <4>3 DEF Shift
    <3>5. CASE AppendLine(e)
      BY <1>a, <2>2, <3>1, <3>5 DEF AppendLine
    <3> QED BY <1>9, <3>2, <3>3, <3>4, <3>5 DEF WriteStep, CheckSize, Fault, trail
  <2>5. written' \in [Paths -> Seq(Entries)]
    <3>1. written \in [Paths -> Seq(Entries)]
      BY DEF TypeOK
    <3>2. written' = written \/ written' = [written EXCEPT ![job[e].path] = Append(@, e)]
      BY <1>9 DEF WriteStep, CheckSize, DeleteOldest, Shift, AppendLine, Fault, trail
    <3>3. written[job[e].path] \in Seq(Entries)
      BY <2>2, <3>1
    <3>4. Append(written[job[e].path], e) \in Seq(Entries)
      BY <3>3
    <3> QED BY <2>2, <3>1, <3>2, <3>4
  <2>6. faults' \in 0..MaxMishaps
    BY <1>a, <1>b, <1>9 DEF WriteStep, CheckSize, DeleteOldest, Shift, AppendLine, Fault
  <2>7. TypeOK'
    BY <1>b, <1>9, <2>3, <2>4, <2>5, <2>6
       DEF WriteStep, TypeOK, Job, Stages, settings, reloader
  <2>8. Writes'
    BY <1>9, <2>2, <2>3 DEF WriteStep, Writes, settings
  <2> QED BY <2>1, <2>7, <2>8
<1>10. ASSUME NEW r \in Reloaders, NEW c \in Configs, Reload(r, c) PROVE LockInv'
  <2>1. locks' \in [Locks -> Seq(Tasks)] /\ Places' /\ Guarded'
    BY <1>10, ReloadMoves DEF Reload, Locks
  <2>2. TypeOK'
    BY <1>a, <1>10, <2>1 DEF Reload, TypeOK, Tasks, settings, trail
  <2> QED BY <1>10, <2>1, <2>2 DEF Reload, Numbered, Writes, settings
<1>11. ASSUME NEW r \in Reloaders, SetPath(r) PROVE LockInv'
  <2>1. locks' \in [Locks -> Seq(Tasks)] /\ Places' /\ Guarded'
    BY <1>11, ReloadMoves DEF SetPath, Locks
  <2>2. TypeOK'
    <3>1. path' = new[r].file /\ reload' = [reload EXCEPT ![r] = "config"]
      BY <1>11 DEF SetPath
    <3>2. path' \in Paths \cup {NoFile}
      BY <3>1, AuditLogAssumption DEF TypeOK
    <3>3. reload' \in [Reloaders -> {"idle", "path", "config"}]
      BY <3>1 DEF TypeOK
    <3>4. UNCHANGED <<config, pc, job, files, written, ring, new, started, reloads, faults,
                      hangUps, orphaned>>
      BY <1>11 DEF SetPath, trail, bounds
    <3> QED BY <2>1, <3>2, <3>3, <3>4 DEF TypeOK, Tasks
  <2>3. \A e \in Entries : pc[e] \notin {"queueing", "writing"}
    <3> SUFFICES ASSUME NEW e \in Entries, Holds("path", e) PROVE FALSE
      BY DEF Guarded
    <3>1. Holds("path", r) /\ ~Shares("path", r) /\ e # r /\ "path" \in Locks
      BY <1>11, AuditLogAssumption DEF SetPath, Shares, Entries, Locks
    <3> QED BY <3>1, Exclusion
  <2> QED BY <1>11, <2>1, <2>2, <2>3 DEF SetPath, Numbered, Writes, bounds
<1>12. ASSUME NEW r \in Reloaders, SetConfig(r) PROVE LockInv'
  <2>1. locks' \in [Locks -> Seq(Tasks)] /\ Places' /\ Guarded'
    BY <1>12, ReloadMoves DEF SetConfig, Locks
  <2>2. TypeOK'
    BY <1>12, <2>1 DEF SetConfig, TypeOK, Tasks, trail, bounds
  <2> QED BY <1>12, <2>1, <2>2 DEF SetConfig, Numbered, Writes, bounds
<1> QED
  BY <1>0, <1>1, <1>2, <1>3, <1>4, <1>5, <1>6, <1>7, <1>8, <1>9, <1>10, <1>11, <1>12
     DEF Next, CallStep, ReloadStep

\* WritesToConfiguredFile (apply_config and log): who writes holds the guard of the path,
\* which a reload would need alone.
THEOREM LinesGoWhereConfigured == Spec => []WritesToConfiguredFile
<1>1. LockInv => WritesToConfiguredFile
  BY DEF LockInv, Writes, WritesToConfiguredFile
<1> QED BY <1>1, LockInit, LockStep, PTL DEF Spec

-----------------------------------------------------------------------------
(* The trail                                                                *)

\* Where in what was written to a path each generation ends, and the next older one begins.
Cuts == [0..(MaxFiles + 1) -> Nat]
Segments(p, cut) ==
    /\ cut[0] = Len(written[p])
    /\ \A g \in 0..(MaxFiles + 1) : cut[g] <= cut[0]
    /\ \A g \in 0..MaxFiles :
          /\ cut[g] - cut[g + 1] = Len(files[p][g])
          /\ \A i \in 1..Len(files[p][g]) : files[p][g][i] = written[p][cut[g + 1] + i]

\* The generation a rotation under way has emptied and not filled again; 0 if there is none.
Shifts(e, p) == job[e].stage = "shifting" /\ job[e].path = p
IsHole(p, hole) ==
    IF \E e \in Entries : Shifts(e, p)
    THEN \E e \in Entries : Shifts(e, p) /\ hole = job[e].at + 1
    ELSE hole = 0

\* As long as no operation fails: beside the hole generations are full, the younger first,
\* and all of them by the time a line has been given up; a file that is rotated is full.
Rotates(e, p) == job[e].stage \in {"deleting", "shifting"} /\ job[e].path = p
Full(p, g) == Len(files[p][g]) >= FileLimit
WholeBut(p, cut, hole) ==
    /\ \A g \in (1..MaxFiles) \ {hole} : Len(files[p][g]) = 0 \/ Full(p, g)
    /\ \A g, k \in (1..MaxFiles) \ {hole} : g < k /\ Full(p, k) => Full(p, g)
    /\ cut[MaxFiles + 1] > 0 => \A g \in (1..MaxFiles) \ {hole} : Full(p, g)
    /\ (\E e \in Entries : Rotates(e, p)) => Full(p, 0)

Orderly(p, cut, hole) ==
    /\ IsHole(p, hole)
    /\ Segments(p, cut)
    /\ hole # 0 => Len(files[p][hole]) = 0
    /\ faults = 0 => WholeBut(p, cut, hole)

TrailInv ==
    ~orphaned => \A p \in Paths : \E cut \in Cuts, hole \in 0..MaxFiles : Orderly(p, cut, hole)

\* file_lock: two writes are under way only once a call has been dropped in its write.
LEMMA OneWriter ==
  ASSUME LockInv, ~orphaned, NEW e \in Entries, job[e].stage # "none"
  PROVE  \A f \in Entries \ {e} : job[f].stage = "none"
<1> SUFFICES ASSUME NEW f \in Entries, job[f].stage # "none" PROVE f = e
  OBVIOUS
<1>1. pc[e] = "writing" /\ pc[f] = "writing"
  BY DEF LockInv, Writes
<1>2. Holds("file", e) /\ Holds("file", f)
  BY <1>1 DEF LockInv, Guarded
<1> QED BY <1>2, Exclusion DEF Shares, Locks, LockInv

\* What a step leaves as it is stays in order, whatever it does elsewhere.
LEMMA OrderStays ==
  ASSUME NEW p \in Paths, NEW cut, NEW hole, Orderly(p, cut, hole),
         files'[p] = files[p], written'[p] = written[p],
         faults' = 0 => faults = 0,
         \A e \in Entries : (Shifts(e, p)' <=> Shifts(e, p)) /\ (Rotates(e, p)' <=> Rotates(e, p)),
         \A e \in Entries : Shifts(e, p) => job'[e].at = job[e].at
  PROVE  Orderly(p, cut, hole)'
<1>1. IsHole(p, hole)'
  BY DEF Orderly, IsHole
<1>2. Segments(p, cut)'
  BY DEF Orderly, Segments
<1>3. faults' = 0 => WholeBut(p, cut, hole)'
  BY DEF Orderly, WholeBut, Full
<1> QED BY <1>1, <1>2, <1>3 DEF Orderly

\* Steps that neither touch the files nor begin or end a rotation.
LEMMA TrailStays ==
  ASSUME TrailInv, UNCHANGED trail, faults' = faults, orphaned' \in {orphaned, TRUE},
         ~orphaned' => \A e \in Entries :
            job'[e] # job[e] => {job[e].stage, job'[e].stage} \cap {"deleting", "shifting"} = {}
  PROVE  TrailInv'
<1> SUFFICES ASSUME ~orphaned', NEW p \in Paths
             PROVE  \E cut \in Cuts, hole \in 0..MaxFiles : Orderly(p, cut, hole)'
  BY DEF TrailInv
<1>1. PICK cut \in Cuts, hole \in 0..MaxFiles : Orderly(p, cut, hole)
  BY DEF TrailInv
<1>2. \A e \in Entries : /\ Shifts(e, p)' <=> Shifts(e, p)
                         /\ Rotates(e, p)' <=> Rotates(e, p)
                         /\ Shifts(e, p) => job'[e].at = job[e].at
  BY DEF Shifts, Rotates
<1>3. Orderly(p, cut, hole)'
  BY <1>1, <1>2, OrderStays DEF trail
<1> QED BY <1>3

\* What is known when the one writer there is takes a step.
LEMMA WriterAlone ==
  ASSUME LockInv, TrailInv, ~orphaned, NEW e \in Entries, job[e].stage # "none"
  PROVE  /\ job[e].path \in Paths
         /\ \A f \in Entries \ {e} : job[f].stage = "none"
         /\ \E cut \in Cuts, hole \in 0..MaxFiles :
               /\ Orderly(job[e].path, cut, hole)
               /\ hole = IF job[e].stage = "shifting" THEN job[e].at + 1 ELSE 0
<1>1. job[e].path \in Paths
  BY DEF LockInv, Writes
<1>2. \A f \in Entries \ {e} : job[f].stage = "none"
  BY OneWriter
<1>3. PICK cut \in Cuts, hole \in 0..MaxFiles : Orderly(job[e].path, cut, hole)
  BY <1>1 DEF TrailInv
<1>4. \A f \in Entries : Shifts(f, job[e].path) => f = e
  BY <1>2 DEF Shifts
<1>5. Shifts(e, job[e].path) <=> job[e].stage = "shifting"
  BY DEF Shifts
<1>6. hole = IF job[e].stage = "shifting" THEN job[e].at + 1 ELSE 0
  BY <1>3, <1>4, <1>5 DEF Orderly, IsHole
<1> QED BY <1>1, <1>2, <1>3, <1>6

\* Where the hole is after the writer's step.
LEMMA HoleMoves ==
  ASSUME NEW e \in Entries, NEW p, NEW hole,
         \A f \in Entries \ {e} : job'[f].stage = "none",
         job'[e].stage # "none" => job'[e].path = p,
         hole = IF job'[e].stage = "shifting" THEN job'[e].at + 1 ELSE 0
  PROVE  IsHole(p, hole)'
<1>1. \A f \in Entries : Shifts(f, p)' <=> f = e /\ job'[e].stage = "shifting"
  BY DEF Shifts
<1> QED BY <1>1 DEF IsHole

LEMMA CheckKeepsOrder ==
  ASSUME LockInv, TrailInv, ~orphaned, NEW e \in Entries, CheckSize(e),
         NEW p \in Paths, p = job[e].path
  PROVE  \E cut \in Cuts, hole \in 0..MaxFiles : Orderly(p, cut, hole)'
<1>1. job \in [Entries -> Job] /\ MaxFiles \in Nat \ {0} /\ FileLimit \in Nat \ {0}
  BY AuditLogAssumption DEF LockInv, TypeOK, Job, Stages
<1>2. job[e].stage = "checking" /\ files' = files /\ written' = written /\ faults' = faults
  BY DEF CheckSize, trail
<1>3. PICK cut \in Cuts, hole \in 0..MaxFiles : Orderly(p, cut, hole) /\ hole = 0
  BY <1>2, WriterAlone
<1>4. /\ job'[e].stage \in {"deleting", "appending"} /\ job'[e].path = p
      /\ job'[e].stage = "deleting" => Full(p, 0)
      /\ \A f \in Entries \ {e} : job'[f].stage = "none"
  <2>1. CASE Full(p, 0)
    <3>1. Goes(e, "deleting", MaxFiles)
      BY <2>1 DEF CheckSize, Full
    <3> QED BY <1>1, <1>2, <2>1, <3>1, JobGoes, WriterAlone DEF Stages
  <2>2. CASE ~Full(p, 0)
    <3>1. Goes(e, "appending", 0)
      BY <2>2 DEF CheckSize, Full
    <3> QED BY <1>1, <1>2, <3>1, JobGoes, WriterAlone DEF Stages
  <2> QED BY <2>1, <2>2
<1>5. IsHole(p, 0)'
  BY <1>4, HoleMoves
<1>6. Segments(p, cut)'
  BY <1>2, <1>3 DEF Orderly, Segments
<1>7. (faults = 0 => WholeBut(p, cut, 0))'
  BY <1>2, <1>3, <1>4 DEF Orderly, WholeBut, Full, Rotates
<1>8. Orderly(p, cut, 0)'
  BY <1>5, <1>6, <1>7 DEF Orderly
<1> QED BY <1>1, <1>8

\* The oldest generation is given up only when all of them are full, and its place is the
\* first hole of the rotation.
LEMMA DeleteKeepsOrder ==
  ASSUME LockInv, TrailInv, ~orphaned, NEW e \in Entries, DeleteOldest(e),
         NEW p \in Paths, p = job[e].path
  PROVE  \E cut \in Cuts, hole \in 0..MaxFiles : Orderly(p, cut, hole)'
<1>1. /\ job \in [Entries -> Job] /\ MaxFiles \in Nat \ {0} /\ FileLimit \in Nat \ {0}
      /\ files \in [Paths -> [0..MaxFiles -> Seq(Entries)]]
  BY AuditLogAssumption DEF LockInv, TypeOK, Job, Stages
<1>2. job[e].stage = "deleting" /\ job[e].at = MaxFiles
  BY DEF DeleteOldest, LockInv, Writes
<1>3. p \in Paths /\ \A f \in Entries \ {e} : job[f].stage = "none"
  BY <1>2, WriterAlone
<1>4. PICK cut \in Cuts, hole \in 0..MaxFiles : Orderly(p, cut, hole) /\ hole = 0
  BY <1>2, WriterAlone
<1>5. /\ files' = [files EXCEPT ![p][MaxFiles] = <<>>]
      /\ written' = written /\ faults' = faults
  BY <1>2 DEF DeleteOldest
<1>6. /\ job'[e].stage = "shifting" /\ job'[e].at = MaxFiles - 1 /\ job'[e].path = p
      /\ \A f \in Entries \ {e} : job'[f].stage = "none"
  BY <1>1, <1>3, JobGoes DEF DeleteOldest, Stages
<1>7. /\ Len(files'[p][MaxFiles]) = 0
      /\ \A g \in 0..(MaxFiles - 1) : files'[p][g] = files[p][g]
  BY <1>1, <1>3, <1>5
<1> DEFINE cut2 == [cut EXCEPT ![MaxFiles + 1] = cut[MaxFiles]]
<1>8. /\ cut2 \in Cuts
      /\ cut2[MaxFiles + 1] = cut[MaxFiles]
      /\ \A g \in 0..MaxFiles : cut2[g] = cut[g]
  BY <1>1 DEF Cuts
<1> HIDE DEF cut2
<1>9. IsHole(p, MaxFiles)'
  <2>1. MaxFiles = IF job'[e].stage = "shifting" THEN job'[e].at + 1 ELSE 0
    BY <1>1, <1>6
  <2> QED BY <1>6, <2>1, HoleMoves
<1>10. Segments(p, cut2)'
  <2>1. cut2[0] = Len(written'[p])
    BY <1>1, <1>4, <1>5, <1>8 DEF Orderly, Segments
  <2>2. ASSUME NEW g \in 0..MaxFiles
        PROVE  /\ cut2[g] - cut2[g + 1] = Len(files'[p][g])
               /\ \A i \in 1..Len(files'[p][g]) : files'[p][g][i] = written'[p][cut2[g + 1] + i]
    <3>1. CASE g = MaxFiles
      BY <1>1, <1>7, <1>8, <3>1 DEF Cuts
    <3>2. CASE g # MaxFiles
      <4>1. cut2[g] = cut[g] /\ cut2[g + 1] = cut[g + 1] /\ files'[p][g] = files[p][g]
        <5>1. g \in 0..(MaxFiles - 1) /\ g + 1 \in 0..MaxFiles
          BY <1>1, <3>2
        <5> QED BY <1>7, <1>8, <5>1
      <4> QED BY <1>4, <1>5, <4>1 DEF Orderly, Segments
    <3> QED BY <3>1, <3>2
  <2>3. ASSUME NEW g \in 0..(MaxFiles + 1) PROVE cut2[g] <= cut2[0]
    <3>1. MaxFiles \in 0..(MaxFiles + 1) /\ 0 \in 0..MaxFiles
      BY <1>1
    <3>2. cut2[0] = cut[0] /\ cut2[g] \in {cut[g], cut[MaxFiles]}
      BY <1>1, <1>8, <3>1
    <3> QED BY <1>4, <3>1, <3>2 DEF Orderly, Segments
  <2> QED BY <2>1, <2>2, <2>3 DEF Segments
<1>11. ASSUME faults' = 0 PROVE WholeBut(p, cut2, MaxFiles)'
  <2>1. WholeBut(p, cut, 0)
    BY <1>4, <1>5, <1>11 DEF Orderly
  <2>2. (1..MaxFiles) \ {0} = 1..MaxFiles
    OBVIOUS
  <2>3. \A g \in (1..MaxFiles) \ {MaxFiles} : g \in 1..MaxFiles /\ files'[p][g] = files[p][g]
    BY <1>1, <1>7
  <2>4. Full(p, 0)'
    BY <1>1, <1>2, <1>7, <2>1 DEF WholeBut, Full, Rotates
  <2>5. cut[MaxFiles] > 0 => \A g \in 1..(MaxFiles - 1) : Full(p, g)
    <3> SUFFICES ASSUME cut[MaxFiles] > 0, NEW g \in 1..(MaxFiles - 1) PROVE Full(p, g)
      OBVIOUS
    <3>1. cut[MaxFiles] - cut[MaxFiles + 1] = Len(files[p][MaxFiles])
      BY <1>1, <1>4 DEF Orderly, Segments
    <3>2. CASE Len(files[p][MaxFiles]) = 0
      <4>1. cut[MaxFiles + 1] > 0
        BY <1>1, <3>1, <3>2 DEF Cuts
      <4> QED BY <1>1, <2>1, <2>2, <4>1 DEF WholeBut
    <3>3. CASE Full(p, MaxFiles)
      BY <1>1, <2>1, <2>2, <3>3 DEF WholeBut
    <3>4. Len(files[p][MaxFiles]) = 0 \/ Full(p, MaxFiles)
      BY <1>1, <2>1, <2>2 DEF WholeBut
    <3> QED BY <3>2, <3>3, <3>4
  <2>6. \A g \in (1..MaxFiles) \ {MaxFiles} :
           /\ Full(p, g)' <=> Full(p, g)
           /\ Len(files'[p][g]) = 0 <=> Len(files[p][g]) = 0
    BY <2>3 DEF Full
  <2>7. cut2[MaxFiles + 1] > 0 => \A g \in (1..MaxFiles) \ {MaxFiles} : Full(p, g)
    BY <1>1, <1>8, <2>5
  <2> QED BY <2>1, <2>2, <2>3, <2>4, <2>6, <2>7 DEF WholeBut
<1>12. Orderly(p, cut2, MaxFiles)'
  BY <1>7, <1>9, <1>10, <1>11 DEF Orderly
<1> QED BY <1>1, <1>8, <1>12

\* A rename fills the hole and leaves another where the generation was.
LEMMA ShiftKeepsOrder ==
  ASSUME LockInv, TrailInv, ~orphaned, NEW e \in Entries, Shift(e),
         NEW p \in Paths, p = job[e].path
  PROVE  \E cut \in Cuts, hole \in 0..MaxFiles : Orderly(p, cut, hole)'
<1>1. /\ job \in [Entries -> Job] /\ MaxFiles \in Nat \ {0} /\ FileLimit \in Nat \ {0}
      /\ files \in [Paths -> [0..MaxFiles -> Seq(Entries)]]
  BY AuditLogAssumption DEF LockInv, TypeOK, Job, Stages
<1>2. job[e].stage = "shifting" /\ written' = written /\ faults' = faults
  BY DEF Shift
<1>3. \A f \in Entries \ {e} : job[f].stage = "none"
  BY <1>2, WriterAlone
<1>4. PICK n \in 0..(MaxFiles - 1) : n = job[e].at
  BY <1>2 DEF LockInv, Writes
<1>5. /\ n \in 0..MaxFiles /\ n + 1 \in 1..MaxFiles /\ n + 1 \in 0..MaxFiles
      /\ n \in 0..(MaxFiles + 1) /\ n + 1 \in 0..(MaxFiles + 1)
      /\ n + 2 \in 0..(MaxFiles + 1) /\ 0 \in 0..(MaxFiles + 1)
      /\ (n + 1) + 1 = n + 2 /\ n # n + 1 /\ n + 1 # n + 2 /\ n + 1 # 0
      /\ \A g \in 0..MaxFiles : g \in 0..(MaxFiles + 1) /\ g + 1 \in 0..(MaxFiles + 1)
  BY <1>1
<1>6. PICK cut \in Cuts : Orderly(p, cut, n + 1)
  BY <1>2, <1>4, WriterAlone
<1>7. /\ Len(files'[p][n]) = 0
      /\ files'[p][n + 1] = files[p][n]
      /\ \A g \in (0..MaxFiles) \ {n, n + 1} : files'[p][g] = files[p][g]
  <2>1. files' = [files EXCEPT ![p] = Moved(@, n)]
    BY <1>4 DEF Shift
  <2> DEFINE old == files[p]
  <2>2. files'[p] = Moved(old, n)
    BY <1>1, <2>1
  <2>3. old \in [0..MaxFiles -> Seq(Entries)] /\ Len(old[n + 1]) = 0
    BY <1>1, <1>5, <1>6 DEF Orderly
  <2> HIDE DEF old
  <2>4. CASE old[n] = <<>>
    <3>1. old[n + 1] = <<>>
      BY <1>5, <2>3
    <3> QED BY <2>2, <2>4, <3>1 DEF Moved, old
  <2>5. CASE old[n] # <<>>
    <3>1. Moved(old, n) = [old EXCEPT ![n] = <<>>, ![n + 1] = old[n]]
      BY <2>5 DEF Moved
    <3>2. /\ Moved(old, n)[n] = <<>> /\ Moved(old, n)[n + 1] = old[n]
          /\ \A g \in (0..MaxFiles) \ {n, n + 1} : Moved(old, n)[g] = old[g]
      BY <1>5, <2>3, <3>1
    <3> QED BY <2>2, <3>2 DEF old
  <2> QED BY <2>4, <2>5
<1>8. PICK hole \in 0..MaxFiles : hole = n /\ IsHole(p, hole)'
  <2>1. CASE n = 0
    <3>1. Goes(e, "appending", 0)
      BY <1>4, <2>1 DEF Shift
    <3>2. job'[e].stage = "appending" /\ job'[e].path = p
          /\ \A f \in Entries \ {e} : job'[f].stage = "none"
      BY <1>1, <1>3, <3>1, JobGoes DEF Stages
    <3> QED BY <1>5, <2>1, <3>2, HoleMoves
  <2>2. CASE n # 0
    <3>1. Goes(e, "shifting", n - 1) /\ n - 1 \in 0..MaxFiles
      BY <1>1, <1>4, <2>2 DEF Shift
    <3>2. /\ job'[e].stage = "shifting" /\ job'[e].at = n - 1 /\ job'[e].path = p
          /\ \A f \in Entries \ {e} : job'[f].stage = "none"
      BY <1>1, <1>3, <3>1, JobGoes DEF Stages
    <3>3. n = IF job'[e].stage = "shifting" THEN job'[e].at + 1 ELSE 0
      BY <3>2
    <3> QED BY <1>5, <3>2, <3>3, HoleMoves
  <2> QED BY <2>1, <2>2
<1>9. /\ cut[n + 1] = cut[n + 2]
      /\ \A g \in 0..(MaxFiles + 1) : cut[g] \in Nat /\ cut[g] <= cut[0]
  <2>1. cut[n + 1] - cut[(n + 1) + 1] = 0
    BY <1>5, <1>6 DEF Orderly, Segments
  <2>2. \A g \in 0..(MaxFiles + 1) : cut[g] \in Nat /\ cut[g] <= cut[0]
    BY <1>6 DEF Orderly, Segments, Cuts
  <2>3. cut[n + 1] \in Nat /\ cut[n + 2] \in Nat
    BY <1>5, <2>2
  <2> QED BY <1>5, <2>1, <2>2, <2>3
<1> DEFINE cut2 == [cut EXCEPT ![n + 1] = cut[n]]
<1>10. /\ cut2 \in Cuts /\ cut2[n + 1] = cut[n]
       /\ \A g \in (0..(MaxFiles + 1)) \ {n + 1} : cut2[g] = cut[g]
  <2>1. cut[n] \in Nat /\ DOMAIN cut = 0..(MaxFiles + 1)
    BY <1>5, <1>9 DEF Cuts
  <2> QED BY <1>5, <2>1 DEF Cuts
<1> HIDE DEF cut2
<1>11. Segments(p, cut2)'
  <2>1. cut2[0] = cut[0] /\ cut[0] = Len(written'[p])
    BY <1>2, <1>5, <1>6, <1>10 DEF Orderly, Segments
  <2>2. ASSUME NEW g \in 0..(MaxFiles + 1) PROVE cut2[g] <= cut2[0]
    <3>1. cut2[g] \in {cut[g], cut[n]}
      BY <1>10
    <3> QED BY <1>5, <1>9, <2>1, <3>1
  <2>3. ASSUME NEW g \in 0..MaxFiles
        PROVE  /\ cut2[g] - cut2[g + 1] = Len(files'[p][g])
               /\ \A i \in 1..Len(files'[p][g]) : files'[p][g][i] = written'[p][cut2[g + 1] + i]
    <3>1. CASE g = n
      <4>1. cut2[g] = cut[n] /\ cut2[g + 1] = cut[n]
        BY <1>5, <1>10, <3>1
      <4> QED BY <1>5, <1>7, <1>9, <3>1, <4>1
    <3>2. CASE g = n + 1
      <4>1. cut2[g] = cut[n] /\ cut2[g + 1] = cut[n + 1]
        BY <1>5, <1>9, <1>10, <3>2
      <4>2. files'[p][g] = files[p][n] /\ written'[p] = written[p]
        BY <1>2, <1>7, <3>2
      <4>3. /\ cut[n] - cut[n + 1] = Len(files[p][n])
            /\ \A i \in 1..Len(files[p][n]) : files[p][n][i] = written[p][cut[n + 1] + i]
        BY <1>5, <1>6 DEF Orderly, Segments
      <4> QED BY <4>1, <4>2, <4>3
    <3>3. CASE g \notin {n, n + 1}
      <4>1. cut2[g] = cut[g] /\ cut2[g + 1] = cut[g + 1] /\ files'[p][g] = files[p][g]
        <5>1. g # n + 1 /\ g + 1 # n + 1
          BY <1>5, <3>3
        <5> QED BY <1>5, <1>7, <1>10, <3>3, <5>1
      <4> QED BY <1>2, <1>6, <4>1 DEF Orderly, Segments
    <3> QED BY <3>1, <3>2, <3>3
  <2> QED BY <2>1, <2>2, <2>3 DEF Segments
<1>12. ASSUME faults' = 0 PROVE WholeBut(p, cut2, hole)'
  <2>1. WholeBut(p, cut, n + 1)
    BY <1>2, <1>6, <1>12 DEF Orderly
  <2>2. Full(p, 0)
    BY <1>2, <2>1 DEF WholeBut, Rotates
  <2>3. /\ Full(p, n + 1)' <=> Full(p, n)
        /\ Len(files'[p][n + 1]) = Len(files[p][n])
        /\ \A g \in (0..MaxFiles) \ {n, n + 1} :
              (Full(p, g)' <=> Full(p, g)) /\ Len(files'[p][g]) = Len(files[p][g])
    BY <1>7 DEF Full
  <2>4. n # 0 => n \in (1..MaxFiles) \ {n + 1}
    BY <1>1
  <2>5. \A g \in (1..MaxFiles) \ {n} : Len(files'[p][g]) = 0 \/ Full(p, g)'
    <3> SUFFICES ASSUME NEW g \in (1..MaxFiles) \ {n} PROVE Len(files'[p][g]) = 0 \/ Full(p, g)'
      OBVIOUS
    <3>1. CASE g = n + 1
      BY <2>1, <2>2, <2>3, <2>4, <3>1 DEF WholeBut
    <3>2. CASE g # n + 1
      BY <2>1, <2>3, <3>2 DEF WholeBut
    <3> QED BY <3>1, <3>2
  <2>6. ASSUME NEW g \in (1..MaxFiles) \ {n}, NEW k \in (1..MaxFiles) \ {n}, g < k, Full(p, k)'
        PROVE  Full(p, g)'
    <3>1. CASE g = n + 1
      <4>1. Full(p, k) /\ k \in (1..MaxFiles) \ {n + 1} /\ n < k
        BY <1>5, <2>3, <2>6, <3>1
      <4> QED BY <2>1, <2>2, <2>3, <2>4, <3>1, <4>1 DEF WholeBut
    <3>2. CASE k = n + 1
      <4>1. Full(p, n) /\ g \in (1..MaxFiles) \ {n + 1} /\ n # 0 /\ g < n
        BY <1>5, <2>3, <2>6, <3>2
      <4>2. Full(p, g)
        BY <2>1, <2>4, <4>1 DEF WholeBut
      <4> QED BY <2>3, <4>1, <4>2
    <3>3. CASE n + 1 \notin {g, k}
      BY <2>1, <2>3, <2>6, <3>3 DEF WholeBut
    <3> QED BY <3>1, <3>2, <3>3
  <2>7. ASSUME cut2[MaxFiles + 1] > 0, NEW g \in (1..MaxFiles) \ {n} PROVE Full(p, g)'
    <3>1. cut[MaxFiles + 1] > 0
      BY <1>1, <1>10, <2>7
    <3>2. CASE g = n + 1
      BY <2>1, <2>2, <2>3, <2>4, <3>1, <3>2 DEF WholeBut
    <3>3. CASE g # n + 1
      BY <2>1, <2>3, <3>1, <3>3 DEF WholeBut
    <3> QED BY <3>2, <3>3
  <2>8. (\E f \in Entries : Rotates(f, p)') => Full(p, 0)'
    <3>1. CASE n = 0
      <4>1. Goes(e, "appending", 0)
        BY <1>4, <3>1 DEF Shift
      <4>2. \A f \in Entries : job'[f].stage \in {"none", "appending"}
        BY <1>1, <1>3, <4>1, JobGoes DEF Stages
      <4> QED BY <4>2 DEF Rotates
    <3>2. CASE n # 0
      BY <1>1, <2>2, <2>3, <3>2
    <3> QED BY <3>1, <3>2
  <2> QED BY <1>8, <2>5, <2>6, <2>7, <2>8 DEF WholeBut
<1>13. hole # 0 => Len(files'[p][hole]) = 0
  BY <1>7, <1>8
<1>14. Orderly(p, cut2, hole)'
  BY <1>8, <1>11, <1>12, <1>13 DEF Orderly
<1> QED BY <1>10, <1>14

\* A line goes to the end of the file and to the end of what was written.
LEMMA AppendKeepsOrder ==
  ASSUME LockInv, TrailInv, ~orphaned, NEW e \in Entries, AppendLine(e),
         NEW p \in Paths, p = job[e].path
  PROVE  \E cut \in Cuts, hole \in 0..MaxFiles : Orderly(p, cut, hole)'
<1>1. /\ job \in [Entries -> Job] /\ MaxFiles \in Nat \ {0} /\ FileLimit \in Nat \ {0}
      /\ files \in [Paths -> [0..MaxFiles -> Seq(Entries)]]
      /\ written \in [Paths -> Seq(Entries)]
  BY AuditLogAssumption DEF LockInv, TypeOK, Job, Stages
<1>2. job[e].stage = "appending" /\ faults' = faults
  BY DEF AppendLine
<1>3. PICK cut \in Cuts : Orderly(p, cut, 0)
  BY <1>2, WriterAlone
<1>4. \A f \in Entries : job'[f].stage = "none"
  BY <1>1, <1>2, WriterAlone, JobEnds DEF AppendLine
<1>5. /\ files'[p][0] = Append(files[p][0], e)
      /\ \A g \in 1..MaxFiles : files'[p][g] = files[p][g]
      /\ written'[p] = Append(written[p], e)
  <2>1. /\ files' = [files EXCEPT ![p][0] = Append(files[p][0], e)]
        /\ written' = [written EXCEPT ![p] = Append(written[p], e)]
    BY DEF AppendLine
  <2>2. files[p] \in [0..MaxFiles -> Seq(Entries)] /\ 0 \in 0..MaxFiles
    BY <1>1
  <2>3. files'[p] = [files[p] EXCEPT ![0] = Append(files[p][0], e)]
    BY <1>1, <2>1
  <2>4. written'[p] = Append(written[p], e)
    BY <1>1, <2>1
  <2>5. files'[p][0] = Append(files[p][0], e)
    BY <2>2, <2>3
  <2>6. \A g \in 1..MaxFiles : files'[p][g] = files[p][g]
    BY <1>1, <2>2, <2>3
  <2> QED BY <2>4, <2>5, <2>6
<1>6. files[p][0] \in Seq(Entries) /\ written[p] \in Seq(Entries)
  BY <1>1
<1> DEFINE cut2 == [cut EXCEPT ![0] = cut[0] + 1]
<1>7. /\ \A g \in 0..(MaxFiles + 1) : cut[g] \in Nat /\ cut[g] <= cut[0]
      /\ cut[0] = Len(written[p])
  BY <1>3 DEF Orderly, Segments, Cuts
<1>8. 0 \in 0..(MaxFiles + 1) /\ 1 \in 0..(MaxFiles + 1) /\ 0 \in 0..MaxFiles
  BY <1>1
<1>9. /\ cut2 \in Cuts /\ cut2[0] = cut[0] + 1
      /\ \A g \in 1..(MaxFiles + 1) : cut2[g] = cut[g]
  BY <1>7, <1>8 DEF Cuts
<1> HIDE DEF cut2
<1>10. \A n \in 1..Len(written[p]) : written'[p][n] = written[p][n]
  BY <1>5, <1>6
<1>11. Segments(p, cut2)'
  <2>1. cut2[0] = Len(written'[p])
    BY <1>5, <1>6, <1>7, <1>9
  <2>2. ASSUME NEW g \in 0..(MaxFiles + 1) PROVE cut2[g] <= cut2[0]
    BY <1>7, <1>8, <1>9
  <2>3. ASSUME NEW g \in 0..MaxFiles
        PROVE  /\ cut2[g] - cut2[g + 1] = Len(files'[p][g])
               /\ \A i \in 1..Len(files'[p][g]) : files'[p][g][i] = written'[p][cut2[g + 1] + i]
    <3>1. /\ cut[g] - cut[g + 1] = Len(files[p][g])
          /\ \A i \in 1..Len(files[p][g]) : files[p][g][i] = written[p][cut[g + 1] + i]
          /\ cut[g] \in Nat /\ cut[g + 1] \in Nat /\ cut[g] <= Len(written[p])
      BY <1>1, <1>3, <1>7 DEF Orderly, Segments
    <3>2. cut2[g + 1] = cut[g + 1] /\ files[p][g] \in Seq(Entries)
      BY <1>1, <1>9
    <3>3. \A i \in 1..Len(files[p][g]) : files[p][g][i] = written'[p][cut2[g + 1] + i]
      <4> SUFFICES ASSUME NEW i \in 1..Len(files[p][g])
                   PROVE  files[p][g][i] = written'[p][cut2[g + 1] + i]
        OBVIOUS
      <4>1. cut[g + 1] + i \in 1..Len(written[p])
        <5>1. Len(written[p]) \in Nat
          BY <1>6, LenProperties
        <5>2. Len(files[p][g]) \in Nat
          BY <3>2, LenProperties
        <5>3. cut[g + 1] + i <= cut[g] /\ cut[g + 1] + i >= 1 /\ cut[g + 1] + i \in Nat
          <6>1. \A a, b, n \in Nat : a - b = n => \A j \in 1..n : b + j <= a /\ b + j >= 1 /\ b + j \in Nat
            OBVIOUS
          <6>2. /\ cut[g] \in Nat /\ cut[g + 1] \in Nat
                /\ cut[g] - cut[g + 1] = Len(files[p][g])
            BY <3>1
          <6> QED BY <5>2, <6>1, <6>2, Zenon
        <5> QED BY <3>1, <5>1, <5>3
      <4>2. files[p][g][i] = written[p][cut[g + 1] + i]
        BY <3>1
      <4> QED BY <1>10, <3>2, <4>1, <4>2
    <3>4. CASE g = 0
      <4> DEFINE old == files[p][0]
                 n == Len(old)
      <4>1. /\ old \in Seq(Entries) /\ n \in Nat /\ cut[0] - cut[1] = n
            /\ cut2[1] = cut[1] /\ cut[1] \in Nat /\ cut[0] \in Nat
        BY <1>6, <3>1, <3>2, <3>4
      <4>2. Len(files'[p][0]) = n + 1 /\ files'[p][0] = Append(old, e)
        BY <1>5, <1>6
      <4>3. \A i \in 1..n : old[i] = written'[p][cut2[1] + i]
        BY <3>3, <3>4
      <4> HIDE DEF old
      <4>4. cut2[0] - cut2[1] = n + 1
        BY <1>9, <4>1
      <4>5. ASSUME NEW i \in 1..(n + 1) PROVE files'[p][0][i] = written'[p][cut2[1] + i]
        <5>1. CASE i \in 1..n
          BY <4>1, <4>2, <4>3, <5>1
        <5>2. CASE i = n + 1
          <6>1. cut2[1] + i = Len(written[p]) + 1
            <7>1. cut[0] = Len(written[p])
              BY <1>7
            <7>2. cut[0] = cut[1] + n
              BY <4>1
            <7> QED BY <4>1, <5>2, <7>1, <7>2
          <6>2. files'[p][0][i] = e
            BY <4>1, <4>2, <5>2
          <6>3. written'[p][Len(written[p]) + 1] = e
            <7>1. PICK before : before = written[p]
              OBVIOUS
            <7>2. before \in Seq(Entries)
              BY <1>6, <7>1
            <7>3. Append(before, e)[Len(before) + 1] = e
              BY ONLY <7>2, AppendProperties
            <7>4. written'[p] = Append(before, e)
              BY <1>5, <7>1
            <7> QED BY <7>1, <7>3, <7>4
          <6> QED BY <6>1, <6>2, <6>3
        <5> QED BY <4>1, <5>1, <5>2
      <4> QED BY <3>4, <4>2, <4>4, <4>5
    <3>5. CASE g # 0
      <4>1. cut2[g] = cut[g] /\ files'[p][g] = files[p][g]
        <5>1. g \in 1..MaxFiles /\ g \in 1..(MaxFiles + 1)
          BY <1>1, <3>5
        <5> QED BY <1>5, <1>9, <5>1
      <4> QED BY <3>1, <3>2, <3>3, <4>1
    <3> QED BY <3>4, <3>5
  <2> QED BY <2>1, <2>2, <2>3 DEF Segments
<1>12. IsHole(p, 0)'
  BY <1>4 DEF IsHole, Shifts
<1>13. ASSUME faults' = 0 PROVE WholeBut(p, cut2, 0)'
  <2>1. WholeBut(p, cut, 0)
    BY <1>2, <1>3, <1>13 DEF Orderly
  <2>2. \A g \in (1..MaxFiles) \ {0} : (Full(p, g)' <=> Full(p, g)) /\ files'[p][g] = files[p][g]
    BY <1>5 DEF Full
  <2>3. cut2[MaxFiles + 1] = cut[MaxFiles + 1]
    BY <1>1, <1>9
  <2>4. \A f \in Entries : ~Rotates(f, p)'
    BY <1>4 DEF Rotates
  <2> QED BY <2>1, <2>2, <2>3, <2>4 DEF WholeBut
<1>14. Orderly(p, cut2, 0)'
  BY <1>11, <1>12, <1>13 DEF Orderly
<1> QED BY <1>8, <1>9, <1>14

\* A write that fails leaves the files as they are.
LEMMA FaultKeepsOrder ==
  ASSUME LockInv, TrailInv, ~orphaned, NEW e \in Entries, Fault(e),
         NEW p \in Paths, p = job[e].path
  PROVE  \E cut \in Cuts, hole \in 0..MaxFiles : Orderly(p, cut, hole)'
<1>1. job \in [Entries -> Job] /\ MaxFiles \in Nat /\ faults \in Nat
  BY AuditLogAssumption DEF LockInv, TypeOK, Job, Stages
<1>2. job[e].stage # "none" /\ files' = files /\ written' = written /\ faults' # 0
  BY <1>1 DEF Fault, trail
<1>3. PICK cut \in Cuts, hole \in 0..MaxFiles : Orderly(p, cut, hole)
  BY <1>2, WriterAlone
<1>4. \A f \in Entries : job'[f].stage = "none"
  BY <1>1, <1>2, WriterAlone, JobEnds DEF Fault
<1>5. IsHole(p, 0)' /\ Segments(p, cut)'
  BY <1>2, <1>3, <1>4 DEF Orderly, IsHole, Segments, Shifts
<1>6. Orderly(p, cut, 0)'
  BY <1>2, <1>5 DEF Orderly
<1> QED BY <1>1, <1>6

LEMMA TrailInit == Init => TrailInv
<1> SUFFICES ASSUME Init, NEW p \in Paths
             PROVE  \E cut \in Cuts, hole \in 0..MaxFiles : Orderly(p, cut, hole)
  BY DEF TrailInv
<1> DEFINE zero == [g \in 0..(MaxFiles + 1) |-> 0]
<1>1. MaxFiles \in Nat \ {0} /\ zero \in Cuts /\ 0 \in 0..MaxFiles
  BY AuditLogAssumption DEF Cuts
<1>2. \A e \in Entries : job[e].stage = "none"
  BY DEF Init, NoJob
<1>3. IsHole(p, 0)
  BY <1>2 DEF IsHole, Shifts
<1>4. Segments(p, zero)
  <2>1. \A g \in 0..(MaxFiles + 1) : zero[g] = 0
    OBVIOUS
  <2>2. \A g \in 0..MaxFiles : g \in 0..(MaxFiles + 1) /\ g + 1 \in 0..(MaxFiles + 1)
    BY <1>1
  <2>3. written[p] = <<>> /\ \A g \in 0..MaxFiles : files[p][g] = <<>>
    BY DEF Init
  <2> HIDE DEF zero
  <2> QED BY <1>1, <2>1, <2>2, <2>3 DEF Segments
<1>5. WholeBut(p, zero, 0)
  <2>1. \A g \in 1..MaxFiles : Len(files[p][g]) = 0 /\ ~Full(p, g)
    BY AuditLogAssumption DEF Init, Full
  <2>2. zero[MaxFiles + 1] = 0
    BY <1>1
  <2> QED BY <1>2, <2>1, <2>2 DEF WholeBut, Rotates
<1>6. Orderly(p, zero, 0)
  BY <1>3, <1>4, <1>5 DEF Orderly
<1> QED BY <1>1, <1>6

\* While no write has outlived its call, every step leaves the generations of every path
\* in order.
LEMMA TrailStep == LockInv /\ TrailInv /\ [Next]_vars => TrailInv'
<1> SUFFICES ASSUME LockInv, TrailInv, [Next]_vars PROVE TrailInv'
  OBVIOUS
<1>0. CASE UNCHANGED vars
  BY <1>0, TrailStays DEF vars, bounds
<1>1. ASSUME NEW e \in Entries, Log(e) \/ CallStep(e) PROVE TrailInv'
  <2>1. trail' = trail /\ faults' = faults /\ orphaned' = orphaned
    BY <1>1 DEF Log, CallStep, ShouldLog, ReadConfig, ReadPath, SpawnWrite, Written, Store, bounds
  <2>2. \A f \in Entries : job'[f] # job[f] =>
           {job[f].stage, job'[f].stage} \cap {"deleting", "shifting"} = {}
    <3>1. CASE job' = job
      BY <3>1
    <3>2. CASE ReadPath(e) \/ SpawnWrite(e)
      <4>1. job \in [Entries -> Job] /\ job[e].stage = "none"
        BY <3>2 DEF LockInv, TypeOK, Writes, Job, Stages, ReadPath, SpawnWrite
      <4>2. \A f \in Entries : f # e => job'[f] = job[f]
        BY <3>2, <4>1 DEF ReadPath, SpawnWrite
      <4>3. job'[e].stage \in {"none", "checking"}
        BY <3>2, <4>1 DEF ReadPath, SpawnWrite, Job
      <4> QED BY <4>1, <4>2, <4>3
    <3> QED BY <1>1, <3>1, <3>2 DEF Log, CallStep, ShouldLog, ReadConfig, Written, Store
  <2> QED BY <2>1, <2>2, TrailStays
<1>2. ASSUME NEW e \in Entries, HangUp(e) PROVE TrailInv'
  <2>1. trail' = trail /\ faults' = faults /\ orphaned' \in {orphaned, TRUE}
    BY <1>2 DEF HangUp
  <2>2. ASSUME ~orphaned' PROVE \A f \in Entries : job'[f] # job[f] =>
           {job[f].stage, job'[f].stage} \cap {"deleting", "shifting"} = {}
    <3>1. job[e].stage = "none" /\ job' = [job EXCEPT ![e] = NoJob]
      BY <1>2, <2>2 DEF HangUp
    <3>2. job \in [Entries -> Job]
      BY DEF LockInv, TypeOK, Job, Stages
    <3> QED BY <3>1, <3>2, JobEnds
  <2> QED BY <2>1, <2>2, TrailStays
<1>3. ASSUME NEW e \in Entries, WriteStep(e) PROVE TrailInv'
  <2> SUFFICES ASSUME ~orphaned', NEW p \in Paths
               PROVE  \E cut \in Cuts, hole \in 0..MaxFiles : Orderly(p, cut, hole)'
    BY DEF TrailInv
  <2>1. ~orphaned /\ job \in [Entries -> Job] /\ faults \in Nat /\ MaxFiles \in Nat \ {0}
    BY <1>3, AuditLogAssumption DEF WriteStep, LockInv, TypeOK, Job, Stages
  <2>2. job[e].stage # "none" /\ job[e].path \in Paths
    BY <1>3 DEF WriteStep, CheckSize, DeleteOldest, Shift, AppendLine, Fault, LockInv, Writes
  <2>3. CASE p = job[e].path
    BY <1>3, <2>1, <2>3, CheckKeepsOrder, DeleteKeepsOrder, ShiftKeepsOrder,
       AppendKeepsOrder, FaultKeepsOrder DEF WriteStep
  <2>4. CASE p # job[e].path
    <3>1. PICK cut \in Cuts, hole \in 0..MaxFiles : Orderly(p, cut, hole)
      BY <2>1 DEF TrailInv
    <3>2. files'[p] = files[p] /\ written'[p] = written[p]
      BY <1>3, <2>4 DEF WriteStep, CheckSize, DeleteOldest, Shift, AppendLine, Fault, trail,
         LockInv, TypeOK
    <3>3. faults' = 0 => faults = 0
      BY <1>3, <2>1 DEF WriteStep, CheckSize, DeleteOldest, Shift, AppendLine, Fault
    <3>4. /\ \A f \in Entries \ {e} : job[f].stage = "none" /\ job'[f] = job[f]
          /\ job'[e].stage = "none" \/ job'[e].path = job[e].path
      <4>1. \A f \in Entries \ {e} : job[f].stage = "none"
        BY <2>1, <2>2, OneWriter
      <4>2. CASE AppendLine(e) \/ Fault(e)
        BY <2>1, <4>1, <4>2, JobEnds DEF AppendLine, Fault
      <4>3. CASE CheckSize(e) \/ DeleteOldest(e) \/ Shift(e)
        <5>1. PICK stage \in Stages, at \in 0..MaxFiles : Goes(e, stage, at)
          <6>1. Shift(e) /\ job[e].at # 0 => job[e].at - 1 \in 0..MaxFiles
            BY <2>1 DEF Shift, LockInv, Writes
          <6>2. 0 \in 0..MaxFiles /\ MaxFiles \in 0..MaxFiles /\ MaxFiles - 1 \in 0..MaxFiles
            BY <2>1
          <6> QED BY <4>3, <6>1, <6>2 DEF CheckSize, DeleteOldest, Shift, Stages
        <5> QED BY <2>1, <4>1, <5>1, JobGoes
      <4> QED BY <1>3, <4>2, <4>3 DEF WriteStep
    <3>5. \A f \in Entries : ~Shifts(f, p) /\ ~Rotates(f, p) /\ ~Shifts(f, p)' /\ ~Rotates(f, p)'
      BY <2>4, <3>4 DEF Shifts, Rotates
    <3>6. Orderly(p, cut, hole)'
      BY <3>1, <3>2, <3>3, <3>5, OrderStays
    <3> QED BY <3>6
  <2> QED BY <2>3, <2>4
<1>4. ASSUME NEW r \in Reloaders, ReloadStep(r) \/ \E c \in Configs : Reload(r, c) PROVE TrailInv'
  BY <1>4, TrailStays DEF ReloadStep, SetPath, SetConfig, Reload, bounds
<1> QED BY <1>0, <1>1, <1>2, <1>3, <1>4 DEF Next

-----------------------------------------------------------------------------
(* What the files of a path hold, put together                              *)

\* The files of a path hold the end of what was written to it, from the last cut on.
LEMMA KeptIsEnd ==
  ASSUME LockInv, NEW p \in Paths, NEW cut \in Cuts, Segments(p, cut)
  PROVE  /\ Kept(p) \in Seq(Entries)
         /\ Len(Kept(p)) = cut[0] - cut[MaxFiles + 1]
         /\ \A k \in 1..Len(Kept(p)) : Kept(p)[k] = written[p][cut[MaxFiles + 1] + k]
<1> DEFINE n    == MaxFiles + 1
           seqs == [i \in 1..(MaxFiles + 1) |-> files[p][MaxFiles + 1 - i]]
           Ends(s, from) ==
             /\ s \in Seq(Entries) /\ Len(s) = cut[from] - cut[n]
             /\ \A k \in 1..Len(s) : s[k] = written[p][cut[n] + k]
<1>1. /\ MaxFiles \in Nat \ {0} /\ n \in Nat \ {0} /\ Len(seqs) = n
      /\ \A g \in 0..n : cut[g] \in Nat
  BY AuditLogAssumption DEF Cuts
<1>2. ASSUME NEW i \in 1..n
      PROVE  /\ n - i \in 0..MaxFiles /\ n - i + 1 = n - (i - 1)
             /\ seqs[i] = files[p][n - i] /\ seqs[i] \in Seq(Entries)
             /\ Len(seqs[i]) = cut[n - i] - cut[n - i + 1]
             /\ \A k \in 1..Len(seqs[i]) : seqs[i][k] = written[p][cut[n - i + 1] + k]
  <2>1. n - i \in 0..MaxFiles /\ n - i + 1 = n - (i - 1) /\ MaxFiles + 1 - i = n - i
    BY <1>1
  <2>2. files[p][n - i] \in Seq(Entries)
    BY <2>1 DEF LockInv, TypeOK
  <2>3. seqs[i] = files[p][n - i]
    BY <2>1
  <2> HIDE DEF seqs, n
  <2> QED BY <2>1, <2>2, <2>3 DEF Segments
<1>3. PICK flat : Flattens(flat, seqs, n) /\ FlattenSeq(seqs) = flat[n]
  BY <1>1, FlattenSteps
<1>4. Kept(p) = flat[n]
  BY <1>3 DEF Kept
<1> HIDE DEF seqs, n
<1> DEFINE Known == {i \in Nat : i \in 1..n => Ends(flat[i], n - i)}
<1>5. 0 \in Known
  BY <1>1
<1>6. ASSUME NEW i \in Nat, i \in Known PROVE i + 1 \in Known
  <2> SUFFICES ASSUME i + 1 \in 1..n PROVE Ends(flat[i + 1], n - (i + 1))
    OBVIOUS
  <2>1. CASE i = 0
    <3>1. 1 \in 1..n /\ n - 1 + 1 = n
      BY <1>1
    <3>2. flat[1] = seqs[1]
      BY <1>3, <3>1, Zenon DEF Flattens
    <3> QED BY <1>2, <2>1, <3>1, <3>2
  <2>2. CASE i # 0
    <3>1. i \in 1..n /\ i + 1 # 1 /\ (i + 1) - 1 = i
      BY <1>1, <2>2
    <3>2. flat[i + 1] = flat[i] \o seqs[i + 1]
      BY <1>3, <3>1, Zenon DEF Flattens
    <3>3. Ends(flat[i], n - i)
      BY <1>6, <3>1
    <3> DEFINE a == flat[i]
               b == seqs[i + 1]
    <3>4. /\ b \in Seq(Entries) /\ Len(b) = cut[n - (i + 1)] - cut[n - i]
          /\ \A k \in 1..Len(b) : b[k] = written[p][cut[n - i] + k]
      BY <1>2, <3>1
    <3>5. /\ a \in Seq(Entries) /\ Len(a) = cut[n - i] - cut[n]
          /\ \A k \in 1..Len(a) : a[k] = written[p][cut[n] + k]
      BY <3>3
    <3>6. /\ cut[n] \in Nat /\ cut[n - i] \in Nat /\ cut[n - (i + 1)] \in Nat
      <4>1. n \in 0..n /\ n - i \in 0..n /\ n - (i + 1) \in 0..n
        BY <1>1, <3>1
      <4> QED BY <1>1, <4>1
    <3> HIDE DEF a, b
    <3>7. a \o b \in Seq(Entries) /\ Len(a \o b) = cut[n - (i + 1)] - cut[n]
      <4>1. a \o b \in Seq(Entries) /\ Len(a \o b) = Len(a) + Len(b)
        BY <3>4, <3>5
      <4>2. Len(a) + Len(b) = cut[n - (i + 1)] - cut[n]
        BY <3>4, <3>5, <3>6
      <4> QED BY <4>1, <4>2
    <3>8. ASSUME NEW k \in 1..Len(a \o b) PROVE (a \o b)[k] = written[p][cut[n] + k]
      <4>1. CASE k <= Len(a)
        BY <3>4, <3>5, <4>1
      <4>2. CASE k > Len(a)
        <5>1. (a \o b)[k] = b[k - Len(a)] /\ k - Len(a) \in 1..Len(b)
          BY <3>4, <3>5, <4>2
        <5>2. cut[n - i] + (k - Len(a)) = cut[n] + k
          <6>1. Len(a) \in Nat
            BY <3>5
          <6>2. k \in Nat
            BY <3>4, <3>5
          <6> QED BY <3>5, <3>6, <6>1, <6>2
        <5> QED BY <3>4, <5>1, <5>2
      <4> QED BY <3>5, <4>1, <4>2
    <3> QED BY <3>2, <3>7, <3>8 DEF a, b
  <2> QED BY <2>1, <2>2
<1> HIDE DEF Known
<1>7. n \in Known
  BY <1>1, <1>5, <1>6, HoldsAllNaturals
<1>8. Ends(flat[n], 0)
  BY <1>1, <1>7 DEF Known
<1> QED BY <1>4, <1>8 DEF n

\* A sequence that ends as another does is its suffix.
LEMMA EndIsSuffix ==
  ASSUME NEW T, NEW s \in Seq(T), NEW t \in Seq(T), NEW c \in Nat, Len(s) = Len(t) - c,
         \A k \in 1..Len(s) : s[k] = t[c + k]
  PROVE  IsSuffix(s, t)
<1> DEFINE m == Len(s)
           n == Len(t)
           back == Reverse(s)
           forth == Reverse(t)
<1>1. m \in Nat /\ n \in Nat /\ m <= n /\ n = m + c
  OBVIOUS
<1>2. /\ back \in Seq(T) /\ Len(back) = m
      /\ \A i \in 1..m : back[i] = s[(m - i) + 1]
  BY DEF Reverse
<1>3. /\ forth \in Seq(T) /\ Len(forth) = n
      /\ \A i \in 1..n : forth[i] = t[(n - i) + 1]
  BY DEF Reverse
<1>4. ASSUME NEW i \in 1..m PROVE back[i] = forth[i]
  <2>1. (m - i) + 1 \in 1..m /\ c + ((m - i) + 1) = (n - i) + 1 /\ i \in 1..n
    BY <1>1
  <2>2. back[i] = t[(n - i) + 1]
    BY <1>2, <2>1
  <2> QED BY <1>3, <2>1, <2>2
<1> HIDE DEF m, n, back, forth
<1>5. SubSeq(back, 1, m) = SubSeq(forth, 1, m)
  <2>1. SubSeq(back, 1, m) \in Seq(T) /\ Len(SubSeq(back, 1, m)) = m
    BY <1>1, <1>2
  <2>2. SubSeq(forth, 1, m) \in Seq(T) /\ Len(SubSeq(forth, 1, m)) = m
    BY <1>1, <1>3
  <2>3. ASSUME NEW i \in 1..m PROVE SubSeq(back, 1, m)[i] = SubSeq(forth, 1, m)[i]
    <3>1. SubSeq(back, 1, m)[i] = back[i] /\ i \in 1..Len(back)
      BY <1>1, <1>2
    <3>2. SubSeq(forth, 1, m)[i] = forth[i]
      BY <1>1, <1>3
    <3> QED BY <1>4, <3>1, <3>2
  <2> QED BY <2>1, <2>2, <2>3, SeqEqual
<1> QED BY <1>1, <1>2, <1>3, <1>5 DEF IsSuffix, IsPrefix, back, forth

\* Lengths that follow one another add up: of so many pieces all but one are long.
LEMMA PiecesAddUp ==
  ASSUME NEW n \in Nat \ {0}, NEW limit \in Nat, NEW short \in 0..(n - 1),
         NEW f \in [0..n -> Nat],
         \A g \in 0..(n - 1) : f[g] >= f[g + 1] /\ (g # short => f[g] - f[g + 1] >= limit)
  PROVE  f[0] - f[n] >= (n - 1) * limit
<1> DEFINE Long(g) == IF g > short THEN g - 1 ELSE g
           Known == {g \in Nat : g \in 0..n => f[0] - f[g] >= Long(g) * limit}
<1>1. 0 \in Known
  <2>1. f[0] \in Nat /\ Long(0) = 0 /\ 0 * limit = 0
    OBVIOUS
  <2> QED BY <2>1
<1>2. ASSUME NEW g \in Nat, g \in Known PROVE g + 1 \in Known
  <2> SUFFICES ASSUME g + 1 \in 0..n PROVE f[0] - f[g + 1] >= Long(g + 1) * limit
    OBVIOUS
  <2>1. /\ g \in 0..(n - 1) /\ f[0] \in Nat /\ f[g] \in Nat /\ f[g + 1] \in Nat
        /\ f[0] - f[g] >= Long(g) * limit
    BY <1>2
  <2>2. CASE g = short
    BY <2>1, <2>2
  <2>3. CASE g # short
    <3>1. Long(g + 1) = Long(g) + 1 /\ Long(g) \in Nat
      BY <2>1, <2>3
    <3>2. (Long(g) + 1) * limit = Long(g) * limit + limit /\ Long(g) * limit \in Nat
      BY <3>1
    <3>3. f[g] - f[g + 1] >= limit
      BY <2>1, <2>3
    <3> HIDE DEF Long
    <3> QED BY <2>1, <3>1, <3>2, <3>3, SMTT(20)
  <2> QED BY <2>2, <2>3
<1> HIDE DEF Known
<1>3. n \in Known
  BY <1>1, <1>2, HoldsAllNaturals
<1>4. Long(n) = n - 1 /\ n \in 0..n
  OBVIOUS
<1> QED BY <1>3, <1>4 DEF Known

\* audit.rs, rotate_logs_blocking under file_lock: the files of a path hold an unbroken
\* end of what was written to it, each line once and in order; and as long as no file
\* operation fails, a line is given up only when max_rotated_files full files of later
\* lines are kept.
THEOREM TrailIsKeptAlways == Spec => []TrailIsKept
<1>1. LockInv /\ TrailInv => TrailUnbroken
  <2> SUFFICES ASSUME LockInv, TrailInv, ~orphaned, NEW p \in Paths
               PROVE  IsSuffix(Kept(p), written[p])
    BY DEF TrailUnbroken
  <2>1. PICK cut \in Cuts : Segments(p, cut)
    BY DEF TrailInv, Orderly
  <2>2. MaxFiles + 1 \in 0..(MaxFiles + 1)
    BY AuditLogAssumption
  <2>3. cut[MaxFiles + 1] \in Nat
    BY <2>2 DEF Cuts
  <2>4. written[p] \in Seq(Entries)
    BY DEF LockInv, TypeOK
  <2>5. Len(Kept(p)) = Len(written[p]) - cut[MaxFiles + 1]
    BY <2>1, KeptIsEnd DEF Segments
  <2> QED BY <2>1, <2>3, <2>4, <2>5, KeptIsEnd, EndIsSuffix
<1>2. LockInv /\ TrailInv => KeepsItsGenerations
  <2> SUFFICES ASSUME LockInv, TrailInv, ~orphaned, faults = 0, NEW p \in Paths,
                      Len(Kept(p)) < Len(written[p])
               PROVE  Len(Kept(p)) >= MaxFiles * FileLimit
    BY DEF KeepsItsGenerations, GivesUpOldest
  <2>1. PICK cut \in Cuts, hole \in 0..MaxFiles : Orderly(p, cut, hole)
    BY DEF TrailInv
  <2> DEFINE n == MaxFiles + 1
  <2>2. /\ MaxFiles \in Nat \ {0} /\ FileLimit \in Nat /\ n \in Nat \ {0} /\ n - 1 = MaxFiles
        /\ cut \in [0..n -> Nat] /\ cut[0] \in Nat /\ cut[n] \in Nat
    <3>1. MaxFiles \in Nat \ {0} /\ FileLimit \in Nat
      BY AuditLogAssumption
    <3>2. n \in Nat \ {0} /\ n - 1 = MaxFiles /\ 0 \in 0..n /\ n \in 0..n
      BY <3>1
    <3>3. cut \in [0..n -> Nat]
      BY DEF Cuts
    <3> QED BY <3>1, <3>2, <3>3
  <2>3. Len(Kept(p)) = cut[0] - cut[n] /\ cut[0] = Len(written[p])
    BY <2>1, KeptIsEnd DEF Orderly, Segments
  <2>4. cut[n] > 0
    BY <2>2, <2>3
  <2>5. \A g \in (1..MaxFiles) \ {hole} : Full(p, g)
    BY <2>1, <2>4 DEF Orderly, WholeBut
  <2>6. hole # 0 => Full(p, 0)
    <3> SUFFICES ASSUME hole # 0 PROVE \E e \in Entries : Rotates(e, p)
      BY <2>1 DEF Orderly, WholeBut
    <3>1. PICK e \in Entries : Shifts(e, p)
      BY <2>1 DEF Orderly, IsHole
    <3> QED BY <3>1 DEF Shifts, Rotates
  <2>7. ASSUME NEW g \in 0..MaxFiles
        PROVE  cut[g] >= cut[g + 1] /\ (g # hole => cut[g] - cut[g + 1] >= FileLimit)
    <3>1. g + 1 \in 0..n /\ g \in 0..n
      BY <2>2
    <3>2. cut[g] \in Nat /\ cut[g + 1] \in Nat
      BY <2>2, <3>1
    <3>3. cut[g] - cut[g + 1] = Len(files[p][g])
      BY <2>1 DEF Orderly, Segments
    <3>4. files[p][g] \in Seq(Entries)
      BY DEF LockInv, TypeOK
    <3>5. g # hole => Full(p, g)
      BY <2>5, <2>6
    <3> QED BY <3>2, <3>3, <3>4, <3>5 DEF Full
  <2> HIDE DEF n
  <2>8. cut[0] - cut[n] >= (n - 1) * FileLimit
    BY <2>2, <2>7, PiecesAddUp
  <2> QED BY <2>2, <2>3, <2>8
<1> QED BY <1>1, <1>2, LockInit, LockStep, TrailInit, TrailStep, PTL DEF Spec, TrailIsKept

\* The audit logger's types: the ring never holds more than MAX_MEMORY_ENTRIES, a queue
\* only calls and reloads, a file only lines that calls have written.
THEOREM AuditTypes == Spec => []TypeOK
<1>1. LockInv => TypeOK
  BY DEF LockInv
<1> QED BY <1>1, LockInit, LockStep, PTL DEF Spec
=============================================================================
