------------------------------ MODULE AuditLog ------------------------------
(***************************************************************************)
(* The audit logger (audit.rs): calls of AuditLogger::log by the handlers  *)
(* of the management API, the blocking write of one line with its rotation *)
(* of the log files, and apply_config, by which a reload (state.rs)        *)
(* changes the settings while entries are being written.                   *)
(*                                                                         *)
(* A handler's future is dropped when its client hangs up: its lock guards *)
(* go, and a blocking write it has begun goes on without them.             *)
(***************************************************************************)
EXTENDS Naturals, FiniteSets, SequencesExt

(* A definition named Step_Slip is Step with the slip made: it is no part of  *)
(* the specification, and shows which property would notice.                  *)

CONSTANTS Paths,        \* log files
          NoFile,       \* audit.log_file is not set
          Configs,      \* audit sections: [wanted, file]
          Reloaders,    \* the watcher and the API's reload
          MaxFiles,     \* max_rotated_files
          FileLimit,    \* lines that make up max_file_size_bytes
          RingSize,     \* MAX_MEMORY_ENTRIES
          MaxEntries,   \* bound: calls of log
          MaxCalls,     \* bound: calls of log under way at once
          MaxReloads,   \* bound: calls of apply_config
          MaxMishaps    \* bound: failed file operations and clients' hang-ups

ASSUME AuditLogAssumption ==
    /\ NoFile \notin Paths
    /\ Reloaders \cap (1..MaxEntries) = {}
    /\ Configs \subseteq [wanted : BOOLEAN, file : Paths \cup {NoFile}]
    /\ {MaxFiles, FileLimit, RingSize} \subseteq Nat \ {0}
    /\ {MaxEntries, MaxCalls, MaxReloads, MaxMishaps} \subseteq Nat

\* An entry stands for the call of log that records it.
Entries == 1..MaxEntries

VARIABLES
    config,    \* AuditLogger.config
    path,      \* AuditLogger.log_file_path
    locks,     \* who holds or waits for the locks of the two and for file_lock
    pc,        \* where the call for each entry is
    job,       \* the blocking write of each entry
    files,     \* for each path the file itself (0) and its rotated generations
    ring,      \* AuditLogger.entries
    reload,    \* where each reload is
    new,       \* the audit section each reload has read
    started,   \* calls of log so far
    reloads, faults, hangUps,
    written,   \* history: the lines written to each path, in order
    orphaned   \* history: a write has outlived its call

settings == <<config, path>>
trail    == <<files, written>>
reloader == <<reload, new>>
bounds   == <<started, reloads, faults, hangUps>>
vars == <<settings, locks, pc, job, trail, ring, reloader, bounds, orphaned>>

-----------------------------------------------------------------------------
(* tokio's locks are fair: requests are granted in the order in which they     *)
(* came, a run of readers together, a writer alone.                            *)

Locks == {"config", "path", "file"}

Shares(lock, t) == lock # "file" /\ t \in Entries

Holds(lock, t) ==
    \E i \in DOMAIN locks[lock] :
        /\ locks[lock][i] = t
        /\ i = 1 \/ \A j \in 1..i : Shares(lock, locks[lock][j])

\* The locks after t has released some and asked for others; it has one place in the
\* queue of a lock at most.
Relocked(t, released, wanted) ==
    [l \in Locks |->
        LET left == IF l \in released THEN RemoveFirst(locks[l], t) ELSE locks[l]
        IN  IF l \in wanted THEN Append(left, t) ELSE left]

Relock(t, released, wanted) == locks' = Relocked(t, released, wanted)

-----------------------------------------------------------------------------

NoJob == [stage |-> "none", at |-> 0, path |-> NoFile]

Init ==
    /\ config \in Configs
    /\ path = config.file
    /\ locks = [l \in Locks |-> <<>>]
    /\ pc = [e \in Entries |-> "idle"]
    /\ job = [e \in Entries |-> NoJob]
    /\ files = [p \in Paths |-> [g \in 0..MaxFiles |-> <<>>]]
    /\ ring = <<>>
    /\ reload = [r \in Reloaders |-> "idle"]
    /\ new = [r \in Reloaders |-> config]
    /\ started = 0
    /\ reloads = 0
    /\ faults = 0
    /\ hangUps = 0
    /\ written = [p \in Paths |-> <<>>]
    /\ orphaned = FALSE

GoTo(e, stage) == pc' = [pc EXCEPT ![e] = stage]

UnderWay == {e \in Entries : pc[e] \notin {"idle", "returned"}}

-----------------------------------------------------------------------------
(* AuditLogger::log *)

Log(e) ==
    /\ e = started + 1
    /\ Cardinality(UnderWay) < MaxCalls
    /\ started' = e
    /\ GoTo(e, "filtering")
    /\ Relock(e, {}, {"config"})
    /\ UNCHANGED <<settings, job, trail, ring, reloader, reloads, faults,
                   hangUps, orphaned>>

\* should_log reads the settings under a guard of its own, which it gives back
\* before log asks for the second one.
ShouldLog(e) ==
    /\ pc[e] = "filtering"
    /\ Holds("config", e)
    /\ \/ /\ ~config.wanted
          /\ GoTo(e, "returned")
          /\ Relock(e, {"config"}, {})
       \/ /\ config.wanted
          /\ GoTo(e, "configuring")
          /\ Relock(e, {"config"}, {"config"})
    /\ UNCHANGED <<settings, job, trail, ring, reloader, bounds, orphaned>>

ReadConfig(e) ==
    /\ pc[e] = "configuring"
    /\ Holds("config", e)
    /\ GoTo(e, "locating")
    /\ Relock(e, {}, {"path"})
    /\ UNCHANGED <<settings, job, trail, ring, reloader, bounds, orphaned>>

\* Both guards are held until the line is written.
ReadPath_ReleasesGuards(e) ==
    /\ pc[e] = "locating"
    /\ Holds("path", e)
    /\ \/ /\ path = NoFile
          /\ GoTo(e, "storing")
          /\ Relock(e, {"config", "path"}, {})
       \/ /\ path # NoFile
          /\ GoTo(e, "queueing")
          /\ Relock(e, {"config", "path"}, {"file"})
    /\ job' = [job EXCEPT ![e].path = path]
    /\ UNCHANGED <<settings, trail, ring, reloader, bounds, orphaned>>
ReadPath(e) ==
    /\ pc[e] = "locating"
    /\ Holds("path", e)
    /\ \/ /\ path = NoFile
          /\ GoTo(e, "storing")
          /\ Relock(e, {"config", "path"}, {})
       \/ /\ path # NoFile
          /\ GoTo(e, "queueing")
          /\ Relock(e, {}, {"file"})
    /\ job' = [job EXCEPT ![e].path = path]
    /\ UNCHANGED <<settings, trail, ring, reloader, bounds, orphaned>>

SpawnWrite_Unlocked(e) ==
    /\ pc[e] = "queueing"
    /\ GoTo(e, "writing")
    /\ job' = [job EXCEPT ![e].stage = "checking"]
    /\ UNCHANGED <<settings, locks, trail, ring, reloader, bounds, orphaned>>
SpawnWrite(e) ==
    /\ pc[e] = "queueing"
    /\ Holds("file", e)
    /\ GoTo(e, "writing")
    /\ job' = [job EXCEPT ![e].stage = "checking"]
    /\ UNCHANGED <<settings, locks, trail, ring, reloader, bounds, orphaned>>

\* A failed write is warned about and the entry kept in memory all the same.
Written(e) ==
    /\ pc[e] = "writing"
    /\ job[e].stage = "none"
    /\ GoTo(e, "storing")
    /\ Relock(e, Locks, {})
    /\ UNCHANGED <<settings, job, trail, ring, reloader, bounds, orphaned>>

\* The newest entry is in front.
Store_OneMore(e) ==
    /\ pc[e] = "storing"
    /\ GoTo(e, "returned")
    /\ ring' = <<e>> \o IF Len(ring) > RingSize THEN Front(ring) ELSE ring
    /\ UNCHANGED <<settings, locks, job, trail, reloader, bounds, orphaned>>
Store(e) ==
    /\ pc[e] = "storing"
    /\ GoTo(e, "returned")
    /\ ring' = <<e>> \o IF Len(ring) >= RingSize THEN Front(ring) ELSE ring
    /\ UNCHANGED <<settings, locks, job, trail, reloader, bounds, orphaned>>

\* The handler's future is dropped: its guards and its places in the queues go,
\* its blocking write does not.
HangUp(e) ==
    /\ faults + hangUps < MaxMishaps
    /\ e \in UnderWay
    /\ hangUps' = hangUps + 1
    /\ GoTo(e, "returned")
    /\ Relock(e, Locks, {})
    /\ IF job[e].stage = "none"
       THEN job' = [job EXCEPT ![e] = NoJob] /\ UNCHANGED orphaned
       ELSE orphaned' = TRUE /\ UNCHANGED job
    /\ UNCHANGED <<settings, trail, ring, reloader, started, reloads, faults>>

-----------------------------------------------------------------------------
(* write_to_file_blocking and rotate_logs_blocking, on a thread of their own.  *)
(* Each step is one operation on the file system, with the test for existence  *)
(* before it; any of them may fail, which ends the write.                      *)

Goes(e, stage, at) == job' = [job EXCEPT ![e].stage = stage, ![e].at = at]

\* metadata: is the file at its limit?
CheckSize(e) ==
    /\ job[e].stage = "checking"
    /\ IF Len(files[job[e].path][0]) >= FileLimit
       THEN Goes(e, "deleting", MaxFiles)
       ELSE Goes(e, "appending", 0)
    /\ UNCHANGED <<trail, faults>>

DeleteOldest(e) ==
    /\ job[e].stage = "deleting"
    /\ files' = [files EXCEPT ![job[e].path][job[e].at] = <<>>]
    /\ Goes(e, "shifting", MaxFiles - 1)
    /\ UNCHANGED <<written, faults>>

\* rename of generation at to the one above, from the oldest down to the file
\* itself, which becomes the first.
Moved(generations, from) ==
    IF generations[from] = <<>>
    THEN generations
    ELSE [generations EXCEPT ![from] = <<>>, ![from + 1] = generations[from]]

Shift(e) ==
    /\ job[e].stage = "shifting"
    /\ files' = [files EXCEPT ![job[e].path] = Moved(@, job[e].at)]
    /\ IF job[e].at = 0 THEN Goes(e, "appending", 0)
                        ELSE Goes(e, "shifting", job[e].at - 1)
    /\ UNCHANGED <<written, faults>>

AppendLine(e) ==
    /\ job[e].stage = "appending"
    /\ files' = [files EXCEPT ![job[e].path][0] = Append(@, e)]
    /\ written' = [written EXCEPT ![job[e].path] = Append(@, e)]
    /\ job' = [job EXCEPT ![e] = NoJob]
    /\ UNCHANGED faults

\* A file that is not there is neither removed nor renamed.
Fault(e) ==
    /\ job[e].stage \in {"deleting", "shifting", "appending"}
    /\ job[e].stage = "appending" \/ files[job[e].path][job[e].at] # <<>>
    /\ faults + hangUps < MaxMishaps
    /\ faults' = faults + 1
    /\ job' = [job EXCEPT ![e] = NoJob]
    /\ UNCHANGED trail

WriteStep(e) ==
    /\ CheckSize(e) \/ DeleteOldest(e) \/ Shift(e) \/ AppendLine(e) \/ Fault(e)
    /\ UNCHANGED <<settings, locks, pc, ring, reloader, started, reloads,
                   hangUps, orphaned>>

-----------------------------------------------------------------------------
(* AuditLogger::apply_config, out of AppState::reload_config *)

Reload(r, c) ==
    /\ reload[r] = "idle"
    /\ reloads < MaxReloads
    /\ reloads' = reloads + 1
    /\ new' = [new EXCEPT ![r] = c]
    /\ reload' = [reload EXCEPT ![r] = "path"]
    /\ Relock(r, {}, {"path"})
    /\ UNCHANGED <<settings, pc, job, trail, ring, started, faults, hangUps,
                   orphaned>>

\* The path's guard is gone at the end of the statement.
SetPath_KeepsGuard(r) ==
    /\ reload[r] = "path"
    /\ Holds("path", r)
    /\ path' = new[r].file
    /\ reload' = [reload EXCEPT ![r] = "config"]
    /\ Relock(r, {}, {"config"})
    /\ UNCHANGED <<config, pc, job, trail, ring, new, bounds, orphaned>>
SetPath(r) ==
    /\ reload[r] = "path"
    /\ Holds("path", r)
    /\ path' = new[r].file
    /\ reload' = [reload EXCEPT ![r] = "config"]
    /\ Relock(r, {"path"}, {"config"})
    /\ UNCHANGED <<config, pc, job, trail, ring, new, bounds, orphaned>>

SetConfig(r) ==
    /\ reload[r] = "config"
    /\ Holds("config", r)
    /\ config' = new[r]
    /\ reload' = [reload EXCEPT ![r] = "idle"]
    /\ Relock(r, Locks, {})
    /\ UNCHANGED <<path, pc, job, trail, ring, new, bounds, orphaned>>

-----------------------------------------------------------------------------

CallStep(e) ==
    \/ ShouldLog(e) \/ ReadConfig(e) \/ ReadPath(e) \/ SpawnWrite(e)
    \/ Written(e) \/ Store(e)

ReloadStep(r) == SetPath(r) \/ SetConfig(r)

Next ==
    \/ \E e \in Entries : Log(e) \/ CallStep(e) \/ WriteStep(e) \/ HangUp(e)
    \/ \E r \in Reloaders : ReloadStep(r) \/ \E c \in Configs : Reload(r, c)

\* The runtime polls a task whose lock is granted or whose write is done, and its
\* blocking threads finish what they have begun (a call waits while its write goes
\* on, so that one condition says both).
Fairness ==
    /\ \A e \in Entries : WF_vars(CallStep(e) \/ WriteStep(e))
    /\ \A r \in Reloaders : WF_vars(ReloadStep(r))

Spec == Init /\ [][Next]_vars

FairSpec == Spec /\ Fairness

-----------------------------------------------------------------------------
(* Properties *)

TypeOK ==
    /\ config \in Configs
    /\ path \in Paths \cup {NoFile}
    /\ locks \in [Locks -> Seq(Entries \cup Reloaders)]
    /\ pc \in [Entries -> {"idle", "filtering", "configuring", "locating",
                           "queueing", "writing", "storing", "returned"}]
    /\ job \in [Entries -> [stage : {"none", "checking", "deleting", "shifting",
                                     "appending"},
                            at : 0..MaxFiles, path : Paths \cup {NoFile}]]
    /\ files \in [Paths -> [0..MaxFiles -> Seq(Entries)]]
    /\ ring \in Seq(Entries) /\ Len(ring) <= RingSize
    /\ reload \in [Reloaders -> {"idle", "path", "config"}]
    /\ new \in [Reloaders -> Configs]
    /\ started \in 0..MaxEntries
    /\ reloads \in 0..MaxReloads
    /\ {faults, hangUps} \subseteq 0..MaxMishaps
    /\ written \in [Paths -> Seq(Entries)]
    /\ orphaned \in BOOLEAN

\* What the files of a path hold, from the oldest generation to the file itself.
Kept(p) == FlattenSeq([i \in 1..(MaxFiles + 1) |-> files[p][MaxFiles + 1 - i]])

\* The trail has no hole in it: whatever rotations, failed ones included, do to
\* the files, they hold an unbroken end of what was written, in order and once.
TrailUnbroken ==
    ~orphaned => \A p \in Paths : IsSuffix(Kept(p), written[p])

\* max_rotated_files: "Maximum number of rotated files to keep".  A line is not
\* given up before as many full files of later lines are kept.
GivesUpOldest ==
    \A p \in Paths :
        Len(Kept(p)) < Len(written[p]) => Len(Kept(p)) >= MaxFiles * FileLimit

KeepsItsGenerations == ~orphaned /\ faults = 0 => GivesUpOldest

\* rotate_logs_blocking under file_lock: a trail without holes that goes back as far
\* as it should.
TrailIsKept == TrailUnbroken /\ KeepsItsGenerations

\* file_lock, audit.rs: "so two concurrent writers cannot rotate over each
\* other's generations".  A call that is dropped in the middle of its write gives
\* the lock up and the write goes on: see the run audit_hang_up.
NoRotationOverAnother == faults = 0 => GivesUpOldest

\* A reload waits for the lines under way: the log file does not change under a
\* writer, and no line goes to the old file once it has changed.
WritesToConfiguredFile ==
    ~orphaned => \A e \in Entries : job[e].stage # "none" => job[e].path = path

\* Calls wait for reloads, reloads for calls, and both for writes; none for ever.
CallsEnd ==
    /\ \A e \in Entries : pc[e] = "filtering" ~> pc[e] = "returned"
    /\ \A r \in Reloaders : reload[r] = "path" ~> reload[r] = "idle"
=============================================================================
