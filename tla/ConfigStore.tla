---------------------------- MODULE ConfigStore ----------------------------
(***************************************************************************)
(* The masking policy of iron-veil: the file proxy.yaml, the configuration *)
(* live in AppState, and the masking key; the management API's handlers    *)
(* that edit the policy (clone, edit, commit_config), reload_config called *)
(* by the API and by the file watcher with its debounce, an operator's     *)
(* saves, HTTP clients that go away, and crashes of the process.           *)
(* ControlPlane composes it with the rest of the control plane.            *)
(*                                                                         *)
(* Files are modelled by inode, since commit_config writes one shared      *)
(* <path>.tmp and renames it: whoever still holds it open then writes the  *)
(* policy file itself.                                                     *)
(***************************************************************************)
EXTENDS RuleList

(* A definition named Step_Slip is Step with the slip made: it is no part of  *)
(* the specification, and shows which property would notice.                  *)

CONSTANTS
    Handlers,   \* requests of the management API that edit the policy
    Reloaders,  \* callers of reload_config
    Watcher,    \* the one of them that is run_config_watcher; it is absent where the
                \* directory cannot be watched ("Hot reload disabled")
    Secrets,    \* values of masking_secret
    NoSecret,   \* masking_secret is not configured
    RandomKey,  \* the masking key of a process without a secret
    Torn,       \* contents that do not load: empty, cut off or mixed up
    NoFile,     \* there is no file, or no process
    Original,   \* the inode of the policy file at the start
    Edited,     \* the inode an editor that replaces the file gives it
    Scenes      \* what an instance looks at: see below

(* A scene says what there is at the start and what may happen:              *)
(*   files      the policies proxy.yaml may hold at the start                *)
(*   edits      the policies an editor may save                              *)
(*   requests   what the handlers are asked for, as functions on Handlers    *)
(*   envSecret  IRONVEIL_MASKING_SECRET, or NoSecret                         *)
(*   serial     the API is used by one client, which waits for each answer   *)
(*              or hangs up                                                  *)
(*   unhurried  the editor saves only when the watcher has nothing to do     *)
(*   saves, reloads, hangups, crashes: bounds on those of the editor, of the *)
(*              API, of its clients and of the process                       *)

Inodes == Handlers \cup {Original, Edited}

\* A policy, of which rules, enabled, secret, api and health are looked at live,
\* and settings and auth only when the process starts.
IsPolicy(c) ==
    /\ DOMAIN c = {"rules", "enabled", "secret", "api", "health", "settings", "auth"}
    /\ IsRuleList(c.rules) /\ Acceptable(c.rules)
    /\ c.enabled \in BOOLEAN
    /\ c.secret \in Secrets \cup {NoSecret}

\* What a handler is asked for, as its type has it once it is read.
IsRequest(asked) ==
    /\ asked.op \in {"add", "import", "delete", "update"}
    /\ asked.op \in {"add", "import"} => IsRuleList(asked.rules)
    /\ asked.op = "update" => asked.enabled \in {<<>>, <<TRUE>>, <<FALSE>>}

ASSUME ConfigStoreAssumption ==
    /\ IsFiniteSet(Handlers) /\ IsFiniteSet(Reloaders)
    /\ NoSecret \notin Secrets /\ RandomKey \notin Secrets
    /\ Torn # NoFile
    /\ {Original, Edited, NoFile} \cap Handlers = {}
    /\ Original # Edited /\ NoFile \notin {Original, Edited}
    /\ \A scene \in Scenes :
          /\ {scene.serial, scene.unhurried} \subseteq BOOLEAN
          /\ {scene.saves, scene.reloads, scene.hangups, scene.crashes} \subseteq Nat
          /\ scene.envSecret \in Secrets \cup {NoSecret}
          /\ \A c \in scene.files \cup scene.edits :
                IsPolicy(c) /\ Torn # c /\ NoFile # c

VARIABLES
    scene,    \* the scene this is
    content,  \* what each inode holds
    path,     \* the inode of proxy.yaml
    tmp,      \* the inode of proxy.yaml.tmp, or NoFile
    up,       \* the process runs
    live,     \* AppState.config
    key,      \* AppState.masking_key
    pc,       \* where each handler is
    fd,       \* the inode a handler has open
    new,      \* a handler's new_config
    request,  \* what a handler is asked for
    detached, \* handlers whose client has gone, the future with it
    rpc,      \* where each reload is
    read,     \* the configuration a reload has loaded
    reloads,  \* reloads started through the API
    events,   \* events of the file in the watcher's channel
    quiet,    \* last_reload.elapsed() > 1s
    saves,    \* saves by the editor
    crashes,  \* crashes so far
    seen,     \* every policy that proxy.yaml has held
    raced     \* which of the steps of a change have been overtaken by another's

files    == <<content, path, tmp>>
process  == <<up, live, key>>
handlers == <<pc, fd, new, request, detached>>
reloader == <<rpc, read, reloads>>
watcher  == <<events, quiet>>
store    == <<scene, files, process, handlers, reloader, watcher, saves, crashes, seen, raced>>

File == content[path]

\* AppConfig::load: the environment's secret comes before the file's.
Loaded(c) ==
    IF scene.envSecret = NoSecret THEN c ELSE [c EXCEPT !.secret = scene.envSecret]

\* Still on its way: its future runs, or its blocking write does.
InFlight == {h \in Handlers : pc[h] \in {"admitted", "cloned", "opened", "written", "renamed"}}
Reloading == {r \in Reloaders : rpc[r] # "idle"}

\* A client that waits for its answers may still have hung up on a request whose
\* blocking write goes on.
ApiFree == scene.serial => InFlight \ detached = {} /\ Reloading \ {Watcher} = {}

At(stages) == {h \in Handlers : pc[h] \in stages}
Editing == {"cloned", "opened", "written", "renamed"}

\* History: others were half-way through a step of this kind when this one took it.
\* "write": <path>.tmp was opened while another had it open.  "policy": the policy was
\* read, or replaced, between another's reading and publishing it.
Overtakes(kind, others) == raced' = IF others = {} THEN raced ELSE raced \cup {kind}

\* A rename onto the file reaches the channel of a watcher that is running, in one
\* event or two (of the new name, and of both).
Notify ==
    events' \in IF Watcher \in Reloaders /\ up THEN {events + 1, events + 2} ELSE {events}

KeyFrom(secret) == IF secret = NoSecret THEN RandomKey ELSE secret

StoreInit ==
    /\ scene \in Scenes
    /\ \E c \in scene.files :
          /\ content = [i \in Inodes |-> IF i = Original THEN c ELSE Torn]
          /\ seen = {c}
    /\ path = Original
    /\ tmp = NoFile
    /\ up = FALSE
    /\ live = NoFile
    /\ key = RandomKey
    /\ pc = [h \in Handlers |-> "idle"]
    /\ fd = [h \in Handlers |-> NoFile]
    /\ new = [h \in Handlers |-> NoFile]
    /\ request \in scene.requests
    /\ detached = {}
    /\ rpc = [r \in Reloaders |-> "idle"]
    /\ read = [r \in Reloaders |-> NoFile]
    /\ reloads = 0
    /\ events = 0
    /\ quiet = FALSE
    /\ saves = 0
    /\ crashes = 0
    /\ raced = {}

-----------------------------------------------------------------------------
(* The handlers: add_rule, delete_rule, import_rules and update_config          *)

GoTo(h, stage) == pc' = [pc EXCEPT ![h] = stage]

\* A request of the API that has passed api_auth is with its handler.
Admit(h) ==
    /\ up
    /\ pc[h] = "idle"
    /\ ApiFree
    /\ GoTo(h, "admitted")
    /\ UNCHANGED <<scene, files, process, fd, new, request, detached, reloader, watcher,
                   saves, crashes, seen, raced>>

Answer(h, stage) ==
    /\ up
    /\ GoTo(h, stage)
    /\ UNCHANGED <<scene, files, process, fd, new, request, detached, reloader, watcher,
                   saves, crashes, seen, raced>>

\* The policy is cloned and edited at one moment, and committed later.
Clone(h, edited) ==
    /\ up
    /\ new' = [new EXCEPT ![h] = edited]
    /\ GoTo(h, "cloned")
    /\ Overtakes("policy", At({"renamed"}))
    /\ UNCHANGED <<scene, files, process, fd, request, detached, reloader, watcher,
                   saves, crashes, seen>>

Asked(h, kinds) == request[h].op \in kinds

\* An unknown strategy is a 400.
AddRules(h) ==
    /\ Asked(h, {"add", "import"})
    /\ IF Acceptable(request[h].rules)
       THEN Clone(h, [live EXCEPT !.rules = Import(live.rules, request[h].rules)])
       ELSE Answer(h, "rejected")

\* A rule that is not there is a 404, and nothing is committed.
DeleteRule(h) ==
    /\ Asked(h, {"delete"})
    /\ LET rest == Delete(live.rules, request[h].table, request[h].column)
       IN IF Len(rest) < Len(live.rules) THEN Clone(h, [live EXCEPT !.rules = rest])
                                         ELSE Answer(h, "rejected")

\* update_config commits only if it was told something it knows.
UpdateConfig(h) ==
    /\ Asked(h, {"update"})
    /\ IF request[h].enabled # <<>>
       THEN Clone(h, [live EXCEPT !.enabled = Head(request[h].enabled)])
       ELSE Answer(h, "answered")

\* fs::write opens <path>.tmp, creating or truncating it ...
OpenTmp_WritesPolicyFile(h) ==
    /\ up
    /\ pc[h] = "cloned"
    /\ tmp' = path
    /\ fd' = [fd EXCEPT ![h] = path]
    /\ content' = [content EXCEPT ![path] = Torn]
    /\ GoTo(h, "opened")
    /\ Overtakes("write", At({"opened", "written"}))
    /\ UNCHANGED <<scene, path, process, new, request, detached, reloader, watcher,
                   saves, crashes, seen>>
OpenTmp(h) ==
    /\ up
    /\ pc[h] = "cloned"
    /\ LET inode == IF tmp = NoFile THEN h ELSE tmp
       IN /\ tmp' = inode
          /\ fd' = [fd EXCEPT ![h] = inode]
          /\ content' = [content EXCEPT ![inode] = Torn]
    /\ GoTo(h, "opened")
    /\ Overtakes("write", At({"opened", "written"}))
    /\ UNCHANGED <<scene, path, process, new, request, detached, reloader, watcher,
                   saves, crashes, seen>>

\* ... and writes the new policy over whatever another writer has left there.
WriteTmp(h) ==
    /\ up
    /\ pc[h] = "opened"
    /\ \E result \in IF content[fd[h]] = Torn THEN {new[h]} ELSE {new[h], Torn} :
          /\ content' = [content EXCEPT ![fd[h]] = result]
          /\ seen' = IF fd[h] = path THEN (seen \cup {result}) \ {Torn} ELSE seen
    /\ GoTo(h, "written")
    /\ UNCHANGED <<scene, path, tmp, process, fd, new, request, detached, reloader,
                   watcher, saves, crashes, raced>>

\* The blocking task ends: its caller goes on, unless it has been dropped.
AfterWrite(h, stage) == GoTo(h, IF h \in detached THEN "dropped" ELSE stage)

Rename(h) ==
    /\ up
    /\ pc[h] = "written"
    /\ tmp # NoFile
    /\ path' = tmp
    /\ tmp' = NoFile
    /\ seen' = (seen \cup {content[tmp]}) \ {Torn}
    /\ Notify
    /\ Overtakes("policy", (At(Editing) \ {h}) \cup Reloading)
    /\ AfterWrite(h, "renamed")
    /\ UNCHANGED <<scene, content, process, fd, new, request, detached, reloader, quiet,
                   saves, crashes>>

\* An error of open, write or rename (a rename without a <path>.tmp among them)
\* ends the request before the swap.
PersistFails(h) ==
    /\ up
    /\ pc[h] \in {"cloned", "opened", "written"}
    /\ AfterWrite(h, "failed")
    /\ UNCHANGED <<scene, files, process, fd, new, request, detached, reloader, watcher,
                   saves, crashes, seen, raced>>

Swap_BeforeRename(h) ==
    /\ up
    /\ pc[h] = "written"
    /\ live' = new[h]
    /\ GoTo(h, "acked")
    /\ UNCHANGED <<scene, files, up, key, fd, new, request, detached, reloader, watcher,
                   saves, crashes, seen, raced>>
Swap(h) ==
    /\ up
    /\ pc[h] = "renamed"
    /\ live' = new[h]
    /\ GoTo(h, "acked")
    /\ UNCHANGED <<scene, files, up, key, fd, new, request, detached, reloader, watcher,
                   saves, crashes, seen, raced>>

\* The HTTP client goes away and the handler's future is dropped; a write given to
\* spawn_blocking goes on alone.
Disconnect(h) ==
    /\ up
    /\ h \in InFlight \ detached
    /\ Cardinality(detached) < scene.hangups
    /\ detached' = detached \cup {h}
    /\ IF pc[h] \in {"admitted", "renamed"} THEN GoTo(h, "dropped") ELSE UNCHANGED pc
    /\ UNCHANGED <<scene, files, process, fd, new, request, reloader, watcher,
                   saves, crashes, seen, raced>>

-----------------------------------------------------------------------------
(* reload_config *)

Load(r) ==
    /\ up
    /\ rpc[r] = "idle"
    /\ \/ /\ File = Torn
          /\ UNCHANGED <<rpc, read>>
       \/ /\ File # Torn
          /\ read' = [read EXCEPT ![r] = Loaded(File)]
          /\ rpc' = [rpc EXCEPT ![r] = "loaded"]

ApiReload(r) ==
    /\ r # Watcher
    /\ ApiFree
    /\ reloads < scene.reloads
    /\ reloads' = reloads + 1
    /\ Load(r)
    /\ UNCHANGED <<scene, files, process, handlers, watcher, saves, crashes, seen, raced>>

\* A reload without a secret keeps the key.
SetKey_ClearsKey(r) ==
    /\ up
    /\ rpc[r] = "loaded"
    /\ key' = read[r].secret
    /\ rpc' = [rpc EXCEPT ![r] = "keyed"]
    /\ UNCHANGED <<scene, files, up, live, handlers, read, reloads, watcher, saves,
                   crashes, seen, raced>>
SetKey_AlwaysDerived(r) ==
    /\ up
    /\ rpc[r] = "loaded"
    /\ key' = RandomKey
    /\ rpc' = [rpc EXCEPT ![r] = "keyed"]
    /\ UNCHANGED <<scene, files, up, live, handlers, read, reloads, watcher, saves,
                   crashes, seen, raced>>
SetKey(r) ==
    /\ up
    /\ rpc[r] = "loaded"
    /\ key' = IF read[r].secret = NoSecret THEN key ELSE read[r].secret
    /\ rpc' = [rpc EXCEPT ![r] = "keyed"]
    /\ UNCHANGED <<scene, files, up, live, handlers, read, reloads, watcher, saves,
                   crashes, seen, raced>>

SwapReloaded(r) ==
    /\ up
    /\ rpc[r] = "keyed"
    /\ live' = read[r]
    /\ rpc' = [rpc EXCEPT ![r] = "idle"]
    /\ read' = [read EXCEPT ![r] = NoFile]
    /\ IF r = Watcher THEN quiet' = FALSE ELSE UNCHANGED quiet
    /\ Overtakes("policy", IF live = read[r] THEN {} ELSE At(Editing \ {"renamed"}))
    /\ UNCHANGED <<scene, files, up, key, handlers, reloads, events, saves, crashes,
                   seen>>

\* run_config_watcher takes an event: within a second of the last reload it is
\* dropped, otherwise it reloads, and waits for the reload to end.
DropEvent ==
    /\ up
    /\ events > 0
    /\ ~quiet
    /\ rpc[Watcher] = "idle"
    /\ events' = events - 1
    /\ UNCHANGED <<scene, files, process, handlers, reloader, quiet, saves, crashes,
                   seen, raced>>

ReloadOnEvent_ThrowsAway(r) ==
    /\ r = Watcher
    /\ events > 0
    /\ quiet
    /\ rpc[r] = "idle"
    /\ up
    /\ events' = events - 1
    /\ quiet' = FALSE
    /\ UNCHANGED <<scene, files, process, handlers, reloader, saves, crashes, seen, raced>>
ReloadOnEvent(r) ==
    /\ r = Watcher
    /\ events > 0
    /\ quiet
    /\ events' = events - 1
    /\ Load(r)
    /\ IF File = Torn THEN quiet' = FALSE ELSE UNCHANGED quiet
    /\ UNCHANGED <<scene, files, process, handlers, reloads, saves, crashes, seen, raced>>

SecondPasses ==
    /\ up
    /\ ~quiet
    /\ quiet' = TRUE
    /\ UNCHANGED <<scene, files, process, handlers, reloader, events, saves, crashes,
                   seen, raced>>

-----------------------------------------------------------------------------
(* The operator's editor *)

WatcherFree == up /\ quiet /\ events = 0 /\ Reloading = {}

\* An editor saves by putting a new file in the place of the old one.
Save(c) ==
    /\ saves < scene.saves
    /\ scene.unhurried => WatcherFree
    /\ saves' = saves + 1
    /\ content' = [content EXCEPT ![Edited] = c]
    /\ path' = Edited
    /\ seen' = seen \cup {c}
    /\ Notify
    /\ Overtakes("policy", At(Editing) \cup Reloading)
    /\ UNCHANGED <<scene, tmp, process, handlers, reloader, quiet, crashes>>

-----------------------------------------------------------------------------
(* The process *)

\* The process is gone, and with it all that was on its way.
Exit ==
    /\ up
    /\ up' = FALSE
    /\ live' = NoFile
    /\ key' = RandomKey
    /\ pc' = [h \in Handlers |-> IF h \in InFlight THEN "dead" ELSE pc[h]]
    /\ rpc' = [r \in Reloaders |-> "idle"]
    /\ read' = [r \in Reloaders |-> NoFile]
    /\ events' = 0
    /\ quiet' = FALSE
    /\ UNCHANGED <<scene, files, fd, new, request, detached, reloads, saves, seen, raced>>

Crash == crashes < scene.crashes /\ crashes' = crashes + 1 /\ Exit

\* A policy file that does not load keeps the process from starting.
Boot ==
    /\ ~up
    /\ File # Torn
    /\ up' = TRUE
    /\ live' = Loaded(File)
    /\ key' = KeyFrom(Loaded(File).secret)
    /\ UNCHANGED <<scene, files, handlers, reloader, watcher, saves, crashes, seen, raced>>

-----------------------------------------------------------------------------

HandlerStep(h) ==
    \/ pc[h] = "admitted" /\ (AddRules(h) \/ DeleteRule(h) \/ UpdateConfig(h))
    \/ OpenTmp(h) \/ WriteTmp(h) \/ Rename(h)
    \/ PersistFails(h) \/ Swap(h) \/ Disconnect(h)

WatcherStep(r) == ReloadOnEvent(r) \/ SetKey(r) \/ SwapReloaded(r)

StoreStep ==
    \/ \E h \in Handlers : HandlerStep(h)
    \/ \E r \in Reloaders : WatcherStep(r)
    \/ DropEvent \/ SecondPasses
    \/ \E c \in scene.edits : Save(c)

-----------------------------------------------------------------------------
(* Properties *)

StoreTypeOK ==
    /\ scene \in Scenes
    /\ \A i \in Inodes : content[i] = Torn \/ IsPolicy(content[i])
    /\ path \in Inodes
    /\ tmp \in Inodes \cup {NoFile}
    /\ up \in BOOLEAN
    /\ IF up THEN IsPolicy(live) ELSE live = NoFile
    /\ key \in Secrets \cup {RandomKey}
    /\ pc \in [Handlers -> {"idle", "admitted", "cloned", "opened", "written", "renamed",
                            "acked", "answered", "rejected", "refused", "failed",
                            "dropped", "dead"}]
    /\ fd \in [Handlers -> Inodes \cup {NoFile}]
    /\ \A h \in Handlers : new[h] = NoFile \/ IsPolicy(new[h])
    /\ detached \in SUBSET Handlers
    /\ rpc \in [Reloaders -> {"idle", "loaded", "keyed"}]
    /\ \A r \in Reloaders : read[r] = NoFile \/ IsPolicy(read[r])
    /\ reloads \in 0..scene.reloads
    /\ events \in Nat
    /\ quiet \in BOOLEAN
    /\ saves \in 0..scene.saves
    /\ crashes \in 0..scene.crashes
    /\ raced \subseteq {"write", "policy"}

\* "Atomically persist a new config" (commit_config), "Mutating API handlers
\* persist atomically before swapping live state" (CHANGELOG.md): at every moment,
\* and so after a crash at any moment, proxy.yaml holds a policy that loads; and
\* no policy is in force that it has never held.  It holds for any number of
\* clients, hurried saves, disk errors and lost requests until one commit opens
\* <path>.tmp while another has it open: then the file may be torn for good, and one
\* client that repeats a request it has hung up on is enough for that.
FileLoads == File # Torn
PublishedWasSaved == up => live \in {Loaded(c) : c \in seen}
PolicyOnDisk == "write" \notin raced => FileLoads /\ PublishedWasSaved

\* "the on-disk policy can never silently diverge from runtime behaviour"
\* (commit_config): when nothing is under way and no client has walked out on
\* its request, the live policy is the one on disk.  A reload that a commit overtakes
\* breaks it: see the run reload_diverges.
Settled == /\ up
           /\ InFlight = {} /\ Reloading = {}
           /\ events = 0
FileIsLive == Settled /\ detached = {} => live = Loaded(File)

\* So it holds until two changes of the policy, by commits, reloads or saves, overlap;
\* the saves of an editor are in force only once they are reloaded.  And "A reloaded
\* masking_secret takes effect immediately" (reload_config): at rest values are masked
\* under the secret of the live policy, whoever has changed it.
KeyIsLive == Settled /\ live.secret # NoSecret => key = live.secret
SettledAgrees == raced = {} => KeyIsLive /\ (scene.saves = 0 => FileIsLive)

\* "POST /rules - Add new rule (auto-persisted)" (ROADMAP.md): a change that was
\* answered with success is in the file, through reloads, restarts and other requests,
\* until one of these touches the same column, or the switch of all masking; or until
\* two of them overlap, when the later one commits what it has read before.
AsMap(rules) ==
    [k \in {Key(rules[i]) : i \in DOMAIN rules} |-> rules[First(rules, k)].strategy]
Subjects(h) ==
    CASE Asked(h, {"add", "import"}) -> {request[h].rules[i].column : i \in DOMAIN request[h].rules}
      [] Asked(h, {"delete"})        -> {request[h].column}
      [] OTHER                       -> {"masking_enabled"}
LastOf(rules, k) == rules[Max(With(rules, k))].strategy
InForce(h, c) ==
    LET given == [i \in DOMAIN request[h].rules |-> Normalized(request[h].rules[i])]
    IN CASE Asked(h, {"add", "import"}) ->
              \A i \in DOMAIN given :
                  /\ With(c.rules, Key(given[i])) # {}
                  /\ AsMap(c.rules)[Key(given[i])] = LastOf(given, Key(given[i]))
         [] Asked(h, {"delete"}) ->
              \A i \in DOMAIN c.rules : ~Deletes(c.rules[i], request[h].table, request[h].column)
         [] OTHER -> request[h].enabled = <<c.enabled>>
Touched(h) ==
    \E g \in Handlers \ {h} : pc[g] # "idle" /\ Subjects(g) \cap Subjects(h) # {}
AckedIsDurable ==
    raced = {} /\ scene.saves = 0 =>
        \A h \in Handlers : pc[h] = "acked" /\ ~Touched(h) => InForce(h, File)

\* "Automatic config reload on file changes" (README.md): what an unhurried editor
\* saved last is in force in the end.
LastSaveIsLoaded == <>[](scene.unhurried => up /\ live = Loaded(File))

\* dedupe_rules, upsert_rule and retain: an edit changes the strategy of the keys it
\* names and of no other, and the rules that stay keep their order, by which the
\* first that matches decides.
NamedBy(h, k) ==
    CASE Asked(h, {"add", "import"}) ->
              \E i \in DOMAIN request[h].rules : Key(Normalized(request[h].rules[i])) = k
      [] Asked(h, {"delete"}) ->
              k[2] = request[h].column /\ request[h].table \in {NoTable, k[1]}
      [] OTHER -> FALSE
EditKeepsOthers(h) ==
    LET old == live.rules   edited == new'[h].rules
        stay == {k \in DOMAIN AsMap(old) : k \in DOMAIN AsMap(edited)}
    IN /\ InForce(h, new'[h])
       /\ \A k \in DOMAIN AsMap(old) \cup DOMAIN AsMap(edited) :
             ~NamedBy(h, k) => k \in stay /\ AsMap(edited)[k] = AsMap(old)[k]
       /\ \A j, k \in stay : First(old, j) < First(old, k) => First(edited, j) < First(edited, k)
EditsAreKeyed ==
    [][\A h \in Handlers : pc[h] = "admitted" /\ pc'[h] = "cloned" => EditKeepsOthers(h)]_store
=============================================================================
