# iron-veil in TLA+

iron-veil is a proxy between database clients and a PostgreSQL or MySQL server
that masks personal data in result rows. This directory holds TLA+ models of its
core, the TLC runs that check them, and machine-checked proofs about connection
handling, whole sessions of either protocol, what becomes of their bytes, the policy store,
the health check and the audit log. Paths such as `main.rs` are under
`src/src/`.

## 1. Inventory

| Component (source) | State | Operations | Interacts with | Hard behaviour | What makes it correct |
|---|---|---|---|---|---|
| Connection admission (`main.rs` 745-990, `UpstreamSlotManager`) | inbound permits, rate tokens, upstream slots and their waiters, `active_connections` | accept, rate limit, spawn, acquire a slot with a timeout, release, count, drain | one task per client; the drain reads the count; relays run inside | a released slot meets a timed-out wait, early returns, the two protocols' orders | nothing leaks on any path, no lost wake-up, a drain that reports success has seen no session, shutdown ends |
| PostgreSQL relay (`process_postgres_connection`, `handle_postgres_protocol*`, `Anonymizer`) | TLS of either leg, startup flag, column map, catalog map, bootstrap flag | peek, answer an SSLRequest, connect, upgrade; forward both ways, reset, describe, mask, bootstrap | a slot of the pool; shares the upstream connection between client and bootstrap; reads the live configuration | requests in pieces, repeated requests, peers that stall; pipelining, edits between rows, a failing catalog query | a leg that was to be encrypted is; rows are masked under their own description; the bootstrap is invisible; every wait ends |
| PostgreSQL codec (`protocol/postgres.rs`) | startup flag, buffer | decode, encode | both relays' sockets | one decoder for both directions, lengths, a stream cut anywhere | bytes that are not masked pass unchanged, a masked row is framed anew, a wrong length ends the session |
| MySQL codec (`protocol/mysql.rs`) | decoder state, capability flags, reassembly buffer | decode by state and first byte, reassemble, cut into packets | both legs of a session | packets do not name their kind; payloads of 16 MB | every legal packet is read as what it is, or the decoder is back in step at the next command; a payload leaves whole, under its numbers |
| MySQL authentication (`handle_mysql_protocol` 1988-2373, `authenticate_*`, `auth.rs`) | phase, challenges, sequence numbers, rounds | greet, upgrade, verify, switch plugin, prove upstream, relay | client, server, codec | two legs with TLS of their own, plugin switches, fast and full authentication, stalling peers | nobody is let in early, credentials in the right order, sequence numbers per leg, it ends |
| MySQL relay (`handle_mysql_protocol` 2375-2498, `MySqlAnonymizer`) | column list, decoder | forward, refuse prepared statements, mask | codec, configuration | several result sets, errors among rows, terminators | rows by their own columns, one answer per command |
| Configuration store and watcher (`state.rs`, `api.rs`, `run_config_watcher`) | policy file and its temporary file, live configuration, masking key, watcher channel, debounce | add, delete, import, update, commit, reload, watch | API handlers, watcher, operators, every session reads the live value | crash between steps, overlapping writers, dropped futures, dropped events | the file always loads, acknowledged is durable, file, memory and key agree once settled |
| Health checker (`run_health_check_task`, `update_health_status`, `/health`) | counters, status | probe, report | the thresholds of the live policy, API | thresholds edited between probes, hysteresis at 0 and 1 | the status turns only after enough equal results in a row |
| Rule mutation (`normalize_rule`, `dedupe_rules`, `upsert_rule` in `api.rs`) | rule list | add, delete, import | configuration store | precedence of first match, spelling, rules without a table | behaves as a map by table and column that keeps the order of the rest |
| Masking of values (`mask_cell`, `mask_json_recursively`, `mask_postgres_array`, `on_*_description`) | the strategy of each column | choose a rule, mask a row | relays, scanner, log ring | aliases, documents, arrays, NULLs, bytes that are no text | nothing of a protected column leaves, what is no personal data does as it came |
| PII scanner (`scanner.rs`) | none | whole values, spans in text | masking, database scanner | matches beside each other | every address and number in a text is found |
| SQL literal redaction (`redact_sql_literals`) | none | scan a statement | log ring | quoting, escapes, literals that do not end | no literal reaches the log until the scan is misled |
| Audit log (`audit.rs`) | ring, file, rotation | append, rotate, reconfigure | API, sessions | rotation while writing | entries in order, none lost |
| Management API (`api.rs`) | none of its own | routes, API keys, JWT, start-up check | store, audit, health, scanner | credentials that change under a listener that is open | no caller without a credential is handled where one is asked for |
| Database scanner (`db_scanner.rs`) | findings, tables to read | connect, list columns, sample, report | a database of its own, scanner | a failure or the time limit half way | a report is complete or is none |
| Configuration schema and resolution (`config.rs`, `Args`) | none | load, resolve by precedence, validate | start of the process | a source that is present and wrong | the most explicit source decides; a half-configured proxy does not start |
| Metrics, telemetry, dashboard | counters | I/O | - | - | - |

Components interact in five ways: a task per connection owns its relay, codecs
and anonymizer; the permits, slots and counters are shared by tasks; every session
reads the live configuration under a lock at each description and each row;
management handlers, the file watcher and operators write the policy file; the
health check and the API read the live policy again each time they act.

`PROJECT.json` lists the same components with their status, and the hazards: the
places where this code is hard to test, each with the properties that watch it.

## 2. The modules

| Module | Models | Built from |
|---|---|---|
| `Admission` | accept loop, limits, upstream slots, counter, drain | `SlotQuota` (by refinement) |
| `SlotQuota` | what any limit promises | - |
| `AdmissionProofs` | theorems about `Admission` | `Admission`, TLAPS |
| `PgStartup` | accepted connection to authenticated PostgreSQL session | - |
| `PgRelay` | the PostgreSQL session from there on | - |
| `PgSession` | a whole PostgreSQL session | `PgStartup`, `PgRelay` |
| `PgSessionProofs` | theorems about its start | `PgSession`, TLAPS |
| `PgRelayProofs` | theorems about what the client sees and how rows are masked; types of the whole session | `PgSessionProofs` |
| `MySqlCodec` | the decoder of the upstream-facing codec, as operators | - |
| `MySqlAuth` | greeting to first command | `MySqlCodec` |
| `MySqlRelay` | the command phase | `MySqlCodec` |
| `MySqlSession` | a whole MySQL session | `MySqlAuth`, `MySqlRelay` |
| `MySqlSessionProofs` | theorems about it | `MySqlSession`, TLAPS |
| `Detection` | the detectors of `scanner.rs`, as operators | - |
| `Masking` | the rule of a column, the mask of a cell | `Detection` |
| `PgFrames`, `MySqlFrames` | the framing of either protocol | `Masking` |
| `Redaction` | literals of a statement | - |
| `DataPath` | one direction of a session: bytes in, bytes out, log ring | `PgFrames`, `MySqlFrames`, `Redaction` |
| `DataPathProofs` | theorems about it | `DataPath`, `SetInduction` |
| `RuleList` | the rule list under edits, as operators | - |
| `ConfigStore` | policy file, live policy, key, handlers, watcher | `RuleList` |
| `Launch` | start of the process, precedence of settings | - |
| `ApiAccess` | `api_auth` | `Launch` |
| `Health` | probes, hysteresis, `/health` | - |
| `DbScanner` | `/scan` and `/schema` | `Detection` |
| `ControlPlane` | the process around the data path, with crashes | the six above |
| `ControlPlaneProofs` | theorems about `ControlPlane`, lemmas about `RuleList` | `ControlPlane`, `SetInduction` |
| `AuditLog` | the audit logger: locks, rotation, reconfiguration | - |
| `AuditLogProofs` | theorems about `AuditLog` | `AuditLog`, `SetInduction` |
| `SetInduction` | induction on the naturals, said of a set; that recursions are defined | TLAPS |
| `MC*` | small instances for TLC | the module of that name |

A definition called `Step_Slip` is `Step` with a plausible slip. It belongs to no
specification; `PROJECT.json` ("mutants") says which property notices the slip.
"map" gives the source lines of every definition.

### Admission

`pc[c]` is how far the task of client `c` has got; the permits, the slots, the
leases and `active` are the semaphores and the counter of the code. A tokio
semaphore is fair and hands a released permit to the waiter itself, which is
`granted`: a permit is assigned, the task has not run yet, and may still time out,
upon which the permit passes on (`WaitTimesOut`, `DropLease`). `protocol` chooses
the order of steps: a PostgreSQL task counts itself first and gives its slot back
before it uncounts; a MySQL task queues for its slot uncounted and keeps it until
the task is over. The clock is `windowOver`: at least a second since the last
refill. `Drain` is the test of the count, or the deadline; `Exit` is the end of the
process, some steps later, and the tasks go on in between (`main = "leaving"`).

### PgStartup, PgRelay, PgSession

`at` is where the connection's task is: `peeking` at the prelude, `shaking` hands with
the client, `waiting` for a slot, `connecting`, `asking` the server for TLS,
`upgrading`, `relaying` with a codec that still awaits a startup message (`isStartup`),
and `open`. The first message of the client arrives in pieces (`arrived`), of which the
prelude's eight bytes are one, and `legs` says which sockets speak TLS. Client and
server may send what the protocol allows, stall or leave. The codec takes a
GSSENCRequest or a CancelRequest for a startup message without parameters and encodes
it as one, which is `Recoded`. `Opens` hands over to `PgRelay` and forgets how the
session began, since nothing after it depends on that; `PgSession` puts the two in
sequence.

In `PgRelay`, the two directions of the `select!` loop share the column map: a Query or Parse
resets it on its way up (`ForwardClient`), a RowDescription fills it and a DataRow
uses it on the way down (`Description`, `Row`). `FirstReady` and `Bootstrap` are the
catalog query: ReadyForQuery is forwarded first, then the proxy talks to the server
on its own until the next ReadyForQuery. COPY's messages are among those that are
only forwarded (`Other`). The client and the server are external:
the client sends legal messages, pipelined or one at a time; the server answers in
order. `delivered` records every message the client got with the map the row was
masked by, which is what the properties look at.

### RuleList, ConfigStore, Launch, ApiAccess, Health, DbScanner, ControlPlane

`ControlPlane` is one process with everything that is not the data path, and its
restarts. What an instance looks at is a *scene* (see `ConfigStore`): the policies
the file may hold, what an editor may save, what the API is asked for, the launches
and the scans, and a bound on each kind of event. The initial state chooses one, so
that one run covers questions of different kinds without multiplying them.

*Store.* Files are inodes, since `commit_config` writes one shared `proxy.yaml.tmp`
and renames it. A handler is `admitted` -> `cloned` -> `opened` -> `written` ->
`renamed` -> `acked` (`std::fs::write` is its open, which truncates, and its write);
what it writes is the edit that `RuleList` makes of the live rules at its clone.
Each step may fail; a client that hangs up drops the future while the blocking write
goes on (`Disconnect`). A reload loads, sets the key and swaps, in three steps. The
watcher receives one or two events for a rename, and drops what comes within a
second of the last reload (`quiet`). It always runs, as in the code; only a scene can
have no API client or no editor. `seen` is every policy the file has held, and `raced`
remembers who has been overtaken (`Overtakes`): `"write"`, that `<path>.tmp` was opened
while another had it open, `"policy"`, that the policy was read or replaced between
another's reading and publishing it. A client is `serial` if it sends a request only when
it has the answer to the one before or has given it up; the blocking write of one it gave
up goes on beside the next.

*Start.* A source of settings is a function on the settings it gives; `Told` is the
first of command line, environment and file that says anything, even something
wrong. `Start` boots the process; the API's task and `main` then go on each by
itself (`OpenApi`, `OpenListener`), and either may refuse (`GiveUp`).

*Callers.* A caller is where it comes from and the key and token it offers. The
listener's address decides who reaches the API, `Allows` on the live policy who is
handled.

*Health.* `Probe` judges by the live thresholds; `probes` remembers each result with
the thresholds of that moment, which is what the properties look at.

*Scan.* A database is a function from tables to columns and rows; a scan is one
query a step, and each may fail or run out of time. Confidences are percentages. A
table's record says how its name `begins`, which is all the filter on names looks at
(`PassesLike`), and a value of a type that is no string is `Unreadable`.

### MySqlCodec, MySqlAuth, MySqlRelay, MySqlSession

A packet has the kind its sender means; `Decode` gives the kind the proxy takes it
for and the decoder's next state, from the first byte each kind begins with. The
decoder's view and the sender's may differ, and that is what several properties are
about. `MySqlAuth` runs through every configuration at once (`Modes`): terminated or
passed through, TLS on either leg, a pinned key or none, the plugin of either side,
and a right or wrong password on either side. The two waits without a deadline, for the
greeting and for the server's side of the TLS handshake (`UpstreamTls`), are phases of
their own (`Unhurried`). Proofs carry whose credential they
prove and under whose challenge, so a proof made for the proxy is worthless to the
server. `MySqlRelay` is the command loop, with a client that sends one command at a time
and gives an answer what it asks for in return (`InReturn`: a file, a proof). What is
given in return is a command to the client-facing decoder, of any kind, by its first byte
(`CommandReadAs`); one that is read as a prepared statement is refused and not forwarded
(`RefuseBinary`), and the server goes on waiting for it (`Spoilt`, `lost`). It is
instantiated in `MySqlSession`, which
puts the phases in sequence on one decoder. Ends of a session that look the same
to its peers (a peer closes, a deadline, a shutdown) are one action: `AuthStepEnds`
during authentication, `Stop` afterwards.

### AuditLog

An entry stands for the call of `log` that records it. tokio's locks are fair, so a
lock is the queue of those who hold it and those who wait, and `Holds` says who is
served: a run of readers at its head, or one writer. `ReadConfig` and `ReadPath`
take guards that are held across the wait for `file_lock` and the blocking write;
`SetPath` and `SetConfig` are the two assignments of `apply_config`, each under a
guard of its own. `job` is the write on its blocking thread, one file operation a
step (`CheckSize`, `DeleteOldest`, `Shift`, `AppendLine`), any of which may fail.
`HangUp` drops a handler's future: its guards and places in the queues go, its write
goes on. `written` remembers every line in order, and `orphaned` that a write has
outlived its call. An entry is written under one of the paths, a file is its
lines, and the size limit is a number of lines; `log_to_stdout` and the queries of
the ring are left out.

### Detection, Masking, PgFrames, MySqlFrames, Redaction, DataPath

A value is a sequence of tokens: an address, a number, a word, each the data's own
or a stand-in (`fake`), with gaps between them. Which characters an expression
accepts is the kind of a token; how its matches lie in a text is modelled. A cell is
a text, a document or an array with its leaves, a bare scalar, or bytes that are no
UTF-8. `MaskCell` gives the new cell, the strategies counted and the text logged.

The leaves of a document have a role: a string, something else, or a member `shadowed`
by a later one of the same key, which serde_json drops. When a string changes the whole
document is printed anew (`RewriteLeaf`, `Reprinted`): shadowed members are gone and long
numbers rounded. The leaves of an array are what its commas part, as in
`mask_postgres_array`, which knows no nesting: at the ends of an inner array a leaf has a
brace, which is a gap before or after its tokens, and so is no whole value. Quotes around
an element count as no character; the order of keys and blanks of a document are left out.

A buffer is a sequence of units: a type, a length, a count, a name, a NUL, one per
token of a value. Lengths count units as the code's count bytes, so a mask changes
the length of its message and a length that lies is met with the code's own checks.
In `MySqlFrames` a packet holds `Chunk` units at most; a longer payload is
reassembled (`Reassemble`) and cut again (`WriteChunked`).

`DataPath` is one direction of one session. `Arrive(n)` hands over any number of
units, so the stream is cut everywhere; there is one action per class of message
(`Describe`, `Row`, `Statement`, `DenySsl`, `Forward`, `Reassemble`), and `Reject`
when the decoder fails. A *job*, chosen by the initial state, is a protocol, a
direction, a catalog, a policy and the peer's traffic, with garbage after it.
`Redaction` gives the places of a statement that are copied (`Scan`), and what a lexer of
the server takes for literals (`Lex`), with comments, quoted names, backquotes and dollar
quotes, in `Literals`. `Misleading` are the places at which the two fall out of step. An
entry of the log names the columns that changed as their description does (`labels`);
for a column without an alias that is a literal, MySQL sends the literal as its name.

The relays of `PgRelay` and `MySqlSession` have their messages whole, and leave
values out; `DataPath` has bytes and values, and one direction only. What they share
is the message kinds.

## 3. The runs

| Run | Instance | Checks | What it shows |
|---|---|---|---|
| `admission` | 4 clients, both protocols, 3 permits, 1 slot, fairness | `TypeOK`, `GuardsConserved`, `ActiveIsCounted`, `NoIdleSlot`, `LeaseCoversUpstream`, `CleanDrain`, `SignalledExits`, `WaitEnds`, `PoolIsQuota`, `InboundIsQuota` | the accounting is exact on every path of either protocol; waits and shutdown end; both limits implement `SlotQuota` |
| `relay_sessions` | start: 2 SSLRequests, 1 edit of `upstream_tls`, with and without TLS on either leg; then 2 statements, 3 requests, 2 catalog rows; a client that waits, with 2 edits, and one that pipelines everything; fairness | `TypeOK`, `OpensAsAsked`, `Transparent`, `RowsOwnRules`, `Answered` | nothing that was to be encrypted goes in the clear and each end hears what it waits for; a client that waits for its answers is masked right, under one version of the rules per result; what remains true under pipelining; every wait ends |
| `stale_map` | 5 requests, extended | `NeverWrongColumns` (violated) | Bind and Execute leave the map of the last description, against `interceptor.rs:457` |
| `bootstrap_not_retried` | 1 request | `BootstrapRetried` (violated) | a catalog query answered with an error counts as done, against `README.md:361` |
| `mysql_session` | every configuration, 2 statements, up to 2 columns, 2 switches, 3 rounds, fairness | `TypeOK`, `BothProveThemselves`, `InSequence`, `StumblesOnlyThere`, `RowsOwnColumns`, `SessionProgresses` | a whole session, from greeting to any number of commands, and the only places where the proxy stumbles over a legal packet |
| `passthrough_breaks_off` | passthrough, 1 switch | `PassthroughCompletes` (violated) | a switch followed by fast authentication is misread, against `main.rs:2290` |
| `second_result_set` | several result sets per query | `RowsOwnColumns` (violated) | the second result set is masked by the first one's columns, against `interceptor.rs:637` |
| `data_path` | both protocols, both directions: 21 cells under 6 policies and by alias, 3 rows for a ring of 2, every statement of up to 3 of 7 characters and 14 longer ones, payloads of one and two packets, 21 wrong endings; every cut of the stream | `TypeOK`, `FramesWhole`, `SensitiveHidden`, `DetectedHidden`, `LogCarriesNoValue`, `RingTellsRecent` | what leaves is what came, framed as its protocol has it, with nothing changed but what policy and scanner say and what printing a document anew does; the log shows no values of rows, and literals only behind a place that misleads the scanner |
| `control_plane` | 6 groups of scenes: edits of a double rule list, three edits in a row, an environment secret with a reload, a hang-up and a crash, two clients at once, an editor beside the API, the watcher in all of them; 2 saves with the watcher; 6 probes under 4 + 4 settings; callers of every kind, 4 launches, credentials that go; launches from every source; scans of small databases with every failure; fairness | `TypeOK`, `PolicyOnDisk`, `SettledAgrees`, `AckedIsDurable`, `StrangersKeptOut`, `HealthTold`, `ReportIsComplete`, `EditsAreKeyed`, `LastSaveIsLoaded` | the policy survives whatever fails until two changes of it overlap; saves are loaded; who is handled, what /health and a scan say |
| `reload_diverges` | 2 requests of one client, one after the other, and the watcher; no editor | `FileIsLive` (violated) | a reload of one change overwrites the next, against `state.rs:282` |
| `audit_log` | 4 entries, 2 calls at once, 1 line per file, 2 generations, 1 reload, 1 failed operation or hang-up, fairness | `TypeOK`, `TrailIsKept`, `WritesToConfiguredFile`, `CallsEnd` | rotation keeps the trail; the locks of the logger neither deadlock nor let a reload pass a write |
| `audit_hang_up` | 4 entries, 1 hang-up | `NoRotationOverAnother` (violated) | a dropped handler frees `file_lock` under its write, against `audit.rs:232` |

### Bounds, and why they are enough

* **Clients, permits, slots.** With four clients, three permits and one slot there
  is a client refused by each limit, a queue of two beside a full pool, and a waiter
  that times out while another is granted. Every theorem of section 4 holds for any
  numbers.
* **Start of a PostgreSQL session.** Two SSLRequests are one that the prelude answers
  and one that the loop does; one edit of `upstream_tls` falls before or after the
  proxy reads it.
* **Requests.** Two statements are needed for one's map to be used on the other's
  rows; three requests put one before, between and after. Parse, Sync, a simple
  query and a late Execute with its Sync need five. Two edits fall between two rows
  of one result.
* **Configuration.** A rule list with one key twice, a rule for every table and one
  with an empty table has every case of the edits. Two secrets tell a stale key from
  a fresh one, and one crash falls between any two steps. Two saves are the least for
  the last to be missed. Three requests are the least for an edit to be lost beside the
  watcher: one that is reloaded, one that the reload overwrites in memory, and one that is
  made from there. A hang-up leaves a write for the next request to overlap. Theorems of
  section 4 hold for any number of each.
* **Health.** Thresholds from 0 to 3 and six probes: up, down and up again under a
  threshold of 2 or 3, with an edit in between.
* **Scans.** Samples of at most five rows (`MaxSample`, 1000 in the code) over two
  databases tell a hint of a name that the data confirms from one it contradicts,
  and confidences on either side of three thresholds.
* **Data path.** The bounds are scaled so that each is met: packets of 6 units
  (`Chunk`, 0xFFFFFF), so that payloads of 7 and of exactly 12 occur; 5 sequence
  numbers (`SeqIds`, 256), so that they wrap; lengths of 3 and more are wide
  (`OneByte`, 251); `MaxFrame` 40 and `MaxStartup` 9 lie just above what is legal here.
  Three characters show each way to open and close a literal, a name or a comment; a
  doubled quote, an escape, or something misleading with a literal behind it takes five or
  six, which the longer statements are. An array of two inner arrays has an element with a
  brace on either side. A ring of 2 (`RingSize`, 100) loses its first row at the third.
* **Audit log.** Two generations are the least that can be shifted in a wrong order,
  and with one line per file the fourth entry is the first to push one out. Two
  calls contend for each lock, with a reload between them. Calls and reloads are
  numbered, so an instance stops when they are used up; deadlock is therefore not
  checked by TLC but by `CallsEnd`.
* **MySQL.** Two columns tell the last definition from those before, and a column
  count that completes from a text answer that does not. Two plugin switches and a
  full authentication use up three rounds while the verdict is still to come; the
  code allows 20 (`MaxRounds`), which only makes the exchange longer. Commands are
  unbounded, except that `COM_FIELD_LIST` is issued only while fewer than `MaxColumns`
  columns are recorded: its definitions add to those already there until the next query
  clears them. A local file goes out one packet at a time. The code's threshold of 4096
  columns, above which a result is not recognised, is not modelled.

### Fairness

* `Admission`: the accept loop sees a cancelled token, the drain's deadline passes,
  and a task in the queue is polled or its `tokio::time::timeout` fires. Nothing is
  assumed of a session's end, which is the peers' business.
* `PgSession`: the task is polled; the prelude's deadline, the wait for a slot and the
  idle timeout fire. Nothing is assumed of the client. A server that is asked for TLS
  answers and goes through with it or breaks off, since the code waits for that
  without a deadline. Once the session is open `select!` polls its arms in random
  order, so neither direction starves, and the server answers what it has been sent.
* `ControlPlane`: the runtime polls the watcher and finishes a reload it has begun,
  time passes, and a supervisor restarts a dead process. Nothing is assumed of
  handlers, probes and scans. The editor of the scene with the watcher saves only while the
  watcher has nothing to do (`unhurried`): see the gaps.
* `DataPath` states none: everything checked of it is safety.
* `AuditLog`: a task whose lock is granted or whose write is done is polled, and
  blocking threads finish: the file system answers, if only with an error.
* `MySqlSession`: the server greets and answers commands, the loop is polled, and a
  deadline (`auth_step`) fires. During authentication neither peer need ever answer. Two
  waits have no deadline and do not watch the cancel token: that for the greeting, and
  `connector.connect` at `main.rs:2181`. A server that stalls there holds the session and
  its slot for ever, so nothing is assumed and `SessionProgresses` does not claim that
  these two end; what it claims begins behind them.

## 4. What is proved

### Admission

`AdmissionProofs` holds for every finite set of clients, either protocol and all
limits, from `AdmissionAssumption` alone (clients are finitely many, limits are
natural numbers; a limit that is not configured is one that is never reached).

The theorems about single invariants follow from one inductive invariant,

    IndInv == TypeOK /\ StagesMatch /\ GuardsConserved /\ ActiveIsCounted
              /\ NoIdleSlot

`GuardsConserved` is not inductive by itself: that a lease released was held, so that the
sum is the same afterwards, is `StagesMatch`, which says at which stages a task owns a
lease, that permits are assigned to queued tasks only, and that no stage of one protocol is
reached under the other. `NoIdleSlot` needs `GuardsConserved` to know what is free.

`CleanDrain` is about one step, the drain's test: where it finds the count at zero, no
upstream session is open. It needs `ActiveIsCounted`, since the drain looks at the count and
not at the sessions (`ZeroCountNoSession`). It says nothing of the time after the test. A
task that is not counted yet, a leased MySQL task (it counts itself at `main.rs:915`) or a
spawned PostgreSQL task, may open its session before the process ends, and the end of the
process cuts it off; the model has these steps, and the code promises nothing there.

1. `InitIndInv`, `StepIndInv`: one lemma per action, on lemmas about adding to and
   removing from a finite set (`AddOne`, `DropOne`).
2. `Accounting`: `Spec => []IndInv`; and from it `TypeCorrect`,
   `GuardsAreConserved`, `CountIsExact`, `NoLostWakeUp`, `SlotsCoverUpstream`,
   `CleanDrainIsClean`.
3. `PoolImplementsQuota`, `InboundImplementsQuota`: every step maps to a step or a
   stutter of `SlotQuota` (`PoolStep`, `InboundStep`); that the quota is respected is
   again `GuardsConserved` with `LeaseCoversUpstream`.

### Policy store and health check

`ControlPlaneProofs` holds for all sets of handlers and reloaders, any scenes and
so any number of saves, reloads, probes and crashes, from the assumptions of the
modules: scenes hold policies whose rules have the fields of `MaskingRule`, requests have
the fields their types give them (`IsRequest`, and `IsJob` for scans), an address to listen on is on the loopback
interface or beyond or none (`Binds`), constants that mean "nothing" are no value, and
thresholds are natural numbers.

1. `PoliciesAreFormed`: `Spec => []Shapes`. Whatever a handler, a reload, the file or
   the process has is a whole policy with the environment's secret, or a torn file.
   A handler edits the live policy, and an edit leaves secret and thresholds alone
   (`LoadResolves`, `EditResolves`).
2. `PolicyStaysOnDisk`: `Spec => []PolicyOnDisk`, assuming that a torn file is not a policy
   (`TornIsNoPolicy`). The property is conditional, since the code is not safe without:
   until two commits have `<path>.tmp` open at once (`"write" \in raced`). Nothing else
   protects the file, and one client is enough to get there, as TLC shows when the
   condition is dropped: it hangs up on a request and repeats it while the blocking write
   of the first goes on. The inductive invariant is `StoreInv == Shapes /\ Origins /\
   OneWriter`, under that condition (`DiskInv`). `PolicyOnDisk` alone is
   not inductive: that a rename puts a whole policy in place needs to know who holds
   the temporary file and what he has written; that an open does not truncate the
   policy itself, that `tmp # path`; and that it does not truncate another's, that
   the inode of a handler's own name is unused until then. `Origins` ties memory,
   reloads and renamed handlers to the policies the file has held.
3. `StrangersStayOut`: `Spec => []StrangersKeptOut`, under the same assumption and for any
   number of clients that overlap in any way, on `ApiSeen` and `AccessInv`. That a stranger is
   handled only under a policy without credentials (`StrangersNeedAnOpenPolicy`) follows from
   `ApiSeen`: what `api_auth` asks is the live policy, no edit of the API changes what it asks
   for, and so the file has held a policy that asks for the same. The rest is about the start, and relates three moments: what a
   launch was told, where the API listens now, and from where a request in flight has come.
   `AccessInv` says that a process that is not up has no listener and no request in flight; that
   an API open to the network was told so when the process started and the file has held
   credentials; that whoever is handled from the network came through that listener; and that
   the proxy's listener had what `AuthComplete` asks. `FirstDecides` is the precedence of the
   sources; it needs `LaunchAssumption`, that the value for a setting nobody gives is none a
   source could give.
4. `HealthIsTold`: `Spec => []HealthTold` with no further assumption, for thresholds of 0
   and edits between probes too. The invariant is `HealthInv`: the counters are the
   lengths of the runs at the end of the history (`Counts`), and the status is healthy
   exactly if it has risen and not fallen since (`Risen`). The lemma `OneProbeMore` says
   how one probe more changes the runs; `ProbeHealth` goes through the verdicts.
5. `SettledAgreesAlways`: `Spec => []SettledAgrees`, under the assumption of 2, on `AgreeInv`.
   The property claims nothing once somebody has been overtaken (`raced`), and no less can be
   asked: `reload_diverges` is one client and the watcher, of which one overtakes the other.
   Until then (`Alone`) what a reload has read is what is in the file, and what a handler has
   renamed is too, with nobody else editing. The key agrees with the live policy since no edit
   changes the secret and a reload that has set the key is about to put the file in force
   (`KeyFollows`). Where no editor saves, the live policy agrees with the file but for the moment
   between a rename and its swap (`FileFollows`), and but for a client that hangs up there.
6. `EditsKeepOtherKeys`: `Spec => EditsAreKeyed`, with no further assumption. It is the
   lemma `ClonedIsKeyed`, on what the module begins with, the operators on lists of any
   length: `RetainPicks`, that `Retain` gives the chosen rules in their order;
   `DedupeKeys`, `DeleteKeys`, `UpsertOne`, what each edit does to the first rule of each
   key and to the order of first rules; and `ImportKeys`, that of the rules that come
   together the last of a key decides (`LastIs`). The inductions are on the length of the
   prefix (`SetInduction`), for which `RuleList` writes them as recursive functions.
7. `AckedIsDurableAlways`: `Spec => []AckedIsDurable`, under the assumption of 2. The property
   claims nothing once somebody has been overtaken or an editor saves; for any number of
   clients until then, and with the watcher. Without the condition TLC finds a serial client
   that loses an acknowledged edit: the watcher's reload of the first edit overwrites the
   second in memory, and the third is made from there and committed. The
   property speaks of the file at one moment. What is in the file next is decided where
   nobody looks yet, so `Durable` says the same of the live policy, of what each reload has
   read and of what each handler has edited and not yet renamed. `ForceStays` shows that a
   request in force survives an edit that is about other columns; with `Alone` and `FileFollows`
   of 5, what an edit starts from is what was saved last.
8. `ControlPlaneTyped`: `Spec => []TypeOK`. The types of the store follow from `Shapes` and
   from where a handler can be (`StoreTypeOK`), those of the process from `Binds`
   (`LaunchTypes`), those of a scan from its request, which no job at all has once the scan
   is done (`ScanTypes`), those of the health check from `Counts`.
9. `ReportsAreComplete`: `Spec => []ReportIsComplete`, for any database and any sample sizes
   and thresholds. Complete means: with every table asked for that the filter on names
   leaves, and of a value the code cannot read as a string, as of a NULL. The property speaks of the report once there is one; `Gathered`, the rest of
   the invariant `ReportInv`, says of a scan under way that what it has found is what the tables
   read so far have added, each its own share, and nothing else (`OneTableMore`). A failure or
   the time limit ends it without a report (`EndsInFailure`), so a report covers all tables
   (`EndsInReport`). `ColumnIsReported` is the other half: what `detect_pii_in_values` and
   `detect_from_column_name` make of one column is what the property says of it. It needs that a
   share of a sample rounded down to per cents still meets a threshold the share meets
   (`RatioOf`) and that no more values match than the sample has (`SampleIs`).

### Start of a PostgreSQL session

`PgSessionProofs` holds for any number of requests for TLS and of edits of
`upstream_tls`, and whatever is relayed afterwards.

`SessionsOpenAsAsked`: `Spec => []OpensAsAsked`. The invariant `StartInv` describes a
session that is starting by five parts, and one that is open or closed by the property
itself, since nothing of it changes any more.

* `OneMessage`: the client has at most one message on its way and waits for the answer.
* `InTurn`: until the codec has seen a startup message, the server has been asked for TLS
  at most and the client has been answered at most its own request
  (`BeforeStartup`); from then on a single message is under way, to somebody who waits
  for it (`AfterStartup`). That gives `EndsUnderstand`, which is far from inductive: it
  looks at the head of one channel, and what stands there was decided two steps before.
* `ClientLeg`: a client that asked first has its request unread, or is in its handshake,
  or has an encrypted leg. `ServerLeg`: the loop runs only over an encrypted leg to the
  server, or `upstream_tls` has been off since the session began.
* `StartShapes`: types.

Each step has a lemma with a step for each part; all the ways to end are one lemma
(`ClosesStep`).

`StartsAreTyped`: `Spec => []StartupTypeOK`. While the session is starting the invariant
says most of it; what a step may change beyond its bound is `Within`.

### Relay of a PostgreSQL session

`PgRelayProofs` holds for any client (`Styles` may be any set of them),
any statements, any number of messages and of edits of the policy, and a catalog of any
size.

`RelayIsTransparent`: `Spec => []Transparent`. The property relates two histories; that
it is kept depends on whose answers are on their way, which `RelayInv` says phase by phase:

* `Fresh`, before the first ReadyForQuery: nobody has said anything else.
* `Alone`, during the bootstrap: its query is on its way up, or the rest of its answer on
  its way down, whose only ReadyForQuery is the last of it (`ReadyIsLast`), and the client has
  seen all it is owed.
* `InOrder`, afterwards: what the server has answered is what the client has seen, followed
  by what is on its way, and no catalog query is among the requests.

`CatalogAnswer` shows that an answer of any length, cut short by an error or not, ends so;
`DeliverKeeps` moves an answer from one side of `InOrder` to the other.

`RowsAreMaskedByTheirOwn`: `Spec => []RowsOwnRules`, on `RelayInv` and

* `MapFits`: the answers on their way are chained, each row of a simple query behind its
  description or another of its rows, and the map fits the row that comes next, or there is
  none. This is why a simple query never gets another's columns, however a client pipelines:
  an answer never begins with a row of a query (`AnswersChained`).
* `CatalogFirst`: nothing is described before the bootstrap has ended.
* `OneAtATime`, of a client that waits: nothing is under way, or its query on one of the
  two legs, or the rest of the answer, for whose next row the map was made and by which
  the row before was masked. Without it a Query could clear the map under rows, which is
  what happens to a client that does not wait.

`RulesAppend` reduces the property to the row that is delivered (`Fits`), and `DeliverRows`
shows that it fits.

`SessionsAreTyped`: `Spec => []TypeOK`, of the whole session. Two of its types are counts that
have to be kept, on `TypeInv == RelayInv /\ Outstanding /\ Loading /\ Limits`:

* `Outstanding`: the ReadyForQuery messages the client awaits are as many as its queries and
  Syncs on their way and the ReadyForQuery messages on their way back, without those of the
  bootstrap. An answer has one for a request that awaits one, and no other (`AnswersReady`),
  so the count never falls below zero.
* `Loading`: what the bootstrap has registered and the rows still on their way to it are no
  more than the catalog has (`CatalogRows`).

`CountConcat`, `CountAppend` and `CountTail` say how a count over a sequence changes.

### MySQL session

`MySqlSessionProofs` holds for every configuration of TLS, plugins, pinned key and
passwords, any number of rounds, switches and columns, and any set of statements that is
not empty (`MySqlSessionAssumption`).

`NobodyIsLetInEarly`: `Spec => []BothProveThemselves`. The property speaks of the packets
on their way to the server and of a client that has been let in; its invariant is

    AuthInv == Shapes /\ Wires /\ Phases /\ Accepted

`Wires` says of all four channels what may be in them: from a client only its own
password, to the server only what it may be shown at that point (`Provers`), and an OK
only from a server that has accepted (`Earned`). `Phases` says which phases a terminating
proxy goes through and what it knows in them, and `Accepted` that a server accepts nobody
for a client that has not proved itself. `DecodeTells` is the lemma about the decoder: in
none of its states does it take for an OK what was sent as something else.

`NumberedInSequence`: `Spec => []InSequence`. Every packet carries the number its receiver
expects if the proxy knows whose turn it is. `OrderInv` says so for each leg: a client
speaks once and when it has heard everything (`ClientLeg`), a server answers when it has
been told everything (`ServerLeg`), and `Turns` says phase by phase which wires are empty
and whose number stands for what is on the others. A terminating proxy counts the two legs
apart; a passthrough relays the numbers and so counts both as one, which needs TLS on both
or on neither (`Claimed`, as in `InSequence`).

`SessionTyped`: `Spec => []TypeOK`, by `SessionTypes`, which says of the wires of the command
phase what can be in them at all.

`RowsAreMaskedByTheirOwn`: `Spec => []RowsOwnColumns`, and `StumblesNowhereElse`:
`Spec => []StumblesOnlyThere`, of queries with one result set each (`~MultiResults`; the run
`second_result_set` shows what becomes of the rows otherwise). `StumblesOnlyThere` is not
that all is well: it names the two answers over which the proxy does break off a legal
session and the packets that it does refuse, and that there is nothing else. Both look at one
packet, and what the proxy takes it for was decided by all the packets before it. The invariant says

* `Readable`: before the command phase, a terminating proxy's decoder expects an answer to
  the authentication whenever one can come, and nothing else is sent to it then.
* `CommandTurns`: of the command, the forwarded request and the answer, one is under way at
  a time, it is of the kind the client has asked (`For`), and while the server has not
  answered the decoder is at the start of an answer and a query has cleared the columns.
* `Answering`: the answer to a query is a single packet (`InShort`), or the last `left`
  packets of one result set (`InResult`). How many are left settles everything else: which
  packet each is (`Due`), the state of the decoder (`Reading`), and how many of the
  columns have been recorded (`Known`). `ReadsResult` goes through the states of the
  decoder and shows that it takes the next packet for what it is and is again where
  `Reading` says.

### Audit log

`AuditLogProofs` holds for any number of calls, reloads, lines per file, generations and
paths, and any number of file operations that fail and clients that hang up. Reloads bear
names that are no call's number (`AuditLogAssumption`).

`LinesGoWhereConfigured`: `Spec => []WritesToConfiguredFile`, and `AuditTypes`:
`Spec => []TypeOK`, from

    LockInv == TypeOK /\ Places /\ Guarded /\ Numbered /\ Writes

A call reads the path long before it appends. What keeps a reload out in between is that
it holds the path's lock for reading all the while (`Guarded`), and that a writer does not
share a lock with a reader; so the path of a write under way is the configured one
(`Writes`). Whom a lock serves depends on the whole queue before him: `Places` says that
everybody stands once in the queue of each lock he holds or awaits and in no other, and two
lemmas say what taking a place (`PlaceTaken`) and giving one up (`PlaceGivenUp`), from
anywhere in the queue when a client hangs up, mean for the others. `Exclusion` is the lock's
promise.

`TrailIsKeptAlways`: `Spec => []TrailIsKept`. The lines of a path's generations, oldest
first, are the end of what was written there. The invariant `TrailInv` names the places
where the history is cut: generation `g` holds the lines between one cut and the next
(`Segments`). Between the delete and the last shift of a rotation one generation is missing,
and the cut before and after it are the same (`IsHole`); failed operations leave
the trail unbroken and only make it shorter than it should be, which `TrailIsKept` excepts,
as it does a write that has outlived its call. `OneWriter` is what
the trail owes to the locks: unless a write was orphaned there is one at most, and its
file operations come one after the other. Each has a lemma that
says how cuts and hole move. That the pieces make up the end of the history is an
induction on the generations (`FlattenSteps`, `EndIsSuffix`), for which `SetInduction` says
of a set of numbers what the library says of an operator: a set that holds zero and, with
every number, the next, holds them all.

### Data path

`DataPathProofs` holds for any set of jobs: traffic of any length in either direction of
either protocol, rows of any width, texts, documents and arrays of any size, statements of
any characters, any rules and catalog, any size of the ring, of packets and of sequence
numbers, and every cut of the stream.

What it takes for granted is in `DataPathAssumption`. A job is one that can occur
(`IsJob`): its messages are of the kinds the protocol has in that direction and within
the limits of length of the codec, a startup message comes after SSLRequests and before
anything else, rows come after what describes them and are as wide, and what a job says of
the origin of its columns is what descriptions and catalog say (`Provenance`; it is no more
than the meaning of `origins`, which only the property looks at). Of the garbage after the
traffic it says that the codec takes no message from it (`Refused`), as with the endings
of the run; garbage that is a message would be one more message of the traffic. A job has one result
set, and all its rows come behind its descriptions: which description a row is masked by,
when there are several, is the matter of `PgRelayProofs` and `MySqlSessionProofs`. TLC
evaluates the assumption on every job of the run.

All six theorems come from one inductive invariant,

    IInv == IsJob(job) /\ \E k, j : Standing(k, j)

`Standing(k, j)` says that the session has taken `k` messages of the traffic and `j` packets of
the next. Everything else is settled by that: what is buffered and still on its way is the
encoding of the rest (`Reading`), the column map is that of the last description or has a
strategy for each column described (`Aiming`), what has been delivered is the first messages with
their rows masked (`Sent`), and what was written is their encoding (`Wrote`). None of the
properties is inductive: each looks at what has been delivered, and none knows what is in the
buffer. That a step leads from one such place to another is, of the decoders, that they read back
what the encoders write, from a buffer that holds the beginning of it, however much:

* `PgFrames`: a frame that is not there in full is left alone, one that is gives back the
  message, field by field (`Counted`, `Repeat`). Induction over the fields of a description, the
  values of a row and the parameters of a startup message.
* `MySqlFrames`: the pieces of a payload are read one after the other and put together to the
  payload; the last one is shorter than `Chunk`.

From there:

1. `FramesAreWhole`: `Spec => []FramesWhole`. What is sent is what came (`DeliveredIs`).
2. `SensitiveStays`, `DetectedStays`: a row that has gone on is `MaskRow` of one that came
   (`RowsGo`). `NamedIsTargeted` shows that by then a column that a rule names by its true
   origin is under a rule: the first that matches it, so that some rule does is enough
   (`FirstOfMatching`). `RowMasked` is about the value: it goes through the shapes of a cell, and of a
   text shows that no number or address is left but the one that shares its gap, by
   induction along the text. `JsonMasked` is about a document, which is as it came unless one of
   its strings changes (`LeafRewritten`, of any leaf); `ArrayMasked` about an array, whose
   elements are looked at whole, or as one text if none of them is detected.
3. `RingTells`: the ring holds the last of the messages that are to be told of, newest
   first (`Logged`, with `Rank` the number of those at a place or behind it).
4. `LogKeepsValuesOut`: each entry is of its message (`Logged`), names the columns as given
   (`NamesKept`), and what it shows of a statement is no part of a literal, until something
   misleads the scanner. That is `LiteralsAreRedacted`, about every statement. Scanner and
   lexer both go from left to right with a state; `InStep` relates the two states, which are not
   always the same: a quote doubled inside a literal is one character to the scanner and closes
   and opens for the lexer, and in a comment or a quoted name the lexer is inside something and
   the scanner outside. `StaysInStep` shows that every character but a misleading one keeps
   the relation, and so it holds up to the first of these.
5. `DataPathTyped`: `Spec => []TypeOK`.

Recursive definitions denote something only if a function satisfies them. `RecursionDefined`
(`SetInduction`) says so of every recursion whose values depend on values of lower rank, as
the scanner's and the lexer's do.

### What stays with TLC

* Liveness under fairness, and ENABLED, are outside the prover: `SignalledExits`,
  `WaitEnds`, `Answered`, `LastSaveIsLoaded`, `SessionProgresses`, `CallsEnd`.
* Several result sets per query (`MultiResults`), of which the theorems about MySQL say
  nothing.

## 5. What the models leave unsaid

Behaviour of the code met while modelling that no passing property covers:

* A drain does not see MySQL clients that wait for a slot, since they are not
  counted yet: they are cut off by a drain that reports success, and so is a session
  that a task not yet counted opens between the drain's test (`main.rs:148`) and the end
  of the process.
* A pipelining PostgreSQL client can get rows with no map at all, unmasked by column
  rules: the next Query resets the map under the rows of the one before.
  What `RowsOwnRules` says of missing maps and of edits between rows is therefore said of a
  client that waits (`Waits`); a client that prepares statements can get such rows even if
  it does, since only a Describe would bring their description, and that ends the session.
* A GSSENCRequest reaches the server one byte too long; the server's single byte is
  no message to the codec, so the client waits until the idle timeout. A CancelRequest
  loses process number and key on its way through the codec and cancels nothing.
* A client that connects and closes without a byte costs a slot and a connection to
  the server. The server's answer to the proxy's SSLRequest, its greeting (MySQL) and
  the upstream TLS handshake are awaited without a deadline, out of reach of a shutdown.
* A frontend Describe has the letter of a DataRow and is refused by the codec; the
  session closes. It is outside the traffic of `DataPath` (`Kinds`).
* Two overlapping `commit_config` calls share the temporary file: a torn policy or a
  lost update. One client that hangs up and tries again is enough. What is claimed of the
  policy holds until two changes overlap (`raced`).
* With the watcher on, as it always is, one client that waits for every answer can lose an
  acknowledged edit (see 7 of the control plane in section 4).
* `commit_config` writes the live policy, into which the start has put
  `IRONVEIL_MASKING_SECRET`: the environment's secret ends up in `proxy.yaml`. The
  temporary file is not synced before the rename, so a power failure may lose it.
* A save within the debounce is dropped, not postponed, and may never be loaded.
  `LastSaveIsLoaded` is about an editor that replaces the file by a rename and waits for
  the watcher; one that writes in place can be read half way, and then fails to load or
  loads in part.
* Two overlapping reloads may leave the key of one with the policy of the other.
* Two overlapping calls of `apply_config`, or one whose client hangs up between its
  two assignments, leave the audit path of one section with the settings of another.
  `audit_log` has one reloader.
* A rotation that fails half way is started over by the next write, which deletes
  one more generation each time; `max_rotated_files: 0` keeps one backup; lowering
  the setting leaves the older generations in place.
* A passthrough session with TLS on one leg only relays the sequence numbers of one
  leg onto the other, where they are off by one. `InSequence` excludes it.
* The answers to COM_FIELD_LIST and COM_CHANGE_USER have no column count: a column
  definition or an AuthMoreData is taken for one. With CLIENT_DEPRECATE_EOF, or when
  caching_sha2_password authenticates from its cache, what follows ends the session;
  `StumblesOnlyThere` names the two commands. Column names of several COM_FIELD_LIST in
  a row add up until the next query.
* The contents of a file for LOAD DATA LOCAL INFILE and the reply to a switch of plugins
  in COM_CHANGE_USER are commands to the client-facing decoder. One that begins with the
  byte of COM_QUERY does no harm; one that begins with that of a prepared statement (0x16,
  0x17, 0x1c) is answered with an ERR and not forwarded: a piece of the file is missing, or
  the server waits for a proof that the proxy has swallowed. `StumblesOnlyThere` names it,
  and nobody is owed an answer after it (`Spoilt`, `lost`).
* A result of 4096 columns is not recognised as one. MySQL's rules are read once per
  column definition, so an edit may fall between two.
* A PostgreSQL session whose first ReadyForQuery finds no rules never loads the
  catalog, and one that has it never learns of tables created later.
* `phone_span_regex` takes in the character on either side of a number, so of two
  numbers with one character between them the second is not found (`SharesGap`).
* The keys of JSON objects and numbers in documents are not masked; of two members with
  one key the first is not looked at, and leaves if nothing else in the document is
  replaced; an explicit json rule forwards a bare number. A document in which a string is
  replaced is printed anew by serde_json without `arbitrary_precision`: the shadowed member
  is gone and long numbers are rounded.
* `mask_postgres_array` parts on commas only. Beside an array element that is replaced,
  others are not looked into for spans, and an address or number at either end of an inner
  array, with its brace, is such another: it leaves in clear (`ArrayHidden`).
* Under a json rule for one column, `SensitiveHidden` allows what json leaves in a document of
  any column (`UnderJson`); it is not tied to the column's own rule.
* `redact_sql_literals` knows quotes and backslashes. A quote in a comment, in a name in
  backquotes (MySQL) or in quotes (PostgreSQL), and in PostgreSQL a backslash in a standard
  string and a dollar quote, put it out of step, and a literal behind it is logged: that an
  "oddly-escaped literal swallows the rest of the statement rather than resuming in cleartext"
  (`main.rs:301-302`) is not so there. `LogCarriesNoValue` holds up to the first such place.
  E'' strings, MySQL's version comments, nested comments, ANSI_QUOTES and
  NO_BACKSLASH_ESCAPES are left out.
* The log names a masked column as its description does. MySQL names a literal column
  without an alias by the literal, so `SELECT 'a@b.c'` puts the address in the log as a
  name. `LogCarriesNoValue` says that a name is one that was given, no more.
* `encode_query` writes a single header, so a query of 16 MB is truncated in its length;
  a row that masking makes longer than one packet takes sequence numbers that the
  packet after it has again.
* A health check that is off at the start and switched on by a reload is reported as
  "starting" for ever; one switched off goes on probing. A threshold of 0 is met at
  every probe.
* A reload that takes the credentials out of the policy leaves a listener open beyond
  loopback, which `api.rs:69-70` promises not to happen; `StrangersKeptOut` says that
  much. The API's task may serve before `main` finds the MySQL credentials incomplete and gives up.
* A rule without a table may stand before the rule that an edit updates or appends,
  and then decides instead of it. A rule of the file with an empty table keeps a key of
  its own until an edit normalises it.
* Of a column whose name hints at one type and whose data show another, the database
  scanner lowers the confidence; NULLs count as rows that do not match, and so do values
  of types that do not convert to a string (`db_scanner.rs:490`).
* The scanner asks for tables with `NOT LIKE 'pg_%'` and `NOT LIKE 'sql_%'`, in which `_` is
  any character: a user's `pgbench` or `sqlite_import` is skipped, in a report that says
  completed. `ReportIsComplete` is about the tables that are left.
* The rate limit refills its whole bucket at once, so that twice the limit may pass
  around a refill. A write of the audit log that stalls stalls its callers.

Not modelled: the messages of a TLS handshake (it succeeds, or the session ends); the
rounds of PostgreSQL's authentication, which pass as they are (one stands for all);
the contents of COPY, which pass as they are, too; the fields of MySQL's handshake, OK
and ERR packets; which characters an expression of the scanner accepts and what a
stand-in looks like; telemetry, metrics, the dashboard and read-only routes; a crash
of the machine rather than of the process; panics. A failure to bind the API's address counts
as a crash.

## 6. Plan

Done, in this order: connection admission and its proofs; the PostgreSQL session; the
configuration store; the MySQL session; the audit log; the data path with codecs,
masking, redaction and log ring; the control plane with rule lists, start, API
access, health check and database scan; proofs about the policy store, the health
check, and the start and the relay of a PostgreSQL session; proofs about the audit log,
the agreement of file, memory and key, and the whole of a MySQL session; proofs about
the edits of the rule list, that an acknowledged one is not lost, and the reports of a
database scan; proofs about the data path; the types of a PostgreSQL session.

Next, most important first:

1. `PgRelay` and `MySqlRelay` on one abstract specification, `MaskedStream`: rows go out in
   order, each under the description the server sent for it.
2. Results of 4096 columns and the limits of lengths in `MySqlFrames`.

Every invariant of a passing run is proved; `CleanDrain` and `EditsAreKeyed`, action
properties, too.
