# TLA+ verification of the SOC decision engine

This directory holds TLA+ models of the programs in this repository, TLC
configurations that model-check them on small instances, and proofs, checked by
TLAPS, that hold for every size of the system. The models are translated from
the Python sources; where a document says something else than the code, the
model follows the code and the difference is a run that is expected to fail, or
an exception that a property names.

## The system

```
 Suricata --> Vector --> motor/main.py (FastAPI, /decide)
                              |  scores every flow in a pool of processes
                              v
             Redis:  soc:flows   soc:decisions   soc:response:tasks
                                      |                  |
                    motor/opensearch_indexer.py   motor/response/worker.py
                                      |              R1: enrichment.py
                                      v              R2: enforcer.py
                     OpenSearch: soc-decisions           |
                                                         v
 Wazuh FIM --> vigilante/watcher.py ---> Wazuh API --> firewalls, agents
                    |  cases.py, notify.py                 |
                    v                              infra/quarantine-file
             Redis: soc:cases:*, soc:watcher:heartbeat
                    ^                        ^
          motor/dashboard.py      vigilante/heartbeat_check.py
 Suricata --> vigilante/shadow_detect.py --> OpenSearch: soc-experimental-detections
 Suricata --> scripts/training/etiquetador --> training corpus (CSV)
```

### Inventory

| component | source | state | operations | what makes it correct | hard parts |
|---|---|---|---|---|---|
| Fast path | `motor/main.py`, `motor/redis_client.py`, `motor/response/queue.py` | process pool, open requests, three Redis streams | `/decide`, `process_event`, `publish_flow`, `publish_decision`, `enqueue_response_task` | what is answered 200 was published; a failing Redis never makes `/decide` fail; every event ends | Vector's two-second timeout and retries against requests that run on; a pool process that dies; partial publication |
| Response queue | `motor/response/queue.py`, its consumer group | stream, last-delivered id, pending entries | XADD with MAXLEN, XREADGROUP, XACK | nothing is skipped or handed out twice | trimming while the worker is down; lost replies |
| Response worker | `motor/response/worker.py`, `enforcer.py`, `config.py`, `schemas.py` | reply in hand, `soc:blocks:*`, requests to Wazuh, the rules of its agents, audit stream | `run`, `process_task`, `respond_block`, the three enforcers | only corroborated tier-3 addresses outside the lab are dropped; a drop is visible in Redis; one response per task | crashes between read and ack, calls whose answer is lost or never comes, agents that run a request late or never, two TTL clocks, a mode that changes between starts |
| Enrichment (R1) | `motor/response/enrichment.py`, `crowdsec_adapter.py` | three Redis caches | `enrich` and its lookups | a source that did not answer corroborates nothing; a cached verdict is at most one TTL old | staleness, negative caching |
| Audit indexer | `motor/opensearch_indexer.py` | last hash, state file, documents | the loop, `index_decision`, `save_state`, `load_state` | every document chains to a stored one; each decision is indexed once | crash between two saves, half-written state file, two copies running |
| Dashboard | `motor/dashboard.py`, `dashboard.html`, `motor/auth.py` | the list each board shows; writes cases | queries, `list_cases`, `update_case_state` | an analyst's change is not lost; no change is decided on a closed case; no open case is hidden | read-modify-write without a lock, stale boards, answers out of order, the list's limit |
| FIM watcher | `vigilante/watcher.py`, `notify.py`, `cases.py` | read position, seen paths, cases | `tail_alerts`, `handle_alert`, `open_case` | a suspicious file leaves the webroot and has a case | half-done handling after a failure, lines read while they are written, restarts that seek to the end, paths seen before |
| Quarantine script | `infra/quarantine-file` | files and their `.origin` | `do_add`, `do_delete` | evidence is kept and can be restored | names with one-second resolution, dying between move and `.origin` |
| Heartbeat check | `vigilante/heartbeat_check.py`, `write_heartbeat`, `get_watcher_heartbeat` | heartbeat, cooldown flag | `check`, the watcher's heartbeat, the traffic light | an outage is mailed in time and once per cooldown | flag and mail are not atomic; a flag an earlier outage left; the watcher comes back in the middle of a check |
| Shadow detector | `vigilante/shadow_detect.py` | byte offset, documents | `check`, `read_new_events`, `upsert_finding` | every event is looked at, counted once | half-written lines, the line limit, crash between upserts and offset |
| Scoring | `motor/model.py`, `motor/main.py:92-112` | none | `predict`, `tier`, `score_event` | the T3 override, monotone tiers | floating point, trained models |
| Daily labeller | `scripts/training/etiquetador` | cursor, score cache, corpus | the daily run, `get_label`, `query_abuse` | each flow is labelled once, no attack is taught as benign | state saved after the rows, files emptied before they are written, records that come late, the quota |
| Relabelling | `scripts/training/relabeling` | none | one-off rewriting of a corpus | - | run by hand |
| Ingestion | `pipeline-ingesta`, `infra/vector` | Vector's own | drop, clamp, batch, retry | - | lives in Vector; its retries are part of the fast path's model |
| Root API | `api/`, `main.py` | none | inference | - | stateless |

`PROJECT.json` lists the same components with the modules that model them, and
every hazard at its source line with the properties that would catch it.

## How the models are built

Each program is modelled at the grain of its calls. Whatever a process does
between two calls that leave it (Redis, HTTP, the disk, a queue) is one step;
every such call is a step of its own, with an action for its success and one
for its failure, so that other processes, the clock, a lost answer or a crash
can come between any two of them. Data is abstract: an address, a path, an
entity or a decision is a model value or a number. Bounds on what the outside
does are constants named `Max...` in the guards: tasks, failing calls, crashes.

A definition whose name ends in `_Something` and whose comment begins with
"Faulty:" is not part of a specification. It is a plausible bug in the
definition that follows it, kept to show that a property would notice it.

| module | models | state it keeps | composed with |
|---|---|---|---|
| `ResponseWorker` | `worker.py`, `enforcer.py`, `queue.py` and the consumer group | stream, group cursor, pending entries, `soc:blocks` keys with their TTL, audit records, requests to Wazuh and their delay, firewall rules, the process | refines `ResponseContract` |
| `ResponseContract` | what the response layer promises the fast path | status of each task, requests for a drop, drops | |
| `ResponseWorker_proofs` | proofs | | |
| `AuditIndexer` | `opensearch_indexer.py`, any number of copies | decisions, group, documents, state file, the processes | refines `AuditTree` |
| `AuditTree` | an append-only hash tree | the documents | |
| `AuditIndexer_proofs` | proofs | | |
| `FastPath` | `/decide`, `process_event`, the pool, Vector's sink | batches, jobs, pool, streams | |
| `FastPath_proofs` | proofs | | |
| `ShadowDetect` | `shadow_detect.py`, eve.json, OpenSearch's refresh | file, offset, documents, the run | |
| `ShadowDetect_proofs` | proofs | | |
| `Enrichment` | `enrichment.py`, `crowdsec_adapter.py` | three caches, the enrichment under way, how old each answer is | |
| `Enrichment_proofs` | proofs | | |
| `CaseBoard` | `list_cases`, `update_case_state`, the handlers of `main.py`, the page's `refresh` and buttons | cases, posts and answers under way, the boards | |
| `CaseBoard_proofs` | proofs | | |
| `FimResponse` | `watcher.py`, `open_case`, the mail, `quarantine-file` | webroot, quarantine, alerts, the watcher, cases | |
| `Heartbeat` | `heartbeat_check.py`, `write_heartbeat`, `get_watcher_heartbeat`, the timer | ages of the heartbeat and the flag, the check, mails | |
| `FimWatcher_proofs` | proofs about `FimResponse` and `Heartbeat` | | |
| `Labeller` | `etiquetador_diario.py`, eve.json | cursor, cache, corpus, which files are empty, the run | |
| `Labeller_proofs` | proofs | | |
| `MC...` | instances for TLC | | |

### ResponseWorker

`Enqueue` is `enqueue_response_task` (tier gate, XADD, trimming at `MaxLen`);
`Start`, `CreateGroup`, `Read`, `ReadReplyLost` and `EmptyPoll` are the loop of
`run()`; `Enrich` is R1 together with the gates of `process_task` that need no
call (tier, corroboration, no address, safelist); `AlreadyBlocked`,
`NotBlocked` and `CheckFails` are `is_blocked`; `DryRunBlock`, `WazuhBlock`,
`WazuhFails` and `WazuhRaises` the enforcers; `RecordBlock`/`RecordFails` are
`_record_block`; `Audit`/`AuditFails` are `_audit`; `Ack`/`AckFails` the
`finally` clause.

What R2 does at the firewall happens in two places. `WazuhBlock` is the PUT that got a
2xx, which is all `block()` looks at (`enforcer.py:124`): it puts a request into `sent`
and touches no firewall. `FirewallDrop(x)` is an agent running the request, at any later
moment: at once, up to `MaxDelay` ticks later, or, past that bound, never (`MayRun`: the
agents were off line, refused it in `failed_items`, or their execd hung, as in
docs/BITACORA_TECNICA.md:317). No fairness makes an agent run anything. A drop that is
run for an address with a rule renews it or lets it run out, either way. The firewall of
one agent stands for any of them.

`Crash` is the death of the process, `Hang` a call to Redis that never returns (the
client of `worker.py:104-107` has no socket timeout), `Kill` somebody ending such a
process. `Exit` says what follows: "down", which systemd restarts
(`Restart=on-failure`), or "stopped", which it does not (SIGTERM, a `Requires=` that
failed as in docs/BITACORA_TECNICA.md:655, a used-up `StartLimitBurst`) and which a
`Start` by an operator ends.

An entry is its position in the stream, and the reply a
process works through is the interval `cur .. end`, because XREADGROUP with `>`
hands out a contiguous run. `Tick` lets keys, rules and waiting requests age. The settings
(`response_mode`, `enforcer_backend`) are read again at every `Start`, so a key a dry run
wrote can meet an enforcing process, and a process that enforces without a backend that
does (`DryRunBlock`) one that has it.
`fate`, `requests`, `drops`, `unrecorded`, `faulted` and `slow` (the tasks whose block was
recorded in a later tick than Wazuh took the request) are history variables.

Left out: Redis losing its data while the worker runs (the group is only
created at start-up), entries that are not valid JSON (nothing but
`enqueue_response_task` writes the stream), and retries inside redis-py, which
can repeat an audit XADD (the audit trail is a set here). A crash with a PUT in
flight is `WazuhBlock` followed by `Crash`.

### AuditIndexer

One action per call of `main()`; `Truncate` and `Write` are the two halves of
`save_state`, so a process can die with an empty state file, which `load_state` takes
for genesis. `Interrupt` is Ctrl-C in the loop, which saves and leaves.
`InterruptIndexing` is Ctrl-C while the answer to a POST is awaited: the document is
stored, `last_hash` is not assigned (line 185), and the hash that is saved is the one
before, so the next start forks the chain; nothing has failed, and `cuts` counts it by
itself. SIGTERM is a `Crash`, because nothing handles it, and so is Ctrl-C where the
`except` of the loop does not reach: before the loop, in the save on leaving, in the
pause after an error. A hash is the sequence of the decisions it commits to: SHA-256 is
assumed injective and nothing else about it is used. `Workers` is a set because two
copies have run at once (docs/BITACORA_TECNICA.md:592); they share the consumer name and
the file.

### FastPath

A job is one run of `process_event`: a batch, an attempt and an event. `Post`
is a request reaching `decide()`, `Timeout` Vector giving it up without the
server noticing. `Threads` bounds the default executor, `PoolWorkers` the
process pool. `PoolDies` makes every pending and later job of this server fail
(`BrokenProcessPool`). `Publication` lets a failing call have reached Redis or
not. The tier of an event is fixed (`Quiet`), the score is not computed. The
addresses of an event are taken to be strings or missing, as Vector sends them;
anything else would raise in `ResponseTask` and end the job like a broken pool.

Reading the code also showed, without a property here: `X-Trace-Id` is read and
not used; `model_version` is not published; the production Vector configuration
(`infra/vector`) drops `IPV4_SRC_ADDR`, so its tasks carry no address and R2
skips them.

### Enrichment

`NotAsked`, `CacheHit`, `CacheMiss`, `CacheReadFails`, `Answer`, `AnswerFails`,
`Store` and `StoreFails` are the steps of `_abuseipdb_lookup`, and then, with
`service` moved on by `NextLookup`, of `_otx_lookup`, which has the same control
flow; the map gives lines of either. The `List...` actions and `FetchDecisions`
are `_crowdsec_lookup`. A score is kept as whether it reaches its threshold. `Tick`
is the clock: it takes one tick from every time to live and adds one to every age;
`Slack` stands for the timeouts that bound one enrichment. `high`, `listed` and
`absent` remember when a service last said what the result says.

Left out: reverse DNS, the notes, and answers whose JSON is not an object, which
raise `AttributeError` out of `enrich` although `enrichment.py:294` says it never
raises and leave the task unacknowledged, as `WazuhRaises` of `ResponseWorker` does.
One process enriches: the worker.

### CaseBoard

`OpenCase` is `open_case` seen from Redis at its SADD. `ListCases` is the handler of
`/api/dashboard/cases` from the SMEMBERS to its answer, which is then on its way
(`answers`) until `Show` renders it or `RefreshFails` drops it with the other nine
requests of `refresh()`. `Click` is `handleCaseAction`; `ReadCase` and `WriteCase` are
the GET and the SET of `update_case_state`. Both handlers are `async def` and never
await, and motor-soc.service starts one uvicorn process, so `InHandler` keeps
any other handler from starting between the two. The histories are the cases:
state and history are written together. Both closed states are one.

Left out: the OpenSearch panels; a state that is not valid (400) and an unknown case
(404), which no board sends. The same blocking calls hold up `/decide`; in `FastPath`
that is a `Timeout`, which may come at any moment.

### ShadowDetect

A line of eve.json is two units long, which is enough for an offset to lie inside it.
`ReadNewEvents` is the loop of `read_new_events` when it runs to the end of the file,
`TellFails` when the limit ends it. The file is read in one step: what Suricata appends
during the read belongs to the next one. A search sees the first `searchable` documents,
and `Refresh` makes the others visible at some time; the window moves with `Expire`.
Which events are findings, and for which entities, is the constant `Events`. The
findings of a run are a set (`todo`), and `IsNext` takes them from it in the order of
the file.

### FimResponse

`TriggerQuarantine` only appends to `scripts`; the script's steps follow
whenever the agent gets to them. A quarantined file is its name (second and
flattened path), the content under it and what its `.origin` says. `shutil.move`
is an atomic rename and chmod is part of it. `KillScript` is a script that dies, and
also a request no agent runs. `LineTorn` is a line `readline`
returned before Wazuh had written all of it; it is not a failure, since no call
fails, and has a bound of its own (`MaxTorn`). `torn` and `skipped` (by a restart)
remember the alerts no process took up, `failed` the paths whose handling met a
failure. alerts.json is not rotated in this model.

### Heartbeat

Everything is on one clock, whose tick stands for half the timer's period in the
instance. `Beat` is `write_heartbeat` called by the loop of `tail_alerts`;
`Toggle` lets that loop stop and go on: the watcher is dead, restarted, or busy
with an alert. `Get`, `Reset`, `Exists`, `Mail` and `SetFlag` are the five
calls of `check`; `CheckFails` is Redis failing, or the process dying, at any of
them, `AlertMailFails` is `send_case_email` returning False, for a mail that left or
one that did not. Time does not pass (`ClockTick`) before a watcher that is up has
tried its heartbeat and the timer has fired, and at most once during a check:
the calls of a check time out in far less than a period. `told`, `waited` and
`early` remember what the operator has been mailed about the silence that goes
on. An age stops counting at `AgeMax`, above everything it is compared with.
The socket timeout and a `Light` whose own read fails are left out. The specification is
called `Watchdog` and its type invariant `TypesOK`, so that the module can be
extended together with `FimResponse`, the rest of the watcher.

### Labeller

A record of eve.json is an alert of one of three categories or the end of a
flow; its stamp is one more than the latest, the same, or one less, which
happens because several threads write the file. `ReadEve` reads it in one step,
up to a line that is half written. `Ask` is one call of AbuseIPDB, the busiest
source first; `OpenCache`/`DumpCache` and `OpenState`/`DumpState` are the two
halves of the JSON files, and `broken` the files whose first half was the last.
`WriteRow` is one round of phase 4's loop: the next flow in the order of the file
(`IsNext`) gets its row, and `at` is the record it ended with. `WriteBreaks` is the run
that dies in that loop: the rows before are on disk, since the file is buffered
and written in order, and of the next one there may be a part (`ragged`), so that the
next run continues that line (`glued`). `headed` is whether the corpus existed
with a header; `MayWrite` is false for a corpus whose header csv does not find, which
makes the first row fail, and with it the run (`HeaderFails`). `passed` are the records
no run will read because the cursor has gone past their stamp.

Left out: reasons, confidence, the feature columns and the JSONL index that
fills one of them (they decide nothing: the fourth and the sixth rule of
`get_label` both answer 0 and together do not depend on duration or packets);
the rotation of eve.json, whose records are then gone; a run without an API key,
which is one whose every call fails; which flows belong to a controlled campaign
(`Controlled`).

## What is checked

Runs that pass:

| run | instance | properties |
|---|---|---|
| `worker_safety` | 2 addresses (one safelisted) or none, 2 sources, both modes and a backend that only simulates, 2 tasks, replies of 2, MAXLEN 2, TTL 2, requests up to 2 ticks late or never run, ticks at any moment, 1 crash, 1 failing or hanging call | `TypeOK`, `DropsJustified`, `DropsRecorded` (`DropsVisible`, `NoRedrop`), `KeysExplained`, `AuditMatchesRequests` |
| `worker_liveness` | 1 address, 1 source, 3 tasks, replies of 2, MAXLEN 2, TTL 1, requests run within the tick or never, 1 crash, 1 failing or hanging call | `DeliveryKept` (`NeverReprocessed`, `AckedMeansFinished`, `NothingSkipped`), `LossBounded`; `KeepsContract`: refinement of `ResponseContract`; `EverySettles` |
| `indexer` | 2 copies, 3 decisions, 1 crash, 1 Ctrl-C, 1 failing call | `TypeOK`, `DecisionsKept` (`IndexedOnce`, `AckedMeansIndexed`), `ForksBounded`, `StateLagBounded`, `GrowsTree`: refinement of `AuditTree`, which includes that no document dangles; `EveryDecisionSettles` |
| `fastpath` | 1 batch of a critical, a quiet and an invalid event, 2 attempts that overlap, 2 threads, 1 pool process, 1 fault, 1 dead pool, 1 crash | `TypeOK`, `DeliveredMeansPublished`, `RedisNeverBreaksDecide`, `EveryJobEnds` |
| `enrichment` | 1 public and 1 private address, TTL 2, list TTL 1, 1 tick per enrichment, 1 failing Redis call, 1 crash | `TypeOK`, `ResultIsRecent` (`CorroborationIsFresh`, `CrowdSecIsRecent`), `QuotaKept` |
| `case_board` | 2 analysts, 2 cases, lists of 1, 2 changes, 2 answers on their way, 1 failing call or restart | `TypeOK`, `HistoryIsTrue` (`NoChangeLost`, `DecidedOnOpen`), `QueueHonest` |
| `shadow` | 1 entity, 3 events, 1 half line, 1 rotation, 1 fault, 1 crash, runs of 2 lines, searches that lag | `TypeOK`, `EventsKept` (`CountedOncePerCrash`, `NothingMissed`), `DuplicatesBounded`, `LookedUnlessOverrun` |
| `fim_safety` | 2 paths, one out of the script's reach, 2 uploads, 1 restoration, 2 seconds, 1 fault or killed script, 1 restart, 1 line read in two parts | `TypeOK`, `EvidenceRecoverable` (`EvidenceKept`, `OriginMatches`), `CasesBounded`, `AlertsAreAnswered` |
| `heartbeat` | threshold 4 ticks, cooldown 8, a check every 2, green below 2, yellow below 4, 2 failing calls | `TypesOK`, `OutageIsMailed`, `MailsAreSpaced` |
| `labeller` | 2 flows of 2 sources, one flow in a campaign, 3 records, 1 late, scores 30 and 90, 1 call a run, 1 killed run, a corpus with and without a header | `TypeOK`, `LabelledOnce`, `LabelsJustified`, `EveryFlowIsLabelled` |

Runs that are violated, each the disagreement of the code with a sentence of the
repository, quoted in `PROJECT.json` under "findings":

| run | property | what TLC shows |
|---|---|---|
| `shadow_line_limit` | `EveryEventIsLooked` | past the line limit no run gets anywhere |
| `fim_collision` | `EvidenceKept` | one quarantined file replaces another |

The models have further behaviours a reader of the documents would not expect.
The properties above are stated so that they name them as the only exceptions:

- `worker.py:5` calls the consumer group at-least-once; entries a process had
  read when it died are never claimed or read again (`Stranded`, counted by
  `LossBounded`, "lost" in the contract).
- `opensearch_indexer.py:10` takes prev_hash for the hash of the preceding
  document; a process that dies between two saves leaves two documents with one
  predecessor, and so does Ctrl-C while a document is being stored, where nothing has
  failed (`Forks`, counted by `ForksBounded`).
- `queue.py:6` says of a task that its decision was published; the results of
  `publish_flow` and `publish_decision` are not looked at, so a task can exist
  without its decision (`faulted` in `DeliveredMeansPublished`).
- `config.py:64` says the TTL is "alineado con Wazuh AR timeout"; when an address
  offends again only the key is renewed (`enforcer.py:167`), so a key can stand
  without a rule. `KeysExplained` allows it for a key that was renewed, that a dry
  run wrote, behind a failing call, a crash or a hanging process, for a request that no
  agent ran within the tick or that was recorded in a later one, and for no other.
- A rule an agent installs late outlives the key that was written when the request
  was taken, so the worker may ask for a second drop while it stands, though no call
  failed (`DropsVisible` and `NoRedrop` allow for the delay and for no more).
- `enforcer.py:190` calls "bloqueo ejecutado" what line 124 only knows to be a request that
  Wazuh took. A request no agent runs, with no failing call, leaves a key and a "block" in the
  audit trail; `AuditMatchesRequests` therefore speaks of requests, not of drops.
- `shadow_detect.py:367` says a half-written line is read by the next run; the saved
  offset lies inside it and the event is dropped (`torn` in `NothingMissed`).
- `shadow_detect.py:354` recognises a rotated file by its being shorter than the offset
  only; `NothingMissed` and `LookedUnlessOverrun` are stated for a file that was not
  rotated.
- `shadow_detect.py:27-32` promises one document per entity and window; a search does
  not see what was indexed since the last refresh, and one that fails counts as empty:
  `DuplicatesBounded` leaves out the documents written after such a search (`unseen`).
- `watcher.py:4-6` promises a quarantine for every new executable file, but line 102 ignores a
  path it has seen, also when a new file was written there: that file stays in the webroot.
  `AlertsAreAnswered` is therefore stated for the first alert of a path in a life of the
  watcher. A failing `open_case` leaves a seen path without a case
  (counted by `CasesBounded`). An alert whose line was read while Wazuh wrote it, and one
  that came while the watcher was down, is never taken up (`torn` and `skipped` in
  `AlertsAreAnswered`).
- `watcher.py:71` takes Wazuh's acceptance of the request for the quarantine:
  `TriggerQuarantine` sets `triggered`, whatever becomes of the script.
- `heartbeat_check.py:75` promises no second mail within the cooldown; one that fails
  after its mail and before its flag repeats it (counted by `MailsAreSpaced`). A DEL
  that fails leaves the flag of an outage that is over, which mutes the next one for
  what is left of the cooldown (`troubled` in `OutageIsMailed`).
- `etiquetador_diario.py:272` skips records stamped like the cursor or before it that
  were logged after it was saved (`passed` in `LabelledOnce`). Killed while it writes
  its state or its cache, or with a corpus it created itself, it never gets through a
  run again (the exceptions of `EveryFlowIsLabelled`).
- A flow whose last alert is noise is benign for the corpus even if an earlier one was
  an attack, and a flow whose alert an earlier run had read counts without it
  (`LabelsJustified`).
- A restarted watcher may ask for a path again in the same second; the names then
  collide, so `EvidenceKept` and `OriginMatches` are stated for one life of it.

### Bounds

The limits of the code are scaled, not removed: a reply holds two entries where the
code's holds 16 or 10, so that a crash, an acknowledgement or a save falls before,
inside and at the end of a reply; the stream keeps two entries, so that MAXLEN trims
what is unread; the state file is written every second decision; a TTL is two ticks, so
that it can be renewed halfway. Three tasks or decisions make two replies, the second
shorter than the first. `worker_safety` has two tasks, a first offence and a repeat, and
delays (`MaxDelay`) up to a whole TTL, so that a request can be run when its key is
gone; in `worker_liveness`, whose properties do not look at keys or rules, both last one
tick. One line of alerts.json read in two parts (`MaxTorn`) can fall on the first or the
second alert of a path. The safety properties that a failure excuses are stated with the
number of failures (`LossBounded`, `ForksBounded`, `EventsKept`, `CasesBounded`,
`MailsAreSpaced`, `LabelledOnce`), so one failure of each kind already shows what one
failure can do in every state, and two of different kinds what they can do together.
Symmetry is used for the reputation sources in `worker_safety` and for the analysts and
answers in `case_board`, which have no liveness properties.

In `enrichment` no tick is more than a step, so one tick of slack lets an entry
expire between the steps of one enrichment, and ages stop counting where no
property tells them apart. In `case_board` a list of one case and two cases put
an open case at the limit behind an open or a closed one; two answers on their
way can be shown in the wrong order on one board; two changes can be of one
analyst or of two, to one case or to two.

In `heartbeat` the cooldown is longer than the threshold by more than a period and a
check, as in the code, and two failing calls are enough for a mail without its flag
followed by another one, and for a DEL that is missed when the next outage begins.
In `labeller` one call a run leaves the second source unknown; three records make
an attack alert, a noise alert and the end of their flow, or two flows that compete
for the call, or two runs; all scores lie above `SCORE_BENIGNO`, because a score
below it decides like an unknown one.

### Fairness

- `ResponseWorker`: weak fairness of the worker's own steps while it is not "stopped": a
  process goes on, and `response-worker.service` restarts one that failed
  (`Restart=on-failure`). It is not assumed that calls time out, because the client of
  `worker.py:104-107` sets no socket timeout (docs/BITACORA_TECNICA.md:359 found the
  worker alive and hung after Redis had come back), nor that systemd restarts every
  process that ends (docs/BITACORA_TECNICA.md:655 found it dead for days). "hung" and
  "stopped" are exceptions of `EverySettles`, and no fairness makes anybody end them.
  Nothing is assumed of the fast path, the clock or the agents.
- `AuditIndexer`: weak fairness of each copy. The unit is not in the repository;
  docs/BITACORA_TECNICA.md:592 gives its `Restart=always`.
- `FastPath`: weak fairness of the executor running some job while one can run. Which
  job gets a thread or a pool process is not assumed to be fair, nor is anything
  Vector does.
- `ShadowDetect`: weak fairness of the runs: the timer fires every five minutes
  and every request has a timeout.
- `Labeller`: weak fairness of the runs (cron starts one a day, and every request has a
  timeout) and of Suricata ending the line it has begun.
- `Enrichment` and `CaseBoard` state no liveness and assume nothing. `Heartbeat` has
  no fairness either: its properties bound delays in ticks, and it is `ClockTick` that
  waits for the timer and for a watcher that is up.
- `FimResponse`: weak fairness of the watcher (`Restart=always`) and of each
  script.

Crashes, lost answers, rotations and the fast path's tasks are never fair: they
may stop at any time.

## What is proved

All theorems hold for every value of the constants that the named assumptions
allow, so for any number of tasks, faults, crashes, addresses, copies and any
limits.

`ResponseWorker_proofs` (assumptions `ConstantsOK`, and `TtlAligned` for those
about keys and rules):

- `TypeCorrect`: `TypeInv` strengthens `TypeOK` by where `cur` and `end` lie when
  the process has an entry in hand; without that `stream[cur]` has no type.
- `NothingIsSkipped`, `TasksAreNeverReprocessed`, `AcknowledgedIsFinished`: from
  `CursorOK` and `DeliveryOK`/`FateOK`, which relate the group's cursor to the
  fate of each entry: what lies behind the cursor is queued only if it was trimmed, what
  lies in front of `cur` in the reply is "delivered", and an entry that is
  delivered but not pending is finished.
- `DropsAreJustified` (of every request Wazuh took, and so of every drop an agent ran),
  `LabIsNeverDropped`: from `GateOK`, which carries the gates of `process_task` and
  `respond_block` along the program counter (at "check" and "enforce" the task in hand
  has the tier, the sources and an address that is not barred), and `DropSafe` for the
  rules that stand, which come from requests only. `LabNeverDropped` is proved only: no
  run checks it, since `DropsJustified` meets the same gates.
- `DropsAreVisible`, `RecordedDropsAreNotRepeated`: the key starts when Wazuh takes the
  request, the rule when an agent runs it. `PendingOK` relates every request that waits to
  the key of its address (what the key has left and the time the request has waited make up
  at least `BlockTtl`, unless it went unrecorded or is about to be recorded), and `VisibleOK`
  carries that over to the rule when the request is run: it outlives its key by no more
  than the delay it was run with. It needs `TtlAligned`: a rule must not get more time than
  a key. config.py:64 states the alignment, no code enforces it.
- `DeliveryIsKept` and `DropsAreRecorded` put these together as the runs check them.
- `AuditAgreesWithRequests`: from `BegunOK`. A request belongs to a task that was begun, the
  one in hand has none before "enforce", and then either has "block" for its action or a
  call of it failed; so what `_audit` writes is whether Wazuh took a request. Of what the
  agents did with it the theorem says nothing, since the code does not look.
- `LossIsBounded`: with `BatchOK`, by which what is left of a reply is never more than
  one read hands out. Only a crash, a hanging call or a lost reply moves entries out of
  the interval in hand to `Stranded`, and `LossCarries` adds the cardinalities.
- `WorkerKeepsContract`: the refinement of `ResponseContract`. `StatusTable` reads the status
  of an entry off its fate, the cursor and the interval in hand; each action then changes
  the status of the entry in hand, or of the entries a crash strands or MAXLEN trims,
  as one abstract step does, or of none.
- `KeysAreExplained`, for any two lifetimes of key and rule that are aligned, and a tick
  between any two calls. A rule that is run at once and recorded in its tick starts
  together with its key; what comes in between leaves a trace that stays (`Durable`). From
  `ExcusesOK` (a rule nobody recorded and a call made blindly have a failure to show) and
  `KeysOK` (what is about to be recorded is a fresh rule, a request not run at once, a
  repeat or a dry run).

`AuditIndexer_proofs` (assumption `IndexerConstants`):

- `IndexerTypeCorrect`.
- `NoLinkDangles`: from `TreeInv`: each process's `last` and the state file are
  genesis or the hash of a stored document, so whatever a process chains to is in the
  index, also after a crash, a truncated file or a refused document.
- `DecisionsAreIndexedOnce`: the decision in hand of a process is not indexed and no
  two processes have the same one in hand, because the group hands each out once.
- `AcknowledgedIsIndexed`; `DecisionsAreKept` is both as the run checks them.
- `IndexerGrowsTree`: the refinement of `AuditTree`, every step a new leaf or a
  stutter.
- `StateFileIsClose`: from `LagInv`. While no call has failed and no two processes have run side
  by side there is one process, and its documents since the last save are as many as
  it has counted, one more before it acknowledges.
- `ForksArePaidFor`: the number of forks is not inductive, since a crash causes one that comes
  later. `ForkInv` adds `Debt`, the processes (the next one, if none runs) that will not
  find a hash without a successor to chain to: `Heads` are such hashes among those the
  processes hold and the one in the state file. A fork moves one from `Debt` to `Forks`;
  only a failure, a crash, an overlap or a Ctrl-C that cuts off a document raises their
  sum, by one.

`FimWatcher_proofs` about `Heartbeat` (assumption `HeartbeatConstants`: a period and a
tick are within the threshold, and yellow ends before it):

- `TypeIsKept`: the flags and the counters apart, because the provers for truth
  values and for arithmetic are different ones.
- `MailsKeepTheCooldown`: from `SilenceInv` (a mailed silence still goes on, a check
  that found one is right about it until a heartbeat comes, one that mails does so
  without a flag) and `DebtInv`: the early mails, and one more when a mail has no flag
  that lasts as long as its cooldown and no check about to set it, are no more than
  the calls that failed.
- `OutagesAreMailed`: from `ClockInv` (a check takes a tick at most) and `MailInv`: until a
  check has read the heartbeat of a silence no more than its period has passed
  (`BeatInv`), a flag of an earlier outage is gone by the first check or a cooldown after
  the heartbeat (`FlagInv`), and `SoonInv`, `LaterInv` and `AgainInv` bound how old a
  silence can be before it is mailed and mailed again, by what the check in progress may
  still take (`Grace`) and a period for each failing call (`Delays`).

`FastPath_proofs` (assumption `FastPathConstants`), for any batches, attempts, threads
and pool processes:

- `FastPathTypeCorrect`.
- `DeliveredIsPublished`: from `JobsOK` (a publication that a run of `process_event` has
  behind it is in Redis, or one of the run's calls failed; an invalid event never gets to the
  first and a quiet one never to the last) and `DeliveredOK` (a batch that counts as
  delivered has an attempt whose runs are all done). The second is kept because no
  later attempt follows the one that was answered, and a crash ends only runs that are
  not done.
- `RedisBreaksNothing`: from `DeathOK`: a run that ended early has the death of a pool process
  or of the server before it.

`Enrichment_proofs` (assumption `EnrichmentConstants`), for any addresses, lifetimes and
timeouts:

- `EnrichmentTypeCorrect`.
- `EnrichmentIsRecent`: an opinion in a cache and the time its entry has left make up at most
  `Ttl + Slack` (`CacheFresh`, `CrowdFresh`), because an entry is written no later than
  `Slack` after the answer; in the enrichment under way the opinion ages no faster than
  the enrichment (`ScoreFresh`, `ListFresh`).
- `QuotaIsKept`: from `QuotaOK`. An answer is owed when its entry will be gone before it is
  a lifetime old; a tick takes from the entry what it adds to the age, so only a failed
  write, a death before the write or an unreadable cache puts one on the bill.

`CaseBoard_proofs` (assumption `CaseBoardConstants`), for any analysts, cases, clicks and
answers under way:

- `CaseBoardTypeCorrect`.
- `HistoriesAreTrue`: a step adds at most one entry to one history (`NewEntry`), so what is
  on a board or under way stays a beginning of the history it was read from
  (`ListsOK`), a click decided on such a beginning (`ClicksOK`), and so did each entry
  (`EntriesOK`). That nothing is lost rests on `HandlerOK`, one handler at a time, which is what
  the event loop gives.
- `QueueIsHonest`, an action property. The cases of a list, counted from the newest, are
  numbered by an injection into an interval of the same size, so onto it (`RankIsOnto`): a list
  that leaves a case out holds `Limit` newer ones (`NewestIsFull`).

`FimWatcher_proofs` about `FimResponse` (assumption `FimConstants`), for any files,
uploads, restorations, seconds, dying scripts and failing calls:

- `FimTypeCorrect`: with the histories of lost alerts and of failed paths apart
  (`LossTyped`), which most steps leave alone.
- `EvidenceIsRecoverable`: both parts of `EvidenceRecoverable`, while the watcher is not
  restarted and when `safe_name` tells the paths apart (`NamesDiffer`; `fim_collision` is
  what happens when it does not). In one life the watcher asks for a path once
  (`AskedOnce`), so a name that holds a file, or had one, has its script behind it (`Used`)
  and is not filled again (`UsedOK`): a file is not replaced, and the `.origin` that a
  restoration removes is not that of a newer file, however the scripts interleave.
- `CasesAreBounded`: from `CountInv`. The paths without a listed case, but for the one in
  hand, are no more than the failures, and the cases of a path are one for each life of the
  watcher that ended and one for this life once it has opened it (`ThisLife`).

`ShadowDetect_proofs` (assumption `ShadowConstants`), for any events, limit of lines,
half-written lines, rotations, failing requests and killed runs:

- `DetectorTypeCorrect`: with `PhaseOK`, by which a half-written line is in the file, nothing
  waits to be written outside "find" and "write", and a run that reads knows the offset
  in the file.
- `FindingsAreKept`, both parts of `EventsKept`. From `OnceInv`: what lies behind the offset the
  next reader will start at (`ReadsFrom`, 0 in a file shorter than the offset), and what the
  run is about to write, was counted by killed runs only (`Unread`); a finding that is
  being written lies before the offset to be saved, unless it was truncated away, so
  counting it leaves `Unread` true. From `KeptInv`: without a rotation what ends by an
  offset is counted, failed or still to be written (`Covered`).
- `DocumentsAreFew`: from `DocsInv`. The later one of two documents of an entity inside the
  window was written after a blind search, and so will be the one about to be written.

`Labeller_proofs` (assumption `LabellerConstants`), for any flows, sources, campaigns,
scores, quota, late or half-written records and killed runs:

- `LabellerTypeCorrect`: with `LogOK` (no record of a flow follows its end, and stamps are
  bounded, so that the latest one that `Top` and `Latest` choose exists: `HasGreatest`) and
  `RunOK` (a source waits to be asked about only while the quota lasts).
- `FlowsAreLabelledOnce`, both parts of `LabelledOnce`. The first part speaks of the time
  between two runs; `CoveredOK` is what holds at any time, and `WrittenOK` is why it
  survives the step that moves the cursor: in "write" the flows up to `at` have their rows,
  and after it all flows of the run have. For the second, the copies of a flow alone
  are not inductive. `CopiesOK` adds one for a flow whose row this run, or a later one, is
  still to write (`Owed`): the sum grows only when a run is killed with the row on
  disk and the cursor where it was, and that run is counted in `crashes`.
- `LabelsAreJustified`: from `CursorOK`, by which an alert that an earlier run read, and
  that was not passed over, lies before every record that this run finds fresh, so a
  run that meets only noise met it after the attack; and from `RowsOK`, by which a
  row is written after its flow has ended (`Ended`), so no later alert takes its
  reason away (`Justified`).

Every invariant and every refinement the runs check is stated by one of these theorems.
Model-checked only:

- Liveness (`EverySettles`, `EveryDecisionSettles`, `EveryJobEnds`, `LookedUnlessOverrun`,
  `AlertsAreAnswered`, `EveryFlowIsLabelled`): the prover has no rule for ENABLED, so
  fairness cannot be used in a proof.

## What is not modelled

`PROJECT.json` gives the reason for each component. In short: the trained models
and their floating point, the dashboard's queries, authentication, the training
and relabelling scripts, the root API and configuration files hold no state that other parts
depend on. `worker.py` says in its header that responses go to the hash-chained
index too; nothing in the repository reads `soc:response:audit` but the
dashboard, so there is nothing to model.

## Plan

Done: `ResponseWorker`, `ResponseContract`, `AuditIndexer`, `AuditTree`, `Heartbeat`,
`FastPath`, `Enrichment`, `CaseBoard`, `FimResponse`, `ShadowDetect`, `Labeller` and their
proofs.

Next: `Pipeline`, with `FastPath`'s streams as the input of `ResponseWorker` and
`AuditIndexer`.

## Running

`tlc -config X.cfg M` for the pairs in `PROJECT.json`; `tlapm` on the eight `..._proofs`
modules for the proofs. The largest runs take two minutes.
