--------------------------- MODULE ResponseWorker ---------------------------
(***************************************************************************)
(* The response worker (motor/response/worker.py) with the enforcer it     *)
(* drives (enforcer.py) and the Redis stream that feeds it (queue.py).     *)
(*                                                                         *)
(* The fast path appends tasks to the stream soc:response:tasks; one       *)
(* process reads them through a consumer group, enriches the source        *)
(* address (R1), decides whether to drop it at the firewall (R2), audits   *)
(* the outcome and acknowledges the entry.  Every call that leaves the     *)
(* process (Redis, the Wazuh API) is one step, so that the clock, the fast *)
(* path, a failing call or a crash may come between any two of them.       *)
(*                                                                         *)
(* An entry is named by its position in the stream.  XREADGROUP with ">"   *)
(* returns a contiguous run of positions, so the reply a process still has *)
(* to work through is the interval cur .. end.                             *)
(***************************************************************************)
EXTENDS Naturals, Sequences, FiniteSets

CONSTANTS
  Ips,            \* source addresses an event may carry
  NoIp,           \* src_ip = None: the pipeline dropped the address
  Safelist,       \* settings.safelist
  Internal,       \* private, loopback, link-local or malformed addresses
  Reserved,       \* is_reserved addresses
  Sources,        \* reputation sources that can corroborate
  R1MinTier,      \* settings.r1_min_tier
  R2MinTier,      \* settings.r2_min_tier
  MinSources,     \* settings.min_corroborating_sources_for_autoblock
  Settings,       \* response_mode and enforcer_backend a start may read
  ExtendOnRepeat, \* settings.block_extend_on_repeat
  BlockTtl,       \* settings.block_ttl_seconds, in clock ticks
  FirewallTtl,    \* Wazuh's own active-response timeout, in clock ticks
  ReadCount,      \* COUNT of XREADGROUP (16)
  MaxLen,         \* MAXLEN of XADD (200 000)
  MaxDelay,       \* bound: ticks a request may wait for the agents before it is lost
  MaxTasks,       \* bound: tasks enqueued
  MaxFaults,      \* bound: calls to Redis or Wazuh that fail or hang
  MaxCrashes      \* bound: times the process dies

Tiers == 0..3

Task == [ip : Ips \cup {NoIp}, tier : Tiers]

ASSUME ConstantsOK ==
  /\ NoIp \notin Ips
  /\ Safelist \subseteq Ips /\ Internal \subseteq Ips /\ Reserved \subseteq Ips
  /\ IsFiniteSet(Sources)
  /\ R1MinTier \in Nat /\ R2MinTier \in Nat /\ MinSources \in Nat
  /\ Settings \subseteq [mode : {"dry_run", "enforce"}, backend : {"dry_run", "wazuh_api"}]
  /\ ExtendOnRepeat \in BOOLEAN
  /\ BlockTtl \in Nat \ {0} /\ FirewallTtl \in Nat \ {0}
  /\ ReadCount \in Nat \ {0} /\ MaxLen \in Nat \ {0}
  /\ MaxDelay \in Nat /\ MaxTasks \in Nat /\ MaxFaults \in Nat /\ MaxCrashes \in Nat

(* config.py gives the Redis key the duration of the Wazuh rule ("alineado *)
(* con Wazuh AR timeout"): the key is never the shorter of the two.        *)
ASSUME TtlAligned == FirewallTtl <= BlockTtl

VARIABLES
  \* Redis
  stream,         \* tasks ever appended, by position
  first,          \* position of the oldest entry MAXLEN has left in place
  group,          \* does the consumer group exist?
  lastDelivered,  \* last-delivered-id of the group
  pel,            \* pending entries: delivered, not acknowledged
  blockKey,       \* soc:blocks:<ip>: ticks the key has left, 0 when absent
  audit,          \* records in soc:response:audit
  \* Wazuh and the firewall of an agent it manages
  sent,           \* requests for firewall-drop the agent has not run, with their delay
  firewall,       \* ticks the drop rule of an address has left, 0 when absent
  requests,       \* every request Wazuh ever took, with what justified it
  drops,          \* those the agent ran, with the delay they had
  \* the worker process
  pc,             \* the call it is about to make
  settings,       \* what get_settings read when this process started
  cur, end,       \* entry in hand and last entry of the reply being processed
  sources,        \* sources that corroborated the address in hand
  action,         \* record.block.action of the task in hand
  blind,          \* EXISTS failed for the task in hand
  \* history
  fate,           \* how far each entry got
  unrecorded,     \* addresses asked for last by a call nobody recorded
  faulted,        \* entries one of whose calls failed
  slow,           \* entries whose block was recorded in a later tick than it was taken
  faults, crashes

redisVars   == <<stream, first, group, lastDelivered, pel>>
workerVars  == <<settings, cur, end, sources, action, blind>>
wazuhVars   == <<sent, firewall, requests, drops>>
historyVars == <<fate, unrecorded, faulted, slow, faults, crashes>>
vars == <<redisVars, blockKey, audit, wazuhVars, pc, workerVars, historyVars>>

Fates   == {"queued", "delivered", "started", "done", "failed"}
Actions == {"none", "block", "block_skipped", "block_pending_approval"}
InTask  == {"check", "enforce", "record", "audit", "ack"}
Pcs     == {"down", "stopped", "hung", "setup", "read", "task"} \cup InTask

TypeOK ==
  /\ stream \in Seq(Task) /\ fate \in Seq(Fates) /\ Len(fate) = Len(stream)
  /\ first \in Nat \ {0} /\ first <= Len(stream) + 1
  /\ group \in BOOLEAN
  /\ lastDelivered \in 0..Len(stream)
  /\ pel \subseteq 1..Len(stream)
  /\ blockKey \in [Ips -> 0..BlockTtl] /\ firewall \in [Ips -> 0..FirewallTtl]
  /\ audit \subseteq [entry : 1..Len(stream), action : Actions]
  /\ sent \subseteq [entry : 1..Len(stream), late : 0..MaxDelay + 1]
  /\ requests \subseteq [entry : 1..Len(stream), ip : Ips, sources : SUBSET Sources,
                         settings : Settings]
  /\ drops \subseteq [entry : 1..Len(stream), late : 0..MaxDelay]
  /\ pc \in Pcs /\ settings \in Settings
  /\ cur \in Nat /\ end \in Nat
  /\ sources \subseteq Sources /\ action \in Actions /\ blind \in BOOLEAN
  /\ unrecorded \subseteq Ips
  /\ faulted \subseteq 1..Len(stream) /\ slow \subseteq 1..Len(stream)
  /\ faults \in 0..MaxFaults /\ crashes \in 0..MaxCrashes

Init ==
  /\ stream = <<>> /\ first = 1
  /\ group = FALSE /\ lastDelivered = 0 /\ pel = {}
  /\ blockKey = [ip \in Ips |-> 0] /\ firewall = [ip \in Ips |-> 0]
  /\ audit = {} /\ sent = {} /\ requests = {} /\ drops = {}
  /\ pc \in {"down", "stopped"} /\ settings \in Settings
  /\ cur = 1 /\ end = 0
  /\ sources = {} /\ action = "none" /\ blind = FALSE
  /\ fate = <<>> /\ unrecorded = {} /\ faulted = {} /\ slow = {}
  /\ faults = 0 /\ crashes = 0

-----------------------------------------------------------------------------
(* What the worker decides from the task alone.                            *)

task == stream[cur]

IsSafelisted(ip) == ip \in Safelist \cup Internal

IsPublicIp(ip) == ip \in Ips \ (Internal \cup Reserved)

(* R1 asks the sources only for tasks of its tier and public addresses; a  *)
(* source that is down, unconfigured or out of quota corroborates nothing. *)
MayCorroborate(t) ==
  IF t.tier >= R1MinTier /\ IsPublicIp(t.ip) THEN Sources ELSE {}

ReachesR2(t) == t.tier >= R2MinTier

(* Faulty: a single source is enough.                                      *)
Corroborated_AnySource(S) == S # {}

Corroborated(S) == Cardinality(S) >= MinSources

(* respond_block gives up before looking at the state of the address.      *)
Barred(ip) == ip = NoIp \/ IsSafelisted(ip)

(* build_enforcer: the network is touched only when both settings say so.  *)
Enforcer ==
  IF settings.backend = "wazuh_api" /\ settings.mode = "enforce" THEN "wazuh_api" ELSE "dry_run"

Fault == faults < MaxFaults /\ faults' = faults + 1

(* A failing call made for the entry in hand.                              *)
TaskFault == Fault /\ faulted' = faulted \cup {cur}

-----------------------------------------------------------------------------
(* enqueue_response_task, called by the fast path.  A failing XADD that    *)
(* did not reach Redis changes nothing; one that did is an Enqueue.  With  *)
(* MAXLEN ~ Redis trims lazily but never below MaxLen entries.             *)

Enqueue(t) ==
  /\ Len(stream) < MaxTasks
  /\ t.tier >= R1MinTier
  /\ stream' = Append(stream, t)
  /\ fate' = Append(fate, "queued")
  /\ first' \in {first} \cup {k \in first .. Len(stream') : k + MaxLen <= Len(stream') + 1}
  /\ UNCHANGED <<group, lastDelivered, pel, blockKey, audit, wazuhVars, pc, workerVars,
                 unrecorded, faulted, faults, slow, crashes>>

(* A request that is later than MaxDelay is one no agent runs: they were   *)
(* off line, refused it (failed_items), or their execd hung.               *)
MayRun(x) == x.late <= MaxDelay

Later(x) == [x EXCEPT !.late = IF MayRun(x) THEN @ + 1 ELSE @]

(* Faulty: the key is written without an expiry.                           *)
Tick_KeysStay ==
  /\ \E ip \in Ips : firewall[ip] > 0
  /\ firewall' = [ip \in Ips |-> IF firewall[ip] > 0 THEN firewall[ip] - 1 ELSE 0]
  /\ sent' = {Later(x) : x \in sent}
  /\ slow' = IF pc = "record" /\ action = "block" THEN slow \cup {cur} ELSE slow
  /\ UNCHANGED <<redisVars, blockKey, audit, requests, drops, pc, workerVars, fate, unrecorded,
                 faulted, faults, crashes>>

(* Redis expires keys and Wazuh expires its rules with the same clock; a   *)
(* tick may fall between any two calls of the worker.                      *)
Tick ==
  /\ \/ \E ip \in Ips : blockKey[ip] > 0 \/ firewall[ip] > 0
     \/ \E x \in sent : MayRun(x)
  /\ blockKey' = [ip \in Ips |-> IF blockKey[ip] > 0 THEN blockKey[ip] - 1 ELSE 0]
  /\ firewall' = [ip \in Ips |-> IF firewall[ip] > 0 THEN firewall[ip] - 1 ELSE 0]
  /\ sent' = {Later(x) : x \in sent}
  /\ slow' = IF pc = "record" /\ action = "block" THEN slow \cup {cur} ELSE slow
  /\ UNCHANGED <<redisVars, audit, requests, drops, pc, workerVars, fate, unrecorded, faulted,
                 faults, crashes>>

(* An agent runs firewall-drop, sooner or later.  A rule that is already   *)
(* there is renewed or left to run out.                                    *)
FirewallDrop(x) ==
  /\ x \in sent /\ MayRun(x)
  /\ sent' = sent \ {x}
  /\ drops' = drops \cup {x}
  /\ LET ip == stream[x.entry].ip IN
       \E left \in {FirewallTtl} \cup ({firewall[ip]} \ {0}) :
         firewall' = [firewall EXCEPT ![ip] = left]
  /\ UNCHANGED <<redisVars, blockKey, audit, requests, pc, workerVars, historyVars>>

-----------------------------------------------------------------------------
(* The process: run().                                                     *)

(* systemd starts the process when it is "down", an operator when it was   *)
(* left "stopped"; get_settings reads .env once.                           *)
Start ==
  /\ pc \in {"down", "stopped"}
  /\ pc' = "setup"
  /\ settings' \in Settings
  /\ UNCHANGED <<redisVars, blockKey, audit, wazuhVars, cur, end, sources, action, blind,
                 historyVars>>

(* Faulty: the group is created at the end of the stream (id=$).           *)
CreateGroup_AtEnd ==
  /\ pc = "setup"
  /\ pc' = "read"
  /\ group' = TRUE
  /\ lastDelivered' = IF group THEN lastDelivered ELSE Len(stream)
  /\ UNCHANGED <<stream, first, pel, blockKey, audit, wazuhVars, workerVars, historyVars>>

(* Faulty: every start recreates the group from the first entry.           *)
CreateGroup_Anew ==
  /\ pc = "setup"
  /\ pc' = "read"
  /\ group' = TRUE
  /\ lastDelivered' = 0
  /\ UNCHANGED <<stream, first, pel, blockKey, audit, wazuhVars, workerVars, historyVars>>

(* XGROUP CREATE ... id=0: an existing group (BUSYGROUP) is left as it is. *)
CreateGroup ==
  /\ pc = "setup"
  /\ pc' = "read"
  /\ group' = TRUE
  /\ lastDelivered' = IF group THEN lastDelivered ELSE 0
  /\ UNCHANGED <<stream, first, pel, blockKey, audit, wazuhVars, workerVars, historyVars>>

(* Restart=on-failure: systemd starts the process again, but not after a   *)
(* SIGTERM, nor when the Redis it Requires= did not start, nor once        *)
(* StartLimitBurst is used up.                                             *)
Exit == pc' \in {"down", "stopped"}

(* A connection error here is not caught: the process exits.               *)
CreateGroupFails ==
  /\ pc = "setup"
  /\ Fault
  /\ Exit
  /\ UNCHANGED <<redisVars, blockKey, audit, wazuhVars, workerVars, fate, unrecorded,
                 faulted, slow, crashes>>

Undelivered == {i \in first .. Len(stream) : i > lastDelivered}

(* Faulty: XREADGROUP without COUNT.                                       *)
NextBatch_All == Undelivered

(* The entries XREADGROUP ">" COUNT ReadCount hands out.                   *)
NextBatch == {i \in Undelivered : \A j \in Undelivered : i < j + ReadCount}

Deliver ==
  /\ NextBatch # {}
  /\ pel' = pel \cup NextBatch
  /\ \E last \in NextBatch : (\A i \in NextBatch : i <= last) /\ lastDelivered' = last
  /\ fate' = [i \in 1..Len(fate) |->
                IF i \in NextBatch /\ fate[i] = "queued" THEN "delivered" ELSE fate[i]]

Read ==
  /\ pc = "read"
  /\ Deliver
  /\ cur' \in NextBatch /\ \A i \in NextBatch : cur' <= i
  /\ end' = lastDelivered'
  /\ pc' = "task"
  /\ UNCHANGED <<stream, first, group, blockKey, audit, wazuhVars, settings, sources, action,
                 blind, unrecorded, faulted, faults, slow, crashes>>

(* The reply is lost after Redis has moved the group on: the call is made  *)
(* again, and ">" does not hand these entries out a second time.           *)
ReadReplyLost ==
  /\ pc = "read"
  /\ Fault
  /\ Deliver
  /\ UNCHANGED <<stream, first, group, blockKey, audit, wazuhVars, pc, workerVars, unrecorded,
                 faulted, slow, crashes>>

(* BLOCK 5000 runs out with nothing to deliver.                            *)
EmptyPoll ==
  /\ pc = "read"
  /\ NextBatch = {}
  /\ UNCHANGED vars

-----------------------------------------------------------------------------
(* process_task for the entry in hand.                                     *)

(* R1, then the gates of R2 that need no call: tier, corroboration, no     *)
(* address, safelist.                                                      *)
Enrich(S) ==
  /\ pc = "task"
  /\ S \subseteq MayCorroborate(task)
  /\ sources' = S
  /\ blind' = FALSE
  /\ fate' = [fate EXCEPT ![cur] = "started"]
  /\ \/ /\ ~ReachesR2(task)
        /\ action' = "none"
        /\ pc' = "audit"
     \/ /\ ReachesR2(task) /\ ~Corroborated(S)
        /\ action' = "block_pending_approval"
        /\ pc' = "audit"
     \/ /\ ReachesR2(task) /\ Corroborated(S) /\ Barred(task.ip)
        /\ action' = "block_skipped"
        /\ pc' = "audit"
     \/ /\ ReachesR2(task) /\ Corroborated(S) /\ ~Barred(task.ip)
        /\ action' = "none"
        /\ pc' = "check"
  /\ UNCHANGED <<redisVars, blockKey, audit, wazuhVars, settings, cur, end, unrecorded,
                 faulted, faults, slow, crashes>>

(* is_blocked says yes: skip, and with extend_on_repeat renew the key.     *)
AlreadyBlocked ==
  /\ pc = "check"
  /\ blockKey[task.ip] > 0
  /\ action' = "block_skipped"
  /\ pc' = IF ExtendOnRepeat THEN "record" ELSE "audit"
  /\ UNCHANGED <<redisVars, blockKey, audit, wazuhVars, settings, cur, end, sources, blind,
                 historyVars>>

(* Faulty: a simulated block is reported as a real one.                    *)
GoOn_ReportsBlock ==
  IF settings.mode = "dry_run"
    THEN pc' = "record" /\ action' = "block"
    ELSE pc' = "enforce" /\ UNCHANGED action

(* The address counts as not blocked: dry_run only records it.             *)
GoOn ==
  IF settings.mode = "dry_run"
    THEN pc' = "record" /\ action' = "block_skipped"
    ELSE pc' = "enforce" /\ UNCHANGED action

NotBlocked ==
  /\ pc = "check"
  /\ blockKey[task.ip] = 0
  /\ GoOn
  /\ UNCHANGED <<redisVars, blockKey, audit, wazuhVars, settings, cur, end, sources, blind,
                 historyVars>>

(* is_blocked answers False when Redis does not answer.                    *)
CheckFails ==
  /\ pc = "check"
  /\ TaskFault
  /\ blind' = TRUE
  /\ GoOn
  /\ UNCHANGED <<redisVars, blockKey, audit, wazuhVars, settings, cur, end, sources, fate,
                 unrecorded,
                 slow, crashes>>

-----------------------------------------------------------------------------
(* enforcer.block.                                                         *)

(* DryRunEnforcer: nothing happens and enforced is False.                  *)
DryRunBlock ==
  /\ pc = "enforce" /\ Enforcer = "dry_run"
  /\ action' = "block_skipped"
  /\ pc' = "audit"
  /\ UNCHANGED <<redisVars, blockKey, audit, wazuhVars, settings, cur, end, sources, blind,
                 historyVars>>

(* Wazuh takes the request and passes it on to its agents.                 *)
AskForDrop ==
  /\ requests' = requests \cup
       {[entry |-> cur, ip |-> task.ip, sources |-> sources, settings |-> settings]}
  /\ sent' = sent \cup {[entry |-> cur, late |-> 0]}
  /\ UNCHANGED <<firewall, drops>>

(* Any 2xx counts as a block: that Wazuh took the request is all block()   *)
(* looks at.                                                               *)
WazuhBlock ==
  /\ pc = "enforce" /\ Enforcer = "wazuh_api"
  /\ AskForDrop
  /\ action' = "block"
  /\ pc' = "record"
  /\ UNCHANGED <<redisVars, blockKey, audit, settings, cur, end, sources, blind, fate,
                 unrecorded, faulted, faults, slow, crashes>>

(* An HTTPError: Wazuh may have taken the request all the same (the answer *)
(* timed out); block returns False either way.                             *)
WazuhFails ==
  /\ pc = "enforce" /\ Enforcer = "wazuh_api"
  /\ TaskFault
  /\ \/ /\ AskForDrop
        /\ unrecorded' = unrecorded \cup {task.ip}
     \/ UNCHANGED <<wazuhVars, unrecorded>>
  /\ action' = "block_skipped"
  /\ pc' = "audit"
  /\ UNCHANGED <<redisVars, blockKey, audit, settings, cur, end, sources, blind, fate, slow,
                 crashes>>

(* An authentication answer without a token raises out of process_task:    *)
(* run() logs it and goes to its finally clause, past the audit.           *)
WazuhRaises ==
  /\ pc = "enforce" /\ Enforcer = "wazuh_api"
  /\ TaskFault
  /\ fate' = [fate EXCEPT ![cur] = "failed"]
  /\ pc' = "ack"
  /\ UNCHANGED <<redisVars, blockKey, audit, wazuhVars, workerVars, unrecorded,
                 slow, crashes>>

-----------------------------------------------------------------------------
(* Faulty: the TTL is added to what the key has left.                      *)
RecordBlock_Adds ==
  /\ pc = "record"
  /\ blockKey' = [blockKey EXCEPT ![task.ip] = @ + BlockTtl]
  /\ unrecorded' = unrecorded \ {task.ip}
  /\ pc' = "audit"
  /\ UNCHANGED <<redisVars, audit, wazuhVars, workerVars, fate, faulted, faults,
                 slow, crashes>>

(* Faulty: SET ... NX leaves an existing key as it is.                     *)
RecordBlock_OnlyNew ==
  /\ pc = "record"
  /\ blockKey' = [blockKey EXCEPT ![task.ip] = IF @ > 0 THEN @ ELSE BlockTtl]
  /\ unrecorded' = unrecorded \ {task.ip}
  /\ pc' = "audit"
  /\ UNCHANGED <<redisVars, audit, wazuhVars, workerVars, fate, faulted, faults,
                 slow, crashes>>

(* _record_block: SETEX with the full TTL.                                 *)
RecordBlock ==
  /\ pc = "record"
  /\ blockKey' = [blockKey EXCEPT ![task.ip] = BlockTtl]
  /\ unrecorded' = unrecorded \ {task.ip}
  /\ pc' = "audit"
  /\ UNCHANGED <<redisVars, audit, wazuhVars, workerVars, fate, faulted, faults,
                 slow, crashes>>

RecordFails ==
  /\ pc = "record"
  /\ TaskFault
  /\ unrecorded' = IF action = "block" THEN unrecorded \cup {task.ip} ELSE unrecorded
  /\ pc' = "audit"
  /\ UNCHANGED <<redisVars, blockKey, audit, wazuhVars, workerVars, fate, slow, crashes>>

(* _audit, the last thing process_task does.                               *)
FinishTask ==
  /\ fate' = [fate EXCEPT ![cur] = "done"]
  /\ pc' = "ack"

Audit ==
  /\ pc = "audit"
  /\ audit' = audit \cup {[entry |-> cur, action |-> action]}
  /\ FinishTask
  /\ UNCHANGED <<redisVars, blockKey, wazuhVars, workerVars, unrecorded, faulted,
                 faults, slow, crashes>>

AuditFails ==
  /\ pc = "audit"
  /\ TaskFault
  /\ FinishTask
  /\ UNCHANGED <<redisVars, blockKey, audit, wazuhVars, workerVars, unrecorded, slow, crashes>>

(* The finally clause: XACK whatever happened, then the next entry.        *)
NextEntry ==
  /\ cur' = cur + 1
  /\ pc' = IF cur < end THEN "task" ELSE "read"

Ack ==
  /\ pc = "ack"
  /\ pel' = pel \ {cur}
  /\ NextEntry
  /\ UNCHANGED <<stream, first, group, lastDelivered, blockKey, audit, wazuhVars, settings, end,
                 sources, action, blind, historyVars>>

AckFails ==
  /\ pc = "ack"
  /\ TaskFault
  /\ NextEntry
  /\ UNCHANGED <<redisVars, blockKey, audit, wazuhVars, settings, end, sources, action, blind,
                 fate, unrecorded, slow, crashes>>

-----------------------------------------------------------------------------
(* The process will never go on: what it had read is gone with it.         *)
Abandon ==
  /\ unrecorded' = IF pc = "record" /\ action = "block"
                     THEN unrecorded \cup {task.ip} ELSE unrecorded
  /\ UNCHANGED <<redisVars, blockKey, audit, wazuhVars, workerVars, fate, faulted, slow>>

Crash ==
  /\ pc \notin {"down", "stopped", "hung"}
  /\ crashes < MaxCrashes /\ crashes' = crashes + 1
  /\ Exit
  /\ Abandon
  /\ UNCHANGED faults

(* The client has no socket_timeout: a call to a Redis that is gone        *)
(* without closing the connection does not return, also when Redis is back.*)
Hang ==
  /\ pc \in {"setup", "read", "task"} \cup (InTask \ {"enforce"})
  /\ Fault
  /\ pc' = "hung"
  /\ Abandon
  /\ UNCHANGED crashes

(* Somebody notices and kills the process.                                 *)
Kill ==
  /\ pc = "hung"
  /\ Exit
  /\ UNCHANGED <<redisVars, blockKey, audit, wazuhVars, workerVars, historyVars>>

WorkerStep ==
  \/ Start \/ CreateGroup \/ CreateGroupFails
  \/ Read \/ ReadReplyLost \/ EmptyPoll
  \/ \E S \in SUBSET Sources : Enrich(S)
  \/ AlreadyBlocked \/ NotBlocked \/ CheckFails
  \/ DryRunBlock \/ WazuhBlock \/ WazuhFails \/ WazuhRaises
  \/ RecordBlock \/ RecordFails
  \/ Audit \/ AuditFails
  \/ Ack \/ AckFails

Next ==
  \/ \E t \in Task : Enqueue(t)
  \/ Tick
  \/ \E x \in sent : FirewallDrop(x)
  \/ Crash \/ Hang \/ Kill
  \/ WorkerStep

Spec == Init /\ [][Next]_vars

(* The process runs on unless it hangs, and systemd restarts the one that  *)
(* is "down" (Restart=on-failure, RestartSec=5).  Nobody has to notice one *)
(* that hangs or was left stopped, and no agent has to run a request.      *)
FairSpec == Spec /\ WF_vars(pc # "stopped" /\ WorkerStep)

-----------------------------------------------------------------------------
(* Properties.                                                             *)

(* The entries the running process has yet to acknowledge.                 *)
InHand == IF pc \in InTask \cup {"task"} THEN cur .. end ELSE {}

Finished(i) == fate[i] \in {"done", "failed"}

(* Delivered to a process that will never finish it.                       *)
Stranded == {i \in 1 .. Len(stream) : fate[i] \in {"delivered", "started"} /\ i \notin InHand}

(* Trimmed away by MAXLEN before any process read it.                      *)
Trimmed == {i \in 1 .. Len(stream) : fate[i] = "queued" /\ i < first}

(* Every firewall-drop that Wazuh was ever made to take, and so every one  *)
(* an agent ever ran, was asked for by a task of tier R2 whose address     *)
(* MinSources sources corroborated, was no address of the lab, and came    *)
(* from a process in enforce mode with the Wazuh backend: the safeguards   *)
(* of respond_block and the gate of process_task, across restarts, mode    *)
(* changes, failing calls and agents that run it when all that is over.    *)
DropsJustified ==
  /\ \A r \in requests :
       /\ stream[r.entry].ip = r.ip /\ stream[r.entry].tier >= R2MinTier
       /\ Cardinality(r.sources) >= MinSources
       /\ r.sources \subseteq MayCorroborate(stream[r.entry])
       /\ r.ip \notin Safelist \cup Internal
       /\ r.settings = [mode |-> "enforce", backend |-> "wazuh_api"]
  /\ \A d \in sent \cup drops : \E r \in requests : r.entry = d.entry

(* No rule stands on a firewall for an address of the lab, whatever was    *)
(* enqueued (safelist, "barrera dura").                                    *)
LabNeverDropped == \A ip \in Ips : firewall[ip] > 0 => ip \notin Safelist \cup Internal

(* The entry about to be processed was never begun before, by this process *)
(* or by one that died: no restart and no lost reply makes run() execute a *)
(* response twice.                                                         *)
NeverReprocessed == pc = "task" => \A i \in cur .. end : fate[i] = "delivered"

(* XACK only follows process_task: a delivered entry that is no longer     *)
(* pending was processed to its end, one way or the other, so whatever a   *)
(* crash took can still be found with XPENDING.                            *)
AckedMeansFinished ==
  \A i \in 1 .. lastDelivered : fate[i] # "queued" /\ i \notin pel => Finished(i)

(* The group moves past an entry only by handing it out or after MAXLEN    *)
(* dropped it: an entry enqueued before the first start, or while the      *)
(* worker was down, is not skipped.                                        *)
NothingSkipped ==
  \A i \in 1 .. Len(stream) : fate[i] = "queued" /\ i <= lastDelivered => i < first

(* What became of a delivery: it is begun once, leaves the pending list    *)
(* when it is finished, and none is passed over but what was trimmed.      *)
DeliveryKept == NeverReprocessed /\ AckedMeansFinished /\ NothingSkipped

(* One crash or one lost reply costs at most the ReadCount entries of one  *)
(* read.                                                                   *)
LossBounded == Cardinality(Stranded) <= ReadCount * (crashes + faults)

Target(x) == stream[x.entry].ip

(* SETEX for a request that was taken is the next call.                    *)
Recording(ip) == pc = "record" /\ action = "block" /\ task.ip = ip

(* A rule the worker asked for shows as a key in Redis (and so on the      *)
(* dashboard and to is_blocked) for as long as it stands, unless the call  *)
(* that recorded it failed or never happened, or it stands longer by no    *)
(* more than the time an agent took to run the request.                    *)
DropsVisible ==
  \A ip \in Ips :
    \/ firewall[ip] <= blockKey[ip]
    \/ ip \in unrecorded \/ Recording(ip)
    \/ \E d \in drops : Target(d) = ip /\ firewall[ip] <= blockKey[ip] + d.late

(* "No re-bloquea" holds but for what nobody told the worker: a second     *)
(* firewall-drop is asked for while a rule stands, or while the agent may  *)
(* still run the first one, only if Redis did not answer, the first was    *)
(* not recorded, or the agent was late by what the rule has left, or by    *)
(* the whole life of a key.                                                *)
NoRedrop ==
  pc = "enforce" =>
    \/ blind \/ task.ip \in unrecorded
    \/ /\ \/ firewall[task.ip] = 0
          \/ \E d \in drops : Target(d) = task.ip /\ firewall[task.ip] <= d.late
       /\ \A x \in sent : Target(x) = task.ip /\ MayRun(x) => x.late >= BlockTtl

(* Key and rule tell the same story, but for the delay of the agent, for   *)
(* as long as their recording works.                                       *)
DropsRecorded == DropsVisible /\ NoRedrop

(* The audit trail and Wazuh agree: a record says "block" only for a       *)
(* request that Wazuh took, and one it took for a task that ran to its end *)
(* without a failing call has its "block" record.  What the agents make of *)
(* the request the audit trail does not say.                               *)
AuditMatchesRequests ==
  /\ \A a \in audit : a.action = "block" => \E r \in requests : r.entry = a.entry
  /\ \A r \in requests :
       Finished(r.entry) /\ r.entry \notin faulted
         => [entry |-> r.entry, action |-> "block"] \in audit

(* A request for this entry waits, was run late or will never be run.      *)
NotRunAtOnce(i) == \E x \in sent \cup drops : x.entry = i /\ (x \in sent \/ x.late > 0)

(* A key that outlives its rule by more than it was given to goes back to  *)
(* a task that was answered "block_skipped" (a repeat offender, for whom   *)
(* only the key is renewed, or a dry run), to a failing call or a process  *)
(* that died, to a request that the agent did not run within the tick in   *)
(* which Wazuh took it, or to one that was recorded in a later tick: any   *)
(* other address that counts as blocked is being dropped ("alineado con    *)
(* Wazuh AR timeout").                                                     *)
KeysExplained ==
  \A ip \in Ips : blockKey[ip] > firewall[ip] + (BlockTtl - FirewallTtl) =>
    \E i \in 1 .. Len(stream) :
      /\ stream[i].ip = ip
      /\ \/ i \in faulted \cup Stranded \cup slow
         \/ NotRunAtOnce(i)
         \/ [entry |-> i, action |-> "block_skipped"] \in audit
         \/ i = cur /\ pc \in InTask /\ action = "block_skipped"

(* The worker keeps the contract: what a submitted task has become is read *)
(* off its fate, and it is lost when no process will finish it.            *)
StatusOf(i) ==
  CASE Finished(i)                             -> "settled"
    [] i \in Stranded \cup Trimmed             -> "lost"
    [] fate[i] = "started" /\ i \in InHand     -> "started"
    [] OTHER                                   -> "waiting"

Contract == INSTANCE ResponseContract WITH
  Droppable <- {t \in Task : ReachesR2(t) /\ ~Barred(t.ip)},
  tasks     <- stream,
  status    <- [i \in 1 .. Len(stream) |-> StatusOf(i)],
  asked     <- {r.entry : r \in requests},
  dropped   <- {d.entry : d \in drops}

(* run() implements the contract: tasks begin in stream order, one at a    *)
(* time and never twice, whatever crashes, lost replies, trimming and      *)
(* failing acknowledgements do; a drop is asked for by the task in hand,   *)
(* and agents run only what was asked for.                                 *)
KeepsContract == Contract!Spec

(* Every task enqueued is one day finished, lost in a crash, or trimmed,   *)
(* unless the worker stands still: it hangs, or was left stopped, until    *)
(* somebody notices; from then on the same is true again.                  *)
EverySettles ==
  \A i \in 1 .. MaxTasks :
    i <= Len(stream)
      ~> \/ i <= Len(stream) /\ (Finished(i) \/ i \in Stranded \cup Trimmed)
         \/ pc \in {"hung", "stopped"}
=============================================================================
