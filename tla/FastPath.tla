------------------------------ MODULE FastPath ------------------------------
(***************************************************************************)
(* The fast path (motor/main.py with redis_client.py and queue.py) between *)
(* Vector, which posts batches of flows to /decide, and the three Redis    *)
(* streams.                                                                *)
(*                                                                         *)
(* decide() hands every event of a request to a thread; the thread asks a  *)
(* pool of processes for the score and then publishes the flow, the        *)
(* decision and the response task.  Vector waits two seconds for the       *)
(* answer and tries again; the server does not notice and goes on with     *)
(* what it had, so the attempts of one batch may run side by side.         *)
(***************************************************************************)
EXTENDS Naturals, FiniteSets

CONSTANTS
  Batches,        \* what Vector posts: sets of events
  Invalid,        \* events FlowFeatures does not accept
  Quiet,          \* events whose tier is below r1_min_tier
  Retries,        \* request.retry_attempts (2)
  Threads,        \* size of the default executor
  PoolWorkers,    \* _PROCESS_POOL_WORKERS (10)
  MaxFaults,      \* bound: calls to Redis that fail
  MaxPoolDeaths,  \* bound: times a pool process dies
  MaxCrashes      \* bound: times the server dies

Attempts == 0 .. Retries

(* One run of process_event; its trace_id is new for every attempt.        *)
Jobs == {j \in Batches \X Attempts \X UNION Batches : j[3] \in j[1]}

JobsOf(b, a) == {j \in Jobs : j[1] = b /\ j[2] = a}

ASSUME FastPathConstants ==
  /\ IsFiniteSet(Jobs)
  /\ Retries \in Nat /\ Threads \in Nat \ {0} /\ PoolWorkers \in Nat \ {0}
  /\ MaxFaults \in Nat /\ MaxPoolDeaths \in Nat /\ MaxCrashes \in Nat

VARIABLES
  vector,         \* what Vector knows of each batch
  attempt,        \* its current attempt
  motor,          \* is uvicorn up?
  pool,           \* is the process pool usable?
  job,            \* where each run of process_event stands
  open,           \* requests decide() has not answered
  flows, decisions, tasks,        \* soc:flows, soc:decisions, soc:response:tasks
  faulted,        \* jobs one of whose publications failed
  faults, poolDeaths, crashes

streams == <<flows, decisions, tasks>>
counters == <<faults, poolDeaths, crashes>>
vars == <<vector, attempt, motor, pool, job, open, streams, faulted, counters>>

HasThread == {"submitted", "scoring", "flow", "decision", "task"}
Ended     == {"done", "failed", "gone"}

TypeOK ==
  /\ vector \in [Batches -> {"ready", "waiting", "delivered", "dropped"}]
  /\ attempt \in [Batches -> Attempts]
  /\ motor \in {"up", "down"} /\ pool \in {"ok", "broken"}
  /\ job \in [Jobs -> {"none", "queued"} \cup HasThread \cup Ended]
  /\ open \subseteq Batches \X Attempts
  /\ flows \subseteq Jobs /\ decisions \subseteq Jobs /\ tasks \subseteq Jobs
  /\ faulted \subseteq Jobs
  /\ faults \in 0 .. MaxFaults /\ poolDeaths \in 0 .. MaxPoolDeaths
  /\ crashes \in 0 .. MaxCrashes

Init ==
  /\ vector = [b \in Batches |-> "ready"] /\ attempt = [b \in Batches |-> 0]
  /\ motor = "up" /\ pool = "ok"
  /\ job = [j \in Jobs |-> "none"] /\ open = {}
  /\ flows = {} /\ decisions = {} /\ tasks = {} /\ faulted = {}
  /\ faults = 0 /\ poolDeaths = 0 /\ crashes = 0

-----------------------------------------------------------------------------
(* Vector's http sink.                                                     *)

(* Faulty: one attempt too many.                                           *)
GiveUp_OneMore(b) ==
  IF attempt[b] <= Retries
    THEN /\ vector' = [vector EXCEPT ![b] = "ready"]
         /\ attempt' = [attempt EXCEPT ![b] = @ + 1]
    ELSE vector' = [vector EXCEPT ![b] = "dropped"] /\ UNCHANGED attempt

(* An attempt is over without a 2xx: the next one, or the batch is lost.   *)
GiveUp(b) ==
  IF attempt[b] < Retries
    THEN /\ vector' = [vector EXCEPT ![b] = "ready"]
         /\ attempt' = [attempt EXCEPT ![b] = @ + 1]
    ELSE vector' = [vector EXCEPT ![b] = "dropped"] /\ UNCHANGED attempt

(* POST /decide: decide() queues one job per event on the executor.        *)
Post(b) ==
  /\ vector[b] = "ready" /\ motor = "up"
  /\ vector' = [vector EXCEPT ![b] = "waiting"]
  /\ job' = [j \in Jobs |-> IF j \in JobsOf(b, attempt[b]) THEN "queued" ELSE job[j]]
  /\ open' = open \cup {<<b, attempt[b]>>}
  /\ UNCHANGED <<attempt, motor, pool, streams, faulted, counters>>

ConnectionRefused(b) ==
  /\ vector[b] = "ready" /\ motor = "down"
  /\ GiveUp(b)
  /\ UNCHANGED <<motor, pool, job, open, streams, faulted, counters>>

(* request.timeout_secs: the server is not told.                           *)
Timeout(b) ==
  /\ vector[b] = "waiting"
  /\ GiveUp(b)
  /\ UNCHANGED <<motor, pool, job, open, streams, faulted, counters>>

-----------------------------------------------------------------------------
(* process_event on a thread of the executor.                              *)

At(S) == {j \in Jobs : job[j] \in S}

(* The job gets a thread; an event that does not validate ends here, with  *)
(* an error in its place in the answer, and no other event is disturbed.   *)
Begin(j) ==
  /\ job[j] = "queued"
  /\ Cardinality(At(HasThread)) < Threads
  /\ job' = [job EXCEPT ![j] = IF j[3] \in Invalid THEN "done"
                               ELSE IF pool = "ok" THEN "submitted" ELSE "failed"]
  /\ UNCHANGED <<vector, attempt, motor, pool, open, streams, faulted, counters>>

TakeScore(j) ==
  /\ job[j] = "submitted" /\ pool = "ok"
  /\ Cardinality(At({"scoring"})) < PoolWorkers
  /\ job' = [job EXCEPT ![j] = "scoring"]
  /\ UNCHANGED <<vector, attempt, motor, pool, open, streams, faulted, counters>>

Scored(j) ==
  /\ job[j] = "scoring"
  /\ job' = [job EXCEPT ![j] = "flow"]
  /\ UNCHANGED <<vector, attempt, motor, pool, open, streams, faulted, counters>>

(* Faulty: the futures of a broken pool never resolve.                     *)
PoolDies_Hangs ==
  /\ motor = "up" /\ pool = "ok"
  /\ poolDeaths < MaxPoolDeaths /\ poolDeaths' = poolDeaths + 1
  /\ pool' = "broken"
  /\ UNCHANGED <<vector, attempt, motor, job, open, streams, faulted, faults, crashes>>

(* A pool process dies: every pending future raises BrokenProcessPool, and *)
(* so does every later submit of this server.                              *)
PoolDies ==
  /\ motor = "up" /\ pool = "ok"
  /\ poolDeaths < MaxPoolDeaths /\ poolDeaths' = poolDeaths + 1
  /\ pool' = "broken"
  /\ job' = [j \in Jobs |-> IF job[j] \in {"submitted", "scoring"} THEN "failed" ELSE job[j]]
  /\ UNCHANGED <<vector, attempt, motor, open, streams, faulted, faults, crashes>>

Fault(j) ==
  /\ faults < MaxFaults /\ faults' = faults + 1
  /\ faulted' = faulted \cup {j}
  /\ UNCHANGED <<poolDeaths, crashes>>

(* A publication happens, or Redis does not answer and it may have: the    *)
(* error is logged and process_event goes on.                              *)
Publication(j, stream) ==
  \/ stream' = stream \cup {j} /\ UNCHANGED <<faulted, counters>>
  \/ stream' \in {stream, stream \cup {j}} /\ Fault(j)

(* Faulty: the error of publish_flow is not caught.                        *)
PublishFlow_Raises(j) ==
  /\ job[j] = "flow"
  /\ Publication(j, flows)
  /\ job' = [job EXCEPT ![j] = IF faults' > faults THEN "failed" ELSE "decision"]
  /\ UNCHANGED <<vector, attempt, motor, pool, open, decisions, tasks>>

PublishFlow(j) ==
  /\ job[j] = "flow"
  /\ Publication(j, flows)
  /\ job' = [job EXCEPT ![j] = "decision"]
  /\ UNCHANGED <<vector, attempt, motor, pool, open, decisions, tasks>>

PublishDecision(j) ==
  /\ job[j] = "decision"
  /\ Publication(j, decisions)
  /\ job' = [job EXCEPT ![j] = "task"]
  /\ UNCHANGED <<vector, attempt, motor, pool, open, flows, tasks>>

(* enqueue_response_task.                                                  *)
EnqueueTask(j) ==
  /\ job[j] = "task"
  /\ IF j[3] \in Quiet
       THEN UNCHANGED <<tasks, faulted, counters>>
       ELSE Publication(j, tasks)
  /\ job' = [job EXCEPT ![j] = "done"]
  /\ UNCHANGED <<vector, attempt, motor, pool, open, flows, decisions>>

-----------------------------------------------------------------------------
(* gather: 200 when every job has returned, 500 as soon as one has raised; *)
(* the jobs that are left run on.  The answer counts only if Vector is     *)
(* still waiting for this attempt.                                         *)

Awaited(b, a) == vector[b] = "waiting" /\ attempt[b] = a

(* Faulty: the answer does not wait for the slowest job.                   *)
Answer_First(b, a) ==
  /\ <<b, a>> \in open
  /\ \E j \in JobsOf(b, a) : job[j] = "done"
  /\ open' = open \ {<<b, a>>}
  /\ vector' = IF Awaited(b, a) THEN [vector EXCEPT ![b] = "delivered"] ELSE vector
  /\ UNCHANGED <<attempt, motor, pool, job, streams, faulted, counters>>

Answer(b, a) ==
  /\ <<b, a>> \in open
  /\ \A j \in JobsOf(b, a) : job[j] = "done"
  /\ open' = open \ {<<b, a>>}
  /\ vector' = IF Awaited(b, a) THEN [vector EXCEPT ![b] = "delivered"] ELSE vector
  /\ UNCHANGED <<attempt, motor, pool, job, streams, faulted, counters>>

AnswerError(b, a) ==
  /\ <<b, a>> \in open
  /\ \E j \in JobsOf(b, a) : job[j] = "failed"
  /\ open' = open \ {<<b, a>>}
  /\ IF Awaited(b, a) THEN GiveUp(b) ELSE UNCHANGED <<vector, attempt>>
  /\ UNCHANGED <<motor, pool, job, streams, faulted, counters>>

(* uvicorn dies with everything it had accepted.                           *)
Crash ==
  /\ motor = "up"
  /\ crashes < MaxCrashes /\ crashes' = crashes + 1
  /\ motor' = "down"
  /\ job' = [j \in Jobs |-> IF job[j] \in {"queued"} \cup HasThread THEN "gone" ELSE job[j]]
  /\ open' = {}
  /\ UNCHANGED <<vector, attempt, pool, streams, faulted, faults, poolDeaths>>

(* Restart=always; lifespan warms up a new pool.                           *)
Restart ==
  /\ motor = "down"
  /\ motor' = "up" /\ pool' = "ok"
  /\ UNCHANGED <<vector, attempt, job, open, streams, faulted, counters>>

JobStep(j) ==
  \/ Begin(j) \/ TakeScore(j) \/ Scored(j)
  \/ PublishFlow(j) \/ PublishDecision(j) \/ EnqueueTask(j)

Reply == \E b \in Batches, a \in Attempts : Answer(b, a) \/ AnswerError(b, a)

Deliver(b) == Post(b) \/ ConnectionRefused(b)

(* Everything is answered and nothing is left to do.                       *)
Quiescent ==
  /\ \A b \in Batches : vector[b] \in {"delivered", "dropped"}
  /\ At({"queued"} \cup HasThread) = {} /\ open = {} /\ motor = "up"
  /\ UNCHANGED vars

Next ==
  \/ \E b \in Batches : Deliver(b) \/ Timeout(b)
  \/ \E j \in Jobs : JobStep(j)
  \/ Reply \/ PoolDies \/ Crash \/ Restart \/ Quiescent

Spec == Init /\ [][Next]_vars

(* The executor runs some job that can go on: a call to Redis ends within  *)
(* its timeout of one second.                                              *)
FairSpec ==
  /\ Spec
  /\ WF_vars(\E j \in Jobs : JobStep(j))

-----------------------------------------------------------------------------
(* Properties.                                                             *)

(* All three publications of a job happened; an event that did not         *)
(* validate publishes nothing, a quiet one no task.                        *)
Published(j) ==
  IF j[3] \in Invalid
    THEN j \notin flows \cup decisions \cup tasks
    ELSE /\ j \in flows /\ j \in decisions
         /\ j \in tasks <=> j[3] \notin Quiet

(* A batch Vector counts as delivered was worked through by one attempt,   *)
(* every event of it, the ones beside an invalid event included: what is   *)
(* missing in Redis is missing because Redis failed.                       *)
DeliveredMeansPublished ==
  \A b \in Batches : vector[b] = "delivered" =>
    \E a \in 0 .. attempt[b] : \A j \in JobsOf(b, a) : Published(j) \/ j \in faulted

(* queue.py: "Si Redis falla, NO rompe el Fast Path": as long as neither a *)
(* pool process nor the server dies, no run of process_event raises and no *)
(* accepted event is cut short, whatever Redis does.                       *)
RedisNeverBreaksDecide ==
  At({"failed", "gone"}) # {} => poolDeaths + crashes > 0

(* No accepted event hangs, whatever becomes of the others of its batch,   *)
(* of other batches and of earlier attempts: the executor comes to rest.   *)
EveryJobEnds ==
  At({"queued"} \cup HasThread) # {} ~> At({"queued"} \cup HasThread) = {}
=============================================================================
