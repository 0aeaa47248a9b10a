---------------------------- MODULE FastPath_proofs ----------------------------
(***************************************************************************)
(* Proofs about FastPath, for any batches, any number of threads, pool     *)
(* processes and attempts, and any number of failures.                     *)
(***************************************************************************)
EXTENDS FastPath, TLAPS

USE FastPathConstants

(* Every publication a run of process_event has behind it is in Redis, or  *)
(* one of them failed; an invalid event never gets to the first, a quiet   *)
(* one never to the last.                                                  *)
PublicationOK(j) ==
  /\ j[3] \in Invalid =>
       /\ job[j] \notin HasThread
       /\ j \notin flows /\ j \notin decisions /\ j \notin tasks
  /\ j[3] \notin Invalid /\ j \notin faulted =>
       /\ job[j] \in {"decision", "task", "done"} => j \in flows
       /\ job[j] \in {"task", "done"} => j \in decisions
       /\ job[j] = "done" /\ j[3] \notin Quiet => j \in tasks
  /\ j[3] \in Quiet => j \notin tasks

JobsOK == \A j \in Jobs : PublicationOK(j)

(* A batch that counts as delivered has an attempt that is done.           *)
DeliveredOK ==
  \A b \in Batches : vector[b] = "delivered" =>
    \E a \in 0 .. attempt[b] : \A j \in JobsOf(b, a) : job[j] = "done"

(* What cuts a run short is a death.                                       *)
DeathOK ==
  /\ pool = "broken" => poolDeaths > 0
  /\ \A j \in Jobs : job[j] \in {"failed", "gone"} => poolDeaths + crashes > 0

IInv == TypeOK /\ JobsOK /\ DeliveredOK /\ DeathOK

LEMMA JobsOfBatch ==
  ASSUME NEW b, NEW a
  PROVE  /\ JobsOf(b, a) \subseteq Jobs
         /\ \A j \in JobsOf(b, a) : j[1] = b
BY DEF JobsOf

(* Steps of a single job leave Vector and the server alone.                *)
JobFrame == UNCHANGED <<vector, attempt, motor, pool, open>>

LEMMA JobStepFrame ==
  ASSUME NEW j \in Jobs, JobStep(j)
  PROVE  JobFrame
BY DEF JobFrame, JobStep, Begin, TakeScore, Scored, PublishFlow, PublishDecision, EnqueueTask

(* A job's step changes its own place only, and cuts it short only when    *)
(* the pool is broken.                                                     *)
LEMMA JobStepPlace ==
  ASSUME TypeOK, NEW j \in Jobs, JobStep(j)
  PROVE  \E p \in HasThread \cup {"done", "failed"} :
           /\ job' = [job EXCEPT ![j] = p]
           /\ p = "failed" => pool = "broken"
           /\ job[j] \in {"queued"} \cup HasThread
<1>1. CASE Begin(j)  BY <1>1 DEF Begin, HasThread, TypeOK
<1>2. CASE TakeScore(j)  BY <1>2 DEF TakeScore, HasThread
<1>3. CASE Scored(j)  BY <1>3 DEF Scored, HasThread
<1>4. CASE PublishFlow(j)  BY <1>4 DEF PublishFlow, HasThread
<1>5. CASE PublishDecision(j)  BY <1>5 DEF PublishDecision, HasThread
<1>6. CASE EnqueueTask(j)  BY <1>6 DEF EnqueueTask, HasThread
<1>. QED  BY <1>1, <1>2, <1>3, <1>4, <1>5, <1>6 DEF JobStep

-----------------------------------------------------------------------------
(* Types.                                                                  *)

LEMMA TypeInit == Init => TypeOK
BY DEF Init, TypeOK, Attempts

LEMMA GiveUpType ==
  ASSUME TypeOK, NEW b \in Batches, GiveUp(b)
  PROVE  /\ vector' \in [Batches -> {"ready", "waiting", "delivered", "dropped"}]
         /\ attempt' \in [Batches -> Attempts]
BY DEF TypeOK, GiveUp, Attempts

LEMMA TypeJob ==
  ASSUME TypeOK, NEW j \in Jobs, JobStep(j)
  PROVE  TypeOK'
<1>1. job' \in [Jobs -> {"none", "queued"} \cup HasThread \cup Ended]
  <2>1. PICK p \in HasThread \cup {"done", "failed"} : job' = [job EXCEPT ![j] = p]
    BY JobStepPlace
  <2>. QED  BY <2>1 DEF TypeOK, Ended
<1>2. /\ flows' \subseteq Jobs /\ decisions' \subseteq Jobs /\ tasks' \subseteq Jobs
      /\ faulted' \subseteq Jobs /\ faults' \in 0 .. MaxFaults
      /\ poolDeaths' = poolDeaths /\ crashes' = crashes
  <2>1. CASE Begin(j) \/ TakeScore(j) \/ Scored(j)
    BY <2>1 DEF Begin, TakeScore, Scored, streams, counters, TypeOK
  <2>2. CASE PublishFlow(j)
    BY <2>2 DEF PublishFlow, Publication, Fault, counters, TypeOK
  <2>3. CASE PublishDecision(j)
    BY <2>3 DEF PublishDecision, Publication, Fault, counters, TypeOK
  <2>4. CASE EnqueueTask(j)
    BY <2>4 DEF EnqueueTask, Publication, Fault, counters, TypeOK
  <2>. QED  BY <2>1, <2>2, <2>3, <2>4 DEF JobStep
<1>. QED  BY <1>1, <1>2, JobStepFrame DEF TypeOK, JobFrame

LEMMA TypeStep == TypeOK /\ [Next]_vars => TypeOK'
<1>. SUFFICES ASSUME TypeOK, [Next]_vars PROVE TypeOK'  OBVIOUS
<1>1. ASSUME NEW b \in Batches, Post(b) PROVE TypeOK'
  BY <1>1 DEF TypeOK, Post, streams, counters
<1>2. ASSUME NEW b \in Batches, ConnectionRefused(b) PROVE TypeOK'
  BY <1>2, GiveUpType DEF TypeOK, ConnectionRefused, streams, counters
<1>3. ASSUME NEW b \in Batches, Timeout(b) PROVE TypeOK'
  BY <1>3, GiveUpType DEF TypeOK, Timeout, streams, counters
<1>4. ASSUME NEW j \in Jobs, JobStep(j) PROVE TypeOK'
  BY <1>4, TypeJob
<1>5. ASSUME NEW b \in Batches, NEW a \in Attempts, Answer(b, a) PROVE TypeOK'
  BY <1>5 DEF TypeOK, Answer, streams, counters
<1>6. ASSUME NEW b \in Batches, NEW a \in Attempts, AnswerError(b, a) PROVE TypeOK'
  <2>1. /\ vector' \in [Batches -> {"ready", "waiting", "delivered", "dropped"}]
        /\ attempt' \in [Batches -> Attempts]
    BY <1>6, GiveUpType DEF AnswerError, TypeOK
  <2>. QED  BY <1>6, <2>1 DEF TypeOK, AnswerError, streams, counters
<1>7. CASE PoolDies
  BY <1>7 DEF TypeOK, PoolDies, streams, Ended
<1>8. CASE Crash
  BY <1>8 DEF TypeOK, Crash, streams, Ended
<1>9. CASE Restart
  BY <1>9 DEF TypeOK, Restart, streams, counters
<1>10. CASE UNCHANGED vars
  BY <1>10 DEF TypeOK, vars, streams, counters
<1>. QED
  BY <1>1, <1>2, <1>3, <1>4, <1>5, <1>6, <1>7, <1>8, <1>9, <1>10
  DEF Next, Deliver, Reply, Quiescent

-----------------------------------------------------------------------------
(* What Redis has of a run.                                                *)

(* The streams and the failures another run is in are not touched.         *)
LEMMA OtherJobs ==
  ASSUME TypeOK, NEW j \in Jobs, JobStep(j), NEW k \in Jobs, k # j, PublicationOK(k)
  PROVE  PublicationOK(k)'
<1>1. job'[k] = job[k]
  <2>1. PICK p \in HasThread \cup {"done", "failed"} : job' = [job EXCEPT ![j] = p]
    BY JobStepPlace
  <2>. QED  BY <2>1 DEF TypeOK
<1>2. /\ k \in flows' <=> k \in flows
      /\ k \in decisions' <=> k \in decisions
      /\ k \in tasks' <=> k \in tasks
      /\ k \in faulted' <=> k \in faulted
  <2>1. CASE Begin(j) \/ TakeScore(j) \/ Scored(j)
    BY <2>1 DEF Begin, TakeScore, Scored, streams
  <2>2. CASE PublishFlow(j)
    BY <2>2 DEF PublishFlow, Publication, Fault
  <2>3. CASE PublishDecision(j)
    BY <2>3 DEF PublishDecision, Publication, Fault
  <2>4. CASE EnqueueTask(j)
    BY <2>4 DEF EnqueueTask, Publication, Fault
  <2>. QED  BY <2>1, <2>2, <2>3, <2>4 DEF JobStep
<1>. QED  BY <1>1, <1>2 DEF PublicationOK

LEMMA OwnJob ==
  ASSUME TypeOK, NEW j \in Jobs, JobStep(j), PublicationOK(j)
  PROVE  PublicationOK(j)'
<1>. USE DEF TypeOK, PublicationOK, HasThread
<1>1. CASE Begin(j)
  BY <1>1 DEF Begin, streams
<1>2. CASE TakeScore(j)
  BY <1>2 DEF TakeScore, streams
<1>3. CASE Scored(j)
  BY <1>3 DEF Scored, streams
<1>4. CASE PublishFlow(j)
  <2>1. j \in flows' \/ j \in faulted'  BY <1>4 DEF PublishFlow, Publication, Fault
  <2>2. job'[j] = "decision"  BY <1>4 DEF PublishFlow
  <2>. QED  BY <1>4, <2>1, <2>2 DEF PublishFlow
<1>5. CASE PublishDecision(j)
  <2>1. j \in decisions' \/ j \in faulted'  BY <1>5 DEF PublishDecision, Publication, Fault
  <2>2. job'[j] = "task"  BY <1>5 DEF PublishDecision
  <2>3. faulted \subseteq faulted'  BY <1>5 DEF PublishDecision, Publication, Fault
  <2>. QED  BY <1>5, <2>1, <2>2, <2>3 DEF PublishDecision
<1>6. CASE EnqueueTask(j)
  <2>1. j[3] \notin Quiet => j \in tasks' \/ j \in faulted'
    BY <1>6 DEF EnqueueTask, Publication, Fault
  <2>2. j[3] \in Quiet => tasks' = tasks  BY <1>6 DEF EnqueueTask
  <2>3. job'[j] = "done"  BY <1>6 DEF EnqueueTask
  <2>4. faulted \subseteq faulted'  BY <1>6 DEF EnqueueTask, Publication, Fault
  <2>. QED  BY <1>6, <2>1, <2>2, <2>3, <2>4 DEF EnqueueTask
<1>. QED  BY <1>1, <1>2, <1>3, <1>4, <1>5, <1>6 DEF JobStep

(* The other actions publish nothing, and put a run where it owes nothing  *)
(* or leave it where it is.                                                *)
LEMMA NoPublication ==
  ASSUME TypeOK, JobsOK, UNCHANGED <<flows, decisions, tasks, faulted>>,
         \A j \in Jobs : job'[j] = job[j] \/ job'[j] \in {"queued", "failed", "gone"}
  PROVE  JobsOK'
BY DEF JobsOK, PublicationOK, HasThread

LEMMA JobsStep == TypeOK /\ JobsOK /\ [Next]_vars => JobsOK'
<1>. SUFFICES ASSUME TypeOK, JobsOK, [Next]_vars PROVE JobsOK'  OBVIOUS
<1>1. ASSUME NEW b \in Batches, Post(b) PROVE JobsOK'
  BY <1>1, NoPublication DEF Post, streams
<1>2. ASSUME NEW b \in Batches, ConnectionRefused(b) \/ Timeout(b) PROVE JobsOK'
  BY <1>2, NoPublication DEF ConnectionRefused, Timeout, streams
<1>3. ASSUME NEW j \in Jobs, JobStep(j) PROVE JobsOK'
  BY <1>3, OwnJob, OtherJobs DEF JobsOK
<1>4. ASSUME NEW b \in Batches, NEW a \in Attempts, Answer(b, a) \/ AnswerError(b, a)
      PROVE  JobsOK'
  BY <1>4, NoPublication DEF Answer, AnswerError, streams
<1>5. CASE PoolDies
  BY <1>5, NoPublication DEF PoolDies, streams
<1>6. CASE Crash
  BY <1>6, NoPublication DEF Crash, streams
<1>7. CASE Restart
  BY <1>7, NoPublication DEF Restart, streams
<1>8. CASE UNCHANGED vars
  BY <1>8, NoPublication DEF vars, streams
<1>. QED
  BY <1>1, <1>2, <1>3, <1>4, <1>5, <1>6, <1>7, <1>8 DEF Next, Deliver, Reply, Quiescent

-----------------------------------------------------------------------------
(* What Vector believes.                                                   *)

(* Where no batch becomes delivered, no attempt of a delivered one changes *)
(* and what is done stays done, nothing is to be shown.                    *)
LEMMA DeliveredStays ==
  ASSUME TypeOK, DeliveredOK,
         \A b \in Batches : vector'[b] = "delivered" =>
            /\ vector[b] = "delivered" /\ attempt'[b] = attempt[b]
            /\ \A j \in Jobs : j[1] = b /\ job[j] = "done" => job'[j] = "done"
  PROVE  DeliveredOK'
<1>. SUFFICES ASSUME NEW b \in Batches, vector'[b] = "delivered"
     PROVE  \E a \in 0 .. attempt'[b] : \A j \in JobsOf(b, a) : job'[j] = "done"
  BY DEF DeliveredOK
<1>1. PICK a \in 0 .. attempt[b] : \A j \in JobsOf(b, a) : job[j] = "done"
  BY DEF DeliveredOK
<1>. QED  BY <1>1, JobsOfBatch

LEMMA GiveUpDelivers ==
  ASSUME TypeOK, NEW b \in Batches, GiveUp(b), vector[b] # "delivered"
  PROVE  \A c \in Batches : vector'[c] = "delivered" =>
           vector[c] = "delivered" /\ attempt'[c] = attempt[c]
BY DEF TypeOK, GiveUp

LEMMA DeliveredStep == TypeOK /\ DeliveredOK /\ [Next]_vars => DeliveredOK'
<1>. SUFFICES ASSUME TypeOK, DeliveredOK, [Next]_vars PROVE DeliveredOK'  OBVIOUS
<1>1. ASSUME NEW b \in Batches, Post(b) PROVE DeliveredOK'
  <2>1. \A c \in Batches : vector'[c] = "delivered" => c # b /\ vector[c] = "delivered"
    BY <1>1 DEF Post, TypeOK
  <2>2. \A j \in Jobs : j[1] # b => job'[j] = job[j]
    BY <1>1, JobsOfBatch DEF Post
  <2>. QED  BY <1>1, <2>1, <2>2, DeliveredStays DEF Post
<1>2. ASSUME NEW b \in Batches, ConnectionRefused(b) \/ Timeout(b) PROVE DeliveredOK'
  BY <1>2, GiveUpDelivers, DeliveredStays DEF ConnectionRefused, Timeout
<1>3. ASSUME NEW j \in Jobs, JobStep(j) PROVE DeliveredOK'
  <2>1. \A k \in Jobs : job[k] = "done" => job'[k] = "done"
    <3>1. PICK p \in HasThread \cup {"done", "failed"} :
            job' = [job EXCEPT ![j] = p] /\ job[j] \in {"queued"} \cup HasThread
      BY <1>3, JobStepPlace
    <3>. QED  BY <3>1 DEF TypeOK, HasThread
  <2>. QED  BY <1>3, <2>1, JobStepFrame, DeliveredStays DEF JobFrame
<1>4. ASSUME NEW b \in Batches, NEW a \in Attempts, Answer(b, a) PROVE DeliveredOK'
  <2>1. CASE Awaited(b, a)
    <3>. SUFFICES ASSUME NEW c \in Batches, vector'[c] = "delivered"
         PROVE  \E d \in 0 .. attempt'[c] : \A j \in JobsOf(c, d) : job'[j] = "done"
      BY DEF DeliveredOK
    <3>1. CASE c = b
      BY <1>4, <2>1, <3>1 DEF Answer, Awaited, Attempts
    <3>2. CASE c # b
      <4>1. vector[c] = "delivered"  BY <1>4, <2>1, <3>2 DEF Answer, TypeOK
      <4>. QED  BY <1>4, <4>1 DEF Answer, DeliveredOK
    <3>. QED  BY <3>1, <3>2
  <2>2. CASE ~Awaited(b, a)
    BY <1>4, <2>2, DeliveredStays DEF Answer
  <2>. QED  BY <2>1, <2>2
<1>5. ASSUME NEW b \in Batches, NEW a \in Attempts, AnswerError(b, a) PROVE DeliveredOK'
  BY <1>5, GiveUpDelivers, DeliveredStays DEF AnswerError, Awaited
<1>6. CASE PoolDies
  BY <1>6, DeliveredStays DEF PoolDies
<1>7. CASE Crash
  BY <1>7, DeliveredStays DEF Crash, HasThread
<1>8. CASE Restart
  BY <1>8, DeliveredStays DEF Restart
<1>9. CASE UNCHANGED vars
  BY <1>9, DeliveredStays DEF vars
<1>. QED
  BY <1>1, <1>2, <1>3, <1>4, <1>5, <1>6, <1>7, <1>8, <1>9 DEF Next, Deliver, Reply, Quiescent

-----------------------------------------------------------------------------
(* What ends a run early.                                                  *)

LEMMA NoDeath ==
  ASSUME TypeOK, DeathOK, poolDeaths' = poolDeaths, crashes' = crashes,
         pool' = "broken" => pool = "broken",
         \A j \in Jobs : job'[j] \in {"failed", "gone"} => job[j] \in {"failed", "gone"}
  PROVE  DeathOK'
BY DEF DeathOK

LEMMA DeathStep == TypeOK /\ DeathOK /\ [Next]_vars => DeathOK'
<1>. SUFFICES ASSUME TypeOK, DeathOK, [Next]_vars PROVE DeathOK'  OBVIOUS
<1>1. ASSUME NEW b \in Batches, Post(b) PROVE DeathOK'
  BY <1>1, NoDeath DEF Post, counters
<1>2. ASSUME NEW b \in Batches, ConnectionRefused(b) \/ Timeout(b) PROVE DeathOK'
  BY <1>2, NoDeath DEF ConnectionRefused, Timeout, counters
<1>3. ASSUME NEW j \in Jobs, JobStep(j) PROVE DeathOK'
  <2>1. poolDeaths' = poolDeaths /\ crashes' = crashes
    BY <1>3 DEF JobStep, Begin, TakeScore, Scored, PublishFlow, PublishDecision, EnqueueTask,
       Publication, Fault, counters
  <2>2. PICK p \in HasThread \cup {"done", "failed"} :
          job' = [job EXCEPT ![j] = p] /\ (p = "failed" => pool = "broken")
    BY <1>3, JobStepPlace
  <2>3. \A k \in Jobs : job'[k] \in {"failed", "gone"} =>
          job[k] \in {"failed", "gone"} \/ pool = "broken"
    BY <2>2 DEF TypeOK, HasThread
  <2>4. pool' = pool  BY <1>3, JobStepFrame DEF JobFrame
  <2>5. pool = "broken" => poolDeaths + crashes > 0
    BY DEF DeathOK, TypeOK
  <2>. QED  BY <2>1, <2>3, <2>4, <2>5 DEF DeathOK
<1>4. ASSUME NEW b \in Batches, NEW a \in Attempts, Answer(b, a) \/ AnswerError(b, a)
      PROVE  DeathOK'
  BY <1>4, NoDeath DEF Answer, AnswerError, counters
<1>5. CASE PoolDies
  <2>1. poolDeaths' > 0 /\ poolDeaths' + crashes' > 0  BY <1>5 DEF PoolDies, TypeOK
  <2>. QED  BY <2>1 DEF DeathOK
<1>6. CASE Crash
  <2>1. poolDeaths' = poolDeaths /\ poolDeaths' + crashes' > 0  BY <1>6 DEF Crash, TypeOK
  <2>2. pool' = pool  BY <1>6 DEF Crash
  <2>. QED  BY <2>1, <2>2 DEF DeathOK
<1>7. CASE Restart
  BY <1>7, NoDeath DEF Restart, counters
<1>8. CASE UNCHANGED vars
  BY <1>8, NoDeath DEF vars, counters
<1>. QED
  BY <1>1, <1>2, <1>3, <1>4, <1>5, <1>6, <1>7, <1>8 DEF Next, Deliver, Reply, Quiescent

-----------------------------------------------------------------------------

LEMMA Inductive == Spec => []IInv
<1>1. Init => IInv
  <2>1. Init => TypeOK  BY TypeInit
  <2>2. Init => JobsOK  BY DEF Init, JobsOK, PublicationOK, HasThread
  <2>3. Init => DeliveredOK  BY DEF Init, DeliveredOK
  <2>4. Init => DeathOK  BY DEF Init, DeathOK
  <2>. QED  BY <2>1, <2>2, <2>3, <2>4 DEF IInv
<1>2. IInv /\ [Next]_vars => IInv'
  BY TypeStep, JobsStep, DeliveredStep, DeathStep DEF IInv
<1>. QED  BY <1>1, <1>2, PTL DEF Spec

(* Type correctness of Vector, the server and every run of process_event.  *)
THEOREM FastPathTypeCorrect == Spec => []TypeOK
<1>1. IInv => TypeOK  BY DEF IInv
<1>. QED  BY <1>1, Inductive, PTL

(* A batch that was answered 200 was published, every valid event of it,   *)
(* but for the runs in which Redis failed: also when attempts overlap, a   *)
(* request was given up, the pool broke or the server was restarted.       *)
THEOREM DeliveredIsPublished == Spec => []DeliveredMeansPublished
<1>1. IInv => DeliveredMeansPublished
  <2>. SUFFICES ASSUME IInv, NEW b \in Batches, vector[b] = "delivered"
       PROVE  \E a \in 0 .. attempt[b] : \A j \in JobsOf(b, a) : Published(j) \/ j \in faulted
    BY DEF DeliveredMeansPublished
  <2>1. PICK a \in 0 .. attempt[b] : \A j \in JobsOf(b, a) : job[j] = "done"
    BY DEF IInv, DeliveredOK
  <2>2. \A j \in Jobs : job[j] = "done" => Published(j) \/ j \in faulted
    BY DEF IInv, JobsOK, PublicationOK, Published
  <2>. QED  BY <2>1, <2>2, JobsOfBatch
<1>. QED  BY <1>1, Inductive, PTL

(* Only the death of a pool process or of the server ends a run of         *)
(* process_event before it has returned: no failure of Redis does.         *)
THEOREM RedisBreaksNothing == Spec => []RedisNeverBreaksDecide
<1>1. IInv => RedisNeverBreaksDecide
  BY DEF IInv, DeathOK, RedisNeverBreaksDecide, At
<1>. QED  BY <1>1, Inductive, PTL
=============================================================================
