------------------------ MODULE ResponseWorker_proofs ------------------------
(***************************************************************************)
(* Proofs about ResponseWorker, for every value of its constants.          *)
(***************************************************************************)
EXTENDS ResponseWorker, SequenceTheorems, FiniteSetTheorems, TLAPS

(* The reply in hand lies inside what the group has delivered, and a       *)
(* process reads or works only once the group exists.                      *)
CursorOK ==
  /\ pc \in InTask \cup {"task"} => cur \in 1 .. end /\ end = lastDelivered
  /\ ~group => pc \in {"down", "stopped", "hung", "setup"} /\ lastDelivered = 0

(* Past the gates of R2 the task in hand has what the gates ask for.       *)
GateOK ==
  /\ pc \in {"check", "enforce", "record"} =>
       /\ task.ip \in Ips /\ task.ip \notin Safelist \cup Internal
       /\ task.tier >= R2MinTier
       /\ Cardinality(sources) >= MinSources /\ sources \subseteq MayCorroborate(task)
  /\ pc = "enforce" => settings.mode = "enforce"

TypeInv == TypeOK /\ CursorOK /\ GateOK

-----------------------------------------------------------------------------
(* Rewriting every element of a sequence yields a sequence.                *)
LEMMA MapSeq ==
  ASSUME NEW S, NEW n \in Nat, NEW f \in [1 .. n -> S]
  PROVE  f \in Seq(S) /\ Len(f) = n
BY SeqDef

LEMMA TypeInit == Init => TypeInv
<1> SUFFICES ASSUME Init PROVE TypeInv
  OBVIOUS
<1> USE DEF Init
<1>1. /\ stream \in Seq(Task) /\ Len(stream) = 0
      /\ fate \in Seq(Fates) /\ Len(fate) = 0
  BY EmptySeq
<1>2. blockKey \in [Ips -> 0 .. BlockTtl] /\ firewall \in [Ips -> 0 .. FirewallTtl]
  BY ConstantsOK
<1>3. TypeOK
  <2>0. sent = {} /\ requests = {} /\ drops = {} /\ audit = {}
    OBVIOUS
  <2>1. lastDelivered \in 0 .. Len(stream) /\ first \in Nat \ {0} /\ first <= Len(stream) + 1
    BY <1>1
  <2>2. faults \in 0 .. MaxFaults /\ crashes \in 0 .. MaxCrashes
    BY ConstantsOK
  <2>3. pc \in Pcs /\ action \in Actions
    BY DEF Pcs, Actions
  <2> QED BY <1>1, <1>2, <2>0, <2>1, <2>2, <2>3 DEF TypeOK
<1>4. CursorOK /\ GateOK
  BY DEF CursorOK, GateOK, InTask
<1> QED BY <1>3, <1>4 DEF TypeInv

(* The fast path appends, the clock ticks, an agent runs a request, the    *)
(* process dies or hangs.                                                  *)
LEMMA TypeEnvironment ==
  TypeInv /\ (\E t \in Task : Enqueue(t)) => TypeInv'
<1> SUFFICES ASSUME TypeInv, NEW t \in Task, Enqueue(t) PROVE TypeInv'
  OBVIOUS
<1> USE DEF TypeInv, TypeOK, Enqueue, workerVars, wazuhVars
<1>1. /\ stream' \in Seq(Task) /\ Len(stream') = Len(stream) + 1
      /\ \A i \in 1 .. Len(stream) : stream'[i] = stream[i]
  OBVIOUS
<1>2. /\ fate' \in Seq(Fates) /\ Len(fate') = Len(stream')
  BY <1>1 DEF Fates
<1>3. first' \in Nat \ {0} /\ first' <= Len(stream') + 1
  BY <1>1
<1>4. TypeOK'
  <2>1. lastDelivered' \in 0 .. Len(stream') /\ pel' \subseteq 1 .. Len(stream')
    BY <1>1
  <2>2. /\ audit' \subseteq [entry : 1 .. Len(stream'), action : Actions]
        /\ sent' \subseteq [entry : 1 .. Len(stream'), late : 0 .. MaxDelay + 1]
    BY <1>1
  <2>3. /\ requests' \subseteq [entry : 1 .. Len(stream'), ip : Ips,
                                sources : SUBSET Sources, settings : Settings]
        /\ drops' \subseteq [entry : 1 .. Len(stream'), late : 0 .. MaxDelay]
    BY <1>1
  <2>4. faulted' \subseteq 1 .. Len(stream') /\ slow' \subseteq 1 .. Len(stream')
    BY <1>1
  <2>5. /\ blockKey' \in [Ips -> 0 .. BlockTtl] /\ firewall' \in [Ips -> 0 .. FirewallTtl]
        /\ group' \in BOOLEAN /\ pc' \in Pcs /\ settings' \in Settings
        /\ cur' \in Nat /\ end' \in Nat
        /\ sources' \subseteq Sources /\ action' \in Actions /\ blind' \in BOOLEAN
        /\ unrecorded' \subseteq Ips
        /\ faults' \in 0 .. MaxFaults /\ crashes' \in 0 .. MaxCrashes
    OBVIOUS
  <2> HIDE DEF Enqueue, workerVars, wazuhVars
  <2> QED BY <1>1, <1>2, <1>3, <2>1, <2>2, <2>3, <2>4, <2>5
<1>5. CursorOK'
  BY DEF CursorOK
<1>6. GateOK'
  BY <1>1 DEF GateOK, CursorOK, task, MayCorroborate, IsPublicIp, InTask
<1> QED BY <1>4, <1>5, <1>6

LEMMA LaterTyped ==
  ASSUME TypeOK
  PROVE  {Later(x) : x \in sent} \subseteq [entry : 1 .. Len(stream), late : 0 .. MaxDelay + 1]
<1> SUFFICES ASSUME NEW x \in sent
             PROVE  Later(x) \in [entry : 1 .. Len(stream), late : 0 .. MaxDelay + 1]
  OBVIOUS
<1>1. x \in [entry : 1 .. Len(stream), late : 0 .. MaxDelay + 1]
  BY DEF TypeOK
<1>2. (IF MayRun(x) THEN x.late + 1 ELSE x.late) \in 0 .. MaxDelay + 1
  BY <1>1, ConstantsOK DEF MayRun
<1> QED BY <1>1, <1>2 DEF Later

LEMMA TypeTick == TypeInv /\ Tick => TypeInv'
<1> SUFFICES ASSUME TypeInv, Tick PROVE TypeInv'
  OBVIOUS
<1> USE DEF TypeInv, Tick, redisVars, workerVars, historyVars
<1>1. blockKey' \in [Ips -> 0 .. BlockTtl] /\ firewall' \in [Ips -> 0 .. FirewallTtl]
  BY ConstantsOK DEF TypeOK
<1>2. sent' \subseteq [entry : 1 .. Len(stream), late : 0 .. MaxDelay + 1]
  BY LaterTyped
<1>3. slow' \subseteq 1 .. Len(stream)
  <2>1. pc = "record" => cur \in 1 .. Len(stream)
    BY DEF TypeOK, CursorOK, InTask
  <2> QED BY <2>1 DEF TypeOK
<1>4. TypeOK'
  BY <1>1, <1>2, <1>3 DEF TypeOK
<1>5. CursorOK' /\ GateOK'
  BY DEF CursorOK, GateOK, task
<1> QED BY <1>4, <1>5

(* The rule of an address that is one is renewed or left as it is.         *)
LEMMA FirewallIs ==
  ASSUME TypeInv, NEW x, FirewallDrop(x)
  PROVE  /\ firewall' \in [Ips -> 0 .. FirewallTtl]
         /\ \A ip \in Ips : ip # Target(x) => firewall'[ip] = firewall[ip]
         /\ Target(x) \in Ips =>
              \/ firewall'[Target(x)] = FirewallTtl
              \/ firewall'[Target(x)] = firewall[Target(x)] /\ firewall[Target(x)] > 0
<1>1. firewall \in [Ips -> 0 .. FirewallTtl]
  BY DEF TypeInv, TypeOK
<1>2. PICK left \in {FirewallTtl} \cup ({firewall[Target(x)]} \ {0}) :
             firewall' = [firewall EXCEPT ![Target(x)] = left]
  BY DEF FirewallDrop, Target
<1>3. CASE Target(x) \in Ips
  <2>1. left \in 0 .. FirewallTtl /\ (left = FirewallTtl \/ (left = firewall[Target(x)] /\ left > 0))
    BY <1>1, <1>2, <1>3, ConstantsOK
  <2> QED BY <1>1, <1>2, <1>3, <2>1
<1>4. CASE Target(x) \notin Ips
  <2>1. firewall' = firewall
    BY <1>1, <1>2, <1>4
  <2> QED BY <1>1, <1>4, <2>1
<1> QED BY <1>3, <1>4

LEMMA TypeFirewallDrop == TypeInv /\ (\E x \in sent : FirewallDrop(x)) => TypeInv'
<1> SUFFICES ASSUME TypeInv, NEW x \in sent, FirewallDrop(x) PROVE TypeInv'
  OBVIOUS
<1>1. firewall' \in [Ips -> 0 .. FirewallTtl]
  BY FirewallIs
<1>2. drops' \subseteq [entry : 1 .. Len(stream), late : 0 .. MaxDelay]
  <2>1. x \in [entry : 1 .. Len(stream), late : 0 .. MaxDelay + 1] /\ x.late <= MaxDelay
    BY DEF FirewallDrop, MayRun, TypeInv, TypeOK
  <2>2. x.late \in 0 .. MaxDelay
    BY <2>1, ConstantsOK
  <2>3. x \in [entry : 1 .. Len(stream), late : 0 .. MaxDelay]
    BY <2>1, <2>2
  <2> QED BY <2>3 DEF FirewallDrop, TypeInv, TypeOK
<1>3. sent' \subseteq sent
  BY DEF FirewallDrop
<1>4. TypeOK'
  BY <1>1, <1>2, <1>3 DEF FirewallDrop, TypeInv, TypeOK, redisVars, workerVars, historyVars
<1>5. CursorOK' /\ GateOK'
  BY DEF FirewallDrop, TypeInv, CursorOK, GateOK, task, redisVars, workerVars
<1> QED BY <1>4, <1>5 DEF TypeInv

(* The process dies, hangs, or is killed when it hangs.                    *)
LEMMA TypeCrash == TypeInv /\ (Crash \/ Hang \/ Kill) => TypeInv'
<1> SUFFICES ASSUME TypeInv, Crash \/ Hang \/ Kill PROVE TypeInv'
  OBVIOUS
<1>1. /\ pc' \in {"down", "stopped", "hung"} /\ pc' \in Pcs
      /\ UNCHANGED <<redisVars, wazuhVars, blockKey, audit, workerVars, fate, faulted, slow>>
  BY DEF Crash, Hang, Kill, Exit, Abandon, historyVars, Pcs
<1>2. crashes' \in 0 .. MaxCrashes /\ faults' \in 0 .. MaxFaults
  BY ConstantsOK DEF Crash, Hang, Kill, Fault, historyVars, TypeInv, TypeOK
<1>3. unrecorded' \subseteq Ips
  BY DEF Crash, Hang, Kill, Abandon, historyVars, TypeInv, TypeOK, GateOK
<1>4. TypeOK'
  BY <1>1, <1>2, <1>3 DEF TypeInv, TypeOK, redisVars, wazuhVars, workerVars
<1>5. CursorOK' /\ GateOK'
  BY <1>1 DEF TypeInv, CursorOK, GateOK, InTask, redisVars
<1> QED BY <1>4, <1>5 DEF TypeInv

(* Starting up: a new process, a group that exists from then on.           *)
LEMMA TypeStartUp == TypeInv /\ (Start \/ CreateGroup \/ CreateGroupFails) => TypeInv'
<1> SUFFICES ASSUME TypeInv, Start \/ CreateGroup \/ CreateGroupFails PROVE TypeInv'
  OBVIOUS
<1> USE DEF TypeInv, redisVars, workerVars, historyVars
<1>1. CASE Start
  <2>1. TypeOK'
    BY <1>1 DEF TypeOK, Start, Pcs, wazuhVars
  <2> QED BY <1>1, <2>1 DEF Start, CursorOK, GateOK, InTask
<1>2. CASE CreateGroup
  <2>1. lastDelivered' \in 0 .. Len(stream) /\ pc' \in Pcs
    BY <1>2 DEF CreateGroup, TypeOK, Pcs
  <2>2. TypeOK'
    BY <1>2, <2>1 DEF TypeOK, CreateGroup, wazuhVars
  <2> QED BY <1>2, <2>2 DEF CreateGroup, CursorOK, GateOK, InTask
<1>3. CASE CreateGroupFails
  <2>1. faults' \in 0 .. MaxFaults /\ pc' \in Pcs
    BY <1>3, ConstantsOK DEF CreateGroupFails, Exit, Fault, TypeOK, Pcs
  <2>2. TypeOK'
    BY <1>3, <2>1 DEF TypeOK, CreateGroupFails, wazuhVars
  <2> QED BY <1>3, <2>2 DEF CreateGroupFails, Exit, CursorOK, GateOK, InTask
<1> QED BY <1>1, <1>2, <1>3

(* XREADGROUP hands out a run of entries that ends at the new              *)
(* last-delivered-id.                                                      *)
LEMMA DeliverFacts ==
  ASSUME TypeOK, Deliver
  PROVE  /\ lastDelivered' \in NextBatch
         /\ \A i \in NextBatch : i <= lastDelivered'
         /\ NextBatch \subseteq 1 .. Len(stream)
         /\ \A i \in NextBatch : i > lastDelivered /\ i >= first
         /\ fate' \in Seq(Fates) /\ Len(fate') = Len(fate)
         /\ \A i \in 1 .. Len(fate) :
              fate'[i] = IF i \in NextBatch /\ fate[i] = "queued" THEN "delivered" ELSE fate[i]
<1>1. NextBatch \subseteq 1 .. Len(stream)
  BY DEF NextBatch, Undelivered, TypeOK
<1>2. \A i \in NextBatch : i > lastDelivered /\ i >= first
  BY DEF NextBatch, Undelivered, TypeOK
<1>3. lastDelivered' \in NextBatch /\ \A i \in NextBatch : i <= lastDelivered'
  BY DEF Deliver
<1>4. /\ Len(fate) \in Nat
      /\ \A i \in 1 .. Len(fate) : fate[i] \in Fates
  BY DEF TypeOK
<1>5. fate' \in [1 .. Len(fate) -> Fates]
  BY <1>4 DEF Deliver, Fates
<1>6. fate' \in Seq(Fates) /\ Len(fate') = Len(fate)
  BY <1>4, <1>5, MapSeq
<1>7. \A i \in 1 .. Len(fate) :
         fate'[i] = IF i \in NextBatch /\ fate[i] = "queued" THEN "delivered" ELSE fate[i]
  BY DEF Deliver
<1> QED BY <1>1, <1>2, <1>3, <1>6, <1>7

LEMMA DeliverTypes ==
  ASSUME TypeOK, Deliver
  PROVE  /\ lastDelivered' \in 0 .. Len(stream) /\ pel' \subseteq 1 .. Len(stream)
         /\ fate' \in Seq(Fates) /\ Len(fate') = Len(stream)
<1>1. lastDelivered' \in NextBatch /\ NextBatch \subseteq 1 .. Len(stream)
  BY DeliverFacts
<1>2. lastDelivered' \in 0 .. Len(stream)
  BY <1>1
<1>3. pel' \subseteq 1 .. Len(stream)
  BY <1>1 DEF Deliver, TypeOK
<1>4. fate' \in Seq(Fates) /\ Len(fate') = Len(stream)
  BY DeliverFacts DEF TypeOK
<1> QED BY <1>2, <1>3, <1>4

LEMMA TypeRead == TypeInv /\ (Read \/ ReadReplyLost \/ EmptyPoll) => TypeInv'
<1> SUFFICES ASSUME TypeInv, Read \/ ReadReplyLost \/ EmptyPoll PROVE TypeInv'
  OBVIOUS
<1> USE DEF TypeInv
<1>1. CASE Read
  <2>1. Deliver /\ TypeOK
    BY <1>1 DEF Read
  <2>2. /\ lastDelivered' \in 0 .. Len(stream) /\ pel' \subseteq 1 .. Len(stream)
        /\ fate' \in Seq(Fates) /\ Len(fate') = Len(stream)
    BY <2>1, DeliverTypes
  <2>3. cur' \in 1 .. lastDelivered' /\ cur' \in Nat /\ end' = lastDelivered' /\ end' \in Nat
    BY <1>1, <2>1, DeliverFacts DEF Read, TypeOK
  <2>4. TypeOK'
    BY <1>1, <2>2, <2>3 DEF Read, TypeOK, Pcs, wazuhVars
  <2>5. CursorOK' /\ GateOK'
    BY <1>1, <2>3 DEF Read, CursorOK, GateOK
  <2> QED BY <2>4, <2>5
<1>2. CASE ReadReplyLost
  <2>1. Deliver /\ TypeOK
    BY <1>2 DEF ReadReplyLost
  <2>2. /\ lastDelivered' \in 0 .. Len(stream) /\ pel' \subseteq 1 .. Len(stream)
        /\ fate' \in Seq(Fates) /\ Len(fate') = Len(stream)
    BY <2>1, DeliverTypes
  <2>3. faults' \in 0 .. MaxFaults
    BY <1>2, ConstantsOK DEF ReadReplyLost, Fault, TypeOK
  <2>4. TypeOK'
    BY <1>2, <2>2, <2>3 DEF ReadReplyLost, TypeOK, workerVars, wazuhVars
  <2>5. CursorOK' /\ GateOK'
    BY <1>2 DEF ReadReplyLost, CursorOK, GateOK, InTask
  <2> QED BY <2>4, <2>5
<1>3. CASE EmptyPoll
  BY <1>3 DEF EmptyPoll, vars, redisVars, wazuhVars, workerVars, historyVars, TypeOK, CursorOK,
      GateOK, task
<1> QED BY <1>1, <1>2, <1>3

(* What every step on the task in hand finds.                              *)
LEMMA StreamLength ==
  ASSUME TypeInv
  PROVE  Len(stream) \in Nat
<1>1. stream \in Seq(Task)  BY Zenon DEF TypeInv, TypeOK
<1>. QED  BY <1>1, LenProperties

LEMMA InTaskFacts ==
  ASSUME TypeInv, pc \in InTask \cup {"task"}
  PROVE  /\ cur \in 1 .. Len(stream) /\ cur <= end /\ end = lastDelivered
         /\ task \in Task /\ group
BY ElementOfSeq DEF TypeInv, TypeOK, CursorOK, task, InTask

LEMMA TypeEnrich == TypeInv /\ (\E S \in SUBSET Sources : Enrich(S)) => TypeInv'
<1> SUFFICES ASSUME TypeInv, NEW S \in SUBSET Sources, Enrich(S) PROVE TypeInv'
  OBVIOUS
<1>1. cur \in 1 .. Len(stream) /\ cur <= end /\ end = lastDelivered /\ task \in Task /\ group
  BY InTaskFacts DEF Enrich
<1>2. fate' \in Seq(Fates) /\ Len(fate') = Len(stream)
  BY <1>1, ExceptSeq DEF Enrich, TypeInv, TypeOK, Fates
<1>3. action' \in Actions /\ pc' \in {"audit", "check"}
  BY DEF Enrich, Actions
<1>4. TypeOK'
  BY <1>2, <1>3 DEF Enrich, TypeInv, TypeOK, redisVars, wazuhVars, Pcs, InTask
<1>5. CursorOK'
  BY <1>1, <1>3 DEF Enrich, TypeInv, TypeOK, CursorOK, redisVars, wazuhVars, InTask
<1>6. GateOK'
  <2>1. task' = task
    BY DEF Enrich, task, redisVars, wazuhVars
  <2> SUFFICES ASSUME pc' = "check"
               PROVE  /\ task.ip \in Ips /\ task.ip \notin Safelist \cup Internal
                      /\ task.tier >= R2MinTier
                      /\ Cardinality(S) >= MinSources /\ S \subseteq MayCorroborate(task)
    BY <1>3, <2>1 DEF GateOK, Enrich, MayCorroborate
  <2>2. ReachesR2(task) /\ Corroborated(S) /\ ~Barred(task.ip) /\ S \subseteq MayCorroborate(task)
    BY DEF Enrich
  <2> QED BY <1>1, <2>2 DEF ReachesR2, Corroborated, Barred, IsSafelisted, Task
<1> QED BY <1>4, <1>5, <1>6 DEF TypeInv

(* A step that leaves the stream, the cursor and the sources alone keeps   *)
(* CursorOK, and GateOK if it does not enter the gated part.               *)
LEMMA StayInTask ==
  ASSUME TypeInv, pc \in InTask, pc' \in InTask,
         UNCHANGED <<stream, group, lastDelivered, cur, end, sources>>,
         pc' \in {"check", "enforce", "record"} => pc \in {"check", "enforce", "record"},
         pc' = "enforce" => settings'.mode = "enforce"
  PROVE  CursorOK' /\ GateOK'
<1>1. CursorOK'
  BY DEF TypeInv, CursorOK, InTask
<1>2. task' = task /\ MayCorroborate(task)' = MayCorroborate(task)
  BY DEF task, MayCorroborate
<1>3. GateOK'
  BY <1>2 DEF TypeInv, GateOK
<1> QED BY <1>1, <1>3

LEMMA TypeCheck == TypeInv /\ (AlreadyBlocked \/ NotBlocked \/ CheckFails) => TypeInv'
<1> SUFFICES ASSUME TypeInv, AlreadyBlocked \/ NotBlocked \/ CheckFails PROVE TypeInv'
  OBVIOUS
<1>1. pc = "check" /\ pc' \in {"record", "audit", "enforce"} /\ action' \in Actions
  BY DEF AlreadyBlocked, NotBlocked, CheckFails, GoOn, TypeInv, TypeOK, Actions
<1>2. cur \in 1 .. Len(stream)
  BY <1>1, InTaskFacts DEF InTask
<1>3. pc' = "enforce" => settings'.mode = "enforce"
  BY ConstantsOK DEF AlreadyBlocked, NotBlocked, CheckFails, GoOn, TypeInv, TypeOK
<1>4. UNCHANGED <<stream, group, lastDelivered, cur, end, sources>>
  BY DEF AlreadyBlocked, NotBlocked, CheckFails, redisVars, wazuhVars
<1>5. CursorOK' /\ GateOK'
  BY <1>1, <1>3, <1>4, StayInTask DEF InTask
<1>6. CASE AlreadyBlocked \/ NotBlocked
  BY <1>1, <1>5, <1>6
     DEF AlreadyBlocked, NotBlocked, TypeInv, TypeOK, redisVars, wazuhVars, historyVars, Pcs, InTask
<1>7. CASE CheckFails
  <2>1. faults' \in 0 .. MaxFaults /\ faulted' \subseteq 1 .. Len(stream)
    BY <1>2, <1>7, ConstantsOK DEF CheckFails, TaskFault, Fault, TypeInv, TypeOK
  <2> QED BY <1>1, <1>5, <1>7, <2>1 DEF CheckFails, TypeInv, TypeOK, redisVars, wazuhVars, Pcs,
      InTask
<1> QED BY <1>6, <1>7

LEMMA TypeEnforce ==
  TypeInv /\ (DryRunBlock \/ WazuhBlock \/ WazuhFails \/ WazuhRaises) => TypeInv'
<1> SUFFICES ASSUME TypeInv, DryRunBlock \/ WazuhBlock \/ WazuhFails \/ WazuhRaises
             PROVE  TypeInv'
  OBVIOUS
<1>1. pc = "enforce" /\ pc' \in {"record", "audit", "ack"} /\ action' \in Actions
  BY DEF DryRunBlock, WazuhBlock, WazuhFails, WazuhRaises, workerVars, TypeInv, TypeOK, Actions
<1>2. cur \in 1 .. Len(stream) /\ task.ip \in Ips
  BY <1>1, InTaskFacts DEF InTask, TypeInv, GateOK
<1>3. UNCHANGED <<stream, group, lastDelivered, cur, end, sources>>
  BY DEF DryRunBlock, WazuhBlock, WazuhFails, WazuhRaises, redisVars, wazuhVars, workerVars
<1>4. CursorOK' /\ GateOK'
  BY <1>1, <1>3, StayInTask DEF InTask
<1>5. ASSUME AskForDrop
      PROVE  /\ requests' \subseteq [entry : 1 .. Len(stream), ip : Ips,
                                     sources : SUBSET Sources, settings : Settings]
             /\ sent' \subseteq [entry : 1 .. Len(stream), late : 0 .. MaxDelay + 1]
             /\ UNCHANGED <<firewall, drops>>
  <2>1. [entry |-> cur, ip |-> task.ip, sources |-> sources, settings |-> settings]
          \in [entry : 1 .. Len(stream), ip : Ips, sources : SUBSET Sources, settings : Settings]
    BY <1>2 DEF TypeInv, TypeOK
  <2>2. [entry |-> cur, late |-> 0] \in [entry : 1 .. Len(stream), late : 0 .. MaxDelay + 1]
    <3>1. 0 \in 0 .. MaxDelay + 1
      BY ConstantsOK
    <3> QED BY <1>2, <3>1
  <2> QED BY <1>5, <2>1, <2>2 DEF AskForDrop, TypeInv, TypeOK
<1>6. ASSUME TaskFault PROVE faults' \in 0 .. MaxFaults /\ faulted' \subseteq 1 .. Len(stream)
  BY <1>2, <1>6, ConstantsOK DEF TaskFault, Fault, TypeInv, TypeOK
<1>7. CASE DryRunBlock
  BY <1>1, <1>4, <1>7 DEF DryRunBlock, TypeInv, TypeOK, redisVars, wazuhVars, historyVars, Pcs,
      InTask
<1>8. CASE WazuhBlock
  BY <1>1, <1>4, <1>5, <1>8 DEF WazuhBlock, TypeInv, TypeOK, redisVars, wazuhVars, Pcs, InTask
<1>9. CASE WazuhFails
  <2>1. /\ requests' \subseteq [entry : 1 .. Len(stream), ip : Ips, sources : SUBSET Sources,
                                settings : Settings]
        /\ sent' \subseteq [entry : 1 .. Len(stream), late : 0 .. MaxDelay + 1]
        /\ UNCHANGED <<firewall, drops>>
        /\ unrecorded' \subseteq Ips
    BY <1>2, <1>5, <1>9 DEF WazuhFails, wazuhVars, TypeInv, TypeOK
  <2>2. faults' \in 0 .. MaxFaults /\ faulted' \subseteq 1 .. Len(stream)
    BY <1>6, <1>9 DEF WazuhFails
  <2> QED BY <1>1, <1>4, <1>9, <2>1, <2>2 DEF WazuhFails, TypeInv, TypeOK, redisVars, wazuhVars,
      Pcs, InTask
<1>10. CASE WazuhRaises
  <2>1. faults' \in 0 .. MaxFaults /\ faulted' \subseteq 1 .. Len(stream)
    BY <1>6, <1>10 DEF WazuhRaises
  <2>2. fate' \in Seq(Fates) /\ Len(fate') = Len(stream)
    BY <1>2, <1>10, ExceptSeq DEF WazuhRaises, TypeInv, TypeOK, Fates
  <2> QED BY <1>1, <1>4, <1>10, <2>1, <2>2
          DEF WazuhRaises, TypeInv, TypeOK, redisVars, wazuhVars, workerVars, Pcs, InTask
<1> QED BY <1>7, <1>8, <1>9, <1>10

LEMMA TypeRecord == TypeInv /\ (RecordBlock \/ RecordFails) => TypeInv'
<1> SUFFICES ASSUME TypeInv, RecordBlock \/ RecordFails PROVE TypeInv'
  OBVIOUS
<1>1. pc = "record" /\ pc' = "audit"
  BY DEF RecordBlock, RecordFails
<1>2. cur \in 1 .. Len(stream) /\ task.ip \in Ips
  BY <1>1, InTaskFacts DEF InTask, TypeInv, GateOK
<1>3. CursorOK' /\ GateOK'
  BY <1>1, StayInTask DEF RecordBlock, RecordFails, redisVars, wazuhVars, workerVars, InTask
<1>4. CASE RecordBlock
  <2>1. blockKey' \in [Ips -> 0 .. BlockTtl]
    <3>1. BlockTtl \in 0 .. BlockTtl
      BY ConstantsOK
    <3> QED BY <1>2, <1>4, <3>1 DEF RecordBlock, TypeInv, TypeOK
  <2> QED BY <1>3, <1>4, <2>1 DEF RecordBlock, TypeInv, TypeOK, redisVars, wazuhVars,
      workerVars, Pcs, InTask
<1>5. CASE RecordFails
  <2>1. faults' \in 0 .. MaxFaults /\ faulted' \subseteq 1 .. Len(stream)
    BY <1>2, <1>5, ConstantsOK DEF RecordFails, TaskFault, Fault, TypeInv, TypeOK
  <2>2. unrecorded' \subseteq Ips
    BY <1>2, <1>5 DEF RecordFails, TypeInv, TypeOK
  <2> QED BY <1>3, <1>5, <2>1, <2>2
          DEF RecordFails, TypeInv, TypeOK, redisVars, wazuhVars, workerVars, Pcs, InTask
<1> QED BY <1>4, <1>5

LEMMA TypeAudit == TypeInv /\ (Audit \/ AuditFails) => TypeInv'
<1> SUFFICES ASSUME TypeInv, Audit \/ AuditFails PROVE TypeInv'
  OBVIOUS
<1>1. pc = "audit" /\ pc' = "ack"
  BY DEF Audit, AuditFails, FinishTask
<1>2. cur \in 1 .. Len(stream)
  BY <1>1, InTaskFacts DEF InTask
<1>3. CursorOK' /\ GateOK'
  BY <1>1, StayInTask DEF Audit, AuditFails, redisVars, wazuhVars, workerVars, InTask
<1>4. fate' \in Seq(Fates) /\ Len(fate') = Len(stream)
  <2>1. fate' = [fate EXCEPT ![cur] = "done"] /\ "done" \in Fates
    BY DEF Audit, AuditFails, FinishTask, Fates
  <2> QED BY <1>2, <2>1, ExceptSeq DEF TypeInv, TypeOK
<1>5. CASE Audit
  <2>1. audit' \subseteq [entry : 1 .. Len(stream), action : Actions]
    BY <1>2, <1>5 DEF Audit, TypeInv, TypeOK
  <2> QED BY <1>1, <1>3, <1>4, <1>5, <2>1
          DEF Audit, TypeInv, TypeOK, redisVars, wazuhVars, workerVars, Pcs, InTask
<1>6. CASE AuditFails
  <2>1. faults' \in 0 .. MaxFaults /\ faulted' \subseteq 1 .. Len(stream)
    BY <1>2, <1>6, ConstantsOK DEF AuditFails, TaskFault, Fault, TypeInv, TypeOK
  <2> QED BY <1>1, <1>3, <1>4, <1>6, <2>1
          DEF AuditFails, TypeInv, TypeOK, redisVars, wazuhVars, workerVars, Pcs, InTask
<1> QED BY <1>5, <1>6

LEMMA TypeAck == TypeInv /\ (Ack \/ AckFails) => TypeInv'
<1> SUFFICES ASSUME TypeInv, Ack \/ AckFails PROVE TypeInv'
  OBVIOUS
<1>1. /\ pc = "ack" /\ cur' = cur + 1 /\ pc' = IF cur < end THEN "task" ELSE "read"
      /\ UNCHANGED <<end, lastDelivered, group, stream>>
  BY DEF Ack, AckFails, NextEntry, redisVars, wazuhVars
<1>2. cur \in 1 .. Len(stream) /\ cur <= end /\ end = lastDelivered /\ group
  BY <1>1, InTaskFacts DEF InTask
<1>3. CursorOK' /\ GateOK'
  BY <1>1, <1>2 DEF CursorOK, GateOK, InTask, TypeInv, TypeOK
<1>4. pc' \in Pcs /\ cur' \in Nat
  BY <1>1, <1>2 DEF Pcs
<1>5. CASE Ack
  <2>1. pel' \subseteq 1 .. Len(stream)
    BY <1>5 DEF Ack, TypeInv, TypeOK
  <2> QED BY <1>3, <1>4, <1>5, <2>1 DEF Ack, TypeInv, TypeOK, historyVars, wazuhVars
<1>6. CASE AckFails
  <2>1. faults' \in 0 .. MaxFaults /\ faulted' \subseteq 1 .. Len(stream)
    BY <1>2, <1>6, ConstantsOK DEF AckFails, TaskFault, Fault, TypeInv, TypeOK
  <2> QED BY <1>3, <1>4, <1>6, <2>1 DEF AckFails, TypeInv, TypeOK, redisVars, wazuhVars
<1> QED BY <1>5, <1>6

LEMMA TypeStep == TypeInv /\ [Next]_vars => TypeInv'
<1> SUFFICES ASSUME TypeInv, [Next]_vars PROVE TypeInv'
  OBVIOUS
<1>1. CASE UNCHANGED vars
  BY <1>1 DEF vars, redisVars, wazuhVars, workerVars, historyVars, TypeInv, TypeOK, CursorOK,
      GateOK, task,
              MayCorroborate
<1>2. CASE WorkerStep
  BY <1>2, TypeStartUp, TypeRead, TypeEnrich, TypeCheck, TypeEnforce, TypeRecord, TypeAudit,
     TypeAck DEF WorkerStep
<1> QED BY <1>1, <1>2, TypeEnvironment, TypeTick, TypeFirewallDrop, TypeCrash DEF Next

LEMMA TypeInvariant == Spec => []TypeInv
BY TypeInit, TypeStep, PTL DEF Spec

(* Type correctness of the worker, its stream and its firewalls.  It needs *)
(* CursorOK and GateOK: what a step records about the task in hand is well *)
(* typed because the cursor is inside the stream and the address is one.   *)
THEOREM TypeCorrect == Spec => []TypeOK
<1>1. TypeInv => TypeOK
  BY DEF TypeInv
<1> QED BY <1>1, TypeInvariant, PTL

-----------------------------------------------------------------------------
(* Who may be dropped.                                                     *)

DropSafe == DropsJustified /\ LabNeverDropped

(* What a request or a drop is for: an address.                            *)
LEMMA TargetIsIp ==
  ASSUME TypeInv, DropSafe, NEW x \in sent \cup drops
  PROVE  x.entry \in 1 .. Len(stream) /\ x.late \in Nat /\ Target(x) \in Ips
<1>1. x.entry \in 1 .. Len(stream) /\ x.late \in Nat
  BY ConstantsOK DEF TypeInv, TypeOK
<1>2. PICK r \in requests : r.entry = x.entry
  BY DEF DropSafe, DropsJustified
<1>3. stream[r.entry].ip = r.ip /\ r.ip \in Ips
  BY DEF DropSafe, DropsJustified, TypeInv, TypeOK
<1> QED BY <1>1, <1>2, <1>3 DEF Target

(* A drop asked for by the task in hand passed every gate.                 *)
LEMMA DropByGate ==
  ASSUME TypeInv, DropSafe, pc = "enforce", Enforcer = "wazuh_api", AskForDrop,
         UNCHANGED stream
  PROVE  DropSafe'
<1>1. /\ task.ip \in Ips /\ task.ip \notin Safelist \cup Internal /\ task.tier >= R2MinTier
      /\ Cardinality(sources) >= MinSources /\ sources \subseteq MayCorroborate(task)
      /\ settings.mode = "enforce"
  BY DEF TypeInv, GateOK
<1>2. settings = [mode |-> "enforce", backend |-> "wazuh_api"]
  <2>1. settings.backend = "wazuh_api"
    BY DEF Enforcer
  <2>2. settings \in [mode : {"dry_run", "enforce"}, backend : {"dry_run", "wazuh_api"}]
    BY ConstantsOK DEF TypeInv, TypeOK
  <2> QED BY <1>1, <2>1, <2>2
<1> DEFINE new == [entry |-> cur, ip |-> task.ip, sources |-> sources, settings |-> settings]
<1>3. /\ new.entry = cur /\ new.ip = task.ip /\ new.sources = sources /\ new.settings = settings
      /\ requests' = requests \cup {new} /\ sent' = sent \cup {[entry |-> cur, late |-> 0]}
      /\ UNCHANGED <<firewall, drops>>
  BY DEF AskForDrop
<1> HIDE DEF new
<1>4. ASSUME NEW r \in requests'
      PROVE  /\ stream[r.entry].ip = r.ip /\ stream[r.entry].tier >= R2MinTier
             /\ Cardinality(r.sources) >= MinSources
             /\ r.sources \subseteq MayCorroborate(stream[r.entry])
             /\ r.ip \notin Safelist \cup Internal
             /\ r.settings = [mode |-> "enforce", backend |-> "wazuh_api"]
  <2>1. CASE r \in requests
    BY <2>1 DEF DropSafe, DropsJustified
  <2>2. CASE r = new
    BY <1>1, <1>2, <1>3, <2>2 DEF task
  <2> QED BY <1>3, <2>1, <2>2
<1>5. ASSUME NEW d \in sent' \cup drops' PROVE \E r \in requests' : r.entry = d.entry
  <2>1. CASE d \in sent \cup drops
    BY <1>3, <2>1 DEF DropSafe, DropsJustified
  <2>2. CASE d = [entry |-> cur, late |-> 0]
    BY <1>3, <2>2
  <2> QED BY <1>3, <2>1, <2>2
<1>6. DropsJustified'
  BY <1>4, <1>5 DEF DropsJustified, MayCorroborate
<1>7. LabNeverDropped'
  BY <1>3 DEF DropSafe, LabNeverDropped
<1> QED BY <1>6, <1>7 DEF DropSafe

(* An agent runs what was asked for.                                       *)
LEMMA DropByAgent ==
  ASSUME TypeInv, DropSafe, NEW x \in sent, FirewallDrop(x)
  PROVE  DropSafe'
<1>1. UNCHANGED <<stream, requests>> /\ sent' \cup drops' = sent \cup drops
  BY DEF FirewallDrop, redisVars
<1>2. DropsJustified'
  BY <1>1 DEF DropSafe, DropsJustified, MayCorroborate
<1>3. PICK r \in requests : r.entry = x.entry
  BY DEF DropSafe, DropsJustified
<1>4. Target(x) \notin Safelist \cup Internal
  BY <1>3 DEF DropSafe, DropsJustified, Target
<1>5. LabNeverDropped'
  <2> SUFFICES ASSUME NEW ip \in Ips, firewall'[ip] > 0 PROVE ip \notin Safelist \cup Internal
    BY DEF LabNeverDropped
  <2>1. CASE ip = Target(x)
    BY <1>4, <2>1
  <2>2. CASE ip # Target(x)
    <3>1. firewall'[ip] = firewall[ip]
      BY <2>2, FirewallIs
    <3> QED BY <3>1 DEF DropSafe, LabNeverDropped
  <2> QED BY <2>1, <2>2
<1> QED BY <1>2, <1>5 DEF DropSafe

(* A request that ages is for the same entry.                              *)
LEMMA LaterFacts ==
  ASSUME TypeOK, NEW x \in sent
  PROVE  /\ Later(x).entry = x.entry
         /\ Later(x).late = IF MayRun(x) THEN x.late + 1 ELSE x.late
<1>1. x \in [entry : 1 .. Len(stream), late : 0 .. MaxDelay + 1]
  BY DEF TypeOK
<1> QED BY <1>1 DEF Later

LEMMA DropStep == TypeInv /\ DropSafe /\ [Next]_vars => DropSafe'
<1> SUFFICES ASSUME TypeInv, DropSafe, [Next]_vars PROVE DropSafe'
  OBVIOUS
<1>1. ASSUME UNCHANGED <<stream, wazuhVars>> PROVE DropSafe'
  BY <1>1 DEF DropSafe, DropsJustified, LabNeverDropped, MayCorroborate, wazuhVars
<1>2. ASSUME NEW t \in Task, Enqueue(t) PROVE DropSafe'
  <2>1. \A i \in 1 .. Len(stream) : stream'[i] = stream[i]
    BY <1>2 DEF Enqueue, TypeInv, TypeOK
  <2>2. \A r \in requests : r.entry \in 1 .. Len(stream)
    BY DEF TypeInv, TypeOK
  <2> QED BY <1>2, <2>1, <2>2
          DEF Enqueue, wazuhVars, DropSafe, DropsJustified, LabNeverDropped, MayCorroborate
<1>3. CASE Tick
  <2>1. \A ip \in Ips : firewall'[ip] > 0 => firewall[ip] > 0
    BY <1>3 DEF Tick, TypeInv, TypeOK
  <2>2. UNCHANGED <<stream, requests, drops>> /\ sent' = {Later(x) : x \in sent}
    BY <1>3 DEF Tick, redisVars
  <2>3. \A d \in sent' \cup drops' : \E r \in requests : r.entry = d.entry
    BY <2>2, LaterFacts DEF TypeInv, DropSafe, DropsJustified
  <2> QED BY <2>1, <2>2, <2>3 DEF DropSafe, DropsJustified, LabNeverDropped, MayCorroborate
<1>4. CASE WazuhBlock
  BY <1>4, DropByGate DEF WazuhBlock, redisVars
<1>5. CASE WazuhFails
  BY <1>1, <1>5, DropByGate DEF WazuhFails, redisVars
<1>6. CASE \E x \in sent : FirewallDrop(x)
  BY <1>6, DropByAgent
<1>7. CASE \/ Crash \/ Hang \/ Kill \/ Start \/ CreateGroup \/ CreateGroupFails
           \/ Read \/ ReadReplyLost \/ EmptyPoll \/ UNCHANGED vars
  BY <1>1, <1>7 DEF Crash, Hang, Kill, Abandon, Start, CreateGroup, CreateGroupFails, Read,
                    ReadReplyLost, EmptyPoll, vars, redisVars
<1>8. CASE \/ \E S \in SUBSET Sources : Enrich(S)
           \/ AlreadyBlocked \/ NotBlocked \/ CheckFails \/ DryRunBlock \/ WazuhRaises
           \/ RecordBlock \/ RecordFails \/ Audit \/ AuditFails \/ Ack \/ AckFails
  BY <1>1, <1>8 DEF Enrich, AlreadyBlocked, NotBlocked, CheckFails, DryRunBlock, WazuhRaises,
                    RecordBlock, RecordFails, Audit, AuditFails, Ack, AckFails, redisVars
<1> QED BY <1>2, <1>3, <1>4, <1>5, <1>6, <1>7, <1>8 DEF Next, WorkerStep

LEMMA DropInvariant == Spec => []DropSafe
<1>1. Init => DropSafe
  BY DEF Init, DropSafe, DropsJustified, LabNeverDropped
<1> QED BY <1>1, DropStep, TypeInvariant, PTL DEF Spec

(* The safeguards of R2 hold of every firewall-drop that is asked for, and *)
(* agents run no other, whatever is enqueued, fails, restarts, is late or  *)
(* changes mode.                                                           *)
THEOREM DropsAreJustified == Spec => []DropsJustified
<1>1. DropSafe => DropsJustified
  BY DEF DropSafe
<1> QED BY <1>1, DropInvariant, PTL

(* No firewall ever drops an address of the lab.                           *)
THEOREM LabIsNeverDropped == Spec => []LabNeverDropped
<1>1. DropSafe => LabNeverDropped
  BY DEF DropSafe
<1> QED BY <1>1, DropInvariant, PTL

-----------------------------------------------------------------------------
(* What delivery promises.                                                 *)

(* The fate of an entry follows the cursor: beyond last-delivered-id       *)
(* nothing was touched, the rest of the reply waits, the entry in hand is  *)
(* started until it is done.                                               *)
FateOK ==
  /\ \A i \in 1 .. Len(stream) : i > lastDelivered => fate[i] = "queued"
  /\ NeverReprocessed
  /\ pc \in InTask => \A i \in cur + 1 .. end : fate[i] = "delivered"
  /\ pc \in InTask \ {"ack"} => fate[cur] = "started"
  /\ pc = "ack" => Finished(cur)

DeliveryOK == FateOK /\ AckedMeansFinished /\ NothingSkipped

(* A reply leaves no entry out between the old and the new                 *)
(* last-delivered-id, but for those MAXLEN had trimmed.                    *)
LEMMA BatchIsRun ==
  ASSUME TypeOK, Deliver, NEW i \in 1 .. Len(stream),
         i > lastDelivered, i <= lastDelivered', i >= first
  PROVE  i \in NextBatch
<1>1. i \in Undelivered
  BY DEF Undelivered, TypeOK
<1>2. lastDelivered' \in NextBatch
  BY DeliverFacts
<1>3. \A j \in Undelivered : lastDelivered' < j + ReadCount /\ j \in Nat
  BY <1>2 DEF NextBatch, Undelivered, TypeOK
<1>4. lastDelivered' \in Nat /\ i \in Nat
  BY <1>2, DeliverTypes DEF TypeOK
<1>5. \A j \in Undelivered : i < j + ReadCount
  BY <1>3, <1>4, ConstantsOK
<1> QED BY <1>1, <1>5 DEF NextBatch

LEMMA FateDeliver ==
  ASSUME TypeInv, DeliveryOK, Deliver, pc = "read", UNCHANGED <<stream, first>>,
         \/ pc' = "read"
         \/ pc' = "task" /\ cur' \in NextBatch /\ end' = lastDelivered'
  PROVE  DeliveryOK'
<1>1. TypeOK /\ Len(fate) = Len(stream) /\ lastDelivered \in 0 .. Len(stream)
  BY DEF TypeInv, TypeOK
<1>2. /\ lastDelivered' \in NextBatch /\ lastDelivered' \in 1 .. Len(stream)
      /\ lastDelivered' > lastDelivered
      /\ \A i \in NextBatch : i \in 1 .. Len(stream) /\ i > lastDelivered /\ i >= first
      /\ \A i \in NextBatch : i <= lastDelivered'
  BY <1>1, DeliverFacts
<1>3. \A i \in 1 .. Len(stream) :
         fate'[i] = IF i \in NextBatch /\ fate[i] = "queued" THEN "delivered" ELSE fate[i]
  BY <1>1, DeliverFacts
<1>4. \A i \in NextBatch : fate[i] = "queued" /\ fate'[i] = "delivered" /\ i \in pel'
  BY <1>2, <1>3 DEF DeliveryOK, FateOK, Deliver
<1>5. \A i \in 1 .. Len(stream) : i > lastDelivered' => fate'[i] = "queued"
  BY <1>1, <1>2, <1>3 DEF DeliveryOK, FateOK
<1>6. NeverReprocessed'
  <2> SUFFICES ASSUME pc' = "task", NEW i \in cur' .. end' PROVE fate'[i] = "delivered"
    BY DEF NeverReprocessed
  <2>1. cur' \in NextBatch /\ end' = lastDelivered'
    OBVIOUS
  <2>2. i \in 1 .. Len(stream) /\ i > lastDelivered /\ i <= lastDelivered' /\ i >= first
    BY <1>1, <1>2, <2>1 DEF TypeOK
  <2>3. i \in NextBatch
    BY <1>1, <2>2, BatchIsRun
  <2> QED BY <1>4, <2>3
<1>7. FateOK'
  BY <1>5, <1>6 DEF FateOK, InTask
<1>8. AckedMeansFinished'
  <2> SUFFICES ASSUME NEW i \in 1 .. lastDelivered', fate'[i] # "queued", i \notin pel'
               PROVE  Finished(i)'
    BY DEF AckedMeansFinished
  <2>1. i \in 1 .. Len(stream) /\ i \notin NextBatch
    BY <1>2, <1>4
  <2>2. fate'[i] = fate[i] /\ i <= lastDelivered /\ i \notin pel
    BY <1>1, <1>3, <2>1 DEF DeliveryOK, FateOK, Deliver
  <2> QED BY <2>1, <2>2 DEF DeliveryOK, AckedMeansFinished, Finished
<1>9. NothingSkipped'
  <2> SUFFICES ASSUME NEW i \in 1 .. Len(stream), fate'[i] = "queued", i <= lastDelivered',
                      ~(i < first)
               PROVE  FALSE
    BY DEF NothingSkipped
  <2>1. i \notin NextBatch /\ fate[i] = "queued"
    BY <1>3, <1>4
  <2>2. i >= first
    BY DEF TypeInv, TypeOK
  <2>3. i <= lastDelivered
    BY <1>1, <2>1, <2>2, BatchIsRun
  <2> QED BY <2>1, <2>3 DEF DeliveryOK, NothingSkipped
<1> QED BY <1>7, <1>8, <1>9 DEF DeliveryOK

(* A step that touches neither the stream nor a fate, and enters no task.  *)
LEMMA FateStay ==
  ASSUME DeliveryOK, UNCHANGED <<stream, first, lastDelivered, pel, fate, cur, end>>,
         pc' = "task" => pc = "task",
         pc' = "ack" => pc = "ack",
         pc' \in InTask \ {"ack"} => pc \in InTask \ {"ack"}
  PROVE  DeliveryOK'
<1>1. Finished(cur)' = Finished(cur) /\ \A i : Finished(i)' = Finished(i)
  BY DEF Finished
<1>2. AckedMeansFinished' /\ NothingSkipped'
  BY <1>1 DEF DeliveryOK, AckedMeansFinished, NothingSkipped
<1>3. FateOK'
  BY <1>1 DEF DeliveryOK, FateOK, NeverReprocessed
<1> QED BY <1>2, <1>3 DEF DeliveryOK

(* The task in hand begins: it was delivered and is pending.               *)
LEMMA FateBegin ==
  ASSUME TypeInv, DeliveryOK, NEW S \in SUBSET Sources, Enrich(S)
  PROVE  DeliveryOK'
<1>1. cur \in 1 .. Len(stream) /\ cur <= end /\ end = lastDelivered
  BY InTaskFacts DEF Enrich
<1>2. /\ pc = "task" /\ pc' \in {"audit", "check"}
      /\ UNCHANGED <<stream, first, lastDelivered, pel, cur, end>>
  BY DEF Enrich, redisVars, wazuhVars
<1>3. \A i \in 1 .. Len(stream) : fate'[i] = IF i = cur THEN "started" ELSE fate[i]
  BY <1>1 DEF Enrich, TypeInv, TypeOK
<1>4. \A i \in cur .. end : fate[i] = "delivered"
  BY <1>2 DEF DeliveryOK, FateOK, NeverReprocessed
<1>5. FateOK'
  <2>1. \A i \in 1 .. Len(stream) : i > lastDelivered => fate'[i] = "queued"
    <3>1. lastDelivered \in Nat
      BY DEF TypeInv, TypeOK
    <3>2. \A i \in 1 .. Len(stream) : i > lastDelivered => i # cur /\ fate[i] = "queued"
      BY <1>1, <3>1 DEF DeliveryOK, FateOK
    <3> QED BY <1>3, <3>2
  <2>2. \A i \in cur + 1 .. end : i \in 1 .. Len(stream) /\ i \in cur .. end /\ i # cur
    BY <1>1 DEF TypeInv, TypeOK
  <2>3. \A i \in cur + 1 .. end : fate'[i] = "delivered"
    BY <1>3, <1>4, <2>2
  <2>4. fate'[cur] = "started"
    BY <1>1, <1>3
  <2> QED BY <1>2, <2>1, <2>3, <2>4 DEF FateOK, NeverReprocessed, InTask
<1>6. cur \in pel
  BY <1>1, <1>4 DEF DeliveryOK, AckedMeansFinished, Finished
<1>7. AckedMeansFinished'
  <2>1. lastDelivered \in 0 .. Len(stream)
    BY DEF TypeInv, TypeOK
  <2> SUFFICES ASSUME NEW i \in 1 .. lastDelivered, fate'[i] # "queued", i \notin pel
               PROVE  fate'[i] \in {"done", "failed"}
    BY <1>2 DEF AckedMeansFinished, Finished
  <2>2. i \in 1 .. Len(stream) /\ fate'[i] = fate[i]
    BY <1>3, <1>6, <2>1
  <2> QED BY <2>2 DEF DeliveryOK, AckedMeansFinished, Finished
<1>8. NothingSkipped'
  BY <1>2, <1>3 DEF DeliveryOK, NothingSkipped
<1> QED BY <1>5, <1>7, <1>8 DEF DeliveryOK

(* The task in hand ends, by its audit or by an exception.                 *)
LEMMA FateEnd ==
  ASSUME TypeInv, DeliveryOK, pc \in InTask \ {"ack"}, pc' = "ack",
         NEW v \in {"done", "failed"}, fate' = [fate EXCEPT ![cur] = v],
         UNCHANGED <<stream, first, lastDelivered, pel, cur, end>>
  PROVE  DeliveryOK'
<1>1. cur \in 1 .. Len(stream) /\ cur <= end /\ end = lastDelivered
  BY InTaskFacts
<1>2. \A i \in 1 .. Len(stream) : fate'[i] = IF i = cur THEN v ELSE fate[i]
  BY <1>1 DEF TypeInv, TypeOK
<1>3. FateOK'
  BY <1>1, <1>2 DEF DeliveryOK, FateOK, NeverReprocessed, InTask, Finished, TypeInv, TypeOK
<1>4. AckedMeansFinished' /\ NothingSkipped'
  BY <1>1, <1>2 DEF DeliveryOK, AckedMeansFinished, NothingSkipped, Finished, TypeInv, TypeOK
<1> QED BY <1>3, <1>4 DEF DeliveryOK

(* XACK is answered or not, and the loop goes on.                          *)
LEMMA FateAck ==
  ASSUME TypeInv, DeliveryOK, Ack \/ AckFails
  PROVE  DeliveryOK'
<1>1. /\ pc = "ack" /\ cur' = cur + 1 /\ pc' = IF cur < end THEN "task" ELSE "read"
      /\ UNCHANGED <<stream, first, lastDelivered, fate, end>>
      /\ pel' = pel \/ pel' = pel \ {cur}
  BY DEF Ack, AckFails, NextEntry, redisVars, wazuhVars, historyVars
<1>2. cur \in 1 .. Len(stream) /\ end = lastDelivered
  BY <1>1, InTaskFacts DEF InTask
<1>3. Finished(cur) /\ \A i \in cur + 1 .. end : fate[i] = "delivered"
  BY <1>1 DEF DeliveryOK, FateOK, InTask
<1>4. FateOK'
  BY <1>1, <1>3 DEF DeliveryOK, FateOK, NeverReprocessed, InTask
<1>5. AckedMeansFinished' /\ NothingSkipped'
  BY <1>1, <1>3 DEF DeliveryOK, AckedMeansFinished, NothingSkipped, Finished
<1> QED BY <1>4, <1>5 DEF DeliveryOK

(* A new entry lies beyond the group's cursor; trimming only takes away.   *)
LEMMA FateEnqueue ==
  ASSUME TypeInv, DeliveryOK, NEW t \in Task, Enqueue(t)
  PROVE  DeliveryOK'
<1>1. /\ Len(stream') = Len(stream) + 1 /\ Len(stream) \in Nat
      /\ \A i \in 1 .. Len(stream) : fate'[i] = fate[i]
      /\ fate'[Len(stream) + 1] = "queued"
      /\ first \in Nat /\ first' \in Nat /\ first' >= first
      /\ lastDelivered \in 0 .. Len(stream)
  BY DEF Enqueue, TypeInv, TypeOK
<1>2. UNCHANGED <<lastDelivered, pel, pc, cur, end>>
  BY DEF Enqueue, workerVars
<1>3. pc \in InTask \cup {"task"} => cur \in 1 .. end /\ end = lastDelivered
  BY DEF TypeInv, CursorOK
<1>4. FateOK'
  BY <1>1, <1>2, <1>3 DEF DeliveryOK, FateOK, NeverReprocessed, Finished, InTask
<1>5. AckedMeansFinished' /\ NothingSkipped'
  BY <1>1, <1>2 DEF DeliveryOK, AckedMeansFinished, NothingSkipped, Finished
<1> QED BY <1>4, <1>5 DEF DeliveryOK

LEMMA DeliveryStep == TypeInv /\ DeliveryOK /\ [Next]_vars => DeliveryOK'
<1> SUFFICES ASSUME TypeInv, DeliveryOK, [Next]_vars PROVE DeliveryOK'
  OBVIOUS
<1>1. CASE \E t \in Task : Enqueue(t)
  BY <1>1, FateEnqueue
<1>2. CASE UNCHANGED vars \/ Tick \/ (\E x \in sent : FirewallDrop(x)) \/ Start
           \/ CreateGroupFails \/ EmptyPoll
  BY <1>2, FateStay DEF vars, redisVars, workerVars, historyVars, Tick, FirewallDrop, Start,
                        CreateGroupFails, Exit, EmptyPoll, InTask
<1>13. CASE Crash \/ Hang \/ Kill
  <2>1. /\ pc' \in {"down", "stopped", "hung"}
        /\ UNCHANGED <<stream, first, lastDelivered, pel, fate, cur, end>>
    BY <1>13 DEF Crash, Hang, Kill, Exit, Abandon, redisVars, workerVars, historyVars
  <2> QED BY <2>1, FateStay DEF InTask
<1>3. CASE CreateGroup
  <2>1. lastDelivered' = lastDelivered
    BY <1>3 DEF CreateGroup, TypeInv, CursorOK
  <2> QED BY <1>3, <2>1, FateStay DEF CreateGroup, workerVars, historyVars, InTask
<1>4. CASE Read
  BY <1>4, FateDeliver DEF Read
<1>5. CASE ReadReplyLost
  BY <1>5, FateDeliver DEF ReadReplyLost
<1>6. CASE \E S \in SUBSET Sources : Enrich(S)
  BY <1>6, FateBegin
<1>7. CASE AlreadyBlocked \/ NotBlocked \/ CheckFails
  <2>1. pc = "check" /\ pc' \in {"record", "audit", "enforce"}
    BY <1>7 DEF AlreadyBlocked, NotBlocked, CheckFails, GoOn
  <2>2. UNCHANGED <<stream, first, lastDelivered, pel, fate, cur, end>>
    BY <1>7 DEF AlreadyBlocked, NotBlocked, CheckFails, redisVars, wazuhVars, historyVars
  <2> QED BY <2>1, <2>2, FateStay DEF InTask
<1>8. CASE DryRunBlock \/ WazuhBlock \/ WazuhFails
  BY <1>8, FateStay DEF DryRunBlock, WazuhBlock, WazuhFails, redisVars, wazuhVars, historyVars,
      InTask
<1>9. CASE RecordBlock \/ RecordFails
  BY <1>9, FateStay DEF RecordBlock, RecordFails, redisVars, wazuhVars, workerVars, InTask
<1>10. CASE WazuhRaises
  BY <1>10, FateEnd DEF WazuhRaises, redisVars, wazuhVars, workerVars, InTask
<1>11. CASE Audit \/ AuditFails
  BY <1>11, FateEnd DEF Audit, AuditFails, FinishTask, redisVars, wazuhVars, workerVars, InTask
<1>12. CASE Ack \/ AckFails
  BY <1>12, FateAck
<1> QED BY <1>1, <1>2, <1>3, <1>4, <1>5, <1>6, <1>7, <1>8, <1>9, <1>10, <1>11, <1>12, <1>13
        DEF Next, WorkerStep

LEMMA DeliveryInvariant == Spec => []DeliveryOK
<1>1. Init => DeliveryOK
  BY EmptySeq DEF Init, DeliveryOK, FateOK, NeverReprocessed, AckedMeansFinished, NothingSkipped,
                  InTask
<1> QED BY <1>1, DeliveryStep, TypeInvariant, PTL DEF Spec

(* No crash, lost reply or failing call makes run() begin a task twice.    *)
THEOREM TasksAreNeverReprocessed == Spec => []NeverReprocessed
<1>1. DeliveryOK => NeverReprocessed
  BY DEF DeliveryOK, FateOK
<1> QED BY <1>1, DeliveryInvariant, PTL

(* Only finished entries leave the pending list.                           *)
THEOREM AcknowledgedIsFinished == Spec => []AckedMeansFinished
<1>1. DeliveryOK => AckedMeansFinished
  BY DEF DeliveryOK
<1> QED BY <1>1, DeliveryInvariant, PTL

(* The group passes over nothing but what MAXLEN had taken away.           *)
THEOREM NothingIsSkipped == Spec => []NothingSkipped
<1>1. DeliveryOK => NothingSkipped
  BY DEF DeliveryOK
<1> QED BY <1>1, DeliveryInvariant, PTL

(* All three: what the group owes an entry it hands out.                   *)
THEOREM DeliveryIsKept == Spec => []DeliveryKept
<1>1. DeliveryOK => DeliveryKept
  BY DEF DeliveryOK, FateOK, DeliveryKept
<1> QED BY <1>1, DeliveryInvariant, PTL

-----------------------------------------------------------------------------
(* What Redis shows of the firewalls.                                      *)

(* A request that an agent may still run is covered by a key that will     *)
(* have lived no longer than the request has waited; if not, nobody        *)
(* recorded it, or its record is the next call.                            *)
PendingOK ==
  \A x \in sent, ip \in Ips : MayRun(x) /\ Target(x) = ip =>
    \/ ip \in unrecorded \/ Recording(ip)
    \/ blockKey[ip] + x.late >= BlockTtl

VisibleOK == DropsVisible /\ NoRedrop /\ PendingOK

(* A rule that is not late has a key that outlives it.                     *)
Covered(ip) ==
  \/ firewall[ip] <= blockKey[ip]
  \/ \E d \in drops : Target(d) = ip /\ firewall[ip] <= blockKey[ip] + d.late

LEMMA TtlFacts == BlockTtl \in Nat /\ FirewallTtl \in Nat /\ FirewallTtl <= BlockTtl
BY ConstantsOK, TtlAligned

(* Keys and rules as numbers.                                              *)
LEMMA LeftFacts ==
  ASSUME TypeInv, NEW ip \in Ips
  PROVE  /\ blockKey[ip] \in Nat /\ firewall[ip] \in Nat
         /\ blockKey[ip] <= BlockTtl /\ firewall[ip] <= FirewallTtl
BY TtlFacts DEF TypeInv, TypeOK

(* Steps that leave keys, rules, requests and task alone.                  *)
LEMMA VisibleStay ==
  ASSUME VisibleOK, UNCHANGED <<blockKey, wazuhVars, task>>, unrecorded \subseteq unrecorded',
         \A x \in sent \cup drops : Target(x)' = Target(x),
         pc = "record" /\ action = "block"
           => (pc' = "record" /\ action' = action) \/ task.ip \in unrecorded',
         pc' = "enforce" => pc = "enforce" /\ blind' = blind
  PROVE  VisibleOK'
<1>1. UNCHANGED <<sent, firewall, drops>>
  BY DEF wazuhVars
<1>2. ASSUME NEW ip, Recording(ip) PROVE Recording(ip)' \/ ip \in unrecorded'
  BY <1>2 DEF Recording
<1>3. DropsVisible'
  <2> SUFFICES ASSUME NEW ip \in Ips
               PROVE  \/ firewall[ip] <= blockKey[ip] \/ ip \in unrecorded' \/ Recording(ip)'
                      \/ \E d \in drops : Target(d)' = ip /\ firewall[ip] <= blockKey[ip] + d.late
    BY <1>1 DEF DropsVisible
  <2>1. CASE Recording(ip) \/ ip \in unrecorded
    BY <1>2, <2>1
  <2>2. CASE ~Recording(ip) /\ ip \notin unrecorded
    <3>1. Covered(ip)
      BY <2>2 DEF VisibleOK, DropsVisible, Covered
    <3> QED BY <3>1 DEF Covered
  <2> QED BY <2>1, <2>2
<1>4. NoRedrop'
  BY <1>1 DEF VisibleOK, NoRedrop, MayRun
<1>5. PendingOK'
  <2> SUFFICES ASSUME NEW x \in sent, NEW ip \in Ips, MayRun(x), Target(x) = ip
               PROVE  \/ ip \in unrecorded' \/ Recording(ip)'
                      \/ blockKey[ip] + x.late >= BlockTtl
    BY <1>1 DEF PendingOK, MayRun
  <2> QED BY <1>2 DEF VisibleOK, PendingOK
<1> QED BY <1>3, <1>4, <1>5 DEF VisibleOK

LEMMA TargetSame ==
  ASSUME UNCHANGED stream
  PROVE  \A x : Target(x)' = Target(x)
BY DEF Target

(* As time passes the key loses what the request waits.                    *)
LEMMA VisibleTick == TypeInv /\ DropSafe /\ VisibleOK /\ Tick => VisibleOK'
<1> SUFFICES ASSUME TypeInv, DropSafe, VisibleOK, Tick PROVE VisibleOK'
  OBVIOUS
<1>1. /\ UNCHANGED <<pc, action, blind, unrecorded, task, stream, drops>>
      /\ sent' = {Later(x) : x \in sent}
  BY DEF Tick, redisVars, workerVars, historyVars, task
<1>2. ASSUME NEW ip \in Ips
      PROVE  /\ blockKey[ip] \in Nat /\ firewall[ip] \in Nat
             /\ blockKey'[ip] = IF blockKey[ip] > 0 THEN blockKey[ip] - 1 ELSE 0
             /\ firewall'[ip] = IF firewall[ip] > 0 THEN firewall[ip] - 1 ELSE 0
  BY LeftFacts DEF Tick
<1>3. \A x : Target(x)' = Target(x)
  BY <1>1, TargetSame
<1>4. \A ip : Recording(ip)' = Recording(ip)
  BY <1>1 DEF Recording
<1>5. DropsVisible'
  <2> SUFFICES ASSUME NEW ip \in Ips, ip \notin unrecorded, ~Recording(ip) PROVE Covered(ip)'
    BY <1>1, <1>4 DEF DropsVisible, Covered
  <2>1. CASE firewall[ip] <= blockKey[ip]
    BY <1>2, <2>1 DEF Covered
  <2>2. CASE \E d \in drops : Target(d) = ip /\ firewall[ip] <= blockKey[ip] + d.late
    <3>1. PICK d \in drops : Target(d) = ip /\ firewall[ip] <= blockKey[ip] + d.late
      BY <2>2
    <3>2. d.late \in Nat
      BY TargetIsIp
    <3>3. firewall'[ip] <= blockKey'[ip] + d.late
      BY <1>2, <3>1, <3>2
    <3> QED BY <1>1, <1>3, <3>1, <3>3 DEF Covered
  <2> QED BY <2>1, <2>2 DEF VisibleOK, DropsVisible
<1>6. ASSUME NEW y \in sent', MayRun(y)'
      PROVE  \E x \in sent : MayRun(x) /\ Target(y)' = Target(x) /\ y.late = x.late + 1
  <2>1. PICK x \in sent : y = Later(x)
    BY <1>1
  <2>2. y.entry = x.entry /\ y.late = IF MayRun(x) THEN x.late + 1 ELSE x.late
    BY <2>1, LaterFacts DEF TypeInv
  <2>3. MayRun(x)
    BY <1>6, <2>2 DEF MayRun
  <2> QED BY <1>3, <2>2, <2>3 DEF Target
<1>7. NoRedrop'
  <2> SUFFICES ASSUME pc = "enforce", ~blind, task.ip \notin unrecorded
               PROVE  /\ \/ firewall'[task.ip] = 0
                         \/ \E d \in drops : Target(d) = task.ip /\ firewall'[task.ip] <= d.late
                      /\ \A x \in sent' :
                           Target(x)' = task.ip /\ MayRun(x)' => x.late >= BlockTtl
    BY <1>1, <1>3 DEF NoRedrop
  <2>1. task.ip \in Ips
    BY DEF TypeInv, GateOK
  <2>2. CASE firewall[task.ip] = 0
    <3>1. firewall'[task.ip] = 0
      BY <1>2, <2>1, <2>2
    <3>2. \A x \in sent : x.late \in Nat
      BY TargetIsIp
    <3> QED BY <1>6, <3>1, <3>2, TtlFacts DEF VisibleOK, NoRedrop
  <2>3. CASE \E d \in drops : Target(d) = task.ip /\ firewall[task.ip] <= d.late
    <3>1. PICK d \in drops : Target(d) = task.ip /\ firewall[task.ip] <= d.late
      BY <2>3
    <3>2. firewall'[task.ip] <= d.late
      <4>1. d.late \in Nat
        BY TargetIsIp
      <4> QED BY <1>2, <2>1, <3>1, <4>1
    <3>3. \A x \in sent : x.late \in Nat
      BY TargetIsIp
    <3> QED BY <1>6, <3>1, <3>2, <3>3, TtlFacts DEF VisibleOK, NoRedrop
  <2> QED BY <2>2, <2>3 DEF VisibleOK, NoRedrop
<1>8. PendingOK'
  <2> SUFFICES ASSUME NEW y \in sent', NEW ip \in Ips, MayRun(y)', Target(y)' = ip,
                      ip \notin unrecorded, ~Recording(ip)
               PROVE  blockKey'[ip] + y.late >= BlockTtl
    BY <1>1, <1>4 DEF PendingOK
  <2>1. PICK x \in sent : MayRun(x) /\ Target(x) = ip /\ y.late = x.late + 1
    BY <1>6
  <2>2. x.late \in Nat
    BY TargetIsIp
  <2>3. blockKey[ip] + x.late >= BlockTtl
    BY <2>1 DEF VisibleOK, PendingOK
  <2>4. /\ blockKey[ip] \in Nat
        /\ blockKey'[ip] = IF blockKey[ip] > 0 THEN blockKey[ip] - 1 ELSE 0
    BY <1>2
  <2> QED BY <2>1, <2>2, <2>3, <2>4, TtlFacts
<1> QED BY <1>5, <1>7, <1>8 DEF VisibleOK

(* An agent that runs a request is late by no more than what the key has   *)
(* lost.                                                                   *)
LEMMA VisibleDrop ==
  ASSUME TypeInv, DropSafe, VisibleOK, NEW x \in sent, FirewallDrop(x)
  PROVE  VisibleOK'
<1>1. /\ UNCHANGED <<pc, action, blind, unrecorded, task, stream, blockKey>>
      /\ sent' = sent \ {x} /\ drops' = drops \cup {x} /\ MayRun(x)
  BY DEF FirewallDrop, redisVars, workerVars, historyVars, task
<1>2. /\ \A y : Target(y)' = Target(y)
      /\ \A ip : Recording(ip)' = Recording(ip)
  BY <1>1, TargetSame DEF Recording
<1>3. x.late \in Nat /\ Target(x) \in Ips
  BY TargetIsIp
<1>4. firewall'[Target(x)] <= FirewallTtl /\ firewall'[Target(x)] \in Nat
  <2>1. firewall' \in [Ips -> 0 .. FirewallTtl]
    BY FirewallIs
  <2> QED BY <1>3, <2>1, TtlFacts
<1>5. blockKey[Target(x)] \in Nat
  BY <1>3, LeftFacts
<1>6. DropsVisible'
  <2> SUFFICES ASSUME NEW ip \in Ips, ip \notin unrecorded, ~Recording(ip) PROVE Covered(ip)'
    BY <1>1, <1>2 DEF DropsVisible, Covered
  <2>1. CASE ip = Target(x)
    <3>1. blockKey[ip] + x.late >= BlockTtl
      BY <1>1, <2>1 DEF VisibleOK, PendingOK
    <3>2. firewall'[ip] <= blockKey[ip] + x.late
      BY <1>3, <1>4, <1>5, <2>1, <3>1, TtlFacts
    <3> QED BY <1>1, <1>2, <2>1, <3>2 DEF Covered
  <2>2. CASE ip # Target(x)
    <3>1. firewall'[ip] = firewall[ip]
      BY <2>2, FirewallIs
    <3>2. Covered(ip)
      BY DEF VisibleOK, DropsVisible, Covered
    <3> QED BY <1>1, <1>2, <3>1, <3>2 DEF Covered
  <2> QED BY <2>1, <2>2
<1>7. NoRedrop'
  <2> SUFFICES ASSUME pc = "enforce", ~blind, task.ip \notin unrecorded
               PROVE  /\ \/ firewall'[task.ip] = 0
                         \/ \E d \in drops' : Target(d) = task.ip /\ firewall'[task.ip] <= d.late
                      /\ \A y \in sent : Target(y) = task.ip /\ MayRun(y) => y.late >= BlockTtl
    BY <1>1, <1>2 DEF NoRedrop, MayRun
  <2>1. \A y \in sent : Target(y) = task.ip /\ MayRun(y) => y.late >= BlockTtl
    BY DEF VisibleOK, NoRedrop
  <2>2. CASE Target(x) = task.ip
    <3>1. firewall'[task.ip] <= x.late
      BY <1>1, <1>3, <1>4, <2>1, <2>2, TtlFacts
    <3> QED BY <1>1, <2>1, <2>2, <3>1
  <2>3. CASE Target(x) # task.ip
    <3>1. task.ip \in Ips
      BY DEF TypeInv, GateOK
    <3>2. firewall'[task.ip] = firewall[task.ip]
      BY <2>3, <3>1, FirewallIs
    <3> QED BY <1>1, <2>1, <3>2 DEF VisibleOK, NoRedrop
  <2> QED BY <2>2, <2>3
<1>8. PendingOK'
  BY <1>1, <1>2 DEF VisibleOK, PendingOK, MayRun
<1> QED BY <1>6, <1>7, <1>8 DEF VisibleOK

(* What is_blocked leaves behind: nothing drops the address but a rule or  *)
(* a request that is late, or nobody recorded it, or Redis did not answer. *)
LEMMA VisibleCheck ==
  TypeInv /\ DropSafe /\ VisibleOK /\ (AlreadyBlocked \/ NotBlocked \/ CheckFails) => VisibleOK'
<1> SUFFICES ASSUME TypeInv, DropSafe, VisibleOK, AlreadyBlocked \/ NotBlocked \/ CheckFails
             PROVE  VisibleOK'
  OBVIOUS
<1>1. /\ pc = "check"
      /\ UNCHANGED <<blockKey, firewall, sent, drops, stream, cur, task, unrecorded>>
  BY DEF AlreadyBlocked, NotBlocked, CheckFails, redisVars, wazuhVars, historyVars, task
<1>2. /\ \A x : Target(x)' = Target(x)
      /\ \A ip : ~Recording(ip)
  BY <1>1, TargetSame DEF Recording
<1>3. DropsVisible'
  BY <1>1, <1>2 DEF VisibleOK, DropsVisible
<1>4. PendingOK'
  BY <1>1, <1>2 DEF VisibleOK, PendingOK, MayRun
<1>5. task.ip \in Ips
  BY <1>1 DEF TypeInv, GateOK
<1>6. NoRedrop'
  <2> SUFFICES ASSUME pc' = "enforce", ~blind', task.ip \notin unrecorded
               PROVE  /\ \/ firewall[task.ip] = 0
                         \/ \E d \in drops : Target(d) = task.ip /\ firewall[task.ip] <= d.late
                      /\ \A x \in sent : Target(x) = task.ip /\ MayRun(x) => x.late >= BlockTtl
    BY <1>1, <1>2 DEF NoRedrop, MayRun
  <2>1. blockKey[task.ip] = 0
    BY DEF AlreadyBlocked, NotBlocked, CheckFails
  <2>2. Covered(task.ip)
    BY <1>2, <1>5 DEF VisibleOK, DropsVisible, Covered
  <2>3. firewall[task.ip] \in Nat /\ \A d \in drops : d.late \in Nat
    BY <1>5, LeftFacts, TargetIsIp
  <2>4. \/ firewall[task.ip] = 0
        \/ \E d \in drops : Target(d) = task.ip /\ firewall[task.ip] <= d.late
    BY <2>1, <2>2, <2>3 DEF Covered
  <2>5. ASSUME NEW x \in sent, Target(x) = task.ip, MayRun(x) PROVE x.late >= BlockTtl
    <3>1. blockKey[task.ip] + x.late >= BlockTtl
      BY <1>2, <1>5, <2>5 DEF VisibleOK, PendingOK
    <3>2. x.late \in Nat
      BY TargetIsIp
    <3> QED BY <2>1, <3>1, <3>2, TtlFacts
  <2> QED BY <2>4, <2>5
<1> QED BY <1>3, <1>4, <1>6 DEF VisibleOK

(* A new request has its record next, or nobody records it.                *)
LEMMA VisibleAsk ==
  ASSUME TypeInv, DropSafe, VisibleOK, pc = "enforce", pc' # "enforce", AskForDrop,
         UNCHANGED <<stream, cur, blockKey>>, unrecorded \subseteq unrecorded',
         (pc' = "record" /\ action' = "block") \/ task.ip \in unrecorded'
  PROVE  VisibleOK'
<1>1. /\ UNCHANGED <<firewall, drops, task>>
      /\ sent' = sent \cup {[entry |-> cur, late |-> 0]}
  BY DEF AskForDrop, task
<1>2. /\ \A x : Target(x)' = Target(x)
      /\ \A ip : ~Recording(ip)
  BY TargetSame DEF Recording
<1>3. DropsVisible'
  <2> SUFFICES ASSUME NEW ip \in Ips, ip \notin unrecorded' PROVE Covered(ip)'
    BY DEF DropsVisible, Covered
  <2>1. Covered(ip)
    BY <1>2 DEF VisibleOK, DropsVisible, Covered
  <2> QED BY <1>1, <1>2, <2>1 DEF Covered
<1>4. PendingOK'
  <2> SUFFICES ASSUME NEW x \in sent', NEW ip \in Ips, MayRun(x), Target(x) = ip
               PROVE  \/ ip \in unrecorded' \/ Recording(ip)'
                      \/ blockKey[ip] + x.late >= BlockTtl
    BY <1>2 DEF PendingOK, MayRun
  <2>1. CASE x \in sent
    BY <1>2, <2>1 DEF VisibleOK, PendingOK
  <2>2. CASE x = [entry |-> cur, late |-> 0]
    <3>1. ip = task.ip
      BY <2>2 DEF Target, task
    <3> QED BY <1>1, <3>1 DEF Recording
  <2> QED BY <1>1, <2>1, <2>2
<1> QED BY <1>3, <1>4 DEF VisibleOK, NoRedrop

LEMMA VisibleEnforce ==
  TypeInv /\ DropSafe /\ VisibleOK /\ (DryRunBlock \/ WazuhBlock \/ WazuhFails \/ WazuhRaises)
    => VisibleOK'
<1> SUFFICES ASSUME TypeInv, DropSafe, VisibleOK,
                    DryRunBlock \/ WazuhBlock \/ WazuhFails \/ WazuhRaises
             PROVE  VisibleOK'
  OBVIOUS
<1>1. pc = "enforce" /\ pc' # "enforce" /\ UNCHANGED <<blockKey, stream, cur, task>>
  BY DEF DryRunBlock, WazuhBlock, WazuhFails, WazuhRaises, redisVars, workerVars, task
<1>2. CASE DryRunBlock \/ WazuhRaises
  BY <1>1, <1>2, TargetSame, VisibleStay DEF DryRunBlock, WazuhRaises, historyVars
<1>3. CASE WazuhBlock
  BY <1>1, <1>3, VisibleAsk DEF WazuhBlock
<1>4. CASE WazuhFails
  <2>1. CASE UNCHANGED <<wazuhVars, unrecorded>>
    BY <1>1, <2>1, TargetSame, VisibleStay
  <2>2. CASE AskForDrop /\ unrecorded' = unrecorded \cup {task.ip}
    BY <1>1, <2>2, VisibleAsk
  <2> QED BY <1>4, <2>1, <2>2 DEF WazuhFails
<1> QED BY <1>2, <1>3, <1>4

(* The key lasts as long as the rule can: TtlAligned.                      *)
LEMMA VisibleRecord ==
  TypeInv /\ DropSafe /\ VisibleOK /\ (RecordBlock \/ RecordFails) => VisibleOK'
<1> SUFFICES ASSUME TypeInv, DropSafe, VisibleOK, RecordBlock \/ RecordFails PROVE VisibleOK'
  OBVIOUS
<1>1. pc = "record" /\ pc' = "audit" /\ UNCHANGED <<wazuhVars, action, task, stream>>
  BY DEF RecordBlock, RecordFails, redisVars, workerVars, task
<1>2. UNCHANGED <<firewall, sent, drops>> /\ \A x : Target(x)' = Target(x)
  BY <1>1, TargetSame DEF wazuhVars
<1>3. CASE RecordBlock
  <2>1. /\ unrecorded' = unrecorded \ {task.ip}
        /\ task.ip \in Ips => blockKey'[task.ip] = BlockTtl
        /\ \A ip \in Ips : ip # task.ip => blockKey'[ip] = blockKey[ip] /\ ~Recording(ip)
    BY <1>3 DEF RecordBlock, Recording, TypeInv, TypeOK
  <2>2. DropsVisible'
    <3> SUFFICES ASSUME NEW ip \in Ips, ip \notin unrecorded' PROVE Covered(ip)'
      BY DEF DropsVisible, Covered
    <3>1. CASE ip = task.ip
      <4>1. firewall[ip] <= blockKey'[ip]
        BY <2>1, <3>1, LeftFacts, TtlFacts
      <4> QED BY <1>2, <4>1 DEF Covered
    <3>2. CASE ip # task.ip
      <4>1. Covered(ip)
        BY <2>1, <3>2 DEF VisibleOK, DropsVisible, Covered
      <4> QED BY <1>2, <2>1, <3>2, <4>1 DEF Covered
    <3> QED BY <3>1, <3>2
  <2>3. PendingOK'
    <3> SUFFICES ASSUME NEW x \in sent, NEW ip \in Ips, MayRun(x), Target(x) = ip,
                        ip \notin unrecorded'
                 PROVE  blockKey'[ip] + x.late >= BlockTtl
      BY <1>2 DEF PendingOK, MayRun
    <3>1. x.late \in Nat
      BY TargetIsIp
    <3>2. CASE ip = task.ip
      BY <2>1, <3>1, <3>2, TtlFacts
    <3>3. CASE ip # task.ip
      BY <2>1, <3>3 DEF VisibleOK, PendingOK
    <3> QED BY <3>2, <3>3
  <2> QED BY <1>1, <2>2, <2>3 DEF VisibleOK, NoRedrop
<1>4. CASE RecordFails
  BY <1>1, <1>2, <1>4, VisibleStay DEF RecordFails
<1> QED BY <1>3, <1>4

LEMMA VisibleEnqueue ==
  ASSUME TypeInv, DropSafe, VisibleOK, NEW t \in Task, Enqueue(t)
  PROVE  VisibleOK'
<1>1. UNCHANGED <<blockKey, wazuhVars, unrecorded, pc, action, blind, cur>>
  BY DEF Enqueue, workerVars
<1>2. \A i \in 1 .. Len(stream) : stream'[i] = stream[i]
  BY DEF Enqueue, TypeInv, TypeOK
<1>3. \A x \in sent \cup drops : Target(x)' = Target(x)
  BY <1>2, TargetIsIp DEF Target
<1>4. pc \in InTask => task' = task
  BY <1>1, <1>2, InTaskFacts DEF task
<1>5. UNCHANGED <<sent, drops, firewall>>
  BY <1>1 DEF wazuhVars
<1>6. \A ip : Recording(ip)' = Recording(ip)
  BY <1>1, <1>4 DEF Recording, InTask
<1>7. DropsVisible'
  <2> SUFFICES ASSUME NEW ip \in Ips, ip \notin unrecorded, ~Recording(ip) PROVE Covered(ip)'
    BY <1>1, <1>6 DEF DropsVisible, Covered
  <2>1. Covered(ip)
    BY DEF VisibleOK, DropsVisible, Covered
  <2> QED BY <1>1, <1>3, <1>5, <2>1 DEF Covered
<1>8. NoRedrop'
  <2> SUFFICES ASSUME pc = "enforce" PROVE NoRedrop'
    BY <1>1 DEF NoRedrop
  <2>1. task' = task
    BY <1>4 DEF InTask
  <2> QED BY <1>1, <1>3, <1>5, <2>1 DEF VisibleOK, NoRedrop, MayRun
<1>9. PendingOK'
  <2> SUFFICES ASSUME NEW x \in sent, NEW ip \in Ips, MayRun(x), Target(x)' = ip
               PROVE  \/ ip \in unrecorded \/ Recording(ip)
                      \/ blockKey[ip] + x.late >= BlockTtl
    BY <1>1, <1>5, <1>6 DEF PendingOK, MayRun
  <2>1. Target(x) = ip
    BY <1>3
  <2> QED BY <2>1 DEF VisibleOK, PendingOK
<1> QED BY <1>7, <1>8, <1>9 DEF VisibleOK

LEMMA VisibleStep == TypeInv /\ DropSafe /\ VisibleOK /\ [Next]_vars => VisibleOK'
<1> SUFFICES ASSUME TypeInv, DropSafe, VisibleOK, [Next]_vars PROVE VisibleOK'
  OBVIOUS
<1>1. CASE \E t \in Task : Enqueue(t)
  BY <1>1, VisibleEnqueue
<1>2. CASE Tick
  BY <1>2, VisibleTick
<1>3. CASE \E x \in sent : FirewallDrop(x)
  BY <1>3, VisibleDrop
<1>4. CASE Crash \/ Hang
  <2>1. /\ pc' \in {"down", "stopped", "hung"}
        /\ UNCHANGED <<blockKey, wazuhVars, action, task, stream>>
        /\ unrecorded' = IF pc = "record" /\ action = "block"
                            THEN unrecorded \cup {task.ip} ELSE unrecorded
    BY <1>4 DEF Crash, Hang, Exit, Abandon, redisVars, workerVars, task
  <2> QED BY <2>1, TargetSame, VisibleStay
<1>5. CASE UNCHANGED vars \/ Start \/ CreateGroup \/ CreateGroupFails \/ ReadReplyLost \/ EmptyPoll
           \/ Kill
  <2>1. /\ UNCHANGED <<blockKey, wazuhVars, task, stream, action, unrecorded, blind>>
        /\ pc = pc' \/ (pc # "record" /\ pc' # "enforce")
    BY <1>5 DEF vars, redisVars, workerVars, historyVars, Start, CreateGroup, CreateGroupFails,
                Exit, ReadReplyLost, EmptyPoll, Kill, task
  <2> QED BY <2>1, TargetSame, VisibleStay
<1>6. CASE Read
  <2>1. /\ UNCHANGED <<blockKey, wazuhVars, stream, unrecorded>> /\ pc = "read" /\ pc' = "task"
    BY <1>6 DEF Read
  <2>2. UNCHANGED <<sent, drops, firewall>> /\ \A x : Target(x)' = Target(x)
    BY <2>1, TargetSame DEF wazuhVars
  <2> QED BY <2>1, <2>2 DEF VisibleOK, DropsVisible, NoRedrop, PendingOK, Recording, MayRun
<1>7. CASE \E S \in SUBSET Sources : Enrich(S)
  <2>1. /\ UNCHANGED <<blockKey, wazuhVars, stream, task, unrecorded>>
        /\ pc = "task" /\ pc' # "enforce"
    BY <1>7 DEF Enrich, redisVars, task
  <2> QED BY <2>1, TargetSame, VisibleStay
<1>8. CASE AlreadyBlocked \/ NotBlocked \/ CheckFails
  BY <1>8, VisibleCheck
<1>9. CASE DryRunBlock \/ WazuhBlock \/ WazuhFails \/ WazuhRaises
  BY <1>9, VisibleEnforce
<1>10. CASE RecordBlock \/ RecordFails
  BY <1>10, VisibleRecord
<1>11. CASE Audit \/ AuditFails
  <2>1. /\ UNCHANGED <<blockKey, wazuhVars, stream, task, unrecorded>>
        /\ pc = "audit" /\ pc' = "ack"
    BY <1>11 DEF Audit, AuditFails, FinishTask, redisVars, workerVars, task
  <2> QED BY <2>1, TargetSame, VisibleStay
<1>12. CASE Ack \/ AckFails
  <2>1. /\ UNCHANGED <<blockKey, wazuhVars, stream, unrecorded>>
        /\ pc = "ack" /\ pc' \in {"task", "read"}
    BY <1>12 DEF Ack, AckFails, NextEntry, redisVars, historyVars
  <2>2. UNCHANGED <<sent, drops, firewall>> /\ \A x : Target(x)' = Target(x)
    BY <2>1, TargetSame DEF wazuhVars
  <2> QED BY <2>1, <2>2 DEF VisibleOK, DropsVisible, NoRedrop, PendingOK, Recording, MayRun
<1> QED BY <1>1, <1>2, <1>3, <1>4, <1>5, <1>6, <1>7, <1>8, <1>9, <1>10, <1>11, <1>12
        DEF Next, WorkerStep

LEMMA VisibleInvariant == Spec => []VisibleOK
<1>1. Init => VisibleOK
  BY DEF Init, VisibleOK, DropsVisible, NoRedrop, PendingOK
<1> QED BY <1>1, VisibleStep, TypeInvariant, DropInvariant, PTL DEF Spec

(* Every rule that stands shows as a key, or its recording failed, or the  *)
(* agent was late by what it stands longer.  PendingOK is what makes this  *)
(* inductive: what a request has waited and what its key has left make up  *)
(* at least the life of a rule (TtlAligned).                               *)
THEOREM DropsAreVisible == Spec => []DropsVisible
<1>1. VisibleOK => DropsVisible
  BY DEF VisibleOK
<1> QED BY <1>1, VisibleInvariant, PTL

(* firewall-drop is not repeated on an address that a recorded rule drops, *)
(* or that a recorded request is about to, unless the agent is that late.  *)
THEOREM RecordedDropsAreNotRepeated == Spec => []NoRedrop
<1>1. VisibleOK => NoRedrop
  BY DEF VisibleOK
<1> QED BY <1>1, VisibleInvariant, PTL

(* Both: what Redis shows and what the firewall does agree but for the     *)
(* delay of the agent.                                                     *)
THEOREM DropsAreRecorded == Spec => []DropsRecorded
<1>1. VisibleOK => DropsRecorded
  BY DEF VisibleOK, DropsRecorded
<1> QED BY <1>1, VisibleInvariant, PTL

-----------------------------------------------------------------------------
(* The audit trail and the requests.                                       *)

(* A task with a request was begun; the one in hand makes its request at   *)
(* "enforce", and has then "block" for its action or a failing call.       *)
BegunOK ==
  /\ \A d \in requests : fate[d.entry] \in {"started", "done", "failed"}
  /\ pc \in {"check", "enforce"} => action = "none" /\ \A d \in requests : d.entry # cur
  /\ pc \in {"record", "audit"} =>
       /\ action = "block" => \E d \in requests : d.entry = cur
       /\ \A d \in requests : d.entry = cur /\ cur \notin faulted => action = "block"

AuditOK == BegunOK /\ AuditMatchesRequests

(* A step that neither asks nor audits and stays on its side of the drop. *)
LEMMA AuditStay ==
  ASSUME AuditOK, UNCHANGED <<requests, audit>>, faulted \subseteq faulted',
         \A d \in requests : fate'[d.entry] = fate[d.entry],
         pc' \in {"check", "enforce"} =>
           pc \in {"check", "enforce"} /\ cur' = cur /\ action' = action,
         pc' \in {"record", "audit"} =>
           pc \in {"record", "audit"} /\ cur' = cur /\ action' = action
  PROVE  AuditOK'
<1>1. BegunOK'
  BY DEF AuditOK, BegunOK
<1>2. AuditMatchesRequests'
  BY DEF AuditOK, AuditMatchesRequests, Finished
<1> QED BY <1>1, <1>2 DEF AuditOK

(* A step that settles the outcome of a task that made no request.         *)
LEMMA AuditNoDrop ==
  ASSUME AuditOK, UNCHANGED <<requests, audit, cur>>, faulted \subseteq faulted',
         \A d \in requests : d.entry # cur /\ fate'[d.entry] = fate[d.entry],
         action' # "block", pc' \in {"check", "enforce"} => action' = "none"
  PROVE  AuditOK'
<1>1. BegunOK'
  BY DEF AuditOK, BegunOK
<1>2. AuditMatchesRequests'
  BY DEF AuditOK, AuditMatchesRequests, Finished
<1> QED BY <1>1, <1>2 DEF AuditOK

LEMMA AuditDrop ==
  ASSUME TypeInv, DeliveryOK, AuditOK, WazuhBlock \/ (WazuhFails /\ AskForDrop)
  PROVE  AuditOK'
<1>1. /\ pc = "enforce" /\ pc' \in {"record", "audit"} /\ AskForDrop
      /\ UNCHANGED <<cur, fate, audit>>
      /\ action' = "block" \/ cur \in faulted'
      /\ faulted \subseteq faulted'
      /\ action' = "block" \/ action' = "block_skipped"
  BY DEF WazuhBlock, WazuhFails, TaskFault
<1>2. fate[cur] = "started"
  BY <1>1 DEF DeliveryOK, FateOK, InTask
<1>3. DEFINE new == [entry |-> cur, ip |-> task.ip, sources |-> sources, settings |-> settings]
<1>4. requests' = requests \cup {new} /\ new.entry = cur
  BY <1>1 DEF AskForDrop
<1> HIDE DEF new
<1>5. BegunOK'
  BY <1>1, <1>2, <1>4 DEF AuditOK, BegunOK
<1>6. AuditMatchesRequests'
  <2>1. ~Finished(cur)'
    BY <1>1, <1>2 DEF Finished
  <2>2. \A d \in requests : Finished(d.entry)' => Finished(d.entry)
    BY <1>1 DEF Finished
  <2> QED BY <1>1, <1>4, <2>1, <2>2 DEF AuditOK, AuditMatchesRequests
<1> QED BY <1>5, <1>6 DEF AuditOK

(* The record that ends a task says "block" exactly when a request goes    *)
(* with it, unless a call failed.                                          *)
LEMMA AuditRecord ==
  ASSUME TypeInv, AuditOK, Audit \/ AuditFails
  PROVE  AuditOK'
<1>1. cur \in 1 .. Len(fate) /\ pc = "audit" /\ pc' = "ack" /\ UNCHANGED <<cur, requests, action>>
  BY InTaskFacts DEF Audit, AuditFails, FinishTask, wazuhVars, workerVars, InTask, TypeInv, TypeOK
<1>2. /\ fate' = [fate EXCEPT ![cur] = "done"]
      /\ \A i \in 1 .. Len(fate) : fate'[i] = IF i = cur THEN "done" ELSE fate[i]
  BY <1>1 DEF Audit, AuditFails, FinishTask, TypeInv, TypeOK
<1>3. \A d \in requests : d.entry \in 1 .. Len(fate)
  BY DEF TypeInv, TypeOK
<1>4. BegunOK'
  BY <1>1, <1>2, <1>3 DEF AuditOK, BegunOK
<1>5. \A d \in requests : d.entry # cur /\ Finished(d.entry)' => Finished(d.entry)
  BY <1>2, <1>3 DEF Finished
<1>6. CASE Audit
  <2>1. audit' = audit \cup {[entry |-> cur, action |-> action]} /\ faulted' = faulted
    BY <1>6 DEF Audit
  <2>2. \A a \in audit' : a.action = "block" => \E d \in requests' : d.entry = a.entry
    BY <1>1, <2>1 DEF AuditOK, BegunOK, AuditMatchesRequests
  <2>3. \A d \in requests' : Finished(d.entry)' /\ d.entry \notin faulted'
                            => [entry |-> d.entry, action |-> "block"] \in audit'
    BY <1>1, <1>5, <2>1 DEF AuditOK, BegunOK, AuditMatchesRequests
  <2> QED BY <1>4, <2>2, <2>3 DEF AuditOK, AuditMatchesRequests
<1>7. CASE AuditFails
  <2>1. audit' = audit /\ faulted' = faulted \cup {cur}
    BY <1>7 DEF AuditFails, TaskFault
  <2> QED BY <1>1, <1>4, <1>5, <2>1 DEF AuditOK, AuditMatchesRequests
<1> QED BY <1>6, <1>7

LEMMA AuditStep == TypeInv /\ DeliveryOK /\ AuditOK /\ [Next]_vars => AuditOK'
<1> SUFFICES ASSUME TypeInv, DeliveryOK, AuditOK, [Next]_vars PROVE AuditOK'
  OBVIOUS
<1>0. \A d \in requests : /\ d.entry \in 1 .. Len(fate) /\ d.entry \in 1 .. Len(stream)
                       /\ fate[d.entry] \in {"started", "done", "failed"}
  BY DEF TypeInv, TypeOK, AuditOK, BegunOK
<1>1. CASE \E t \in Task : Enqueue(t)
  <2>1. \A i \in 1 .. Len(fate) : fate'[i] = fate[i]
    BY <1>1 DEF Enqueue, TypeInv, TypeOK
  <2> QED BY <1>0, <1>1, <2>1, AuditStay DEF Enqueue, workerVars, wazuhVars
<1>2. CASE UNCHANGED vars \/ Tick \/ (\E x \in sent : FirewallDrop(x)) \/ Start \/ CreateGroup
           \/ CreateGroupFails \/ EmptyPoll
  BY <1>2, AuditStay DEF vars, redisVars, wazuhVars, workerVars, historyVars, Tick, FirewallDrop,
                         Start, CreateGroup, CreateGroupFails, Exit, EmptyPoll
<1>12. CASE Crash \/ Hang \/ Kill
  <2>1. /\ pc' \in {"down", "stopped", "hung"}
        /\ UNCHANGED <<requests, audit, fate, faulted>>
    BY <1>12 DEF Crash, Hang, Kill, Exit, Abandon, wazuhVars, historyVars
  <2> QED BY <2>1, AuditStay
<1>3. CASE Read \/ ReadReplyLost
  <2>1. Deliver /\ pc' \in {"read", "task"} /\ UNCHANGED <<requests, audit, faulted>>
    BY <1>3 DEF Read, ReadReplyLost, wazuhVars
  <2>2. \A d \in requests : fate'[d.entry] = fate[d.entry]
    BY <1>0, <2>1, DeliverFacts DEF TypeInv
  <2> QED BY <2>1, <2>2, AuditStay
<1>4. CASE \E S \in SUBSET Sources : Enrich(S)
  <2>1. cur \in 1 .. Len(fate) /\ fate[cur] = "delivered"
    <3>1. pc = "task"
      BY <1>4 DEF Enrich
    <3>2. cur \in 1 .. Len(fate) /\ cur \in cur .. end
      BY <3>1, InTaskFacts DEF TypeInv, TypeOK
    <3> QED BY <3>1, <3>2 DEF DeliveryOK, FateOK, NeverReprocessed
  <2>2. \A i \in 1 .. Len(fate) : i # cur => fate'[i] = fate[i]
    BY <1>4, <2>1 DEF Enrich, TypeInv, TypeOK
  <2>3. \A d \in requests : d.entry # cur /\ fate'[d.entry] = fate[d.entry]
    BY <1>0, <2>1, <2>2
  <2> QED BY <1>4, <2>3, AuditNoDrop DEF Enrich, wazuhVars
<1>5. CASE AlreadyBlocked \/ NotBlocked \/ CheckFails \/ DryRunBlock
  <2>1. pc \in {"check", "enforce"} /\ UNCHANGED <<requests, audit, cur, fate>>
        /\ faulted \subseteq faulted'
    BY <1>5 DEF AlreadyBlocked, NotBlocked, CheckFails, DryRunBlock, wazuhVars, historyVars,
        TaskFault
  <2>2. action' # "block" /\ (pc' \in {"check", "enforce"} => action' = "none")
    BY <1>5 DEF AlreadyBlocked, NotBlocked, CheckFails, DryRunBlock, GoOn, AuditOK, BegunOK
  <2>3. \A d \in requests : d.entry # cur
    BY <2>1 DEF AuditOK, BegunOK
  <2> QED BY <2>1, <2>2, <2>3, AuditNoDrop
<1>6. CASE WazuhBlock
  BY <1>6, AuditDrop
<1>7. CASE WazuhFails
  <2>1. CASE AskForDrop
    BY <1>7, <2>1, AuditDrop
  <2>2. CASE UNCHANGED wazuhVars
    <3>1. \A d \in requests : d.entry # cur
      BY <1>7 DEF WazuhFails, AuditOK, BegunOK
    <3> QED BY <1>7, <2>2, <3>1, AuditNoDrop DEF WazuhFails, TaskFault, wazuhVars
  <2> QED BY <1>7, <2>1, <2>2 DEF WazuhFails
<1>8. CASE WazuhRaises
  <2>1. \A d \in requests : d.entry # cur
    BY <1>8 DEF WazuhRaises, AuditOK, BegunOK
  <2>2. \A d \in requests : fate'[d.entry] = fate[d.entry]
    BY <1>0, <1>8, <2>1 DEF WazuhRaises, TypeInv, TypeOK
  <2> QED BY <1>8, <2>2, AuditStay DEF WazuhRaises, TaskFault, wazuhVars, workerVars
<1>9. CASE RecordBlock \/ RecordFails
  BY <1>9, AuditStay DEF RecordBlock, RecordFails, wazuhVars, workerVars, TaskFault
<1>10. CASE Audit \/ AuditFails
  BY <1>10, AuditRecord
<1>11. CASE Ack \/ AckFails
  BY <1>11, AuditStay DEF Ack, AckFails, NextEntry, wazuhVars, historyVars, TaskFault
<1> QED BY <1>1, <1>2, <1>3, <1>4, <1>5, <1>6, <1>7, <1>8, <1>9, <1>10, <1>11, <1>12
        DEF Next, WorkerStep

LEMMA AuditInvariant == Spec => []AuditOK
<1>1. Init => AuditOK
  BY DEF Init, AuditOK, BegunOK, AuditMatchesRequests
<1> QED BY <1>1, AuditStep, TypeInvariant, DeliveryInvariant, PTL DEF Spec

(* A record says "block" only for a request that Wazuh took, and a request *)
(* whose task ended without a failing call has its record.                 *)
THEOREM AuditAgreesWithRequests == Spec => []AuditMatchesRequests
<1>1. AuditOK => AuditMatchesRequests
  BY DEF AuditOK
<1> QED BY <1>1, AuditInvariant, PTL

-----------------------------------------------------------------------------
(* What a crash or a lost reply can cost.                                  *)

(* What is left of a batch is at most what one read hands out.             *)
BatchOK == pc \in InTask \cup {"task"} => end < cur + ReadCount

LEMMA BatchStep == TypeInv /\ BatchOK /\ [Next]_vars => BatchOK'
<1> SUFFICES ASSUME TypeInv, BatchOK, [Next]_vars PROVE BatchOK'
  OBVIOUS
<1>1. ASSUME UNCHANGED <<cur, end>>, pc' \in InTask \cup {"task"} => pc \in InTask \cup {"task"}
      PROVE  BatchOK'
  BY <1>1 DEF BatchOK
<1>2. CASE \/ UNCHANGED vars \/ (\E t \in Task : Enqueue(t)) \/ Tick
           \/ (\E x \in sent : FirewallDrop(x)) \/ Crash \/ Hang \/ Kill
  BY <1>1, <1>2 DEF vars, Enqueue, Tick, FirewallDrop, Crash, Hang, Kill, Exit, Abandon,
                    workerVars, InTask
<1>3. CASE Start \/ CreateGroup \/ CreateGroupFails \/ ReadReplyLost \/ EmptyPoll
  BY <1>1, <1>3 DEF Start, CreateGroup, CreateGroupFails, Exit, ReadReplyLost, EmptyPoll, vars,
                    workerVars, InTask
<1>4. CASE Read
  <2>1. lastDelivered' \in NextBatch /\ cur' \in NextBatch /\ end' = lastDelivered'
    BY <1>4, DeliverFacts DEF Read, TypeInv
  <2> QED BY <2>1 DEF BatchOK, NextBatch
<1>5. CASE \/ \E S \in SUBSET Sources : Enrich(S)
           \/ AlreadyBlocked \/ NotBlocked \/ CheckFails
           \/ DryRunBlock \/ WazuhBlock \/ WazuhFails \/ WazuhRaises
           \/ RecordBlock \/ RecordFails \/ Audit \/ AuditFails
  BY <1>1, <1>5 DEF Enrich, AlreadyBlocked, NotBlocked, CheckFails, DryRunBlock, WazuhBlock,
                    WazuhFails, WazuhRaises, RecordBlock, RecordFails, Audit, AuditFails,
                    workerVars, InTask
<1>6. CASE Ack \/ AckFails
  BY <1>6, ConstantsOK DEF Ack, AckFails, NextEntry, BatchOK, InTask, TypeInv, TypeOK
<1> QED BY <1>2, <1>3, <1>4, <1>5, <1>6 DEF Next, WorkerStep

(* What is stranded: nothing leaves the set, and outside a crash, a hang   *)
(* or a lost reply nothing joins it, when delivered entries stay in hand until they  *)
(* are finished.                                                           *)
LEMMA StrandedStay ==
  ASSUME TypeInv, Len(stream) <= Len(stream'), Len(stream') \in Nat,
         \A i \in 1 .. Len(stream) : i \notin InHand /\ fate[i] # "queued" =>
            fate'[i] = fate[i] /\ i \notin InHand',
         \A i \in 1 .. Len(stream') : fate'[i] \in {"delivered", "started"} =>
            \/ i \in 1 .. Len(stream) /\ fate[i] \in {"delivered", "started"} /\ i \notin InHand
            \/ i \in InHand'
  PROVE  Stranded' = Stranded
<1>1. Len(stream) \in Nat
  BY DEF TypeInv, TypeOK
<1>2. Stranded' \subseteq Stranded
  BY DEF Stranded
<1>3. Stranded \subseteq Stranded'
  BY <1>1 DEF Stranded
<1> QED BY <1>2, <1>3

LEMMA StrandedStep ==
  TypeInv /\ DeliveryOK /\ [Next]_vars
    => Crash \/ Hang \/ ReadReplyLost \/ Stranded' = Stranded
<1> SUFFICES ASSUME TypeInv, DeliveryOK, [Next]_vars, ~Crash, ~Hang, ~ReadReplyLost
             PROVE  Stranded' = Stranded
  OBVIOUS
<1>0. /\ Len(stream) \in Nat /\ Len(fate) = Len(stream) /\ lastDelivered \in 0 .. Len(stream)
      /\ cur \in Nat /\ end \in Nat
  BY DEF TypeInv, TypeOK
<1>1. ASSUME UNCHANGED <<stream, fate, InHand>> PROVE Stranded' = Stranded
  BY <1>1 DEF Stranded
<1>2. CASE \E t \in Task : Enqueue(t)
  <2>1. /\ InHand' = InHand
        /\ \A i \in 1 .. Len(stream) : fate'[i] = fate[i]
        /\ Len(stream') = Len(stream) + 1 /\ fate'[Len(stream) + 1] = "queued"
    BY <1>2 DEF Enqueue, workerVars, InHand, TypeInv, TypeOK
  <2>2. InHand \subseteq 1 .. Len(stream)
    BY <1>0 DEF InHand, TypeInv, CursorOK
  <2>3. ASSUME NEW i \in 1 .. Len(stream'), fate'[i] \in {"delivered", "started"}
        PROVE  i \in 1 .. Len(stream) /\ fate[i] \in {"delivered", "started"}
    <3>1. i # Len(stream) + 1
      BY <2>1, <2>3
    <3> QED BY <1>0, <2>1, <2>3, <3>1
  <2> QED BY <1>0, <2>1, <2>3, StrandedStay
<1>3. CASE UNCHANGED vars \/ Tick \/ Start \/ CreateGroup \/ CreateGroupFails \/ EmptyPoll
           \/ (\E x \in sent : FirewallDrop(x)) \/ Kill
  <2>1. UNCHANGED <<stream, fate>>
    BY <1>3 DEF vars, redisVars, historyVars, Tick, Start, CreateGroup, CreateGroupFails,
                EmptyPoll, FirewallDrop, Kill
  <2>2. UNCHANGED InHand
    BY <1>3 DEF vars, workerVars, Tick, Start, CreateGroup, CreateGroupFails, Exit, EmptyPoll,
                FirewallDrop, Kill, InHand, InTask
  <2> QED BY <1>1, <2>1, <2>2
<1>4. CASE Read
  <2>1. /\ Deliver /\ UNCHANGED stream /\ InHand = {} /\ InHand' = cur' .. lastDelivered'
        /\ cur' \in NextBatch /\ \A i \in NextBatch : cur' <= i
    BY <1>4 DEF Read, InHand, InTask
  <2>2. /\ \A i \in NextBatch : i \in 1 .. Len(stream) /\ i <= lastDelivered' /\ i > lastDelivered
        /\ lastDelivered' \in NextBatch
        /\ \A i \in 1 .. Len(fate) :
             fate'[i] = IF i \in NextBatch /\ fate[i] = "queued" THEN "delivered" ELSE fate[i]
    BY <2>1, DeliverFacts DEF TypeInv
  <2>3. \A i \in NextBatch : i \in InHand'
    BY <2>1, <2>2
  <2>4. \A i \in 1 .. Len(stream) : fate[i] # "queued" => i \notin InHand'
    BY <1>0, <2>1, <2>2 DEF DeliveryOK, FateOK
  <2> QED BY <1>0, <2>1, <2>2, <2>3, <2>4, StrandedStay
<1>5. CASE \/ AlreadyBlocked \/ NotBlocked \/ CheckFails \/ DryRunBlock \/ WazuhBlock \/ WazuhFails
           \/ RecordBlock \/ RecordFails
  <2>1. UNCHANGED <<stream, fate, cur, end>> /\ pc \in InTask /\ pc' \in InTask
    BY <1>5 DEF AlreadyBlocked, NotBlocked, CheckFails, GoOn, DryRunBlock, WazuhBlock, WazuhFails,
                RecordBlock, RecordFails, redisVars, wazuhVars, workerVars, historyVars, InTask
  <2> QED BY <1>1, <2>1 DEF InHand
<1>6. CASE (\E S \in SUBSET Sources : Enrich(S)) \/ WazuhRaises \/ Audit \/ AuditFails
  <2>1. /\ UNCHANGED <<stream, cur, end>>
        /\ pc \in InTask \cup {"task"} /\ pc' \in InTask
        /\ \E v \in Fates : fate' = [fate EXCEPT ![cur] = v]
    BY <1>6 DEF Enrich, WazuhRaises, Audit, AuditFails, FinishTask, redisVars, wazuhVars,
        workerVars,
                InTask, Fates
  <2>2. cur \in 1 .. Len(stream) /\ cur \in InHand /\ InHand' = InHand
    BY <1>0, <2>1, InTaskFacts DEF InHand
  <2>3. \A i \in 1 .. Len(stream) : i # cur => fate'[i] = fate[i]
    BY <2>1, <2>2 DEF TypeInv, TypeOK
  <2> QED BY <1>0, <2>1, <2>2, <2>3, StrandedStay
<1>7. CASE Ack \/ AckFails
  <2>1. /\ pc = "ack" /\ cur' = cur + 1 /\ pc' = IF cur < end THEN "task" ELSE "read"
        /\ UNCHANGED <<stream, fate, end>>
    BY <1>7 DEF Ack, AckFails, NextEntry, historyVars, redisVars, wazuhVars
  <2>2. InHand = cur .. end /\ InHand' = cur + 1 .. end /\ Finished(cur)
    BY <1>0, <2>1, InTaskFacts DEF InHand, InTask, DeliveryOK, FateOK
  <2>3. \A i \in InHand : i \in InHand' \/ i = cur
    BY <1>0, <2>2
  <2> QED BY <1>0, <2>1, <2>2, <2>3, StrandedStay DEF Finished
<1> QED BY <1>2, <1>3, <1>4, <1>5, <1>6, <1>7 DEF Next, WorkerStep

(* Delivered entries that no one will finish join when the process dies or *)
(* hangs or a reply is lost; none ever leaves.                             *)
LEMMA StrandedGrows ==
  ASSUME TypeInv, DeliveryOK, Crash \/ Hang \/ ReadReplyLost
  PROVE  /\ Stranded \subseteq Stranded'
         /\ \/ Stranded' \subseteq Stranded \cup InHand
            \/ ReadReplyLost /\ Stranded' \subseteq Stranded \cup NextBatch
<1>0. Len(stream) \in Nat /\ Len(fate) = Len(stream) /\ lastDelivered \in 0 .. Len(stream)
  BY DEF TypeInv, TypeOK
<1>1. CASE Crash \/ Hang
  <2>1. UNCHANGED <<stream, fate>> /\ InHand' = {}
    BY <1>1 DEF Crash, Hang, Exit, Abandon, InHand, InTask, redisVars
  <2> QED BY <2>1 DEF Stranded
<1>2. CASE ReadReplyLost
  <2>1. pc = "read" /\ InHand = {} /\ InHand' = {} /\ UNCHANGED stream /\ Deliver
    BY <1>2 DEF ReadReplyLost, InHand, InTask
  <2>2. \A i \in 1 .. Len(fate) :
          fate'[i] = IF i \in NextBatch /\ fate[i] = "queued" THEN "delivered" ELSE fate[i]
    BY <2>1, DeliverFacts DEF TypeInv
  <2> QED BY <1>0, <1>2, <2>1, <2>2 DEF Stranded
<1> QED BY <1>1, <1>2

LEMMA NextBatchIsBounded ==
  ASSUME TypeOK, Deliver
  PROVE  IsFiniteSet(NextBatch) /\ Cardinality(NextBatch) <= ReadCount
<1>1. /\ lastDelivered' \in NextBatch /\ lastDelivered' \in Nat
      /\ \A i \in NextBatch : i \in Nat /\ i <= lastDelivered' /\ i \in Undelivered
  BY DeliverFacts, DeliverTypes DEF TypeOK, NextBatch
<1>2. PICK last \in Nat : last = lastDelivered'
  BY <1>1
<1>3. PICK k \in Nat \ {0} : k = ReadCount
  BY ConstantsOK
<1>4. NextBatch \subseteq last + 1 - k .. last
  <2> SUFFICES ASSUME NEW i \in NextBatch PROVE i \in last + 1 - k .. last
    OBVIOUS
  <2>1. i \in Nat /\ i <= last /\ last < i + k
    BY <1>1, <1>2, <1>3 DEF NextBatch
  <2> QED BY <1>3, <2>1
<1>5. last + 1 - k \in Int /\ last \in Int
  OBVIOUS
<1>6. /\ IsFiniteSet(last + 1 - k .. last)
      /\ Cardinality(last + 1 - k .. last) = IF last + 1 - k > last THEN 0 ELSE last - (last + 1 - k) + 1
  BY <1>5, FS_Interval
<1>7. Cardinality(last + 1 - k .. last) = k
  BY <1>6
<1> QED BY <1>3, <1>4, <1>6, <1>7, FS_Subset

LEMMA InHandIsBounded ==
  ASSUME TypeInv, BatchOK
  PROVE  IsFiniteSet(InHand) /\ Cardinality(InHand) <= ReadCount
<1>1. CASE pc \in InTask \cup {"task"}
  <2>1. cur \in Int /\ end \in Int /\ cur <= end /\ end < cur + ReadCount /\ ReadCount \in Nat
    BY <1>1, ConstantsOK DEF TypeInv, TypeOK, CursorOK, BatchOK
  <2>2. IsFiniteSet(cur .. end) /\ Cardinality(cur .. end) = IF cur > end THEN 0 ELSE end - cur + 1
    BY <2>1, FS_Interval
  <2> QED BY <1>1, <2>1, <2>2 DEF InHand
<1>2. CASE pc \notin InTask \cup {"task"}
  BY <1>2, FS_EmptySet, ConstantsOK DEF InHand
<1> QED BY <1>1, <1>2

LossOK == BatchOK /\ LossBounded

(* One event more allows for the entries of one read more.                 *)
LEMMA LossCarries ==
  ASSUME NEW A, IsFiniteSet(A), NEW X, IsFiniteSet(X), NEW B, B \subseteq A \cup X,
         NEW r \in Nat, NEW n \in Nat, Cardinality(A) <= r * n, Cardinality(X) <= r
  PROVE  Cardinality(B) <= r * (n + 1)
<1>1. /\ IsFiniteSet(A \cup X)
      /\ Cardinality(A \cup X) = Cardinality(A) + Cardinality(X) - Cardinality(A \cap X)
  BY FS_Union
<1>2. /\ Cardinality(A \cap X) \in Nat /\ Cardinality(A) \in Nat /\ Cardinality(X) \in Nat
      /\ Cardinality(A \cup X) \in Nat
  BY <1>1, FS_Intersection, FS_CardinalityType
<1>3. Cardinality(B) <= Cardinality(A \cup X) /\ Cardinality(B) \in Nat
  BY <1>1, FS_Subset, FS_CardinalityType
<1>4. r * (n + 1) = r * n + r /\ r * n \in Nat
  OBVIOUS
<1> QED BY <1>1, <1>2, <1>3, <1>4

LEMMA LossMonotone ==
  ASSUME NEW c \in Nat, NEW r \in Nat, NEW n \in Nat, NEW m \in Nat, c <= r * n, n <= m
  PROVE  c <= r * m
<1>1. r * n <= r * m /\ r * n \in Nat /\ r * m \in Nat
  OBVIOUS
<1> QED BY <1>1

LEMMA LossStep == TypeInv /\ DeliveryOK /\ LossOK /\ [Next]_vars => LossOK'
<1> SUFFICES ASSUME TypeInv, DeliveryOK, LossOK, [Next]_vars PROVE LossOK'
  OBVIOUS
<1>1. BatchOK'
  BY BatchStep DEF LossOK
<1>2. IsFiniteSet(Stranded) /\ Cardinality(Stranded) \in Nat
  <2>1. IsFiniteSet(1 .. Len(stream))
    BY FS_Interval DEF TypeInv, TypeOK
  <2> QED BY <2>1, FS_Subset, FS_CardinalityType DEF Stranded
<1>3. /\ crashes \in Nat /\ faults \in Nat /\ crashes' \in Nat /\ faults' \in Nat
      /\ ReadCount \in Nat
  BY TypeStep, ConstantsOK DEF TypeInv, TypeOK
<1>4. PICK c \in Nat, f \in Nat, d \in Nat, g \in Nat :
        c = crashes /\ f = faults /\ d = crashes' /\ g = faults'
  BY <1>3
<1>5. Cardinality(Stranded) <= ReadCount * (c + f)
  BY <1>4 DEF LossOK, LossBounded
<1>6. CASE Stranded' = Stranded
  <2>1. crashes' >= crashes /\ faults' >= faults
    <3>1. /\ UNCHANGED crashes \/ crashes' = crashes + 1
          /\ UNCHANGED faults \/ faults' = faults + 1
      BY DEF Next, WorkerStep, vars, historyVars, Enqueue, Tick, FirewallDrop, Crash, Hang,
          Kill, Start, CreateGroup, CreateGroupFails, Read, ReadReplyLost, EmptyPoll, Enrich,
          AlreadyBlocked, NotBlocked, CheckFails, DryRunBlock, WazuhBlock, WazuhFails, WazuhRaises,
          RecordBlock, RecordFails, Audit, AuditFails, Ack, AckFails, TaskFault, Fault
    <3> QED BY <1>3, <3>1
  <2>2. c + f <= d + g
    <3>1. c <= d /\ f <= g
      BY <1>4, <2>1
    <3> QED BY <3>1
  <2>3. Cardinality(Stranded) <= ReadCount * (d + g)
    BY <1>2, <1>3, <1>5, <2>2, LossMonotone
  <2> QED BY <1>1, <1>4, <1>6, <2>3 DEF LossOK, LossBounded
<1>7. CASE Crash \/ Hang \/ ReadReplyLost
  <2>1. PICK X : /\ Stranded' \subseteq Stranded \cup X
                 /\ IsFiniteSet(X) /\ Cardinality(X) <= ReadCount
    <3>1. CASE Stranded' \subseteq Stranded \cup InHand
      BY <3>1, InHandIsBounded DEF LossOK
    <3>2. CASE ReadReplyLost /\ Stranded' \subseteq Stranded \cup NextBatch
      BY <3>2, NextBatchIsBounded DEF ReadReplyLost, TypeInv
    <3> QED BY <1>7, <3>1, <3>2, StrandedGrows
  <2>2. \/ crashes' = crashes + 1 /\ faults' = faults
        \/ faults' = faults + 1 /\ crashes' = crashes
    BY <1>7 DEF Crash, Hang, ReadReplyLost, Fault
  <2>3. d + g = c + f + 1
    <3>1. (d = c + 1 /\ g = f) \/ (g = f + 1 /\ d = c)
      BY <1>4, <2>2
    <3> QED BY <3>1
  <2>4. Cardinality(Stranded') <= ReadCount * (d + g)
    <3>1. c + f \in Nat
      OBVIOUS
    <3>2. Cardinality(Stranded') <= ReadCount * (c + f + 1)
      BY <1>2, <1>3, <1>5, <2>1, <3>1, LossCarries
    <3> QED BY <2>3, <3>2
  <2> QED BY <1>1, <1>4, <2>4 DEF LossOK, LossBounded
<1> QED BY <1>6, <1>7, StrandedStep

LEMMA LossInvariant == Spec => []LossOK
<1>1. Init => LossOK
  <2> SUFFICES ASSUME Init PROVE LossOK
    OBVIOUS
  <2>1. Stranded = {}
    BY DEF Init, Stranded
  <2> QED BY <2>1, FS_EmptySet, ConstantsOK DEF Init, LossOK, BatchOK, LossBounded, InTask
<1> QED BY <1>1, LossStep, TypeInvariant, DeliveryInvariant, PTL DEF Spec

(* What is lost is counted: one crash, one hang or one lost reply strands  *)
(* at most the entries of one read.                                        *)
THEOREM LossIsBounded == Spec => []LossBounded
<1>1. LossOK => LossBounded
  BY DEF LossOK
<1> QED BY <1>1, LossInvariant, PTL

-----------------------------------------------------------------------------
(* The worker implements the contract.                                     *)

Statuses == [i \in 1 .. Len(stream) |-> StatusOf(i)]

(* The status of an entry, read off its fate.                              *)
StatusTable ==
  \A i \in 1 .. Len(stream) :
    /\ fate[i] \in Fates
    /\ Finished(i) => StatusOf(i) = "settled"
    /\ fate[i] = "queued" /\ i < first => StatusOf(i) = "lost"
    /\ fate[i] = "queued" /\ i >= first => StatusOf(i) = "waiting"
    /\ fate[i] \in {"delivered", "started"} /\ i \notin InHand => StatusOf(i) = "lost"
    /\ fate[i] = "delivered" /\ i \in InHand => StatusOf(i) = "waiting"
    /\ fate[i] = "started" /\ i \in InHand => StatusOf(i) = "started"

LEMMA StatusIs == (TypeInv => StatusTable) /\ (TypeInv' => StatusTable')
<1>1. ASSUME TypeInv PROVE StatusTable
  <2> SUFFICES ASSUME NEW i \in 1 .. Len(stream)
               PROVE  /\ fate[i] \in Fates
                      /\ Finished(i) => StatusOf(i) = "settled"
                      /\ fate[i] = "queued" /\ i < first => StatusOf(i) = "lost"
                      /\ fate[i] = "queued" /\ i >= first => StatusOf(i) = "waiting"
                      /\ fate[i] \in {"delivered", "started"} /\ i \notin InHand
                           => StatusOf(i) = "lost"
                      /\ fate[i] = "delivered" /\ i \in InHand => StatusOf(i) = "waiting"
                      /\ fate[i] = "started" /\ i \in InHand => StatusOf(i) = "started"
    BY DEF StatusTable
  <2>1. fate[i] \in Fates /\ first \in Nat /\ i \in Nat
    BY <1>1 DEF TypeInv, TypeOK
  <2>2. i < first => ~(i >= first)
    BY <2>1
  <2> QED BY <2>1, <2>2 DEF StatusOf, Finished, Stranded, Trimmed
<1>2. ASSUME TypeInv' PROVE StatusTable'
  <2> SUFFICES ASSUME NEW i \in 1 .. Len(stream')
               PROVE  /\ fate'[i] \in Fates
                      /\ Finished(i)' => StatusOf(i)' = "settled"
                      /\ fate'[i] = "queued" /\ i < first' => StatusOf(i)' = "lost"
                      /\ fate'[i] = "queued" /\ i >= first' => StatusOf(i)' = "waiting"
                      /\ fate'[i] \in {"delivered", "started"} /\ i \notin InHand'
                           => StatusOf(i)' = "lost"
                      /\ fate'[i] = "delivered" /\ i \in InHand' => StatusOf(i)' = "waiting"
                      /\ fate'[i] = "started" /\ i \in InHand' => StatusOf(i)' = "started"
    BY DEF StatusTable
  <2>1. fate'[i] \in Fates /\ first' \in Nat /\ i \in Nat
    BY <1>2 DEF TypeInv, TypeOK
  <2>2. i < first' => ~(i >= first')
    BY <2>1
  <2> QED BY <2>1, <2>2 DEF StatusOf, Finished, Stranded, Trimmed
<1> QED BY <1>1, <1>2

LEMMA StatusesSeq ==
  /\ TypeInv => /\ Len(Statuses) = Len(stream)
                /\ \A i \in 1 .. Len(stream) : Statuses[i] = StatusOf(i)
  /\ TypeInv' => /\ Len(Statuses') = Len(stream')
                 /\ \A i \in 1 .. Len(stream') : Statuses'[i] = StatusOf(i)'
<1> DEFINE S == {"waiting", "started", "settled", "lost"}
<1>1. ASSUME TypeInv
      PROVE  /\ Len(Statuses) = Len(stream)
             /\ \A i \in 1 .. Len(stream) : Statuses[i] = StatusOf(i)
  <2>1. Len(stream) \in Nat /\ first \in Nat
    BY <1>1 DEF TypeInv, TypeOK
  <2>2. \A i \in 1 .. Len(stream) : StatusOf(i) \in S
    BY <1>1, <2>1, StatusIs DEF StatusTable, Fates, Finished
  <2>3. Statuses \in [1 .. Len(stream) -> S]
    BY <2>2 DEF Statuses
  <2> QED BY <2>1, <2>3, MapSeq DEF Statuses
<1>2. ASSUME TypeInv'
      PROVE  /\ Len(Statuses') = Len(stream')
             /\ \A i \in 1 .. Len(stream') : Statuses'[i] = StatusOf(i)'
  <2>1. Len(stream') \in Nat /\ first' \in Nat
    BY <1>2 DEF TypeInv, TypeOK
  <2>2. \A i \in 1 .. Len(stream') : StatusOf(i)' \in S
    BY <1>2, <2>1, StatusIs DEF StatusTable, Fates, Finished
  <2>3. Statuses' \in [1 .. Len(stream') -> S]
    BY <2>2 DEF Statuses
  <2> QED BY <2>1, <2>3, MapSeq DEF Statuses
<1> QED BY <1>1, <1>2

(* The contract's sets, and what a step that moves the entries of S to the *)
(* status v looks like to it.                                              *)
LEMMA ContractSets ==
  TypeInv => /\ Contract!Waiting = {i \in 1 .. Len(stream) : StatusOf(i) = "waiting"}
             /\ Contract!Started = {i \in 1 .. Len(stream) : StatusOf(i) = "started"}
BY StatusesSeq DEF Statuses, Contract!Waiting, Contract!Started

LEMMA ContractMark ==
  ASSUME TypeInv, TypeInv', UNCHANGED stream, NEW S, NEW v,
         \A i \in 1 .. Len(stream) : StatusOf(i)' = IF i \in S THEN v ELSE StatusOf(i)
  PROVE  Statuses' = Contract!Mark(Statuses, S, v)
<1>1. Len(Statuses) = Len(stream) /\ \A i \in 1 .. Len(stream) : Statuses[i] = StatusOf(i)
  BY StatusesSeq
<1>2. Statuses' = [i \in 1 .. Len(stream) |-> StatusOf(i)']
  BY DEF Statuses
<1>3. Contract!Mark(Statuses, S, v)
        = [i \in 1 .. Len(stream) |-> IF i \in S THEN v ELSE Statuses[i]]
  BY <1>1 DEF Contract!Mark
<1> QED BY <1>1, <1>2, <1>3

LEMMA ContractStutter ==
  ASSUME UNCHANGED <<stream, requests, drops>>,
         \A i \in 1 .. Len(stream) : StatusOf(i)' = StatusOf(i)
  PROVE  UNCHANGED Contract!vars
<1>1. Statuses' = Statuses
  BY DEF Statuses
<1> QED BY <1>1 DEF Contract!vars, Statuses

LEMMA ContractBegin ==
  ASSUME TypeInv, TypeInv', UNCHANGED <<stream, requests, drops>>, NEW i \in 1 .. Len(stream),
         StatusOf(i) = "waiting",
         \A k \in 1 .. Len(stream) : StatusOf(k) # "started",
         \A k \in 1 .. i - 1 : StatusOf(k) \in {"settled", "lost"},
         \A k \in 1 .. Len(stream) : StatusOf(k)' = IF k \in {i} THEN "started" ELSE StatusOf(k)
  PROVE  Contract!Next
<1>1. Statuses' = Contract!Mark(Statuses, {i}, "started")
  BY ContractMark
<1>2. i \in Contract!Waiting /\ Contract!Started = {}
  BY ContractSets
<1>3. /\ i \in 1 .. Len(Statuses)
      /\ \A k \in 1 .. i - 1 : Statuses[k] \in {"settled", "lost"}
  <2>1. Len(stream) \in Nat
    BY DEF TypeInv, TypeOK
  <2> QED BY <2>1, StatusesSeq
<1>4. Contract!Begin(i)
  BY <1>1, <1>2, <1>3 DEF Contract!Begin, Statuses
<1> QED BY <1>3, <1>4 DEF Contract!Next, Statuses

LEMMA ContractSettle ==
  ASSUME TypeInv, TypeInv', UNCHANGED <<stream, requests, drops>>, NEW i \in 1 .. Len(stream),
         StatusOf(i) = "started",
         \A k \in 1 .. Len(stream) : StatusOf(k)' = IF k \in {i} THEN "settled" ELSE StatusOf(k)
  PROVE  Contract!Next
<1>1. Statuses' = Contract!Mark(Statuses, {i}, "settled")
  BY ContractMark
<1>2. i \in Contract!Started
  BY ContractSets
<1>3. i \in 1 .. Len(Statuses)
  BY StatusesSeq
<1>4. Contract!Settle(i)
  BY <1>1, <1>2 DEF Contract!Settle, Statuses
<1> QED BY <1>3, <1>4 DEF Contract!Next, Statuses

LEMMA ContractLose ==
  ASSUME TypeInv, TypeInv', UNCHANGED <<stream, requests, drops>>,
      NEW L \in SUBSET (1 .. Len(stream)),
         \A k \in L : StatusOf(k) \in {"waiting", "started"},
         \A k \in 1 .. Len(stream) : StatusOf(k)' = IF k \in L THEN "lost" ELSE StatusOf(k)
  PROVE  Contract!Next
<1>1. Statuses' = Contract!Mark(Statuses, L, "lost")
  BY ContractMark
<1>2. L \subseteq Contract!Waiting \cup Contract!Started
  BY ContractSets
<1>3. Contract!Lose(L)
  BY <1>1, <1>2 DEF Contract!Lose, Statuses
<1> QED BY <1>2, <1>3 DEF Contract!Next, Statuses

LEMMA ContractAsk ==
  ASSUME TypeInv, TypeInv', UNCHANGED <<stream, drops>>, NEW i \in 1 .. Len(stream),
         StatusOf(i) = "started", \A r \in requests : r.entry # i,
         ReachesR2(stream[i]), ~Barred(stream[i].ip),
         {r.entry : r \in requests'} = {r.entry : r \in requests} \cup {i},
         \A k \in 1 .. Len(stream) : StatusOf(k)' = StatusOf(k)
  PROVE  Contract!Next
<1>1. Statuses' = Statuses
  BY DEF Statuses
<1>2. i \in Contract!Started
  BY ContractSets
<1>3. stream[i] \in {t \in Task : ReachesR2(t) /\ ~Barred(t.ip)}
  BY ElementOfSeq DEF TypeInv, TypeOK
<1>4. i \notin {r.entry : r \in requests}
  OBVIOUS
<1>5. i \in 1 .. Len(Statuses)
  BY StatusesSeq
<1>6. Contract!Ask(i)
  BY <1>1, <1>2, <1>3, <1>4 DEF Contract!Ask, Statuses
<1> QED BY <1>5, <1>6 DEF Contract!Next, Statuses

(* An agent runs what was asked for; a second run of it changes nothing.   *)
LEMMA ContractDrop ==
  ASSUME TypeInv, DropSafe, NEW x \in sent, FirewallDrop(x)
  PROVE  [Contract!Next]_Contract!vars
<1>1. /\ UNCHANGED <<stream, first, fate, requests, pc, cur, end>>
      /\ drops' = drops \cup {x}
  BY DEF FirewallDrop, redisVars, workerVars, historyVars
<1>2. Statuses' = Statuses
  BY <1>1 DEF Statuses, StatusOf, Finished, Stranded, Trimmed, InHand
<1>3. {d.entry : d \in drops'} = {d.entry : d \in drops} \cup {x.entry}
  BY <1>1
<1>4. CASE x.entry \in {d.entry : d \in drops}
  <2>1. UNCHANGED {d.entry : d \in drops}
    BY <1>3, <1>4
  <2> QED BY <1>1, <1>2, <2>1 DEF Contract!vars, Statuses
<1>5. CASE x.entry \notin {d.entry : d \in drops}
  <2>1. PICK i \in 1 .. Len(stream) : i = x.entry
    BY TargetIsIp
  <2>2. PICK q \in requests : q.entry = i
    BY <2>1 DEF DropSafe, DropsJustified
  <2>3. i \in {r.entry : r \in requests} /\ i \notin {d.entry : d \in drops}
    BY <1>5, <2>1, <2>2
  <2>4. i \in 1 .. Len(Statuses)
    BY StatusesSeq
  <2>5. Contract!Drop(i)
    BY <1>1, <1>2, <1>3, <2>1, <2>3 DEF Contract!Drop, Statuses
  <2> QED BY <2>4, <2>5 DEF Contract!Next, Statuses
<1> QED BY <1>4, <1>5

LEMMA AppendIs ==
  ASSUME NEW V, NEW n \in Nat, NEW f \in [1 .. n -> V], NEW v \in V,
         NEW g \in [1 .. n + 1 -> V], \A i \in 1 .. n : g[i] = f[i], g[n + 1] = v
  PROVE  g = Append(f, v)
<1>1. f \in Seq(V) /\ Len(f) = n
  BY MapSeq
<1>2. g \in Seq(V) /\ Len(g) = n + 1
  <2>1. n + 1 \in Nat
    OBVIOUS
  <2> QED BY <2>1, MapSeq
<1>3. /\ Append(f, v) \in Seq(V) /\ Len(Append(f, v)) = n + 1
      /\ \A i \in 1 .. n : Append(f, v)[i] = f[i]
      /\ Append(f, v)[n + 1] = v
  BY <1>1, AppendProperties
<1>4. \A i \in 1 .. Len(g) : g[i] = Append(f, v)[i]
  <2>1. \A i \in 1 .. n + 1 : i \in 1 .. n \/ i = n + 1
    OBVIOUS
  <2> QED BY <1>2, <1>3, <2>1
<1> QED BY <1>2, <1>3, <1>4, SeqEqual

LEMMA ContractSubmit ==
  ASSUME TypeInv, TypeInv', NEW t \in Task, stream' = Append(stream, t), UNCHANGED <<requests,
                                                                                     drops>>,
         NEW L \in SUBSET (1 .. Len(stream)),
         \A k \in L : StatusOf(k) = "waiting",
         \A k \in 1 .. Len(stream') :
           StatusOf(k)' = IF k \notin 1 .. Len(stream) THEN "waiting"
                          ELSE IF k \in L THEN "lost" ELSE StatusOf(k)
  PROVE  Contract!Next
<1>0. PICK n \in Nat : n = Len(stream)
  BY DEF TypeInv, TypeOK
<1>1. L \subseteq Contract!Waiting
  BY ContractSets
<1> DEFINE M == Contract!Mark(Statuses, L, "lost")
           V == {"lost", "waiting", "started", "settled"}
<1>2. Len(Statuses) = n /\ \A i \in 1 .. n : Statuses[i] = StatusOf(i)
  BY <1>0, StatusesSeq
<1>3. M = [i \in 1 .. n |-> IF i \in L THEN "lost" ELSE StatusOf(i)]
  BY <1>2 DEF Contract!Mark
<1>4. \A i \in 1 .. n : StatusOf(i) \in V
  <2>1. first \in Nat
    BY DEF TypeInv, TypeOK
  <2> QED BY <1>0, <2>1, StatusIs DEF StatusTable, Fates, Finished
<1>5. M \in [1 .. n -> V]
  BY <1>3, <1>4
<1>6. Len(stream') = n + 1
  BY <1>0 DEF TypeInv, TypeOK
<1>7. Statuses' = [i \in 1 .. n + 1 |-> IF i \notin 1 .. n THEN "waiting"
                                        ELSE IF i \in L THEN "lost" ELSE StatusOf(i)]
  BY <1>0, <1>6 DEF Statuses
<1>8. /\ Statuses' \in [1 .. n + 1 -> V]
      /\ \A i \in 1 .. n : Statuses'[i] = M[i]
      /\ Statuses'[n + 1] = "waiting"
  <2>1. n + 1 \in 1 .. n + 1 /\ n + 1 \notin 1 .. n /\ \A i \in 1 .. n : i \in 1 .. n + 1
    OBVIOUS
  <2> QED BY <1>3, <1>4, <1>7, <2>1
<1>9. Statuses' = Append(M, "waiting")
  <2>1. "waiting" \in V
    OBVIOUS
  <2> HIDE DEF M, V
  <2> QED BY <1>5, <1>8, <2>1, AppendIs
<1>10. Contract!Submit(t, L)
  BY <1>1, <1>9 DEF Contract!Submit, Statuses
<1> QED BY <1>1, <1>10 DEF Contract!Next

(* Steps the contract does not see: nothing moves, a reply is taken in     *)
(* hand, a finished entry is acknowledged or not.                          *)
LEMMA ContractStay ==
  ASSUME UNCHANGED <<stream, first, fate, requests, drops, InHand>>
  PROVE  UNCHANGED Contract!vars
<1>1. \A i \in 1 .. Len(stream) : StatusOf(i)' = StatusOf(i)
  BY DEF StatusOf, Finished, Stranded, Trimmed
<1> QED BY <1>1, ContractStutter

LEMMA ContractRead ==
  ASSUME TypeInv, TypeInv', DeliveryOK, Read
  PROVE  UNCHANGED Contract!vars
<1>1. /\ Deliver /\ UNCHANGED <<stream, first, requests, drops>> /\ pc = "read"
      /\ InHand = {} /\ InHand' = cur' .. lastDelivered'
      /\ cur' \in NextBatch /\ \A i \in NextBatch : cur' <= i
  BY DEF Read, InHand, InTask, wazuhVars
<1>2. /\ \A i \in NextBatch : i \in 1 .. Len(stream) /\ i <= lastDelivered' /\ i > lastDelivered
                             /\ i >= first
      /\ lastDelivered' \in NextBatch
      /\ \A i \in 1 .. Len(fate) :
           fate'[i] = IF i \in NextBatch /\ fate[i] = "queued" THEN "delivered" ELSE fate[i]
  BY <1>1, DeliverFacts DEF TypeInv
<1>3. /\ Len(fate) = Len(stream) /\ first \in Nat /\ lastDelivered \in Nat
      /\ \A i \in 1 .. Len(stream) : i > lastDelivered => fate[i] = "queued"
  BY DEF TypeInv, TypeOK, DeliveryOK, FateOK
<1>4. \A i \in 1 .. Len(stream) : i \in InHand' <=> i \in NextBatch
  <2>1. \A i \in NextBatch : i \in InHand'
    BY <1>1, <1>2
  <2>2. ASSUME NEW i \in 1 .. Len(stream), i \in InHand' PROVE i \in NextBatch
    <3>1. i > lastDelivered /\ i <= lastDelivered' /\ i >= first
      BY <1>1, <1>2, <1>3, <2>2
    <3> QED BY <1>1, <3>1, BatchIsRun DEF TypeInv
  <2> QED BY <2>1, <2>2
<1>5. ASSUME NEW i \in 1 .. Len(stream) PROVE StatusOf(i)' = StatusOf(i)
  <2>1. CASE i \in NextBatch
    <3>1. fate[i] = "queued" /\ i >= first /\ fate'[i] = "delivered" /\ i \in InHand'
      BY <1>2, <1>3, <1>4, <2>1
    <3> QED BY <1>1, <3>1, StatusIs DEF StatusTable
  <2>2. CASE i \notin NextBatch
    <3>1. fate'[i] = fate[i] /\ i \notin InHand' /\ i \notin InHand
      BY <1>1, <1>2, <1>3, <1>4, <2>2
    <3> QED BY <1>1, <3>1 DEF StatusOf, Finished, Stranded, Trimmed
  <2> QED BY <2>1, <2>2
<1> QED BY <1>1, <1>5, ContractStutter

LEMMA ContractAck ==
  ASSUME TypeInv, TypeInv', DeliveryOK, Ack \/ AckFails
  PROVE  UNCHANGED Contract!vars
<1>1. /\ pc = "ack" /\ cur' = cur + 1 /\ pc' = IF cur < end THEN "task" ELSE "read"
      /\ UNCHANGED <<stream, first, fate, end, requests, drops>>
  BY DEF Ack, AckFails, NextEntry, historyVars, redisVars, wazuhVars
<1>2. cur \in Nat /\ end \in Nat /\ InHand = cur .. end /\ InHand' = cur + 1 .. end /\ Finished(cur)
  BY <1>1, InTaskFacts DEF InHand, InTask, DeliveryOK, FateOK, TypeInv, TypeOK
<1>3. \A i \in Nat : i # cur => (i \in InHand' <=> i \in InHand)
  BY <1>2
<1>4. ASSUME NEW i \in 1 .. Len(stream) PROVE StatusOf(i)' = StatusOf(i)
  <2>1. CASE i = cur
    BY <1>1, <1>2, <2>1, StatusIs DEF StatusTable, Finished
  <2>2. CASE i # cur
    BY <1>1, <1>3, <2>2 DEF StatusOf, Finished, Stranded, Trimmed
  <2> QED BY <2>1, <2>2
<1> QED BY <1>1, <1>4, ContractStutter

(* A lost reply and a process that dies or hangs lose what was theirs to   *)
(* finish.                                                                 *)
LEMMA ContractReplyLost ==
  ASSUME TypeInv, TypeInv', DeliveryOK, ReadReplyLost
  PROVE  Contract!Next
<1>1. /\ Deliver /\ UNCHANGED <<stream, first, requests, drops>>
      /\ InHand = {} /\ InHand' = {}
  BY DEF ReadReplyLost, InHand, InTask, workerVars, wazuhVars
<1>2. /\ \A i \in NextBatch : i \in 1 .. Len(stream) /\ i > lastDelivered /\ i >= first
      /\ \A i \in 1 .. Len(stream) :
           fate'[i] = IF i \in NextBatch /\ fate[i] = "queued" THEN "delivered" ELSE fate[i]
  BY <1>1, DeliverFacts DEF TypeInv, TypeOK
<1>3. \A i \in NextBatch : fate[i] = "queued" /\ fate'[i] = "delivered"
  BY <1>2 DEF DeliveryOK, FateOK
<1>4. ASSUME NEW i \in NextBatch PROVE StatusOf(i) = "waiting" /\ StatusOf(i)' = "lost"
  BY <1>1, <1>2, <1>3, StatusIs DEF StatusTable
<1>5. ASSUME NEW i \in 1 .. Len(stream), i \notin NextBatch PROVE StatusOf(i)' = StatusOf(i)
  BY <1>1, <1>2, <1>5 DEF StatusOf, Finished, Stranded, Trimmed
<1>6. NextBatch \in SUBSET (1 .. Len(stream))
  BY <1>2
<1>7. \A k \in NextBatch : StatusOf(k) \in {"waiting", "started"}
  BY <1>4
<1>8. \A k \in 1 .. Len(stream) : StatusOf(k)' = IF k \in NextBatch THEN "lost" ELSE StatusOf(k)
  BY <1>4, <1>5
<1> QED BY <1>1, <1>6, <1>7, <1>8, ContractLose

LEMMA ContractCrash ==
  ASSUME TypeInv, TypeInv', DeliveryOK, Crash \/ Hang
  PROVE  Contract!Next
<1> DEFINE L == {i \in InHand : ~Finished(i)}
<1>1. UNCHANGED <<stream, first, fate, requests, drops>> /\ InHand' = {}
  BY DEF Crash, Hang, Exit, Abandon, InHand, InTask, redisVars, wazuhVars
<1>2. InHand \subseteq 1 .. Len(stream)
  <2>1. CASE pc \in InTask \cup {"task"}
    <3>1. cur \in 1 .. Len(stream) /\ end = lastDelivered  BY <2>1, InTaskFacts
    <3>2. lastDelivered \in 0 .. Len(stream) /\ Len(stream) \in Nat
      BY StreamLength, Zenon DEF TypeInv, TypeOK
    <3>. QED  BY <2>1, <3>1, <3>2 DEF InHand
  <2>2. CASE pc \notin InTask \cup {"task"}
    BY <2>2 DEF InHand
  <2>. QED  BY <2>1, <2>2
<1>3. ASSUME NEW i \in InHand PROVE fate[i] # "queued"
  <2>1. pc \in InTask \cup {"task"} /\ i \in cur .. end /\ cur \in Nat
    BY DEF InHand, TypeInv, TypeOK
  <2>2. CASE pc = "task"
    BY <2>1, <2>2 DEF DeliveryOK, FateOK, NeverReprocessed
  <2>3. CASE pc \in InTask
    <3>1. i = cur \/ i \in cur + 1 .. end
      BY <2>1
    <3> QED BY <2>3, <3>1 DEF DeliveryOK, FateOK, Finished
  <2> QED BY <2>1, <2>2, <2>3
<1>4. ASSUME NEW i \in L PROVE StatusOf(i) \in {"waiting", "started"} /\ StatusOf(i)' = "lost"
  BY <1>1, <1>2, <1>3, StatusIs DEF StatusTable, Fates, Finished
<1>5. ASSUME NEW i \in 1 .. Len(stream), i \notin L PROVE StatusOf(i)' = StatusOf(i)
  <2>1. CASE Finished(i)
    BY <1>1, <2>1, StatusIs DEF StatusTable, Finished
  <2>2. CASE ~Finished(i)
    BY <1>1, <1>5, <2>2 DEF StatusOf, Finished, Stranded, Trimmed
  <2> QED BY <2>1, <2>2
<1>6. L \in SUBSET (1 .. Len(stream))
  BY <1>2
<1>7. /\ \A k \in L : StatusOf(k) \in {"waiting", "started"}
      /\ \A k \in 1 .. Len(stream) : StatusOf(k)' = IF k \in L THEN "lost" ELSE StatusOf(k)
  BY <1>4, <1>5
<1> HIDE DEF L
<1> QED BY <1>1, <1>6, <1>7, ContractLose

(* The task in hand begins: nothing else has, and nothing before it is     *)
(* still to come.                                                          *)
LEMMA ContractEnrich ==
  ASSUME TypeInv, TypeInv', DeliveryOK, NEW S \in SUBSET Sources, Enrich(S)
  PROVE  Contract!Next
<1>1. /\ pc = "task" /\ pc' \in InTask
      /\ UNCHANGED <<stream, first, requests, drops, cur, end>>
      /\ cur \in 1 .. Len(stream) /\ cur <= end /\ end = lastDelivered
      /\ end \in Nat /\ first \in Nat
  BY InTaskFacts DEF Enrich, redisVars, wazuhVars, InTask, TypeInv, TypeOK
<1>2. InHand = cur .. end /\ InHand' = cur .. end /\ cur \in InHand
  BY <1>1 DEF InHand
<1>3. \A i \in 1 .. Len(stream) : fate'[i] = IF i = cur THEN "started" ELSE fate[i]
  BY <1>1 DEF Enrich, TypeInv, TypeOK
<1>4. \A i \in InHand : fate[i] = "delivered"
  BY <1>1, <1>2 DEF DeliveryOK, FateOK, NeverReprocessed
<1>5. PICK i \in 1 .. Len(stream) : i = cur
  BY <1>1
<1>6. fate[i] = "delivered" /\ fate'[i] = "started" /\ i \in InHand /\ i \in InHand'
  BY <1>2, <1>3, <1>4, <1>5
<1>7. StatusOf(i) = "waiting" /\ StatusOf(i)' = "started"
  BY <1>1, <1>6, StatusIs DEF StatusTable
<1>8. ASSUME NEW k \in 1 .. Len(stream) PROVE StatusOf(k) # "started"
  BY <1>1, <1>4, StatusIs DEF StatusTable, Fates, Finished
<1>9. ASSUME NEW k \in 1 .. i - 1 PROVE StatusOf(k) \in {"settled", "lost"}
  <2>1. k \in 1 .. Len(stream) /\ k \notin InHand /\ k <= lastDelivered
    BY <1>1, <1>2, <1>5
  <2>2. fate[k] = "queued" => k < first
    BY <2>1 DEF DeliveryOK, NothingSkipped
  <2> QED BY <2>1, <2>2, StatusIs DEF StatusTable, Fates, Finished
<1>10. ASSUME NEW k \in 1 .. Len(stream), k # i PROVE StatusOf(k)' = StatusOf(k)
  BY <1>1, <1>2, <1>3, <1>5, <1>10 DEF StatusOf, Finished, Stranded, Trimmed
<1>11. \A k \in 1 .. Len(stream) : StatusOf(k)' = IF k \in {i} THEN "started" ELSE StatusOf(k)
  BY <1>7, <1>10
<1> QED BY <1>1, <1>7, <1>8, <1>9, <1>11, ContractBegin

LEMMA ContractEnd ==
  ASSUME TypeInv, TypeInv', DeliveryOK, WazuhRaises \/ Audit \/ AuditFails
  PROVE  Contract!Next
<1>1. /\ pc \in InTask \ {"ack"} /\ pc' = "ack"
      /\ UNCHANGED <<stream, first, requests, drops, cur, end>>
      /\ \E v \in {"done", "failed"} : fate' = [fate EXCEPT ![cur] = v]
  BY DEF WazuhRaises, Audit, AuditFails, FinishTask, redisVars, wazuhVars, workerVars, InTask
<1>2. cur \in 1 .. Len(stream) /\ cur \in InHand /\ InHand' = InHand
  <2>1. pc \in InTask \cup {"task"} /\ pc' \in InTask \cup {"task"}
    BY <1>1 DEF InTask
  <2>2. cur \in 1 .. Len(stream) /\ cur <= end
    BY <2>1, InTaskFacts
  <2>3. end \in Nat /\ Len(stream) \in Nat
    BY StreamLength, Zenon DEF TypeInv, TypeOK
  <2>4. InHand = cur .. end /\ InHand' = cur .. end
    BY <1>1, <2>1 DEF InHand
  <2>. QED  BY <2>2, <2>3, <2>4
<1>3. /\ \A i \in 1 .. Len(stream) : i # cur => fate'[i] = fate[i]
      /\ Finished(cur)' /\ fate[cur] = "started"
  BY <1>1, <1>2 DEF Finished, DeliveryOK, FateOK, TypeInv, TypeOK
<1>4. PICK i \in 1 .. Len(stream) : i = cur
  BY <1>2
<1>5. Finished(i)' /\ fate[i] = "started" /\ i \in InHand
  BY <1>1, <1>2, <1>3, <1>4 DEF Finished
<1>6. StatusOf(i) = "started" /\ StatusOf(i)' = "settled"
  BY <1>1, <1>5, StatusIs DEF StatusTable
<1>7. ASSUME NEW k \in 1 .. Len(stream), k # i PROVE StatusOf(k)' = StatusOf(k)
  BY <1>1, <1>2, <1>3, <1>4, <1>7 DEF StatusOf, Finished, Stranded, Trimmed
<1>8. \A k \in 1 .. Len(stream) : StatusOf(k)' = IF k \in {i} THEN "settled" ELSE StatusOf(k)
  BY <1>6, <1>7
<1> QED BY <1>1, <1>6, <1>8, ContractSettle

(* A drop is asked for by the task in hand, once, and R2 may.              *)
LEMMA ContractBlock ==
  ASSUME TypeInv, TypeInv', DeliveryOK, AuditOK, WazuhBlock \/ WazuhFails
  PROVE  [Contract!Next]_Contract!vars
<1>1. /\ pc = "enforce" /\ pc' \in InTask /\ UNCHANGED <<stream, first, fate, cur, end>>
      /\ UNCHANGED drops /\ (AskForDrop \/ UNCHANGED requests)
  BY DEF WazuhBlock, WazuhFails, AskForDrop, redisVars, wazuhVars, InTask
<1>2. InHand' = InHand
  BY <1>1 DEF InHand, InTask
<1>3. CASE UNCHANGED requests
  BY <1>1, <1>2, <1>3, ContractStay
<1>4. CASE AskForDrop
  <2>1. PICK i \in 1 .. Len(stream) : i = cur
    BY <1>1, InTaskFacts DEF InTask
  <2>2. fate[i] = "started" /\ i \in InHand
    <3>1. pc \in InTask \ {"ack"}
      BY <1>1 DEF InTask
    <3>2. fate[cur] = "started"
      BY <3>1 DEF DeliveryOK, FateOK
    <3>3. cur \in Nat /\ end \in Nat /\ cur <= end
      BY <3>1, InTaskFacts DEF TypeInv, TypeOK
    <3>4. InHand = cur .. end
      BY <3>1 DEF InHand
    <3> QED BY <2>1, <3>2, <3>3, <3>4
  <2>3. StatusOf(i) = "started"
    BY <2>2, StatusIs DEF StatusTable
  <2>4. \A r \in requests : r.entry # i
    BY <1>1, <2>1 DEF AuditOK, BegunOK
  <2>5. ReachesR2(stream[i]) /\ ~Barred(stream[i].ip)
    BY <1>1, <2>1, ConstantsOK DEF TypeInv, GateOK, ReachesR2, Barred, IsSafelisted, task
  <2>6. {r.entry : r \in requests'} = {r.entry : r \in requests} \cup {i}
    <3> DEFINE new == [entry |-> cur, ip |-> task.ip, sources |-> sources, settings |-> settings]
    <3>1. requests' = requests \cup {new} /\ new.entry = i
      BY <1>4, <2>1 DEF AskForDrop
    <3> HIDE DEF new
    <3> QED BY <3>1
  <2>7. \A k \in 1 .. Len(stream) : StatusOf(k)' = StatusOf(k)
    BY <1>1, <1>2 DEF StatusOf, Finished, Stranded, Trimmed
  <2> QED BY <1>1, <2>3, <2>4, <2>5, <2>6, <2>7, ContractAsk
<1> QED BY <1>1, <1>3, <1>4

(* A new task, and with it what MAXLEN trims before anyone has read it.    *)
LEMMA ContractEnqueue ==
  ASSUME TypeInv, TypeInv', NEW t \in Task, Enqueue(t)
  PROVE  Contract!Next
<1> DEFINE L == {i \in 1 .. Len(stream) : fate[i] = "queued" /\ first <= i /\ i < first'}
<1>1. /\ stream' = Append(stream, t) /\ UNCHANGED <<requests, drops, pc, cur, end>>
      /\ InHand' = InHand
      /\ Len(stream) \in Nat /\ Len(stream') = Len(stream) + 1
      /\ \A i \in 1 .. Len(stream) : fate'[i] = fate[i]
      /\ fate'[Len(stream) + 1] = "queued"
  BY DEF Enqueue, workerVars, wazuhVars, InHand, TypeInv, TypeOK
<1>2. first \in Nat /\ first' \in Nat /\ first <= first' /\ first' <= Len(stream) + 1
  BY <1>1, ConstantsOK DEF Enqueue, TypeInv, TypeOK
<1>3. ASSUME NEW k \in 1 .. Len(stream), k \in L
      PROVE  StatusOf(k) = "waiting" /\ StatusOf(k)' = "lost"
  <2>1. k \in 1 .. Len(stream') /\ fate'[k] = "queued" /\ k < first' /\ k >= first
    BY <1>1, <1>2, <1>3
  <2> QED BY <1>3, <2>1, StatusIs DEF StatusTable
<1>4. ASSUME NEW k \in 1 .. Len(stream), k \notin L PROVE StatusOf(k)' = StatusOf(k)
  <2>1. k \in 1 .. Len(stream') /\ fate'[k] = fate[k] /\ k \in Nat
    BY <1>1
  <2>2. fate[k] = "queued" => (k < first <=> k < first')
    BY <1>2, <1>4, <2>1
  <2> QED BY <1>1, <2>1, <2>2 DEF StatusOf, Finished, Stranded, Trimmed
<1>5. PICK n \in Nat : n = Len(stream)
  BY <1>1
<1>6. StatusOf(n + 1)' = "waiting"
  <2>1. n + 1 \in 1 .. Len(stream') /\ fate'[n + 1] = "queued" /\ n + 1 >= first'
    BY <1>1, <1>2, <1>5
  <2> QED BY <2>1, StatusIs DEF StatusTable
<1>7. /\ L \in SUBSET (1 .. Len(stream))
      /\ \A k \in L : StatusOf(k) = "waiting"
  BY <1>3
<1>8. \A k \in 1 .. Len(stream') :
        StatusOf(k)' = IF k \notin 1 .. Len(stream) THEN "waiting"
                       ELSE IF k \in L THEN "lost" ELSE StatusOf(k)
  <2>1. \A k \in 1 .. Len(stream') : k \notin 1 .. Len(stream) => k = n + 1
    BY <1>1, <1>5
  <2> HIDE DEF L
  <2> QED BY <1>3, <1>4, <1>6, <2>1
<1> HIDE DEF L
<1> QED BY <1>1, <1>7, <1>8, ContractSubmit

LEMMA ContractInit == Init => Contract!Init
<1> SUFFICES ASSUME Init PROVE Contract!Init
  OBVIOUS
<1>1. stream = <<>> /\ Len(stream) = 0 /\ requests = {} /\ drops = {}
  BY EmptySeq DEF Init
<1>2. Statuses \in [1 .. 0 -> {}]
  BY <1>1 DEF Statuses
<1>3. Statuses \in Seq({}) /\ Len(Statuses) = 0
  BY <1>2, MapSeq
<1>4. Statuses = <<>>
  BY <1>3, EmptySeq
<1> QED BY <1>1, <1>4 DEF Contract!Init, Statuses

LEMMA ContractStep ==
  TypeInv /\ TypeInv' /\ DropSafe /\ DeliveryOK /\ AuditOK /\ [Next]_vars
    => [Contract!Next]_Contract!vars
<1> SUFFICES ASSUME TypeInv, TypeInv', DropSafe, DeliveryOK, AuditOK, [Next]_vars
             PROVE  [Contract!Next]_Contract!vars
  OBVIOUS
<1>1. CASE \E t \in Task : Enqueue(t)
  BY <1>1, ContractEnqueue
<1>2. CASE UNCHANGED vars \/ Tick \/ Start \/ CreateGroup \/ CreateGroupFails \/ EmptyPoll \/ Kill
  <2>1. UNCHANGED <<stream, first, fate, requests, drops>>
    BY <1>2 DEF vars, redisVars, wazuhVars, historyVars, Tick, Start, CreateGroup,
                CreateGroupFails, EmptyPoll, Kill
  <2>2. UNCHANGED InHand
    BY <1>2 DEF vars, workerVars, Tick, Start, CreateGroup, CreateGroupFails, Exit, EmptyPoll,
                Kill, InHand, InTask
  <2> QED BY <2>1, <2>2, ContractStay
<1>3. CASE Crash \/ Hang
  BY <1>3, ContractCrash
<1>11. CASE \E x \in sent : FirewallDrop(x)
  BY <1>11, ContractDrop
<1>4. CASE Read
  BY <1>4, ContractRead
<1>5. CASE ReadReplyLost
  BY <1>5, ContractReplyLost
<1>6. CASE \E S \in SUBSET Sources : Enrich(S)
  BY <1>6, ContractEnrich
<1>7. CASE \/ AlreadyBlocked \/ NotBlocked \/ CheckFails \/ DryRunBlock
           \/ RecordBlock \/ RecordFails
  <2>1. /\ UNCHANGED <<stream, first, fate, requests, drops, cur, end>>
        /\ pc \in InTask /\ pc' \in InTask
    BY <1>7 DEF AlreadyBlocked, NotBlocked, CheckFails, GoOn, DryRunBlock, RecordBlock,
                RecordFails, redisVars, wazuhVars, workerVars, historyVars, InTask
  <2> QED BY <2>1, ContractStay DEF InHand
<1>8. CASE WazuhBlock \/ WazuhFails
  BY <1>8, ContractBlock
<1>9. CASE WazuhRaises \/ Audit \/ AuditFails
  BY <1>9, ContractEnd
<1>10. CASE Ack \/ AckFails
  BY <1>10, ContractAck
<1> QED BY <1>1, <1>2, <1>3, <1>4, <1>5, <1>6, <1>7, <1>8, <1>9, <1>10, <1>11 DEF Next, WorkerStep

(* run() implements the contract of the response layer: tasks begin in     *)
(* stream order, one at a time and never twice, a lost one stays lost, a   *)
(* drop is asked for once and only by the task in hand, and a firewall is  *)
(* touched only for what was asked.                                        *)
THEOREM WorkerKeepsContract == Spec => KeepsContract
BY ContractInit, ContractStep, TypeInvariant, DropInvariant, DeliveryInvariant, AuditInvariant, PTL
   DEF Spec, KeepsContract, Contract!Spec

-----------------------------------------------------------------------------
(* Keys that outlive their rules.                                          *)

(* A rule nobody recorded, and a call made blindly, go back to a failing   *)
(* call or a crash.                                                        *)
Excused(ip) == \E i \in 1 .. Len(stream) : stream[i].ip = ip /\ i \in faulted \cup Stranded

ExcusesOK ==
  /\ \A ip \in unrecorded : Excused(ip)
  /\ blind /\ pc \in InTask => cur \in faulted

(* A lasting reason for a key to outlive its rule: what KeysExplained asks *)
(* of an address, but for a request that the agent may yet run at once.    *)
Durable(ip) ==
  \E i \in 1 .. Len(stream) :
    /\ stream[i].ip = ip
    /\ \/ i \in faulted \cup Stranded \cup slow
       \/ \E x \in sent \cup drops : x.entry = i /\ x.late > 0
       \/ [entry |-> i, action |-> "block_skipped"] \in audit
       \/ i = cur /\ pc \in InTask /\ action = "block_skipped"

(* The tick in which Wazuh took a request for the address is not over.     *)
AtOnce(ip) == \E x \in sent : Target(x) = ip /\ x.late = 0

(* The key has more time left than its rule, by more than it was given.    *)
Outlives(ip) == blockKey[ip] > firewall[ip] + (BlockTtl - FirewallTtl)

(* What "record" is about to write, what "ack" has behind it, and what a   *)
(* request that is run at once finds at the firewall.                      *)
KeysOK ==
  /\ pc = "record" /\ action = "block" =>
       firewall[task.ip] = FirewallTtl \/ AtOnce(task.ip) \/ Durable(task.ip)
  /\ pc = "record" => action \in {"block", "block_skipped"}
  /\ pc = "ack" => cur \in faulted \/ [entry |-> cur, action |-> action] \in audit
  /\ \A ip \in Ips : AtOnce(ip) => firewall[ip] \in {0, FirewallTtl} \/ Durable(ip)
  /\ \A ip \in Ips : Outlives(ip) => AtOnce(ip) \/ Durable(ip)

KeyInv == TypeInv /\ DropSafe /\ DeliveryOK /\ AuditOK /\ VisibleOK /\ ExcusesOK /\ KeysOK

(* Nothing of the history is ever taken back.                              *)
LEMMA HistoryGrows ==
  ASSUME TypeInv, DeliveryOK, [Next]_vars
  PROVE  /\ Len(stream) \in Nat /\ Len(stream') \in Nat /\ Len(stream) <= Len(stream')
         /\ \A i \in 1 .. Len(stream) : stream'[i] = stream[i]
         /\ Stranded \subseteq Stranded' /\ faulted \subseteq faulted' /\ audit \subseteq audit'
         /\ slow \subseteq slow'
<1>1. CASE \E t \in Task : Enqueue(t)
  <2>1. /\ Len(stream) \in Nat /\ Len(stream') = Len(stream) + 1
        /\ \A i \in 1 .. Len(stream) : stream'[i] = stream[i]
        /\ UNCHANGED <<faulted, slow, audit>>
    BY <1>1 DEF Enqueue, TypeInv, TypeOK
  <2>2. ~Crash /\ ~Hang /\ ~ReadReplyLost
    <3>1. stream' # stream
      BY <2>1
    <3> QED BY <3>1 DEF Crash, Hang, Abandon, ReadReplyLost, redisVars
  <2> QED BY <2>1, <2>2, StrandedStep
<1>2. CASE ~(\E t \in Task : Enqueue(t))
  <2>1. UNCHANGED stream /\ Len(stream) \in Nat
    <3>1. Len(stream) \in Nat
      BY DEF TypeInv, TypeOK
    <3>2. CASE WorkerStep \/ Crash \/ Hang \/ Kill
      BY <3>2 DEF WorkerStep, redisVars, Crash, Hang, Abandon, Kill, Start, CreateGroup,
          CreateGroupFails, Read, ReadReplyLost, EmptyPoll, vars, Enrich, AlreadyBlocked, NotBlocked,
          CheckFails, DryRunBlock, WazuhBlock, WazuhFails, WazuhRaises, RecordBlock, RecordFails,
          Audit, AuditFails, Ack, AckFails
    <3>3. CASE Tick \/ (\E x \in sent : FirewallDrop(x)) \/ UNCHANGED vars
      BY <3>3 DEF Tick, FirewallDrop, vars, redisVars
    <3> QED BY <1>2, <3>1, <3>2, <3>3 DEF Next
  <2>2. faulted \subseteq faulted' /\ audit \subseteq audit' /\ slow \subseteq slow'
    BY <1>2 DEF Next, WorkerStep, vars, historyVars, Tick, FirewallDrop, Crash, Hang, Abandon, Kill,
        Start, CreateGroup, CreateGroupFails, Read, ReadReplyLost, EmptyPoll, Enrich,
        AlreadyBlocked, NotBlocked, CheckFails, DryRunBlock, WazuhBlock, WazuhFails, WazuhRaises,
        RecordBlock, RecordFails, Audit, AuditFails, Ack, AckFails, TaskFault
  <2>3. Stranded \subseteq Stranded'
    BY StrandedStep, StrandedGrows
  <2> QED BY <2>1, <2>2, <2>3
<1> QED BY <1>1, <1>2

(* A request is only ever taken by a task in hand, and the clock and the   *)
(* agents are the only ones that change it.                                *)
LEMMA RequestsGrow ==
  ASSUME TypeInv, [Next]_vars, ~Tick, ~(\E x \in sent : FirewallDrop(x)),
         ~(AskForDrop /\ pc = "enforce")
  PROVE  UNCHANGED wazuhVars
BY DEF Next, WorkerStep, vars, Enqueue, Crash, Hang, Abandon, Kill, Start, CreateGroup,
       CreateGroupFails, Read, ReadReplyLost, EmptyPoll, Enrich, AlreadyBlocked, NotBlocked,
       CheckFails, DryRunBlock, WazuhBlock, WazuhFails, WazuhRaises, RecordBlock, RecordFails,
       Audit, AuditFails, Ack, AckFails

(* Delay is not taken back: a late request stays late, or was run late.    *)
LEMMA LateStays ==
  ASSUME TypeInv, DropSafe, [Next]_vars, NEW x \in sent \cup drops, x.late > 0
  PROVE  \E y \in sent' \cup drops' : y.entry = x.entry /\ y.late > 0
<1>1. CASE Tick
  <2>1. UNCHANGED drops /\ sent' = {Later(z) : z \in sent}
    BY <1>1 DEF Tick
  <2>2. CASE x \in sent
    <3>1. x.late \in Nat
      BY TargetIsIp
    <3>2. Later(x).entry = x.entry /\ Later(x).late > 0
      BY <2>2, <3>1, LaterFacts DEF TypeInv
    <3> QED BY <2>1, <2>2, <3>2
  <2> QED BY <2>1, <2>2
<1>2. CASE \E z \in sent : FirewallDrop(z)
  <2>1. sent' \cup drops' = sent \cup drops
    BY <1>2 DEF FirewallDrop
  <2> QED BY <2>1
<1>3. CASE AskForDrop /\ pc = "enforce"
  <2>1. sent \cup drops \subseteq sent' \cup drops'
    BY <1>3 DEF AskForDrop
  <2> QED BY <2>1
<1>4. CASE UNCHANGED wazuhVars
  BY <1>4 DEF wazuhVars
<1> QED BY <1>1, <1>2, <1>3, <1>4, RequestsGrow

LEMMA ExcusedStays ==
  ASSUME TypeInv, DeliveryOK, [Next]_vars, NEW ip, Excused(ip)
  PROVE  Excused(ip)'
<1>1. PICK i \in 1 .. Len(stream) : stream[i].ip = ip /\ i \in faulted \cup Stranded
  BY DEF Excused
<1>2. i \in 1 .. Len(stream') /\ stream'[i].ip = ip /\ i \in faulted' \cup Stranded'
  BY <1>1, HistoryGrows
<1> QED BY <1>2 DEF Excused

(* A task answered "block_skipped" keeps its answer to the audit, or a     *)
(* call failed, or the process died.                                       *)
LEMMA SkippedStays ==
  ASSUME KeyInv, [Next]_vars, pc \in InTask, action = "block_skipped", NEW i, i = cur
  PROVE  \/ i \in faulted' \cup Stranded'
         \/ [entry |-> i, action |-> "block_skipped"] \in audit'
         \/ i = cur' /\ pc' \in InTask /\ action' = "block_skipped"
<1>1. pc \notin {"check", "enforce"}
  BY DEF KeyInv, AuditOK, BegunOK
<1>2. pc = "ack" => i \in faulted \/ [entry |-> i, action |-> "block_skipped"] \in audit
  BY DEF KeyInv, KeysOK
<1>3. faulted \subseteq faulted' /\ audit \subseteq audit'
  BY HistoryGrows DEF KeyInv
<1>4. CASE pc = "ack"
  BY <1>2, <1>3, <1>4
<1>5. CASE (Crash \/ Hang) /\ pc # "ack"
  <2>1. cur \in 1 .. Len(stream) /\ fate[cur] = "started"
    BY <1>5, InTaskFacts DEF KeyInv, DeliveryOK, FateOK
  <2>2. UNCHANGED <<stream, fate>> /\ InHand' = {}
    BY <1>5 DEF Crash, Hang, Exit, Abandon, InHand, InTask, redisVars
  <2>3. i \in Stranded'
    BY <2>1, <2>2 DEF Stranded
  <2> QED BY <2>3
<1>6. CASE \/ UNCHANGED vars \/ (\E t \in Task : Enqueue(t)) \/ Tick
           \/ \E x \in sent : FirewallDrop(x)
  BY <1>6 DEF vars, workerVars, Enqueue, Tick, FirewallDrop
<1>7. CASE RecordBlock \/ RecordFails
  BY <1>7 DEF RecordBlock, RecordFails, workerVars, InTask
<1>8. CASE Audit \/ AuditFails
  BY <1>8 DEF Audit, AuditFails, FinishTask, workerVars, InTask
<1>9. CASE \/ Start \/ CreateGroup \/ CreateGroupFails \/ Read \/ ReadReplyLost \/ EmptyPoll
           \/ Kill \/ \E S \in SUBSET Sources : Enrich(S)
  BY <1>9 DEF Kill, Start, CreateGroup, CreateGroupFails, Read, ReadReplyLost, EmptyPoll,
      Enrich, InTask
<1>10. CASE \/ AlreadyBlocked \/ NotBlocked \/ CheckFails
            \/ DryRunBlock \/ WazuhBlock \/ WazuhFails \/ WazuhRaises
  BY <1>1, <1>10 DEF AlreadyBlocked, NotBlocked, CheckFails, DryRunBlock, WazuhBlock, WazuhFails,
                     WazuhRaises
<1>11. CASE Ack \/ AckFails
  BY <1>4, <1>11 DEF Ack, AckFails
<1> QED BY <1>4, <1>5, <1>6, <1>7, <1>8, <1>9, <1>10, <1>11 DEF Next, WorkerStep

LEMMA DurableStays ==
  ASSUME KeyInv, [Next]_vars, NEW ip, Durable(ip)
  PROVE  Durable(ip)'
<1>1. PICK i \in 1 .. Len(stream) :
        /\ stream[i].ip = ip
        /\ \/ i \in faulted \cup Stranded \cup slow
           \/ \E x \in sent \cup drops : x.entry = i /\ x.late > 0
           \/ [entry |-> i, action |-> "block_skipped"] \in audit
           \/ i = cur /\ pc \in InTask /\ action = "block_skipped"
  BY DEF Durable
<1>2. /\ i \in 1 .. Len(stream') /\ stream'[i].ip = ip
      /\ Stranded \subseteq Stranded' /\ faulted \subseteq faulted' /\ audit \subseteq audit'
      /\ slow \subseteq slow'
  BY <1>1, HistoryGrows DEF KeyInv
<1>3. \/ i \in faulted' \cup Stranded' \cup slow'
      \/ \E x \in sent' \cup drops' : x.entry = i /\ x.late > 0
      \/ [entry |-> i, action |-> "block_skipped"] \in audit'
      \/ i = cur' /\ pc' \in InTask /\ action' = "block_skipped"
  <2>1. CASE \E x \in sent \cup drops : x.entry = i /\ x.late > 0
    BY <2>1, LateStays DEF KeyInv
  <2>2. CASE ~(\E x \in sent \cup drops : x.entry = i /\ x.late > 0)
    BY <1>1, <1>2, <2>2, SkippedStays
  <2> QED BY <2>1, <2>2
<1> QED BY <1>2, <1>3 DEF Durable

LEMMA ExcusedIsDurable ==
  ASSUME NEW ip, Excused(ip)
  PROVE  Durable(ip)
BY DEF Excused, Durable

(* A request that has waited for a tick, or was run after one.             *)
LEMMA LateIsDurable ==
  ASSUME TypeInv, DropSafe, NEW x \in sent \cup drops, x.late > 0
  PROVE  Durable(Target(x))
<1>1. PICK i \in 1 .. Len(stream) : i = x.entry
  BY TargetIsIp
<1>2. stream[i].ip = Target(x)
  BY <1>1 DEF Target
<1> QED BY <1>1, <1>2 DEF Durable

(* Who joins the addresses whose rule nobody recorded.                     *)
LEMMA UnrecordedJoins ==
  ASSUME KeyInv, [Next]_vars, NEW ip \in unrecorded', ip \notin unrecorded
  PROVE  ip = task.ip /\ pc \in InTask /\ UNCHANGED stream /\ cur \in faulted' \cup Stranded'
<1>1. CASE Crash \/ Hang
  <2>1. pc = "record" /\ ip = task.ip /\ UNCHANGED <<stream, fate>> /\ InHand' = {}
    BY <1>1 DEF Crash, Hang, Exit, Abandon, InHand, InTask, redisVars
  <2>2. cur \in 1 .. Len(stream) /\ fate[cur] = "started"
    BY <2>1, InTaskFacts DEF KeyInv, DeliveryOK, FateOK, InTask
  <2> QED BY <2>1, <2>2 DEF Stranded, InTask
<1>2. CASE WazuhFails \/ RecordFails
  BY <1>2 DEF WazuhFails, RecordFails, TaskFault, redisVars, wazuhVars, InTask
<1>3. CASE ~Crash /\ ~Hang /\ ~WazuhFails /\ ~RecordFails
  <2>1. unrecorded' \subseteq unrecorded
    BY <1>3 DEF Next, WorkerStep, vars, historyVars, Enqueue, Tick, FirewallDrop, Kill, Start,
        CreateGroup,
        CreateGroupFails, Read, ReadReplyLost, EmptyPoll, Enrich, AlreadyBlocked, NotBlocked,
        CheckFails, DryRunBlock, WazuhBlock, WazuhRaises, RecordBlock, Audit, AuditFails, Ack,
        AckFails
  <2> QED BY <2>1
<1> QED BY <1>1, <1>2, <1>3

LEMMA ExcusesStep == KeyInv /\ [Next]_vars => ExcusesOK'
<1> SUFFICES ASSUME KeyInv, [Next]_vars PROVE ExcusesOK'
  OBVIOUS
<1>1. ASSUME NEW ip \in unrecorded' PROVE Excused(ip)'
  <2>1. CASE ip \in unrecorded
    BY <2>1, ExcusedStays DEF KeyInv, ExcusesOK
  <2>2. CASE ip \notin unrecorded
    <3>1. ip = task.ip /\ pc \in InTask /\ UNCHANGED stream /\ cur \in faulted' \cup Stranded'
      BY <2>2, UnrecordedJoins
    <3>2. PICK i \in 1 .. Len(stream) : i = cur
      BY <3>1, InTaskFacts DEF KeyInv
    <3>3. stream'[i].ip = ip /\ i \in 1 .. Len(stream') /\ i \in faulted' \cup Stranded'
      BY <3>1, <3>2 DEF task
    <3> QED BY <3>3 DEF Excused
  <2> QED BY <2>1, <2>2
<1>2. faulted \subseteq faulted'
  BY HistoryGrows DEF KeyInv
<1>3. ASSUME blind', pc' \in InTask PROVE cur' \in faulted'
  <2>1. CASE CheckFails
    BY <2>1 DEF CheckFails, TaskFault
  <2>2. CASE ~CheckFails
    <3>1. blind /\ pc \in InTask /\ cur' = cur
      BY <1>3, <2>2 DEF Next, WorkerStep, vars, workerVars, Enqueue, Tick, FirewallDrop, Crash,
        Hang, Kill, Exit, Abandon, Start, CreateGroup, CreateGroupFails, Read, ReadReplyLost,
        EmptyPoll, Enrich, AlreadyBlocked,
        NotBlocked, DryRunBlock, WazuhBlock, WazuhFails, WazuhRaises, RecordBlock, RecordFails,
        Audit, AuditFails, Ack, AckFails, NextEntry, InTask
    <3> QED BY <1>2, <3>1 DEF KeyInv, ExcusesOK
  <2> QED BY <2>1, <2>2
<1> QED BY <1>1, <1>3 DEF ExcusesOK

(* What a task finds at the firewall when it asks for a drop: nothing, or  *)
(* what has a lasting reason.                                              *)
LEMMA AskFinds ==
  ASSUME KeyInv, pc = "enforce"
  PROVE  firewall[task.ip] = 0 \/ Durable(task.ip)
<1>1. task.ip \in Ips /\ cur \in 1 .. Len(stream)
  BY InTaskFacts DEF KeyInv, TypeInv, GateOK, InTask
<1>2. CASE blind
  <2>1. PICK i \in 1 .. Len(stream) : i = cur
    BY <1>1
  <2>2. i \in faulted
    BY <1>2, <2>1 DEF KeyInv, ExcusesOK, InTask
  <2> QED BY <2>1, <2>2 DEF Durable, task
<1>3. CASE task.ip \in unrecorded
  BY <1>3, ExcusedIsDurable DEF KeyInv, ExcusesOK
<1>4. CASE \E d \in drops : Target(d) = task.ip /\ firewall[task.ip] <= d.late
  <2>1. PICK d \in drops : Target(d) = task.ip /\ firewall[task.ip] <= d.late
    BY <1>4
  <2>2. d.late \in Nat /\ firewall[task.ip] \in Nat
    BY <1>1, TargetIsIp, LeftFacts DEF KeyInv
  <2>3. CASE d.late > 0
    BY <2>1, <2>3, LateIsDurable DEF KeyInv
  <2>4. CASE ~(d.late > 0)
    BY <2>1, <2>2, <2>4
  <2> QED BY <2>3, <2>4
<1> QED BY <1>2, <1>3, <1>4 DEF KeyInv, VisibleOK, NoRedrop

(* After a tick a request is no longer one that was just taken.            *)
LEMMA TickEndsAtOnce ==
  ASSUME KeyInv, Tick, NEW ip, AtOnce(ip)
  PROVE  Durable(ip)'
<1>1. PICK x \in sent : Target(x) = ip /\ x.late = 0
  BY DEF AtOnce
<1>2. MayRun(x)
  BY <1>1, ConstantsOK DEF MayRun
<1>3. Later(x).entry = x.entry /\ Later(x).late = 1 /\ Later(x) \in sent'
  BY <1>1, <1>2, LaterFacts DEF KeyInv, TypeInv, Tick
<1>4. UNCHANGED stream
  BY DEF Tick, redisVars
<1>5. PICK i \in 1 .. Len(stream) : i = x.entry
  BY <1>1, TargetIsIp DEF KeyInv
<1>6. stream'[i].ip = ip /\ i \in 1 .. Len(stream')
  BY <1>1, <1>4, <1>5 DEF Target
<1>7. \E y \in sent' \cup drops' : y.entry = i /\ y.late > 0
  BY <1>3, <1>5
<1> QED BY <1>6, <1>7 DEF Durable

LEMMA NothingAtOnceAfterTick ==
  ASSUME TypeInv, DropSafe, Tick, NEW ip
  PROVE  ~AtOnce(ip)'
<1> SUFFICES ASSUME NEW y \in sent' PROVE y.late # 0
  BY DEF AtOnce
<1>1. PICK x \in sent : y = Later(x)
  BY DEF Tick
<1>2. x.late \in Nat
  BY TargetIsIp
<1>3. y.late = IF MayRun(x) THEN x.late + 1 ELSE x.late
  BY <1>1, LaterFacts DEF TypeInv
<1>4. CASE MayRun(x)
  BY <1>2, <1>3, <1>4
<1>5. CASE ~MayRun(x)
  BY <1>2, <1>3, <1>5, ConstantsOK DEF MayRun
<1> QED BY <1>4, <1>5

(* An agent that runs a request leaves a full rule, or what has a lasting  *)
(* reason.                                                                 *)
LEMMA DropLeavesFull ==
  ASSUME KeyInv, NEW x \in sent, FirewallDrop(x)
  PROVE  firewall'[Target(x)] = FirewallTtl \/ Durable(Target(x))
<1>1. Target(x) \in Ips /\ x.late \in Nat
  BY TargetIsIp DEF KeyInv
<1>2. CASE x.late > 0
  BY <1>2, LateIsDurable DEF KeyInv
<1>3. CASE x.late = 0
  <2>1. firewall[Target(x)] \in {0, FirewallTtl} \/ Durable(Target(x))
    BY <1>1, <1>3 DEF KeyInv, KeysOK, AtOnce
  <2>2. \/ firewall'[Target(x)] = FirewallTtl
        \/ firewall'[Target(x)] = firewall[Target(x)] /\ firewall[Target(x)] > 0
    BY <1>1, FirewallIs DEF KeyInv
  <2> QED BY <2>1, <2>2
<1> QED BY <1>1, <1>2, <1>3

(* What a step does to keys, rules and fresh requests of an address: the   *)
(* four that change them, and all the others.                              *)
LEMMA KeyCases ==
  ASSUME KeyInv, [Next]_vars
  PROVE  \/ Tick \/ (\E x \in sent : FirewallDrop(x)) \/ RecordBlock
         \/ AskForDrop /\ pc = "enforce" /\ UNCHANGED <<blockKey, stream, cur>>
         \/ /\ UNCHANGED <<blockKey, firewall, sent>>
            /\ \A ip : AtOnce(ip)' <=> AtOnce(ip)
<1>1. ASSUME UNCHANGED sent PROVE \A ip : AtOnce(ip)' <=> AtOnce(ip)
  <2>1. \A x \in sent : x.entry \in 1 .. Len(stream)
    BY TargetIsIp DEF KeyInv
  <2>2. \A x \in sent : Target(x)' = Target(x)
    BY <2>1, HistoryGrows DEF KeyInv, Target
  <2> QED BY <1>1, <2>2 DEF AtOnce
<1>2. CASE AskForDrop /\ pc = "enforce"
  <2>1. sent' # sent \/ UNCHANGED <<firewall, sent>>
    BY <1>2 DEF AskForDrop
  <2>2. UNCHANGED blockKey \/ RecordBlock \/ Tick
    BY DEF Next, WorkerStep, vars, Enqueue, FirewallDrop, Crash, Hang, Abandon, Kill, Start,
        CreateGroup, CreateGroupFails, Read, ReadReplyLost, EmptyPoll, Enrich, AlreadyBlocked,
        NotBlocked, CheckFails, DryRunBlock, WazuhBlock, WazuhFails, WazuhRaises, RecordFails,
        Audit, AuditFails, Ack, AckFails
  <2>3. WazuhBlock \/ WazuhFails => UNCHANGED <<stream, cur>>
    BY DEF WazuhBlock, WazuhFails, redisVars
  <2>4. \/ WazuhBlock \/ WazuhFails \/ Tick \/ (\E x \in sent : FirewallDrop(x)) \/ RecordBlock
        \/ UNCHANGED sent
    BY DEF Next, WorkerStep, vars, wazuhVars, Enqueue, Crash, Hang, Abandon, Kill, Start,
        CreateGroup, CreateGroupFails, Read, ReadReplyLost, EmptyPoll, Enrich, AlreadyBlocked,
        NotBlocked, CheckFails, DryRunBlock, WazuhRaises, RecordFails, Audit, AuditFails, Ack,
        AckFails
  <2> QED BY <1>1, <1>2, <2>1, <2>2, <2>3, <2>4 DEF AskForDrop
<1>3. CASE /\ ~(AskForDrop /\ pc = "enforce") /\ ~Tick /\ ~(\E x \in sent : FirewallDrop(x))
           /\ ~RecordBlock
  <2>1. UNCHANGED <<firewall, sent>>
    BY <1>3, RequestsGrow DEF KeyInv, wazuhVars
  <2>2. UNCHANGED blockKey
    BY <1>3 DEF Next, WorkerStep, vars, Enqueue, Crash, Hang, Abandon, Kill, Start, CreateGroup,
        CreateGroupFails, Read, ReadReplyLost, EmptyPoll, Enrich, AlreadyBlocked, NotBlocked,
        CheckFails, DryRunBlock, WazuhBlock, WazuhFails, WazuhRaises, RecordFails, Audit,
        AuditFails, Ack, AckFails
  <2> QED BY <1>1, <2>1, <2>2
<1> QED BY <1>2, <1>3

(* A request that is run at once finds no rule, or a full one.             *)
LEMMA AtOnceStep ==
  ASSUME KeyInv, [Next]_vars, NEW ip \in Ips, AtOnce(ip)'
  PROVE  firewall'[ip] \in {0, FirewallTtl} \/ Durable(ip)'
<1>1. CASE Tick
  BY <1>1, NothingAtOnceAfterTick DEF KeyInv
<1>2. ASSUME NEW x \in sent, FirewallDrop(x) PROVE firewall'[ip] \in {0, FirewallTtl} \/ Durable(ip)'
  <2>1. CASE ip = Target(x)
    BY <1>2, <2>1, DropLeavesFull, DurableStays
  <2>2. CASE ip # Target(x)
    <3>1. firewall'[ip] = firewall[ip]
      BY <1>2, <2>2, FirewallIs DEF KeyInv
    <3>2. AtOnce(ip)
      BY <1>2 DEF AtOnce, FirewallDrop, redisVars, Target
    <3> QED BY <3>1, <3>2, DurableStays DEF KeyInv, KeysOK
  <2> QED BY <2>1, <2>2
<1>3. CASE AskForDrop /\ pc = "enforce" /\ UNCHANGED <<blockKey, stream, cur>>
  <2>1. firewall' = firewall /\ sent' = sent \cup {[entry |-> cur, late |-> 0]}
    BY <1>3 DEF AskForDrop
  <2>2. CASE ip = task.ip
    BY <1>3, <2>1, <2>2, AskFinds, DurableStays
  <2>3. CASE ip # task.ip
    <3>1. AtOnce(ip)
      BY <1>3, <2>1, <2>3 DEF AtOnce, Target, task
    <3> QED BY <2>1, <3>1, DurableStays DEF KeyInv, KeysOK
  <2> QED BY <2>2, <2>3
<1>4. CASE RecordBlock
  <2>1. UNCHANGED <<firewall, sent, stream>>
    BY <1>4 DEF RecordBlock, redisVars, wazuhVars
  <2>2. AtOnce(ip)
    BY <2>1 DEF AtOnce, Target
  <2> QED BY <2>1, <2>2, DurableStays DEF KeyInv, KeysOK
<1>5. CASE UNCHANGED <<blockKey, firewall, sent>> /\ (\A a : AtOnce(a)' <=> AtOnce(a))
  BY <1>5, DurableStays DEF KeyInv, KeysOK
<1> QED BY <1>1, <1>2, <1>3, <1>4, <1>5, KeyCases

(* What "record" is about to write; a tick that comes in between is a       *)
(* lasting reason.                                                         *)
LEMMA RecordStays ==
  ASSUME KeyInv, [Next]_vars, pc = "record", action = "block", task.ip \in Ips, ~RecordBlock
  PROVE  firewall'[task.ip] = FirewallTtl \/ AtOnce(task.ip)' \/ Durable(task.ip)'
<1> DEFINE ip == task.ip
<1>0. UNCHANGED task
  <2>1. CASE \E t \in Task : Enqueue(t)
    <3>1. UNCHANGED cur
      BY <2>1 DEF Enqueue, workerVars
    <3> QED BY <3>1, InTaskFacts, HistoryGrows DEF KeyInv, task, InTask
  <2>2. CASE ~(\E t \in Task : Enqueue(t))
    BY <2>2 DEF task, InTask, Next, WorkerStep, vars, redisVars, workerVars, Tick, FirewallDrop,
        Crash, Hang, Abandon, Kill, Start, CreateGroup, CreateGroupFails, Read, ReadReplyLost,
        EmptyPoll, Enrich, AlreadyBlocked, NotBlocked, CheckFails, DryRunBlock, WazuhBlock,
        WazuhFails, WazuhRaises, RecordBlock, RecordFails, Audit, AuditFails, Ack, AckFails
  <2> QED BY <2>1, <2>2
<1>1. PICK a \in Ips : a = task.ip
  OBVIOUS
<1>2. firewall[a] = FirewallTtl \/ AtOnce(a) \/ Durable(a)
  BY <1>1 DEF KeyInv, KeysOK
<1>3. firewall'[a] = FirewallTtl \/ AtOnce(a)' \/ Durable(a)'
  <2>1. CASE Durable(a)
    BY <2>1, DurableStays
  <2>2. CASE Tick
    <3>1. UNCHANGED stream /\ cur \in slow'
      BY <2>2 DEF Tick, redisVars
    <3>2. PICK i \in 1 .. Len(stream) : i = cur
      BY InTaskFacts DEF KeyInv, InTask
    <3>3. stream'[i].ip = a /\ i \in 1 .. Len(stream') /\ i \in slow'
      BY <1>1, <3>1, <3>2 DEF task
    <3> QED BY <3>3 DEF Durable
  <2>3. ASSUME NEW x \in sent, FirewallDrop(x), ~Durable(a)
        PROVE  firewall'[a] = FirewallTtl \/ AtOnce(a)' \/ Durable(a)'
    <3>1. CASE Target(x) = a
      BY <2>3, <3>1, DropLeavesFull
    <3>2. CASE Target(x) # a
      <4>1. firewall'[a] = firewall[a]
        BY <2>3, <3>2, FirewallIs DEF KeyInv
      <4>2. AtOnce(a) => AtOnce(a)'
        BY <2>3, <3>2 DEF AtOnce, FirewallDrop, redisVars, Target
      <4> QED BY <1>2, <2>3, <4>1, <4>2
    <3> QED BY <3>1, <3>2
  <2>4. CASE UNCHANGED <<blockKey, firewall, sent>> /\ (\A b : AtOnce(b)' <=> AtOnce(b))
    BY <1>2, <2>1, <2>4
  <2> QED BY <2>1, <2>2, <2>3, <2>4, KeyCases
<1> QED BY <1>0, <1>1, <1>3

LEMMA RecordStep ==
  ASSUME KeyInv, [Next]_vars, pc' = "record", NEW ip \in Ips, ip = task'.ip
  PROVE  /\ action' = "block" => firewall'[ip] = FirewallTtl \/ AtOnce(ip)' \/ Durable(ip)'
         /\ action' \in {"block", "block_skipped"}
<1>1. CASE WazuhBlock
  <2>1. /\ UNCHANGED <<stream, cur>> /\ action' = "block"
        /\ [entry |-> cur, late |-> 0] \in sent'
    BY <1>1 DEF WazuhBlock, AskForDrop, redisVars
  <2>2. AtOnce(ip)'
    BY <2>1 DEF AtOnce, Target, task
  <2> QED BY <2>1, <2>2
<1>2. CASE AlreadyBlocked \/ NotBlocked \/ CheckFails
  BY <1>2 DEF AlreadyBlocked, NotBlocked, CheckFails, GoOn
<1>3. CASE \/ UNCHANGED vars \/ (\E t \in Task : Enqueue(t))
           \/ (\E x \in sent : FirewallDrop(x)) \/ Tick
  <2>1. pc = "record" /\ UNCHANGED <<action, cur>>
    BY <1>3 DEF vars, workerVars, Enqueue, FirewallDrop, Tick
  <2>2. task' = task
    BY <2>1, InTaskFacts, HistoryGrows DEF KeyInv, task, InTask
  <2>3. ~RecordBlock
    BY <2>1 DEF RecordBlock
  <2> QED BY <2>1, <2>2, <2>3, RecordStays DEF KeyInv, KeysOK
<1>4. CASE \/ Crash \/ Hang \/ Kill \/ Start \/ CreateGroup \/ CreateGroupFails
           \/ Read \/ ReadReplyLost \/ EmptyPoll
           \/ (\E S \in SUBSET Sources : Enrich(S)) \/ DryRunBlock \/ WazuhFails \/ WazuhRaises
           \/ RecordBlock \/ RecordFails \/ Audit \/ AuditFails \/ Ack \/ AckFails
  <2>1. pc' # "record"
    BY <1>4 DEF Crash, Hang, Kill, Exit, Start, CreateGroup, CreateGroupFails, Read, ReadReplyLost,
                EmptyPoll, vars, Enrich, DryRunBlock, WazuhFails, WazuhRaises, RecordBlock,
                RecordFails, Audit, AuditFails, FinishTask, Ack, AckFails, NextEntry
  <2> QED BY <2>1
<1> QED BY <1>1, <1>2, <1>3, <1>4 DEF Next, WorkerStep

(* What "ack" has behind it.                                               *)
LEMMA AckedStep ==
  ASSUME KeyInv, [Next]_vars, pc' = "ack"
  PROVE  cur' \in faulted' \/ [entry |-> cur', action |-> action'] \in audit'
<1>1. faulted \subseteq faulted' /\ audit \subseteq audit'
  BY HistoryGrows DEF KeyInv
<1>2. CASE WazuhRaises \/ AuditFails
  BY <1>2 DEF WazuhRaises, AuditFails, TaskFault, workerVars
<1>3. CASE Audit
  BY <1>3 DEF Audit, workerVars
<1>4. CASE ~WazuhRaises /\ ~AuditFails /\ ~Audit
  <2>1. pc = "ack" /\ UNCHANGED <<cur, action>>
    BY <1>4 DEF Next, WorkerStep, vars, workerVars, Enqueue, Tick, FirewallDrop, Crash, Hang, Kill,
        Exit, Abandon, Start, CreateGroup, CreateGroupFails, Read, ReadReplyLost, EmptyPoll,
        Enrich, AlreadyBlocked, NotBlocked,
        CheckFails, GoOn, DryRunBlock, WazuhBlock, WazuhFails, RecordBlock, RecordFails, Ack,
        AckFails, NextEntry
  <2> QED BY <1>1, <2>1 DEF KeyInv, KeysOK
<1> QED BY <1>2, <1>3, <1>4

(* A key comes to outlive its rule only at "record", or when the request   *)
(* it was waiting for is not run within the tick.                          *)
LEMMA KeyOutlives ==
  ASSUME KeyInv, [Next]_vars, NEW ip \in Ips, Outlives(ip)'
  PROVE  AtOnce(ip)' \/ Durable(ip)'
<1>1. /\ \A a \in Ips : blockKey[a] \in 0 .. BlockTtl /\ firewall[a] \in 0 .. FirewallTtl
      /\ Outlives(ip) => AtOnce(ip) \/ Durable(ip)
  BY DEF KeyInv, TypeInv, TypeOK, KeysOK
<1>0. /\ BlockTtl \in Nat /\ FirewallTtl \in Nat /\ FirewallTtl <= BlockTtl
      /\ blockKey'[ip] > firewall'[ip] + (BlockTtl - FirewallTtl)
  BY TtlFacts DEF Outlives
<1>2. CASE Tick
  <2>1. /\ blockKey'[ip] = IF blockKey[ip] > 0 THEN blockKey[ip] - 1 ELSE 0
        /\ firewall'[ip] = IF firewall[ip] > 0 THEN firewall[ip] - 1 ELSE 0
    BY <1>2 DEF Tick
  <2>2. Outlives(ip)
    BY <1>0, <1>1, <2>1 DEF Outlives
  <2> QED BY <1>1, <1>2, <2>2, TickEndsAtOnce, DurableStays
<1>3. ASSUME NEW x \in sent, FirewallDrop(x) PROVE AtOnce(ip)' \/ Durable(ip)'
  <2>1. UNCHANGED <<blockKey, stream>> /\ sent' = sent \ {x}
    BY <1>3 DEF FirewallDrop, redisVars
  <2>2. CASE Target(x) = ip
    <3>1. firewall'[ip] # FirewallTtl
      BY <1>0, <1>1, <2>1
    <3> QED BY <1>3, <2>2, <3>1, DropLeavesFull, DurableStays
  <2>3. CASE Target(x) # ip
    <3>1. firewall'[ip] = firewall[ip]
      BY <1>3, <2>3, FirewallIs DEF KeyInv
    <3>2. AtOnce(ip) => AtOnce(ip)'
      BY <2>1, <2>3 DEF AtOnce, Target
    <3>3. Outlives(ip)
      BY <1>0, <2>1, <3>1 DEF Outlives
    <3> QED BY <1>1, <3>2, <3>3, DurableStays
  <2> QED BY <2>2, <2>3
<1>4. CASE AskForDrop /\ pc = "enforce" /\ UNCHANGED <<blockKey, stream, cur>>
  <2>1. firewall' = firewall /\ sent \subseteq sent'
    BY <1>4 DEF AskForDrop
  <2>2. AtOnce(ip) => AtOnce(ip)'
    BY <1>4, <2>1 DEF AtOnce, Target
  <2>3. Outlives(ip)
    BY <1>0, <1>4, <2>1 DEF Outlives
  <2> QED BY <1>1, <2>2, <2>3, DurableStays
<1>5. CASE RecordBlock
  <2>1. /\ pc = "record" /\ pc' = "audit" /\ task.ip \in Ips
        /\ blockKey' = [blockKey EXCEPT ![task.ip] = BlockTtl]
        /\ UNCHANGED <<stream, cur, firewall, sent, action>>
    BY <1>5 DEF RecordBlock, redisVars, wazuhVars, workerVars, KeyInv, TypeInv, GateOK
  <2>2. AtOnce(ip) => AtOnce(ip)'
    BY <2>1 DEF AtOnce, Target
  <2>3. CASE ip # task.ip
    <3>1. blockKey'[ip] = blockKey[ip]
      BY <2>1, <2>3 DEF KeyInv, TypeInv, TypeOK
    <3>2. Outlives(ip)
      BY <1>0, <2>1, <3>1 DEF Outlives
    <3> QED BY <1>1, <2>2, <3>2, DurableStays
  <2>4. CASE ip = task.ip /\ action = "block"
    <3>1. firewall[ip] # FirewallTtl
      BY <1>0, <1>1, <2>1, <2>4 DEF KeyInv, TypeInv, TypeOK
    <3>2. AtOnce(ip) \/ Durable(ip)
      BY <2>1, <2>4, <3>1 DEF KeyInv, KeysOK
    <3> QED BY <2>2, <3>2, DurableStays
  <2>5. CASE ip = task.ip /\ action = "block_skipped"
    <3>1. PICK i \in 1 .. Len(stream) : i = cur
      BY <2>1, InTaskFacts DEF KeyInv, InTask
    <3>2. stream'[i].ip = ip /\ i = cur' /\ i \in 1 .. Len(stream') /\ action' = "block_skipped"
      BY <2>1, <2>5, <3>1 DEF task
    <3> QED BY <2>1, <3>2 DEF Durable, InTask
  <2> QED BY <2>1, <2>3, <2>4, <2>5 DEF KeyInv, KeysOK
<1>6. CASE UNCHANGED <<blockKey, firewall, sent>> /\ (\A a : AtOnce(a)' <=> AtOnce(a))
  <2>1. Outlives(ip)
    BY <1>0, <1>6 DEF Outlives
  <2> QED BY <1>1, <1>6, <2>1, DurableStays
<1> QED BY <1>2, <1>3, <1>4, <1>5, <1>6, KeyCases

LEMMA KeysStep == KeyInv /\ [Next]_vars => KeysOK'
<1> SUFFICES ASSUME KeyInv, [Next]_vars PROVE KeysOK'
  OBVIOUS
<1>1. \A ip \in Ips : Outlives(ip)' => AtOnce(ip)' \/ Durable(ip)'
  BY KeyOutlives
<1>2. \A ip \in Ips : AtOnce(ip)' => firewall'[ip] \in {0, FirewallTtl} \/ Durable(ip)'
  BY AtOnceStep
<1>3. ASSUME pc' = "record"
      PROVE  /\ action' = "block" =>
                  (firewall[task.ip] = FirewallTtl \/ AtOnce(task.ip) \/ Durable(task.ip))'
             /\ action' \in {"block", "block_skipped"}
  <2>1. TypeInv'
    BY TypeStep DEF KeyInv
  <2>2. task'.ip \in Ips
    BY <1>3, <2>1 DEF TypeInv, GateOK
  <2>3. PICK ip \in Ips : ip = task'.ip
    BY <2>2
  <2>4. /\ action' = "block" => firewall'[ip] = FirewallTtl \/ AtOnce(ip)' \/ Durable(ip)'
        /\ action' \in {"block", "block_skipped"}
    BY <1>3, <2>3, RecordStep
  <2> QED BY <2>3, <2>4 DEF AtOnce, Durable
<1>4. pc' = "ack" => cur' \in faulted' \/ [entry |-> cur', action |-> action'] \in audit'
  BY AckedStep
<1> QED BY <1>1, <1>2, <1>3, <1>4 DEF KeysOK

LEMMA KeyInvariant == Spec => []KeyInv
<1>1. Init => ExcusesOK /\ KeysOK
  <2> SUFFICES ASSUME Init PROVE ExcusesOK /\ KeysOK
    OBVIOUS
  <2>1. \A ip \in Ips : ~Outlives(ip) /\ ~AtOnce(ip)
    BY TtlFacts DEF Init, AtOnce, Outlives
  <2> QED BY <2>1 DEF Init, ExcusesOK, KeysOK, InTask
<1>2. KeyInv /\ [Next]_vars => (ExcusesOK /\ KeysOK)'
  BY ExcusesStep, KeysStep
<1> QED BY <1>1, <1>2, TypeInvariant, DropInvariant, DeliveryInvariant, AuditInvariant,
        VisibleInvariant, PTL DEF Spec, KeyInv

(* A key outlives its rule by more than it was given only for a repeat     *)
(* offender, a dry run, a failing call, a process that died or hung, a     *)
(* request that the agent did not run within the tick, or one that was     *)
(* recorded in a later tick than Wazuh took it.                            *)
THEOREM KeysAreExplained == Spec => []KeysExplained
<1>1. KeyInv => KeysExplained
  <2> SUFFICES ASSUME KeyInv, NEW ip \in Ips, Outlives(ip)
               PROVE  \E i \in 1 .. Len(stream) :
                        /\ stream[i].ip = ip
                        /\ \/ i \in faulted \cup Stranded \cup slow
                           \/ NotRunAtOnce(i)
                           \/ [entry |-> i, action |-> "block_skipped"] \in audit
                           \/ i = cur /\ pc \in InTask /\ action = "block_skipped"
    BY DEF KeysExplained, Outlives
  <2>1. AtOnce(ip) \/ Durable(ip)
    BY DEF KeyInv, KeysOK
  <2>2. CASE AtOnce(ip)
    <3>1. PICK x \in sent : Target(x) = ip
      BY <2>2 DEF AtOnce
    <3>2. x.entry \in 1 .. Len(stream) /\ stream[x.entry].ip = ip /\ NotRunAtOnce(x.entry)
      BY <3>1, TargetIsIp DEF KeyInv, NotRunAtOnce, Target
    <3> QED BY <3>2
  <2>3. CASE Durable(ip)
    BY <2>3 DEF Durable, NotRunAtOnce
  <2> QED BY <2>1, <2>2, <2>3
<1> QED BY <1>1, KeyInvariant, PTL
=============================================================================
