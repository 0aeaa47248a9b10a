------------------------- MODULE AuditIndexer_proofs -------------------------
(***************************************************************************)
(* Proofs about AuditIndexer, for any number of indexers and every value   *)
(* of the constants: the index only grows, as AuditTree says, each         *)
(* decision is in it once, the state file is close behind it, and every    *)
(* fork of the chain has a failure, an overlap or a Ctrl-C at the wrong    *)
(* moment to explain it.                                                   *)
(***************************************************************************)
EXTENDS AuditIndexer, SequenceTheorems, FiniteSetTheorems, TLAPS

(* A process works inside what the group has delivered, and only once the  *)
(* group exists.                                                           *)
CursorOK ==
  /\ \A w \in Workers : pc[w] \in InBatch => cur[w] \in 1 .. end[w] /\ end[w] <= lastDelivered
  /\ ~group => lastDelivered = 0 /\ \A w \in Workers : pc[w] \in {"down", "connect", "setup"}

TypeInv == TypeOK /\ CursorOK /\ published <= MaxDecisions

-----------------------------------------------------------------------------
LEMMA TypeInit == Init => TypeInv
<1> SUFFICES ASSUME Init PROVE TypeInv
  OBVIOUS
<1> USE DEF Init
<1>1. file \in Hashes /\ last \in [Workers -> Hashes]
  BY EmptySeq DEF Genesis, Hashes
<1>2. count \in [Workers -> 0 .. SaveEvery - 1] /\ pc \in [Workers -> Pcs]
  BY IndexerConstants DEF Pcs
<1>3. cur \in [Workers -> Nat] /\ end \in [Workers -> Nat]
  OBVIOUS
<1>4. /\ published \in Nat /\ first \in Nat \ {0} /\ first <= published + 1
      /\ lastDelivered \in 0 .. published /\ overlaps \in Nat /\ cuts \in Nat
  OBVIOUS
<1>5. faults \in 0 .. MaxFaults /\ crashes \in 0 .. MaxCrashes /\ interrupts \in 0 .. MaxInterrupts
  BY IndexerConstants
<1>6. TypeOK
  BY <1>1, <1>2, <1>3, <1>4, <1>5 DEF TypeOK
<1> QED BY <1>6, IndexerConstants DEF TypeInv, CursorOK, InBatch, InLoop

LEMMA TypePublish == TypeInv /\ Publish => TypeInv'
<1> SUFFICES ASSUME TypeInv, Publish PROVE TypeInv'
  OBVIOUS
<1> USE DEF TypeInv, Publish, processVars, historyVars
<1>1. first' \in Nat \ {0} /\ first' <= published' + 1 /\ published' \in Nat
  BY DEF TypeOK
<1>2. TypeOK'
  BY <1>1 DEF TypeOK
<1>3. CursorOK' /\ published' <= MaxDecisions
  BY IndexerConstants DEF CursorOK, TypeOK
<1> QED BY <1>2, <1>3

LEMMA TypeFault == TypeOK /\ Fault => faults' \in 0 .. MaxFaults
BY IndexerConstants DEF TypeOK, Fault

(* Steps outside a batch that only move pc.                                *)
LEMMA TypeStartUp ==
  ASSUME TypeInv, NEW w \in Workers,
         Start(w) \/ CheckHealth(w) \/ StartUpFails(w) \/ EnsureConsumerGroup(w) \/ LoadState(w)
  PROVE  TypeInv'
<1> USE DEF TypeInv, Goto
<1>1. CASE Start(w)
  <2>1. overlaps' \in Nat /\ pc' \in [Workers -> Pcs]
    BY <1>1 DEF Start, TypeOK, Pcs
  <2>2. TypeOK'
    BY <1>1, <2>1 DEF Start, TypeOK, redisVars
  <2> QED BY <1>1, <2>2 DEF Start, TypeOK, CursorOK, redisVars, InBatch, InLoop
<1>2. CASE CheckHealth(w)
  <2>1. TypeOK'
    BY <1>2 DEF CheckHealth, TypeOK, redisVars, historyVars, Pcs
  <2> QED BY <1>2, <2>1 DEF CheckHealth, TypeOK, CursorOK, redisVars, InBatch, InLoop
<1>3. CASE StartUpFails(w)
  <2>1. TypeOK'
    BY <1>3, TypeFault DEF StartUpFails, TypeOK, redisVars, Pcs
  <2> QED BY <1>3, <2>1 DEF StartUpFails, TypeOK, CursorOK, redisVars, InBatch, InLoop
<1>4. CASE EnsureConsumerGroup(w)
  <2>1. lastDelivered' = lastDelivered
    BY <1>4 DEF EnsureConsumerGroup, CursorOK
  <2>2. TypeOK'
    BY <1>4, <2>1 DEF EnsureConsumerGroup, TypeOK, historyVars, Pcs
  <2> QED BY <1>4, <2>1, <2>2 DEF EnsureConsumerGroup, TypeOK, CursorOK, InBatch, InLoop
<1>5. CASE LoadState(w)
  <2>1. /\ count' \in [Workers -> 0 .. SaveEvery - 1]
        /\ last' \in [Workers -> Hashes]
        /\ pc' \in [Workers -> Pcs]
    BY <1>5, IndexerConstants DEF LoadState, TypeOK, Pcs, InLoop
  <2>2. TypeOK'
    BY <1>5, <2>1 DEF LoadState, TypeOK, redisVars, historyVars
  <2> QED BY <1>5, <2>2 DEF LoadState, TypeOK, CursorOK, redisVars, InBatch, InLoop
<1> QED BY <1>1, <1>2, <1>3, <1>4, <1>5

LEMMA DeliverFacts ==
  ASSUME TypeOK, Deliver
  PROVE  /\ NextBatch \subseteq lastDelivered + 1 .. published
         /\ lastDelivered' \in NextBatch /\ \A i \in NextBatch : i <= lastDelivered'
         /\ lastDelivered' \in 0 .. published /\ lastDelivered' >= lastDelivered
         /\ pel' \subseteq 1 .. published /\ delivered' \subseteq 1 .. published
<1>1. NextBatch \subseteq lastDelivered + 1 .. published
  BY DEF NextBatch, Undelivered, TypeOK
<1>2. lastDelivered' \in NextBatch /\ \A i \in NextBatch : i <= lastDelivered'
  BY DEF Deliver
<1>3. lastDelivered' \in 0 .. published /\ lastDelivered' >= lastDelivered
  BY <1>1, <1>2 DEF TypeOK
<1>4. pel' \subseteq 1 .. published /\ delivered' \subseteq 1 .. published
  BY <1>1 DEF Deliver, TypeOK
<1> QED BY <1>1, <1>2, <1>3, <1>4

LEMMA TypeRead ==
  ASSUME TypeInv, NEW w \in Workers, Read(w) \/ ReadReplyLost(w)
  PROVE  TypeInv'
<1> USE DEF TypeInv
<1>1. Deliver
  BY DEF Read, ReadReplyLost
<1>2. /\ NextBatch \subseteq lastDelivered + 1 .. published
      /\ lastDelivered' \in NextBatch /\ \A i \in NextBatch : i <= lastDelivered'
      /\ lastDelivered' \in 0 .. published /\ lastDelivered' >= lastDelivered
      /\ pel' \subseteq 1 .. published /\ delivered' \subseteq 1 .. published
  BY <1>1, DeliverFacts
<1>3. pc[w] = "read" /\ group
  BY DEF Read, ReadReplyLost, CursorOK
<1>4. CASE Read(w)
  <2>1. PICK f \in NextBatch : cur' = [cur EXCEPT ![w] = f]
    BY <1>4 DEF Read
  <2>2. /\ f \in Nat /\ f \in 1 .. lastDelivered' /\ end' = [end EXCEPT ![w] = lastDelivered']
        /\ pc' = [pc EXCEPT ![w] = "index"]
    BY <1>2, <1>4, <2>1 DEF Read, Goto, TypeOK
  <2>3. TypeOK'
    BY <1>2, <1>4, <2>1, <2>2 DEF Read, TypeOK, Pcs, InLoop
  <2>4. CursorOK'
    <3>1. group' = TRUE
      BY <1>3, <1>4 DEF Read
    <3>2. ASSUME NEW v \in Workers, pc'[v] \in InBatch
          PROVE  cur'[v] \in 1 .. end'[v] /\ end'[v] <= lastDelivered'
      BY <1>2, <2>1, <2>2, <3>2 DEF CursorOK, TypeOK
    <3> QED BY <3>1, <3>2 DEF CursorOK
  <2> QED BY <1>4, <2>3, <2>4 DEF Read
<1>5. CASE ReadReplyLost(w)
  <2>1. TypeOK'
    BY <1>2, <1>5, TypeFault DEF ReadReplyLost, TypeOK, processVars
  <2>2. CursorOK'
    BY <1>2, <1>3, <1>5 DEF ReadReplyLost, CursorOK, TypeOK, processVars
  <2> QED BY <1>5, <2>1, <2>2 DEF ReadReplyLost
<1> QED BY <1>4, <1>5

(* A process moves on to the next decision of its reply, or reads again.   *)
LEMMA NextEntryFacts ==
  ASSUME TypeInv, NEW w \in Workers, pc[w] \in InBatch, NextEntry(w),
         UNCHANGED <<end, lastDelivered, group>>
  PROVE  /\ cur' \in [Workers -> Nat] /\ pc' \in [Workers -> Pcs]
         /\ CursorOK'
<1>1. /\ cur' = [cur EXCEPT ![w] = cur[w] + 1]
      /\ pc' = [pc EXCEPT ![w] = IF cur[w] < end[w] THEN "index" ELSE "read"]
  BY DEF NextEntry, Goto, TypeInv, TypeOK
<1>2. cur' \in [Workers -> Nat] /\ pc' \in [Workers -> Pcs]
  BY <1>1 DEF TypeInv, TypeOK, Pcs, InLoop
<1>3. ASSUME NEW v \in Workers, pc'[v] \in InBatch
      PROVE  cur'[v] \in 1 .. end'[v] /\ end'[v] <= lastDelivered'
  BY <1>1, <1>3 DEF TypeInv, TypeOK, CursorOK, InBatch, InLoop
<1>4. group
  BY DEF TypeInv, CursorOK, InBatch, InLoop
<1> QED BY <1>2, <1>3, <1>4 DEF CursorOK

(* A process goes from one call for the decision in hand to another.       *)
LEMMA GotoFacts ==
  ASSUME TypeInv, NEW w \in Workers, NEW label \in Pcs, Goto(w, label),
         label \in InBatch => pc[w] \in InBatch,
         pc[w] \in {"down", "connect", "setup"} => label \in {"down", "connect", "setup"},
         UNCHANGED <<cur, end, lastDelivered, group>>
  PROVE  pc' \in [Workers -> Pcs] /\ CursorOK'
<1>1. pc' = [pc EXCEPT ![w] = label] /\ pc' \in [Workers -> Pcs]
  BY DEF Goto, TypeInv, TypeOK
<1> QED BY <1>1 DEF TypeInv, TypeOK, CursorOK

LEMMA TypeIndex ==
  ASSUME TypeInv, NEW w \in Workers,
         \/ IndexDecision(w) \/ IndexRefused(w) \/ IndexReplyLost(w) \/ IndexRaises(w)
         \/ InterruptIndexing(w)
  PROVE  TypeInv'
<1> USE DEF TypeInv
<1>1. pc[w] = "index" /\ UNCHANGED redisVars
  BY DEF IndexDecision, IndexRefused, IndexReplyLost, IndexRaises, InterruptIndexing
<1>2. cur[w] \in 1 .. published
  BY <1>1 DEF CursorOK, TypeOK, InBatch, InLoop
<1>3. Document(w) \in [entry : 1 .. published, prev : Hashes]
  BY <1>2 DEF Document, TypeOK
<1>4. Hash(Document(w)) \in Hashes
  BY <1>3, AppendProperties DEF Hash, Hashes
<1>5. CASE IndexDecision(w)
  <2>1. pc' \in [Workers -> Pcs] /\ CursorOK'
    BY <1>1, <1>5, GotoFacts DEF IndexDecision, redisVars, Pcs, InBatch, InLoop
  <2> QED BY <1>1, <1>3, <1>4, <1>5, <2>1 DEF IndexDecision, TypeOK, redisVars, historyVars
<1>6. CASE IndexRefused(w)
  <2>1. pc' \in [Workers -> Pcs] /\ CursorOK'
    BY <1>1, <1>6, GotoFacts DEF IndexRefused, redisVars, Pcs, InBatch, InLoop
  <2> QED BY <1>1, <1>2, <1>6, <2>1, TypeFault DEF IndexRefused, TypeOK, redisVars
<1>7. CASE IndexReplyLost(w)
  <2>1. pc' \in [Workers -> Pcs] /\ CursorOK'
    BY <1>1, <1>7, GotoFacts DEF IndexReplyLost, redisVars, Pcs, InBatch, InLoop
  <2> QED BY <1>1, <1>3, <1>7, <2>1, TypeFault DEF IndexReplyLost, TypeOK, redisVars
<1>8. CASE IndexRaises(w)
  <2>1. cur' \in [Workers -> Nat] /\ pc' \in [Workers -> Pcs] /\ CursorOK'
    BY <1>1, <1>8, NextEntryFacts DEF IndexRaises, redisVars, InBatch, InLoop
  <2> QED BY <1>1, <1>2, <1>8, <2>1, TypeFault DEF IndexRaises, TypeOK, redisVars
<1>9. CASE InterruptIndexing(w)
  <2>1. pc' \in [Workers -> Pcs] /\ CursorOK'
    BY <1>1, <1>9, GotoFacts DEF InterruptIndexing, redisVars, Pcs, InBatch, InLoop
  <2>2. interrupts' \in 0 .. MaxInterrupts /\ cuts' \in Nat
    BY <1>9, IndexerConstants DEF InterruptIndexing, TypeOK
  <2> QED BY <1>1, <1>3, <1>9, <2>1, <2>2 DEF InterruptIndexing, TypeOK, redisVars
<1> QED BY <1>5, <1>6, <1>7, <1>8, <1>9

LEMMA TypeAcknowledge ==
  ASSUME TypeInv, NEW w \in Workers, Acknowledge(w) \/ AcknowledgeFails(w)
  PROVE  TypeInv'
<1> USE DEF TypeInv
<1>1. pc[w] = "ack" /\ UNCHANGED <<published, first, group, lastDelivered>>
  BY DEF Acknowledge, AcknowledgeFails, redisVars
<1>2. CASE Acknowledge(w)
  <2>1. count' \in [Workers -> 0 .. SaveEvery - 1]
    <3>1. (count[w] + 1) % SaveEvery \in 0 .. SaveEvery - 1
      BY IndexerConstants DEF TypeOK
    <3>2. count' = [count EXCEPT ![w] = (count[w] + 1) % SaveEvery]
      BY <1>2 DEF Acknowledge, TypeOK
    <3> QED BY <3>1, <3>2 DEF TypeOK
  <2>2. cur' \in [Workers -> Nat] /\ pc' \in [Workers -> Pcs] /\ CursorOK'
    <3>1. CASE Goto(w, "save") /\ UNCHANGED cur
      BY <1>1, <1>2, <3>1, GotoFacts DEF Acknowledge, Pcs, InBatch, InLoop, TypeOK
    <3>2. CASE NextEntry(w)
      BY <1>1, <1>2, <3>2, NextEntryFacts DEF Acknowledge, InBatch, InLoop
    <3> QED BY <1>2, <3>1, <3>2 DEF Acknowledge
  <2> QED BY <1>1, <1>2, <2>1, <2>2 DEF Acknowledge, TypeOK, historyVars
<1>3. CASE AcknowledgeFails(w)
  <2>1. cur' \in [Workers -> Nat] /\ pc' \in [Workers -> Pcs] /\ CursorOK'
    BY <1>1, <1>3, NextEntryFacts DEF AcknowledgeFails, InBatch, InLoop
  <2> QED BY <1>1, <1>3, <2>1, TypeFault DEF AcknowledgeFails, TypeOK, redisVars
<1> QED BY <1>2, <1>3

LEMMA TypeSave ==
  ASSUME TypeInv, NEW w \in Workers, Truncate(w) \/ Write(w) \/ SaveFails(w)
  PROVE  TypeInv'
<1> USE DEF TypeInv
<1>1. /\ pc[w] \in {"save", "write", "close", "closing"}
      /\ UNCHANGED <<redisVars, end>>
  BY DEF Truncate, Write, SaveFails
<1>2. Genesis \in Hashes
  BY EmptySeq DEF Genesis, Hashes
<1>3. CASE Truncate(w)
  <2>1. PICK label \in {"write", "closing"} :
          Goto(w, label) /\ (label = "write" <=> pc[w] = "save")
    BY <1>3 DEF Truncate
  <2>2. pc' \in [Workers -> Pcs] /\ CursorOK'
    BY <1>1, <1>3, <2>1, GotoFacts DEF Truncate, redisVars, Pcs, InBatch, InLoop
  <2> QED BY <1>1, <1>2, <1>3, <2>2 DEF Truncate, TypeOK, redisVars, historyVars
<1>4. ASSUME Write(w) \/ SaveFails(w)
      PROVE  cur' \in [Workers -> Nat] /\ pc' \in [Workers -> Pcs] /\ CursorOK'
  <2>1. CASE pc[w] \in {"save", "write"} /\ NextEntry(w)
    BY <1>1, <2>1, NextEntryFacts DEF redisVars, InBatch, InLoop
  <2>2. CASE pc[w] \in {"close", "closing"} /\ Goto(w, "down") /\ UNCHANGED cur
    BY <1>1, <2>2, GotoFacts DEF redisVars, Pcs, InBatch, InLoop, TypeOK
  <2> QED BY <1>4, <2>1, <2>2 DEF Write, SaveFails
<1>5. CASE Write(w)
  BY <1>1, <1>4, <1>5 DEF Write, TypeOK, redisVars, historyVars
<1>6. CASE SaveFails(w)
  BY <1>1, <1>4, <1>6, TypeFault DEF SaveFails, TypeOK, redisVars
<1> QED BY <1>3, <1>5, <1>6

LEMMA TypeStop ==
  ASSUME TypeInv, NEW w \in Workers, Interrupt(w) \/ Crash(w)
  PROVE  TypeInv'
<1> USE DEF TypeInv
<1>1. CASE Interrupt(w)
  <2>1. pc' \in [Workers -> Pcs] /\ CursorOK'
    BY <1>1, GotoFacts DEF Interrupt, redisVars, Pcs, InBatch, InLoop
  <2>2. interrupts' \in 0 .. MaxInterrupts
    BY <1>1, IndexerConstants DEF Interrupt, TypeOK
  <2> QED BY <1>1, <2>1, <2>2 DEF Interrupt, TypeOK, redisVars
<1>2. CASE Crash(w)
  <2>1. pc' \in [Workers -> Pcs] /\ CursorOK'
    BY <1>2, GotoFacts DEF Crash, redisVars, Pcs, InBatch, InLoop
  <2>2. crashes' \in 0 .. MaxCrashes
    BY <1>2, IndexerConstants DEF Crash, TypeOK
  <2> QED BY <1>2, <2>1, <2>2 DEF Crash, TypeOK, redisVars
<1> QED BY <1>1, <1>2

LEMMA TypeStep == TypeInv /\ [Next]_vars => TypeInv'
<1> SUFFICES ASSUME TypeInv, [Next]_vars PROVE TypeInv'
  OBVIOUS
<1>1. CASE UNCHANGED vars
  BY <1>1 DEF vars, redisVars, processVars, historyVars, TypeInv, TypeOK, CursorOK
<1>2. ASSUME NEW w \in Workers, Step(w) PROVE TypeInv'
  BY <1>1, <1>2, TypeStartUp, TypeRead, TypeIndex, TypeAcknowledge, TypeSave DEF Step, EmptyPoll
<1>3. ASSUME NEW w \in Workers, Interrupt(w) \/ InterruptIndexing(w) \/ Crash(w) PROVE TypeInv'
  BY <1>3, TypeIndex, TypeStop
<1> QED BY <1>1, <1>2, <1>3, TypePublish DEF Next

LEMMA TypeInvariant == Spec => []TypeInv
BY TypeInit, TypeStep, PTL DEF Spec

(* Type correctness of the stream, the index, the state file and every     *)
(* process.                                                                *)
THEOREM IndexerTypeCorrect == Spec => []TypeOK
<1>1. TypeInv => TypeOK
  BY DEF TypeInv
<1> QED BY <1>1, TypeInvariant, PTL

-----------------------------------------------------------------------------
(* The index as a tree.                                                    *)

Known == {Genesis} \cup HashesOf(docs)

(* The decisions of its reply a process has not sent to OpenSearch yet.    *)
Ahead(w) ==
  IF pc[w] = "index" THEN cur[w] .. end[w]
  ELSE IF pc[w] \in InBatch THEN cur[w] + 1 .. end[w]
  ELSE {}

(* Whatever a process or the file remembers is the hash of a document; the *)
(* decisions still ahead are new, and no two processes share one.          *)
TreeInv ==
  /\ file \in Known /\ \A w \in Workers : last[w] \in Known
  /\ NoDanglingPrev
  /\ IndexedOnce
  /\ \A d \in docs : d.entry <= lastDelivered
  /\ \A w \in Workers : \A i \in Ahead(w) : \A d \in docs : d.entry # i
  /\ \A v, w \in Workers : v # w => Ahead(v) \cap Ahead(w) = {}

LEMMA AheadBounded ==
  ASSUME TypeInv, NEW w \in Workers
  PROVE  \A i \in Ahead(w) : i \in Nat /\ i <= lastDelivered
<1>1. /\ cur[w] \in Nat /\ end[w] \in Nat /\ lastDelivered \in Nat
      /\ pc[w] \in InBatch => cur[w] \in 1 .. end[w] /\ end[w] <= lastDelivered
      /\ "index" \in InBatch
  BY DEF TypeInv, TypeOK, CursorOK, InBatch, InLoop
<1> QED BY <1>1 DEF Ahead

(* Steps that store nothing and take no new decision.                      *)
LEMMA TreeQuiet ==
  ASSUME TreeInv, UNCHANGED <<docs, lastDelivered>>, file' \in Known,
         \A w \in Workers : last'[w] \in Known,
         \A w \in Workers : Ahead(w)' \subseteq Ahead(w)
  PROVE  TreeInv' /\ UNCHANGED docs
<1>1. Known' = Known
  BY DEF Known, HashesOf, Genesis, Hash
<1>2. NoDanglingPrev' /\ IndexedOnce'
  BY DEF TreeInv, NoDanglingPrev, IndexedOnce, HashesOf, Hash, Genesis
<1> QED BY <1>1, <1>2 DEF TreeInv

(* The other processes stay where they are.                                *)
LEMMA AheadMoves ==
  ASSUME TypeInv, NEW w \in Workers, NEW label,
         pc' = [pc EXCEPT ![w] = label], cur' = [cur EXCEPT ![w] = cur'[w]], UNCHANGED end
  PROVE  /\ pc'[w] = label
         /\ \A v \in Workers : v # w => Ahead(v)' = Ahead(v)
         /\ label = "index" => Ahead(w)' = cur'[w] .. end[w]
         /\ label \in InBatch \ {"index"} => Ahead(w)' = cur'[w] + 1 .. end[w]
         /\ label \notin InBatch => Ahead(w)' = {}
<1>1. pc'[w] = label /\ \A v \in Workers : v # w => pc'[v] = pc[v] /\ cur'[v] = cur[v]
  BY DEF TypeInv, TypeOK
<1>2. "index" \in InBatch
  BY DEF InBatch, InLoop
<1> QED BY <1>1, <1>2 DEF Ahead

(* A step that goes from one call to a later one for the same decision, or *)
(* out of the reply.                                                       *)
LEMMA AheadGoto ==
  ASSUME TypeInv, NEW w \in Workers, NEW label, Goto(w, label), UNCHANGED <<cur, end>>,
         label # "index", label \in InBatch => pc[w] \in InBatch
  PROVE  /\ \A v \in Workers : Ahead(v)' \subseteq Ahead(v)
         /\ pc[w] = "index" => cur[w] \notin Ahead(w)'
<1>1. pc' = [pc EXCEPT ![w] = label] /\ cur' = [cur EXCEPT ![w] = cur'[w]]
  BY DEF Goto, TypeInv, TypeOK
<1>2. cur[w] \in Nat /\ end[w] \in Nat
  BY DEF TypeInv, TypeOK
<1>3. \A v \in Workers : v # w => Ahead(v)' = Ahead(v)
  BY <1>1, AheadMoves
<1>4. /\ label \in InBatch => Ahead(w)' = cur[w] + 1 .. end[w]
      /\ label \notin InBatch => Ahead(w)' = {}
  BY <1>1, AheadMoves
<1>5. label \in InBatch => cur[w] + 1 .. end[w] \subseteq Ahead(w)
  BY <1>2 DEF Ahead
<1> QED BY <1>2, <1>3, <1>4, <1>5

LEMMA AheadNext ==
  ASSUME TypeInv, NEW w \in Workers, NextEntry(w), UNCHANGED end, pc[w] \in InBatch
  PROVE  \A v \in Workers : Ahead(v)' \subseteq Ahead(v)
<1> DEFINE label == IF cur[w] < end[w] THEN "index" ELSE "read"
<1>1. pc' = [pc EXCEPT ![w] = label] /\ cur' = [cur EXCEPT ![w] = cur'[w]] /\ cur'[w] = cur[w] + 1
  BY DEF NextEntry, Goto, TypeInv, TypeOK
<1>2. cur[w] \in Nat /\ end[w] \in Nat
  BY DEF TypeInv, TypeOK
<1>3. \A v \in Workers : v # w => Ahead(v)' = Ahead(v)
  BY <1>1, AheadMoves
<1>4. Ahead(w)' = {} \/ Ahead(w)' = cur[w] + 1 .. end[w]
  <2>1. label = "index" \/ label \notin InBatch
    BY DEF InBatch, InLoop
  <2> HIDE DEF label
  <2>2. label = "index" => Ahead(w)' = cur'[w] .. end[w]
    BY <1>1, AheadMoves
  <2>3. label \notin InBatch => Ahead(w)' = {}
    BY <1>1, AheadMoves
  <2> QED BY <1>1, <2>1, <2>2, <2>3
<1>5. cur[w] + 1 .. end[w] \subseteq Ahead(w)
  BY <1>2 DEF Ahead
<1> QED BY <1>3, <1>4, <1>5

(* Storing the document of the decision in hand: what AuditTree allows.    *)
LEMMA TreeAdd ==
  ASSUME TypeInv, TreeInv, NEW w \in Workers, pc[w] = "index",
         docs' = docs \cup {Document(w)}, UNCHANGED <<lastDelivered, file>>,
         last' = last \/ last' = [last EXCEPT ![w] = Hash(Document(w))],
         \A v \in Workers : Ahead(v)' \subseteq Ahead(v), cur[w] \notin Ahead(w)'
  PROVE  TreeInv' /\ Tree!Next
<1> DEFINE d0 == Document(w)
<1>1. /\ d0.entry = cur[w] /\ d0.prev = last[w]
      /\ cur[w] \in Ahead(w) /\ cur[w] <= lastDelivered /\ cur[w] \in 1 .. MaxDecisions
  <2>1. d0.entry = cur[w] /\ d0.prev = last[w]
    BY DEF Document
  <2>2. cur[w] \in 1 .. end[w] /\ end[w] <= lastDelivered
    BY DEF TypeInv, CursorOK, InBatch, InLoop
  <2>3. /\ cur[w] \in Nat /\ end[w] \in Nat /\ lastDelivered \in 0 .. published
        /\ published \in Nat /\ published <= MaxDecisions
    BY DEF TypeInv, TypeOK
  <2>4. cur[w] \in 1 .. MaxDecisions /\ cur[w] <= lastDelivered
    BY <2>2, <2>3, IndexerConstants
  <2> QED BY <2>1, <2>2, <2>3, <2>4 DEF Ahead
<1>2. /\ last[w] \in Known /\ file \in Known
      /\ \A v \in Workers : last[v] \in Known
      /\ \A d \in docs : d.prev \in Known
      /\ \A d \in docs : d.entry # cur[w]
  BY <1>1 DEF TreeInv, NoDanglingPrev, Known
<1>3. Known' = Known \cup {Hash(d0)}
  BY DEF Known, HashesOf, Hash
<1>4. file' \in Known' /\ \A v \in Workers : last'[v] \in Known'
  BY <1>2, <1>3 DEF TypeInv, TypeOK
<1>5. NoDanglingPrev'
  BY <1>1, <1>2, <1>3 DEF NoDanglingPrev, Known
<1>6. IndexedOnce'
  BY <1>1, <1>2 DEF TreeInv, IndexedOnce
<1>7. \A d \in docs' : d.entry <= lastDelivered'
  BY <1>1 DEF TreeInv
<1>8. \A v \in Workers : \A i \in Ahead(v)' : \A d \in docs' : d.entry # i
  <2> SUFFICES ASSUME NEW v \in Workers, NEW i \in Ahead(v)', NEW d \in docs' PROVE d.entry # i
    OBVIOUS
  <2>1. CASE d \in docs
    BY <2>1 DEF TreeInv
  <2>2. CASE d = d0
    BY <1>1, <2>2 DEF TreeInv
  <2> QED BY <2>1, <2>2
<1>9. \A v, u \in Workers : v # u => Ahead(v)' \cap Ahead(u)' = {}
  BY DEF TreeInv
<1>10. TreeInv'
  BY <1>4, <1>5, <1>6, <1>7, <1>8, <1>9 DEF TreeInv
<1>11. Tree!Next
  <2>1. last[w] \in Tree!Nodes
    BY <1>2 DEF Known, HashesOf, Hash, Genesis, Tree!Nodes
  <2>2. Tree!Add(cur[w], last[w])
    BY <1>2, <2>1 DEF Tree!Add, Document
  <2> QED BY <1>1, <2>1, <2>2 DEF Tree!Next
<1> QED BY <1>10, <1>11

(* A reply brings decisions no process has seen.                           *)
LEMMA TreeRead ==
  ASSUME TypeInv, TreeInv, NEW w \in Workers, Read(w) \/ ReadReplyLost(w)
  PROVE  TreeInv' /\ UNCHANGED docs
<1>1. Deliver /\ UNCHANGED <<docs, file, last>>
  BY DEF Read, ReadReplyLost, processVars
<1>2. /\ NextBatch \subseteq lastDelivered + 1 .. published
      /\ lastDelivered' \in Nat /\ lastDelivered' >= lastDelivered /\ lastDelivered \in Nat
  BY <1>1, DeliverFacts DEF TypeInv, TypeOK
<1>3. /\ \A v \in Workers : v # w => Ahead(v)' = Ahead(v)
      /\ \A i \in Ahead(w)' : i \in Nat /\ i > lastDelivered
  <2>1. CASE Read(w)
    <3>1. PICK f \in NextBatch : cur' = [cur EXCEPT ![w] = f]
      BY <2>1 DEF Read
    <3>2. /\ pc' = [pc EXCEPT ![w] = "index"] /\ end' = [end EXCEPT ![w] = lastDelivered']
          /\ f \in Nat /\ f > lastDelivered
      BY <1>2, <2>1, <3>1 DEF Read, Goto
    <3>3. \A v \in Workers : v # w => pc'[v] = pc[v] /\ cur'[v] = cur[v] /\ end'[v] = end[v]
      BY <3>1, <3>2 DEF TypeInv, TypeOK
    <3>4. Ahead(w)' = f .. lastDelivered'
      <4>1. pc'[w] = "index" /\ cur'[w] = f /\ end'[w] = lastDelivered'
        BY <3>1, <3>2 DEF TypeInv, TypeOK
      <4> QED BY <4>1 DEF Ahead
    <3>5. \A v \in Workers : v # w => Ahead(v)' = Ahead(v)
      BY <3>3 DEF Ahead
    <3> QED BY <1>2, <3>2, <3>4, <3>5
  <2>2. CASE ReadReplyLost(w)
    <3>1. pc[w] = "read" /\ UNCHANGED <<pc, cur, end>>
      BY <2>2 DEF ReadReplyLost, processVars
    <3> QED BY <3>1 DEF Ahead, InBatch, InLoop
  <2> QED BY <2>1, <2>2
<1>4. Known' = Known /\ NoDanglingPrev' /\ IndexedOnce'
  BY <1>1 DEF TreeInv, NoDanglingPrev, IndexedOnce, Known, HashesOf, Hash, Genesis
<1>5. \A d \in docs : d.entry \in Nat /\ d.entry <= lastDelivered
  BY DEF TreeInv, TypeInv, TypeOK
<1>6. \A d \in docs' : d.entry <= lastDelivered'
  BY <1>1, <1>2, <1>5
<1>7. \A v \in Workers : \A i \in Ahead(v)' : \A d \in docs' : d.entry # i
  BY <1>1, <1>2, <1>3, <1>5 DEF TreeInv
<1>8. \A v, u \in Workers : v # u => Ahead(v)' \cap Ahead(u)' = {}
  <2>1. \A v \in Workers : \A i \in Ahead(v) : i \in Nat /\ i <= lastDelivered
    BY AheadBounded
  <2> QED BY <1>2, <1>3, <2>1 DEF TreeInv
<1> QED BY <1>1, <1>4, <1>6, <1>7, <1>8 DEF TreeInv

LEMMA TreeStep == TypeInv /\ TreeInv /\ [Next]_vars => TreeInv' /\ [Tree!Next]_docs
<1> SUFFICES ASSUME TypeInv, TreeInv, [Next]_vars PROVE TreeInv' /\ [Tree!Next]_docs
  OBVIOUS
<1>1. ASSUME UNCHANGED <<docs, lastDelivered, file, last>>,
             \A v \in Workers : Ahead(v)' \subseteq Ahead(v)
      PROVE  TreeInv' /\ UNCHANGED docs
  BY <1>1, TreeQuiet DEF TreeInv
<1>2. CASE UNCHANGED vars \/ Publish
  BY <1>1, <1>2 DEF vars, redisVars, processVars, Publish, Ahead
<1>3. ASSUME NEW w \in Workers,
             \/ Start(w) \/ CheckHealth(w) \/ StartUpFails(w) \/ Interrupt(w) \/ Crash(w)
             \/ IndexRefused(w)
      PROVE  TreeInv' /\ UNCHANGED docs
  <2>1. /\ UNCHANGED <<docs, lastDelivered, file, last, cur, end>>
        /\ \/ Goto(w, "connect") \/ Goto(w, "setup") \/ Goto(w, "down") \/ Goto(w, "close")
           \/ pc[w] = "index" /\ Goto(w, "ack")
    <3>1. CASE Start(w) \/ CheckHealth(w) \/ StartUpFails(w)
      BY <3>1 DEF Start, CheckHealth, StartUpFails, redisVars
    <3>2. CASE Interrupt(w) \/ Crash(w)
      BY <3>2 DEF Interrupt, Crash, redisVars
    <3>3. CASE IndexRefused(w)
      BY <3>3 DEF IndexRefused, redisVars
    <3> QED BY <1>3, <3>1, <3>2, <3>3
  <2>2. \A v \in Workers : Ahead(v)' \subseteq Ahead(v)
    BY <2>1, AheadGoto DEF InBatch, InLoop
  <2> QED BY <1>1, <2>1, <2>2
<1>4. ASSUME NEW w \in Workers, EnsureConsumerGroup(w) \/ LoadState(w)
      PROVE  TreeInv' /\ UNCHANGED docs
  <2>1. lastDelivered' = lastDelivered
    BY <1>4 DEF EnsureConsumerGroup, LoadState, redisVars, TypeInv, CursorOK
  <2>2. \A v \in Workers : Ahead(v)' \subseteq Ahead(v)
    BY <1>4, AheadGoto DEF EnsureConsumerGroup, LoadState, InBatch, InLoop
  <2>3. \A v \in Workers : last'[v] \in Known
    BY <1>4 DEF EnsureConsumerGroup, LoadState, TreeInv, TypeInv, TypeOK
  <2> QED BY <1>4, <2>1, <2>2, <2>3, TreeQuiet DEF EnsureConsumerGroup, LoadState, TreeInv
<1>5. ASSUME NEW w \in Workers, IndexDecision(w) \/ IndexReplyLost(w) \/ InterruptIndexing(w)
      PROVE  TreeInv' /\ Tree!Next
  <2>1. /\ pc[w] = "index" /\ docs' = docs \cup {Document(w)}
        /\ UNCHANGED <<lastDelivered, file, cur, end>>
        /\ last' = last \/ last' = [last EXCEPT ![w] = Hash(Document(w))]
        /\ Goto(w, "ack") \/ Goto(w, "close")
    BY <1>5 DEF IndexDecision, IndexReplyLost, InterruptIndexing, redisVars
  <2>2. (\A v \in Workers : Ahead(v)' \subseteq Ahead(v)) /\ cur[w] \notin Ahead(w)'
    BY <2>1, AheadGoto DEF InBatch, InLoop
  <2> QED BY <2>1, <2>2, TreeAdd
<1>6. ASSUME NEW w \in Workers, IndexRaises(w) \/ Acknowledge(w) \/ AcknowledgeFails(w)
      PROVE  TreeInv' /\ UNCHANGED docs
  <2>1. /\ pc[w] \in {"index", "ack"} /\ UNCHANGED <<docs, lastDelivered, file, last, end>>
        /\ \/ NextEntry(w)
           \/ pc[w] = "ack" /\ Goto(w, "save") /\ UNCHANGED cur
    <3>1. CASE IndexRaises(w)
      BY <3>1 DEF IndexRaises, redisVars
    <3>2. CASE Acknowledge(w)
      BY <3>2 DEF Acknowledge
    <3>3. CASE AcknowledgeFails(w)
      BY <3>3 DEF AcknowledgeFails, redisVars
    <3> QED BY <1>6, <3>1, <3>2, <3>3
  <2>2. \A v \in Workers : Ahead(v)' \subseteq Ahead(v)
    BY <2>1, AheadGoto, AheadNext DEF InBatch, InLoop
  <2> QED BY <1>1, <2>1, <2>2
<1>7. ASSUME NEW w \in Workers, Truncate(w) \/ Write(w) \/ SaveFails(w)
      PROVE  TreeInv' /\ UNCHANGED docs
  <2>1. /\ UNCHANGED <<docs, lastDelivered, last, end>>
        /\ file' \in {file, Genesis, last[w]}
        /\ \/ NextEntry(w) /\ pc[w] \in {"save", "write"}
           \/ Goto(w, "down") /\ UNCHANGED cur
           \/ Goto(w, "closing") /\ UNCHANGED cur
           \/ Goto(w, "write") /\ pc[w] = "save" /\ UNCHANGED cur
    BY <1>7 DEF Truncate, Write, SaveFails, redisVars
  <2>2. \A v \in Workers : Ahead(v)' \subseteq Ahead(v)
    BY <2>1, AheadGoto, AheadNext DEF InBatch, InLoop
  <2>3. file' \in Known /\ \A v \in Workers : last'[v] \in Known
    BY <2>1 DEF TreeInv, Known
  <2> QED BY <2>1, <2>2, <2>3, TreeQuiet
<1>8. ASSUME NEW w \in Workers, Step(w) PROVE TreeInv' /\ [Tree!Next]_docs
  BY <1>2, <1>3, <1>4, <1>5, <1>6, <1>7, <1>8, TreeRead DEF Step, EmptyPoll
<1> QED BY <1>2, <1>3, <1>5, <1>8 DEF Next

LEMMA TreeInit == Init => TreeInv /\ Tree!Init
BY DEF Init, TreeInv, Known, NoDanglingPrev, IndexedOnce, Ahead, Genesis, Tree!Init, InBatch, InLoop

LEMMA TreeInvariant == Spec => []TreeInv
<1>1. Init => TreeInv
  BY TreeInit
<1>2. TypeInv /\ TreeInv /\ [Next]_vars => TreeInv'
  BY TreeStep
<1> QED BY <1>1, <1>2, TypeInvariant, PTL DEF Spec

(* Every document chains to one that is in the index.                      *)
THEOREM NoLinkDangles == Spec => []NoDanglingPrev
<1>1. TreeInv => NoDanglingPrev
  BY DEF TreeInv
<1> QED BY <1>1, TreeInvariant, PTL

(* No two documents are for one decision, however many indexers run.       *)
THEOREM DecisionsAreIndexedOnce == Spec => []IndexedOnce
<1>1. TreeInv => IndexedOnce
  BY DEF TreeInv
<1> QED BY <1>1, TreeInvariant, PTL

(* The indexer implements the abstract index.                              *)
THEOREM IndexerGrowsTree == Spec => GrowsTree
<1>1. Init => Tree!Init
  BY TreeInit
<1>2. TypeInv /\ TreeInv /\ [Next]_vars => [Tree!Next]_docs
  BY TreeStep
<1> QED BY <1>1, <1>2, TypeInvariant, TreeInvariant, PTL DEF Spec, GrowsTree, Tree!Spec

-----------------------------------------------------------------------------
(* What acknowledging means.                                               *)

Answered(i) == i \in refused \/ \E d \in docs : d.entry = i

(* A process acknowledges what OpenSearch has answered for.                *)
AckInv ==
  /\ AckedMeansIndexed
  /\ \A w \in Workers : pc[w] = "ack" => Answered(cur[w])

LEMMA AckQuiet ==
  ASSUME AckInv, docs \subseteq docs', refused \subseteq refused',
         delivered' \ pel' \subseteq delivered \ pel,
         \A v \in Workers : pc'[v] = "ack" => \/ pc[v] = "ack" /\ cur'[v] = cur[v]
                                              \/ Answered(cur[v])' /\ cur'[v] = cur[v]
  PROVE  AckInv'
<1>1. \A i : Answered(i) => Answered(i)'
  BY DEF Answered
<1>2. AckedMeansIndexed'
  BY DEF AckInv, AckedMeansIndexed
<1>3. \A v \in Workers : pc'[v] = "ack" => Answered(cur[v])'
  BY <1>1 DEF AckInv
<1>4. ASSUME NEW v \in Workers, pc'[v] = "ack" PROVE Answered(cur[v])'
  BY <1>3, <1>4
<1> QED BY <1>2, <1>4 DEF AckInv, Answered

LEMMA AckStep == TypeInv /\ AckInv /\ [Next]_vars => AckInv'
<1> SUFFICES ASSUME TypeInv, AckInv, [Next]_vars PROVE AckInv'
  OBVIOUS
<1>1. CASE UNCHANGED vars \/ Publish
  BY <1>1, AckQuiet DEF vars, redisVars, processVars, historyVars, Publish
<1>2. ASSUME NEW w \in Workers, NEW label, label # "ack", Goto(w, label), UNCHANGED cur
      PROVE  \A v \in Workers : pc'[v] = "ack" => pc[v] = "ack" /\ cur'[v] = cur[v]
  BY <1>2 DEF Goto, TypeInv, TypeOK
<1>3. ASSUME NEW w \in Workers, NextEntry(w)
      PROVE  \A v \in Workers : pc'[v] = "ack" => pc[v] = "ack" /\ cur'[v] = cur[v]
  BY <1>3 DEF NextEntry, Goto, TypeInv, TypeOK
<1>4. ASSUME NEW w \in Workers,
             \/ Start(w) \/ CheckHealth(w) \/ StartUpFails(w) \/ EnsureConsumerGroup(w)
             \/ LoadState(w) \/ Interrupt(w) \/ Crash(w)
      PROVE  AckInv'
  <2>1. UNCHANGED <<docs, refused, delivered, pel, cur>>
    BY <1>4 DEF Start, CheckHealth, StartUpFails, EnsureConsumerGroup, LoadState, Interrupt, Crash,
                redisVars, historyVars
  <2>2. \/ Goto(w, "connect") \/ Goto(w, "setup") \/ Goto(w, "down") \/ Goto(w, "load")
        \/ Goto(w, "read") \/ Goto(w, "close")
    BY <1>4 DEF Start, CheckHealth, StartUpFails, EnsureConsumerGroup, LoadState, Interrupt, Crash
  <2>3. \A v \in Workers : pc'[v] = "ack" => pc[v] = "ack" /\ cur'[v] = cur[v]
    BY <1>2, <2>1, <2>2
  <2> QED BY <2>1, <2>3, AckQuiet
<1>5. ASSUME NEW w \in Workers, Read(w) \/ ReadReplyLost(w) PROVE AckInv'
  <2>1. UNCHANGED <<docs, refused>> /\ delivered' \ pel' \subseteq delivered \ pel
    BY <1>5 DEF Read, ReadReplyLost, Deliver
  <2>2. \A v \in Workers : pc'[v] = "ack" => pc[v] = "ack" /\ cur'[v] = cur[v]
    BY <1>5 DEF Read, ReadReplyLost, Goto, processVars, TypeInv, TypeOK
  <2> QED BY <2>1, <2>2, AckQuiet
<1>6. ASSUME NEW w \in Workers, IndexDecision(w) \/ IndexRefused(w) \/ IndexReplyLost(w)
      PROVE  AckInv'
  <2>1. /\ docs \subseteq docs' /\ refused \subseteq refused'
        /\ UNCHANGED <<delivered, pel, cur>> /\ Goto(w, "ack")
    BY <1>6 DEF IndexDecision, IndexRefused, IndexReplyLost, redisVars, historyVars
  <2>2. cur[w] \in refused' \/ Document(w) \in docs'
    BY <1>6 DEF IndexDecision, IndexRefused, IndexReplyLost
  <2>3. Answered(cur[w])'
    BY <2>1, <2>2 DEF Answered, Document
  <2>4. \A v \in Workers : v # w => pc'[v] = pc[v]
    BY <2>1 DEF Goto, TypeInv, TypeOK
  <2> QED BY <2>1, <2>3, <2>4, AckQuiet
<1>7. ASSUME NEW w \in Workers,
             \/ IndexRaises(w) \/ InterruptIndexing(w) \/ AcknowledgeFails(w)
             \/ Truncate(w) \/ Write(w) \/ SaveFails(w)
      PROVE  AckInv'
  <2>1. docs \subseteq docs' /\ refused \subseteq refused' /\ UNCHANGED <<delivered, pel>>
    BY <1>7 DEF IndexRaises, InterruptIndexing, AcknowledgeFails, Truncate, Write, SaveFails,
                redisVars, historyVars
  <2>2. \/ NextEntry(w)
        \/ UNCHANGED cur /\ Goto(w, "close")
        \/ UNCHANGED cur /\ Goto(w, "write")
        \/ UNCHANGED cur /\ Goto(w, "closing")
        \/ UNCHANGED cur /\ Goto(w, "down")
    BY <1>7 DEF IndexRaises, InterruptIndexing, AcknowledgeFails, Truncate, Write, SaveFails
  <2>3. \A v \in Workers : pc'[v] = "ack" => pc[v] = "ack" /\ cur'[v] = cur[v]
    BY <1>2, <1>3, <2>2
  <2> QED BY <2>1, <2>3, AckQuiet
<1>8. ASSUME NEW w \in Workers, Acknowledge(w) PROVE AckInv'
  <2>1. /\ pc[w] = "ack" /\ pel' = pel \ {cur[w]} /\ UNCHANGED <<docs, refused, delivered>>
        /\ NextEntry(w) \/ (Goto(w, "save") /\ UNCHANGED cur)
    BY <1>8 DEF Acknowledge, historyVars
  <2>2. \A v \in Workers : pc'[v] = "ack" => pc[v] = "ack" /\ cur'[v] = cur[v]
    BY <1>2, <1>3, <2>1
  <2>3. \A i \in delivered' \ pel' : i = cur[w] \/ i \in delivered \ pel
    BY <2>1
  <2>4. Answered(cur[w])
    BY <2>1 DEF AckInv
  <2>5. AckedMeansIndexed'
    BY <2>1, <2>3, <2>4 DEF AckInv, AckedMeansIndexed, Answered
  <2> QED BY <2>1, <2>2, <2>5 DEF AckInv, Answered
<1>9. ASSUME NEW w \in Workers, Step(w) PROVE AckInv'
  BY <1>1, <1>4, <1>5, <1>6, <1>7, <1>8, <1>9 DEF Step, EmptyPoll
<1> QED BY <1>1, <1>4, <1>7, <1>9 DEF Next

(* A decision leaves the pending list only once OpenSearch has stored or   *)
(* refused its document.                                                   *)
THEOREM AcknowledgedIsIndexed == Spec => []AckedMeansIndexed
<1>1. Init => AckInv
  BY DEF Init, AckInv, AckedMeansIndexed
<1>2. AckInv => AckedMeansIndexed
  BY DEF AckInv
<1> QED BY <1>1, <1>2, AckStep, TypeInvariant, PTL DEF Spec

(* Nothing is indexed twice and nothing acknowledged is missing.           *)
THEOREM DecisionsAreKept == Spec => []DecisionsKept
BY DecisionsAreIndexedOnce, AcknowledgedIsIndexed, PTL DEF DecisionsKept

-----------------------------------------------------------------------------
(* How far the state file lags behind the chain.                           *)

Behind(w) == Len(last[w]) - Len(file)

(* While no call fails and none runs beside another there is one process,  *)
(* and what it stored since the file was written is what it has counted,   *)
(* the document not yet acknowledged included.                             *)
LagInv ==
  faults = 0 /\ overlaps = 0 =>
    /\ \A v, w \in Workers : Running(v) /\ Running(w) => v = w
    /\ \A w \in Workers :
         /\ pc[w] \in {"read", "index"} => Behind(w) <= count[w]
         /\ pc[w] = "ack" => Behind(w) <= count[w] + 1
         /\ pc[w] = "save" => Behind(w) <= SaveEvery

LEMMA LengthsAreNat == TypeInv => Len(file) \in Nat /\ \A w \in Workers : Len(last[w]) \in Nat
BY LenProperties DEF TypeInv, TypeOK, Hashes

(* The count wraps exactly when the file is due.                           *)
LEMMA CountWraps ==
  ASSUME NEW c \in 0 .. SaveEvery - 1
  PROVE  /\ (c + 1) % SaveEvery = 0 => c + 1 = SaveEvery
         /\ (c + 1) % SaveEvery # 0 => (c + 1) % SaveEvery = c + 1
<1>1. CASE c + 1 = SaveEvery
  BY <1>1, IndexerConstants
<1>2. CASE c + 1 # SaveEvery
  <2>1. c + 1 \in 0 .. SaveEvery - 1 /\ SaveEvery \in Nat \ {0}
    BY <1>2, IndexerConstants
  <2>2. (c + 1) % SaveEvery = c + 1
    BY <2>1
  <2> QED BY <2>2
<1> QED BY <1>1, <1>2

LEMMA FaultCounts == TypeInv /\ Fault => faults' # 0
BY DEF TypeInv, TypeOK, Fault

LEMMA LagStep == TypeInv /\ LagInv /\ [Next]_vars => LagInv'
<1> SUFFICES ASSUME TypeInv, LagInv, [Next]_vars, faults' = 0, overlaps' = 0
             PROVE  /\ \A v, w \in Workers : Running(v)' /\ Running(w)' => v = w
                    /\ \A w \in Workers :
                         /\ pc'[w] \in {"read", "index"} => Behind(w)' <= count'[w]
                         /\ pc'[w] = "ack" => Behind(w)' <= count'[w] + 1
                         /\ pc'[w] = "save" => Behind(w)' <= SaveEvery
  BY DEF LagInv
<1> DEFINE Lags(v) == /\ pc[v] \in {"read", "index"} => Behind(v) <= count[v]
                      /\ pc[v] = "ack" => Behind(v) <= count[v] + 1
                      /\ pc[v] = "save" => Behind(v) <= SaveEvery
           One     == \A v, w \in Workers : Running(v) /\ Running(w) => v = w
<1>1. ~Fault
  BY FaultCounts
<1>2. pc \in [Workers -> Pcs] /\ last \in [Workers -> Hashes] /\ file \in Hashes
      /\ cur \in [Workers -> Nat] /\ count \in [Workers -> 0 .. SaveEvery - 1]
  BY DEF TypeInv, TypeOK
<1>3. Len(file) \in Nat /\ Len(Genesis) = 0 /\ \A v \in Workers : Len(last[v]) \in Nat
  BY LengthsAreNat DEF Genesis
<1>4. CASE UNCHANGED vars \/ Publish
  BY <1>4 DEF vars, redisVars, processVars, historyVars, Publish, LagInv, Behind, Running
<1>5. ASSUME NEW w \in Workers, Start(w)
      PROVE  One' /\ \A v \in Workers : Lags(v)'
  <2>1. faults = 0 /\ overlaps = 0 /\ \A v \in Workers : ~Running(v)
    BY <1>5 DEF Start, TypeInv, TypeOK
  <2>2. \A v \in Workers : v # w => pc'[v] = "down"
    BY <1>2, <1>5, <2>1 DEF Start, Goto, Running
  <2>3. pc'[w] = "connect"
    BY <1>2, <1>5 DEF Start, Goto
  <2> QED BY <2>2, <2>3 DEF Running
<1>6. ASSUME NEW w \in Workers, faults = 0, overlaps = 0, pc[w] # "down",
             \A v \in Workers : v # w => pc'[v] = pc[v], Lags(w)'
      PROVE  One' /\ \A v \in Workers : Lags(v)'
  <2>1. One
    BY <1>6 DEF LagInv
  <2>2. \A v \in Workers : v # w => pc'[v] = "down"
    BY <1>6, <2>1 DEF Running
  <2> QED BY <1>6, <2>2 DEF Running
<1>7. ASSUME NEW w \in Workers, Step(w) \/ Interrupt(w) \/ InterruptIndexing(w) \/ Crash(w), ~Start(w)
      PROVE  One' /\ \A v \in Workers : Lags(v)'
  <2>1. faults = 0 /\ overlaps = 0
    BY <1>1, <1>7 DEF Step, Interrupt, InterruptIndexing, Crash, CheckHealth, StartUpFails,
       EnsureConsumerGroup, LoadState, Read, ReadReplyLost, EmptyPoll, IndexDecision, IndexRefused,
       IndexReplyLost, IndexRaises, Acknowledge, AcknowledgeFails, Truncate, Write, SaveFails,
       historyVars, vars
  <2>2. Lags(w)
    BY <2>1 DEF LagInv
  <2>3. CASE \/ CheckHealth(w) \/ EnsureConsumerGroup(w)
             \/ Interrupt(w) \/ InterruptIndexing(w) \/ Crash(w)
    <3>1. /\ pc[w] # "down" /\ \A v \in Workers : v # w => pc'[v] = pc[v]
          /\ pc'[w] \in {"setup", "load", "close", "down"}
      BY <1>2, <2>3 DEF CheckHealth, EnsureConsumerGroup, Interrupt, InterruptIndexing, Crash, Goto,
                        Running, InLoop
    <3> QED BY <1>6, <2>1, <3>1
  <2>4. CASE LoadState(w)
    <3>1. /\ pc[w] # "down" /\ \A v \in Workers : v # w => pc'[v] = pc[v]
          /\ pc'[w] = "read" /\ last'[w] = file /\ file' = file /\ count'[w] = 0
      BY <1>2, <2>4 DEF LoadState, Goto, historyVars
    <3>2. Lags(w)'
      BY <1>3, <3>1 DEF Behind
    <3> QED BY <1>6, <2>1, <3>1, <3>2
  <2>5. CASE Read(w)
    <3>1. /\ pc[w] = "read" /\ \A v \in Workers : v # w => pc'[v] = pc[v]
          /\ pc'[w] = "index" /\ UNCHANGED <<last, file, count>>
      BY <1>2, <2>5 DEF Read, Goto
    <3>2. Lags(w)'
      BY <2>2, <3>1 DEF Behind
    <3> QED BY <1>6, <2>1, <3>1, <3>2
  <2>6. CASE IndexDecision(w)
    <3>1. /\ pc[w] = "index" /\ \A v \in Workers : v # w => pc'[v] = pc[v]
          /\ pc'[w] = "ack" /\ UNCHANGED <<file, count>>
          /\ last'[w] = Append(last[w], cur[w])
      BY <1>2, <2>6 DEF IndexDecision, Goto, Hash, Document, historyVars
    <3>2. Len(last'[w]) = Len(last[w]) + 1
      BY <1>2, <3>1, AppendProperties DEF Hashes
    <3>3. Behind(w)' = Behind(w) + 1 /\ Behind(w) <= count[w] /\ count'[w] = count[w]
      BY <1>3, <2>2, <3>1, <3>2 DEF Behind
    <3>4. Behind(w) \in Int /\ count[w] \in Int
      BY <1>2, <1>3 DEF Behind
    <3>5. Lags(w)'
      BY <3>1, <3>3, <3>4
    <3> QED BY <1>6, <2>1, <3>1, <3>5
  <2>7. CASE Acknowledge(w)
    <3>1. /\ pc[w] = "ack" /\ \A v \in Workers : v # w => pc'[v] = pc[v]
          /\ UNCHANGED <<file, last>> /\ count'[w] = (count[w] + 1) % SaveEvery
          /\ \/ (count[w] + 1) % SaveEvery = 0 /\ pc'[w] = "save"
             \/ (count[w] + 1) % SaveEvery # 0 /\ pc'[w] \in {"index", "read"}
      BY <1>2, <2>7 DEF Acknowledge, NextEntry, Goto
    <3>2. count[w] \in 0 .. SaveEvery - 1
      BY <1>2
    <3>3. /\ pc'[w] = "save" => count[w] + 1 = SaveEvery
          /\ pc'[w] # "save" => count'[w] = count[w] + 1 /\ pc'[w] \in {"index", "read"}
      BY <3>1, <3>2, CountWraps
    <3>4. Behind(w)' = Behind(w) /\ Behind(w) <= count[w] + 1
      BY <2>2, <3>1 DEF Behind
    <3>5. Lags(w)'
      BY <3>1, <3>3, <3>4
    <3> QED BY <1>6, <2>1, <3>1, <3>5
  <2>8. CASE Truncate(w)
    <3>1. /\ pc[w] # "down" /\ \A v \in Workers : v # w => pc'[v] = pc[v]
          /\ pc'[w] \in {"write", "closing"}
      BY <1>2, <2>8 DEF Truncate, Goto
    <3> QED BY <1>6, <2>1, <3>1
  <2>9. CASE Write(w)
    <3>1. /\ pc[w] # "down" /\ \A v \in Workers : v # w => pc'[v] = pc[v]
          /\ pc'[w] \in {"index", "read", "down"}
          /\ file' = last[w] /\ last' = last /\ count' = count
      BY <1>2, <2>9 DEF Write, NextEntry, Goto, historyVars
    <3>2. Behind(w)' = 0 /\ count'[w] >= 0
      BY <1>2, <1>3, <3>1 DEF Behind
    <3>3. Lags(w)'
      BY <3>1, <3>2
    <3> QED BY <1>6, <2>1, <3>1, <3>3
  <2>10. CASE EmptyPoll(w)
    BY <1>4, <2>10 DEF EmptyPoll
  <2> QED
    BY <1>1, <1>7, <2>3, <2>4, <2>5, <2>6, <2>7, <2>8, <2>9, <2>10
    DEF Step, StartUpFails, ReadReplyLost, IndexRefused, IndexReplyLost, IndexRaises,
        AcknowledgeFails, SaveFails
<1>8. ASSUME NEW w \in Workers, Step(w) \/ Interrupt(w) \/ InterruptIndexing(w) \/ Crash(w)
      PROVE  One' /\ \A v \in Workers : Lags(v)'
  BY <1>5, <1>7, <1>8
<1> QED BY <1>4, <1>8 DEF Next

(* A process that dies while no call fails and none runs beside it leaves  *)
(* a state file at most SaveEvery documents behind what it had stored.     *)
THEOREM StateFileIsClose == Spec => []StateLagBounded
<1>1. Init => LagInv
  BY DEF Init, LagInv, Running
<1>2. TypeInv /\ LagInv => StateLagBounded
  <2> SUFFICES ASSUME TypeInv, LagInv, NEW w \in Workers, pc[w] \in InLoop \ {"write"},
                      faults = 0, overlaps = 0
               PROVE  Len(last[w]) - Len(file) <= SaveEvery
    BY DEF StateLagBounded
  <2>1. count[w] \in 0 .. SaveEvery - 1 /\ SaveEvery \in Nat \ {0}
    BY IndexerConstants DEF TypeInv, TypeOK
  <2>2. /\ pc[w] \in {"read", "index"} => Behind(w) <= count[w]
        /\ pc[w] = "ack" => Behind(w) <= count[w] + 1
        /\ pc[w] = "save" => Behind(w) <= SaveEvery
    BY DEF LagInv
  <2>3. Behind(w) \in Int
    BY LengthsAreNat DEF Behind
  <2>4. Behind(w) <= SaveEvery
    BY <2>1, <2>2, <2>3 DEF InLoop
  <2> QED BY <2>4 DEF Behind
<1>3. TypeInv /\ LagInv /\ [Next]_vars => LagInv'
  BY LagStep
<1> QED BY <1>1, <1>2, <1>3, TypeInvariant, PTL DEF Spec

-----------------------------------------------------------------------------
(* How often the chain forks.                                              *)

Runners == {w \in Workers : Running(w)}

Loaded == {w \in Workers : pc[w] \in InLoop \cup {"close", "closing"}}

Prevs == {d.prev : d \in docs}

HeadsOf(L, l, f) == IF L = {} THEN {f} ELSE {l[w] : w \in L}

CountOf(R) == IF R = {} THEN 1 ELSE Cardinality(R)

(* The hashes that have no successor yet and that a process, or the first  *)
(* one to load the file, will chain its next document to.                  *)
Heads == HeadsOf(Loaded, last, file) \ Prevs

Claimants == CountOf(Runners)

(* The forks to come if nothing fails any more: all processes but one for  *)
(* each free hash will chain to a document that has a successor.           *)
Debt == Claimants - Cardinality(Heads)

(* Every fork, made or still to come, was paid for by a failed call, a     *)
(* crash, an overlap or a cut.                                             *)
ForkInv ==
  /\ IsFiniteSet(docs) /\ IsFiniteSet(Prevs)
  /\ Forks + Debt <= faults + crashes + overlaps + cuts

LEMMA ImageBound ==
  ASSUME NEW S, IsFiniteSet(S), NEW f
  PROVE  LET T == {f[x] : x \in S} IN IsFiniteSet(T) /\ Cardinality(T) <= Cardinality(S)
<1> DEFINE T == {f[x] : x \in S}
           g == [x \in S |-> f[x]]
<1>1. g \in Surjection(S, T)
  BY DEF Surjection
<1>2. IsFiniteSet(T) /\ Cardinality(T) <= Cardinality(S)
  <2> HIDE DEF T, g
  <2> QED BY <1>1, FS_Surjection
<1> QED BY <1>2

(* There is one process, running or to come, for every free hash.          *)
LEMMA HeadsBounded ==
  ASSUME NEW R, NEW L, L \subseteq R, IsFiniteSet(R), NEW l, NEW f, NEW P
  PROVE  /\ IsFiniteSet(HeadsOf(L, l, f) \ P) /\ Cardinality(HeadsOf(L, l, f) \ P) \in Nat
         /\ CountOf(R) \in Nat \ {0} /\ Cardinality(HeadsOf(L, l, f) \ P) <= CountOf(R)
         /\ L = {} => Cardinality(HeadsOf(L, l, f) \ P) <= 1
<1> DEFINE A == HeadsOf(L, l, f)
           H == A \ P
           c == CountOf(R)
<1>1. c \in Nat \ {0} /\ (R # {} => c = Cardinality(R))
  BY FS_CardinalityType, FS_EmptySet DEF CountOf
<1>2. IsFiniteSet(A) /\ Cardinality(A) \in Nat /\ Cardinality(A) <= c /\ (L = {} => Cardinality(A) = 1)
  <2>1. CASE L = {}
    <3>1. A = {f}
      BY <2>1 DEF HeadsOf
    <3> HIDE DEF A
    <3>2. IsFiniteSet(A) /\ Cardinality(A) = 1
      BY <3>1, FS_Singleton
    <3> QED BY <1>1, <3>2
  <2>2. CASE L # {}
    <3>1. A = {l[w] : w \in L}
      BY <2>2 DEF HeadsOf
    <3>2. IsFiniteSet(L) /\ Cardinality(L) <= Cardinality(R)
      BY FS_Subset
    <3> HIDE DEF A
    <3>3. IsFiniteSet(A) /\ Cardinality(A) <= Cardinality(L)
      BY <3>1, <3>2, ImageBound
    <3>4. Cardinality(A) \in Nat /\ Cardinality(L) \in Nat /\ Cardinality(R) \in Nat
      BY <3>2, <3>3, FS_CardinalityType
    <3> QED BY <1>1, <2>2, <3>2, <3>3, <3>4
  <2> QED BY <2>1, <2>2
<1> HIDE DEF A, c
<1>3. IsFiniteSet(H) /\ Cardinality(H) <= Cardinality(A)
  BY <1>2, FS_Subset
<1>4. Cardinality(H) \in Nat
  <2> HIDE DEF H
  <2> QED BY <1>3, FS_CardinalityType
<1>5. Cardinality(H) <= c /\ (L = {} => Cardinality(H) <= 1)
  BY <1>1, <1>2, <1>3, <1>4
<1> QED BY <1>1, <1>3, <1>4, <1>5 DEF A, H, c

(* The same for the state before a step and for the one after it.          *)
LEMMA DebtFacts ==
  ASSUME IsFiniteSet(Workers)
  PROVE  /\ Loaded \subseteq Runners /\ IsFiniteSet(Runners)
         /\ Loaded' \subseteq Runners' /\ IsFiniteSet(Runners')
         /\ IsFiniteSet(Heads) /\ Cardinality(Heads) \in Nat
         /\ Claimants \in Nat \ {0} /\ Cardinality(Heads) <= Claimants
         /\ Loaded = {} => Cardinality(Heads) <= 1
         /\ IsFiniteSet(Heads') /\ Cardinality(Heads') \in Nat
         /\ Claimants' \in Nat \ {0} /\ Cardinality(Heads') <= Claimants'
         /\ Debt = Claimants - Cardinality(Heads) /\ Debt \in Nat
         /\ Debt' = Claimants' - Cardinality(Heads') /\ Debt' \in Nat
<1>1. Loaded \subseteq Runners /\ Loaded' \subseteq Runners'
  BY DEF Loaded, Runners, Running, InLoop
<1>2. IsFiniteSet(Runners) /\ IsFiniteSet(Runners')
  <2>1. Runners \in SUBSET Workers /\ Runners' \in SUBSET Workers
    BY DEF Runners
  <2> QED BY <2>1, FS_Subset
<1>3. /\ IsFiniteSet(Heads) /\ Cardinality(Heads) \in Nat
      /\ Claimants \in Nat \ {0} /\ Cardinality(Heads) <= Claimants
      /\ Loaded = {} => Cardinality(Heads) <= 1
  BY <1>1, <1>2, HeadsBounded DEF Heads, Claimants
<1>4. /\ IsFiniteSet(Heads') /\ Cardinality(Heads') \in Nat
      /\ Claimants' \in Nat \ {0} /\ Cardinality(Heads') <= Claimants'
  BY <1>1, <1>2, HeadsBounded DEF Heads, Claimants
<1>5. Debt = Claimants - Cardinality(Heads) /\ Debt' = Claimants' - Cardinality(Heads')
  BY DEF Debt
<1>6. Debt \in Nat /\ Debt' \in Nat
  BY <1>3, <1>4, <1>5
<1> QED BY <1>1, <1>2, <1>3, <1>4, <1>5, <1>6

LEMMA GotoSets ==
  ASSUME TypeInv, NEW w \in Workers, NEW label, Goto(w, label)
  PROVE  /\ Runners' = IF label = "down" THEN Runners \ {w} ELSE Runners \cup {w}
         /\ Loaded' = IF label \in InLoop \cup {"close",
             "closing"} THEN Loaded \cup {w} ELSE Loaded \ {w}
<1>1. pc'[w] = label /\ \A v \in Workers : v # w => pc'[v] = pc[v]
  BY DEF Goto, TypeInv, TypeOK
<1> QED BY <1>1 DEF Runners, Running, Loaded

(* The claims do not change while processes only go on, or write a file    *)
(* nobody is to load.                                                      *)
LEMMA DebtStays ==
  ASSUME UNCHANGED <<docs, last>>, Runners' = Runners, Loaded' = Loaded,
         file' = file \/ Loaded # {}
  PROVE  Debt' = Debt /\ Forks' = Forks /\ Prevs' = Prevs
<1>1. Prevs' = Prevs /\ Forks' = Forks
  BY DEF Prevs, Forks
<1>2. HeadsOf(Loaded, last, file)' = HeadsOf(Loaded, last, file)
  BY DEF HeadsOf
<1>3. Heads' = Heads /\ Claimants' = Claimants
  BY <1>1, <1>2 DEF Heads, Claimants, CountOf
<1> QED BY <1>1, <1>3 DEF Debt

LEMMA DebtStarts ==
  ASSUME IsFiniteSet(Workers), NEW w \in Workers, UNCHANGED <<docs, last, file>>,
         Runners' = Runners \cup {w}, Loaded' = Loaded
  PROVE  /\ Forks' = Forks /\ Prevs' = Prevs
         /\ Runners = {} => Debt' <= Debt
         /\ Debt' <= Debt + 1
<1>1. Prevs' = Prevs /\ Forks' = Forks
  BY DEF Prevs, Forks
<1>2. Heads' = Heads
  <2>1. HeadsOf(Loaded, last, file)' = HeadsOf(Loaded, last, file)
    BY DEF HeadsOf
  <2> QED BY <1>1, <2>1 DEF Heads
<1>3. IsFiniteSet(Runners) /\ Claimants \in Nat \ {0} /\ Claimants' \in Nat \ {0}
      /\ Cardinality(Heads) \in Nat
      /\ Debt = Claimants - Cardinality(Heads) /\ Debt' = Claimants' - Cardinality(Heads')
  BY DebtFacts
<1>4. Claimants' <= Claimants + 1 /\ (Runners = {} => Claimants' = 1)
  <2>1. Claimants' = Cardinality(Runners')
    BY DEF Claimants, CountOf
  <2>2. CASE Runners = {}
    <3>1. Runners' = {w}
      BY <2>2
    <3>2. Cardinality(Runners') = 1
      BY <3>1, FS_Singleton
    <3> QED BY <1>3, <2>1, <3>2
  <2>3. CASE Runners # {}
    <3>1. Claimants = Cardinality(Runners)
      BY <2>3 DEF Claimants, CountOf
    <3>2. \/ Cardinality(Runners \cup {w}) = Cardinality(Runners)
          \/ Cardinality(Runners \cup {w}) = Cardinality(Runners) + 1
      BY <1>3, FS_AddElement
    <3>3. Cardinality(Runners') = Cardinality(Runners \cup {w})
      OBVIOUS
    <3> QED BY <1>3, <2>1, <2>3, <3>1, <3>2, <3>3
  <2> QED BY <2>2, <2>3
<1> QED BY <1>1, <1>2, <1>3, <1>4

(* Loading the file makes its hash one more head, or changes nothing.      *)
LEMMA DebtLoads ==
  ASSUME IsFiniteSet(Workers), TypeInv, NEW w \in Workers, w \notin Loaded, UNCHANGED <<docs,
                                                                                        file>>,
         last' = [last EXCEPT ![w] = file], Runners' = Runners, Loaded' = Loaded \cup {w}
  PROVE  Forks' = Forks /\ Prevs' = Prevs /\ Debt' <= Debt
<1>1. Prevs' = Prevs /\ Forks' = Forks
  BY DEF Prevs, Forks
<1>2. last'[w] = file /\ \A v \in Loaded : last'[v] = last[v]
  BY DEF TypeInv, TypeOK, Loaded
<1>3. Heads \subseteq Heads'
  <2>1. HeadsOf(Loaded', last', file') = {last'[v] : v \in Loaded'}
    BY DEF HeadsOf
  <2>2. HeadsOf(Loaded, last, file) \subseteq {last'[v] : v \in Loaded'}
    BY <1>2 DEF HeadsOf
  <2> QED BY <1>1, <2>1, <2>2 DEF Heads
<1>4. /\ IsFiniteSet(Heads') /\ Cardinality(Heads) \in Nat /\ Cardinality(Heads') \in Nat
      /\ Claimants \in Nat
      /\ Debt = Claimants - Cardinality(Heads) /\ Debt' = Claimants' - Cardinality(Heads')
  BY DebtFacts
<1>5. Cardinality(Heads) <= Cardinality(Heads')
  BY <1>3, <1>4, FS_Subset
<1>6. Claimants' = Claimants
  BY DEF Claimants, CountOf
<1> QED BY <1>1, <1>4, <1>5, <1>6

(* A process that ends takes at most one head with it; when it was alone   *)
(* and saved, the file keeps it.                                           *)
LEMMA DebtLeaves ==
  ASSUME IsFiniteSet(Workers), NEW w \in Runners, UNCHANGED <<docs, last>>,
         Runners' = Runners \ {w}, Loaded' = Loaded \ {w},
         file' = file \/ (w \in Loaded /\ file' = last[w])
  PROVE  /\ Forks' = Forks /\ Prevs' = Prevs
         /\ Debt' <= Debt + 1
         /\ w \in Loaded /\ file' = last[w] => Debt' <= Debt
<1>1. Prevs' = Prevs /\ Forks' = Forks
  BY DEF Prevs, Forks
<1>2. /\ IsFiniteSet(Runners) /\ IsFiniteSet(Heads) /\ IsFiniteSet(Heads') /\ Loaded \subseteq Runners
      /\ Cardinality(Heads) \in Nat /\ Cardinality(Heads') \in Nat
      /\ Claimants \in Nat \ {0} /\ Claimants' \in Nat \ {0}
      /\ Debt = Claimants - Cardinality(Heads) /\ Debt' = Claimants' - Cardinality(Heads')
  BY DebtFacts
<1>3. Cardinality(Heads) <= Cardinality(Heads') + 1
  <2>1. Heads \ {last[w]} \subseteq Heads'
    BY <1>1 DEF Heads, HeadsOf
  <2>2. Cardinality(Heads) <= Cardinality(Heads \ {last[w]}) + 1
    <3>1. \/ Cardinality(Heads \ {last[w]}) = Cardinality(Heads)
          \/ Cardinality(Heads \ {last[w]}) = Cardinality(Heads) - 1
      BY <1>2, FS_RemoveElement
    <3> QED BY <1>2, <3>1
  <2>3. /\ Cardinality(Heads \ {last[w]}) <= Cardinality(Heads')
        /\ Cardinality(Heads \ {last[w]}) \in Nat
    <3>1. IsFiniteSet(Heads \ {last[w]})
      BY <1>2, FS_RemoveElement
    <3> QED BY <1>2, <2>1, <3>1, FS_Subset, FS_CardinalityType
  <2> QED BY <1>2, <2>2, <2>3
<1>4. Cardinality(Runners) \in Nat /\ Cardinality(Runners \ {w}) = Cardinality(Runners) - 1
      /\ Claimants = Cardinality(Runners)
  <2>1. Cardinality(Runners) \in Nat
    BY <1>2, FS_CardinalityType
  <2>2. Cardinality(Runners \ {w}) = Cardinality(Runners) - 1
    BY <1>2, FS_RemoveElement
  <2>3. Claimants = Cardinality(Runners)
    BY DEF Claimants, CountOf
  <2> QED BY <2>1, <2>2, <2>3
<1>5. CASE Runners' # {}
  <2>1. Claimants' = Claimants - 1
    BY <1>4, <1>5 DEF Claimants, CountOf
  <2> QED BY <1>1, <1>2, <1>3, <2>1
<1>6. CASE Runners' = {}
  <2>1. Claimants' = 1 /\ Claimants = 1
    <3>1. Runners \ {w} = {}
      BY <1>6
    <3>2. Cardinality(Runners \ {w}) = 0
      BY <3>1, FS_EmptySet
    <3>3. Claimants' = 1
      BY <1>6 DEF Claimants, CountOf
    <3> QED BY <1>4, <3>2, <3>3
  <2>2. w \in Loaded /\ file' = last[w] => Heads' = Heads
    <3> SUFFICES ASSUME w \in Loaded, file' = last[w] PROVE Heads' = Heads
      OBVIOUS
    <3>1. Loaded = {w} /\ Loaded' = {}
      BY <1>2, <1>6
    <3>2. HeadsOf(Loaded, last, file) = {last[w]} /\ HeadsOf(Loaded', last', file') = {last[w]}
      BY <3>1 DEF HeadsOf
    <3> QED BY <1>1, <3>2 DEF Heads
  <2> QED BY <1>1, <1>2, <1>3, <2>1, <2>2
<1> QED BY <1>5, <1>6

(* A hash ends in its own decision, so the hash of a new decision is new.  *)
LEMMA HashIsNew ==
  ASSUME TypeInv, TreeInv, NEW w \in Workers, pc[w] = "index"
  PROVE  /\ Hash(Document(w)) \notin Known
         /\ \A v \in Workers : last[v] # Hash(Document(w))
         /\ Hash(Document(w)) \notin Prevs /\ last[w] # Hash(Document(w))
<1>1. /\ cur[w] \in Nat /\ last[w] \in Seq(Nat)
      /\ \A d \in docs : d.entry \in Nat /\ d.prev \in Seq(Nat)
  BY DEF TypeInv, TypeOK, Hashes
<1>2. \A d \in docs : d.entry # cur[w]
  <2>1. cur[w] \in 1 .. end[w]
    BY DEF TypeInv, CursorOK, InBatch, InLoop
  <2>2. cur[w] \in Ahead(w)
    BY <1>1, <2>1 DEF Ahead, TypeInv, TypeOK
  <2> QED BY <2>2 DEF TreeInv
<1>3. Hash(Document(w)) = Append(last[w], cur[w])
  BY DEF Hash, Document
<1>4. Append(last[w], cur[w]) # <<>>
  BY <1>1, AppendProperties
<1>5. ASSUME NEW d \in docs, Append(last[w], cur[w]) = Append(d.prev, d.entry) PROVE FALSE
  <2>1. /\ Len(Append(last[w], cur[w])) = Len(last[w]) + 1
        /\ Append(last[w], cur[w])[Len(last[w]) + 1] = cur[w]
    BY <1>1, AppendProperties
  <2>2. /\ Len(Append(d.prev, d.entry)) = Len(d.prev) + 1
        /\ Append(d.prev, d.entry)[Len(d.prev) + 1] = d.entry
    BY <1>1, AppendProperties
  <2>3. Len(last[w]) \in Nat /\ Len(d.prev) \in Nat
    BY <1>1, LenProperties
  <2>4. Len(last[w]) = Len(d.prev)
    BY <1>5, <2>1, <2>2, <2>3
  <2> QED BY <1>2, <1>5, <2>1, <2>2, <2>4
<1>6. Hash(Document(w)) \notin Known
  BY <1>3, <1>4, <1>5 DEF Known, HashesOf, Hash, Genesis
<1>7. Prevs \subseteq Known /\ \A v \in Workers : last[v] \in Known
  BY DEF Prevs, TreeInv, NoDanglingPrev, Known
<1> QED BY <1>6, <1>7

(* A document either uses up a head or is a fork.  The process that knows  *)
(* it was stored has a head again.                                         *)
LEMMA DebtAdds ==
  ASSUME TypeInv, TreeInv, ForkInv, NEW w \in Workers, pc[w] = "index",
         docs' = docs \cup {Document(w)}, Runners' = Runners, Loaded' = Loaded, w \in Loaded,
         last' = last \/ last' = [last EXCEPT ![w] = Hash(Document(w))]
  PROVE  /\ IsFiniteSet(docs') /\ IsFiniteSet(Prevs')
         /\ Forks' + Debt' <= Forks + Debt + 1
         /\ last' # last => Forks' + Debt' <= Forks + Debt
<1> DEFINE p == last[w]
           h == Hash(Document(w))
<1>1. IsFiniteSet(docs) /\ IsFiniteSet(Prevs)
  BY DEF ForkInv
<1>2. Prevs' = Prevs \cup {p}
  BY DEF Prevs, Document
<1>3. /\ IsFiniteSet(docs') /\ Cardinality(docs') <= Cardinality(docs) + 1
      /\ Cardinality(docs) \in Nat /\ Cardinality(docs') \in Nat
  <2>1. Cardinality(docs) \in Nat
    BY <1>1, FS_CardinalityType
  <2>2. /\ IsFiniteSet(docs \cup {Document(w)})
        /\ \/ Cardinality(docs \cup {Document(w)}) = Cardinality(docs)
           \/ Cardinality(docs \cup {Document(w)}) = Cardinality(docs) + 1
    BY <1>1, FS_AddElement
  <2> QED BY <2>1, <2>2
<1>4. /\ IsFiniteSet(Prevs') /\ Cardinality(Prevs) \in Nat /\ Cardinality(Prevs') \in Nat
      /\ p \in Prevs => Cardinality(Prevs') = Cardinality(Prevs)
      /\ p \notin Prevs => Cardinality(Prevs') = Cardinality(Prevs) + 1
  <2>1. /\ IsFiniteSet(Prevs \cup {p}) /\ Cardinality(Prevs) \in Nat
        /\ p \in Prevs => Cardinality(Prevs \cup {p}) = Cardinality(Prevs)
        /\ p \notin Prevs => Cardinality(Prevs \cup {p}) = Cardinality(Prevs) + 1
    BY <1>1, FS_AddElement, FS_CardinalityType
  <2> QED BY <1>2, <2>1
<1>5. /\ IsFiniteSet(Heads) /\ IsFiniteSet(Heads')
      /\ Cardinality(Heads) \in Nat /\ Cardinality(Heads') \in Nat /\ Claimants \in Nat
      /\ Debt = Claimants - Cardinality(Heads) /\ Debt' = Claimants' - Cardinality(Heads')
  BY DebtFacts, IndexerConstants
<1>6. Claimants' = Claimants
  BY DEF Claimants, CountOf
<1>7. Forks = Cardinality(docs) - Cardinality(Prevs) /\ Forks' = Cardinality(docs') - Cardinality(Prevs')
  BY DEF Forks, Prevs
<1>8. Heads = {last[v] : v \in Loaded} \ Prevs /\ Heads' = {last'[v] : v \in Loaded} \ (Prevs \cup {p})
  BY <1>2 DEF Heads, HeadsOf
<1>9. Heads \ {p} \subseteq Heads' /\ (p \in Prevs => p \notin Heads)
      /\ (last' # last => h \in Heads' /\ h \notin Heads)
  <2>1. last \in [Workers -> Hashes] /\ Loaded \subseteq Workers
    BY DEF TypeInv, TypeOK, Loaded
  <2>2. h \notin Prevs /\ h # p /\ \A v \in Workers : last[v] # h
    BY HashIsNew
  <2>3. CASE last' = last
    BY <1>8, <2>3
  <2>4. CASE last' = [last EXCEPT ![w] = h]
    <3> HIDE DEF h
    <3>1. last'[w] = h /\ \A v \in Loaded : v # w => last'[v] = last[v]
      BY <2>1, <2>4
    <3> QED BY <1>8, <2>1, <2>2, <3>1
  <2> QED BY <2>3, <2>4
<1> HIDE DEF p, h
<1>10. /\ IsFiniteSet(Heads \ {p}) /\ Cardinality(Heads \ {p}) \in Nat
       /\ p \notin Heads => Cardinality(Heads \ {p}) = Cardinality(Heads)
       /\ Cardinality(Heads) <= Cardinality(Heads \ {p}) + 1
  <2>1. /\ IsFiniteSet(Heads \ {p})
        /\ p \notin Heads => Cardinality(Heads \ {p}) = Cardinality(Heads)
        /\ p \in Heads => Cardinality(Heads \ {p}) = Cardinality(Heads) - 1
    BY <1>5, FS_RemoveElement
  <2> QED BY <1>5, <2>1, FS_CardinalityType
<1>11. Cardinality(Heads \ {p}) <= Cardinality(Heads')
  BY <1>5, <1>9, FS_Subset
<1>12. last' # last => Cardinality(Heads \ {p}) + 1 <= Cardinality(Heads')
  <2> SUFFICES ASSUME last' # last PROVE Cardinality(Heads \ {p}) + 1 <= Cardinality(Heads')
    OBVIOUS
  <2>1. h \notin Heads \ {p} /\ (Heads \ {p}) \cup {h} \subseteq Heads'
    BY <1>9
  <2>2. Cardinality((Heads \ {p}) \cup {h}) = Cardinality(Heads \ {p}) + 1
    BY <1>10, <2>1, FS_AddElement
  <2>3. Cardinality((Heads \ {p}) \cup {h}) <= Cardinality(Heads')
    BY <1>5, <2>1, FS_Subset
  <2> QED BY <2>2, <2>3
<1>13. PICK d, e, q, r, k, l, m, n \in Nat :
         /\ d = Cardinality(docs) /\ e = Cardinality(docs') /\ q = Cardinality(Prevs) /\ r = Cardinality(Prevs')
         /\ k = Cardinality(Heads) /\ l = Cardinality(Heads') /\ m = Cardinality(Heads \ {p}) /\ n = Claimants
  BY <1>3, <1>4, <1>5, <1>10
<1>14. /\ e <= d + 1 /\ k <= m + 1 /\ m <= l /\ (last' # last => m + 1 <= l)
       /\ (r = q /\ m = k) \/ r = q + 1
  BY <1>3, <1>4, <1>9, <1>10, <1>11, <1>12, <1>13
<1>15. Forks + Debt = (d - q) + (n - k) /\ Forks' + Debt' = (e - r) + (n - l)
  BY <1>5, <1>6, <1>7, <1>13
<1>16. (e - r) + (n - l) <= (d - q) + (n - k) + 1
  BY <1>14
<1>17. last' # last => (e - r) + (n - l) <= (d - q) + (n - k)
  BY <1>14
<1> QED BY <1>3, <1>4, <1>15, <1>16, <1>17

Budget == faults + crashes + overlaps + cuts

(* One of the four counts is raised, or none.                              *)
Raised(c) ==
  \/ c = 0 /\ UNCHANGED <<faults, crashes, overlaps, cuts>>
  \/ c = 1 /\ faults' = faults + 1 /\ UNCHANGED <<crashes, overlaps, cuts>>
  \/ c = 1 /\ crashes' = crashes + 1 /\ UNCHANGED <<faults, overlaps, cuts>>
  \/ c = 1 /\ overlaps' = overlaps + 1 /\ UNCHANGED <<faults, crashes, cuts>>
  \/ c = 1 /\ cuts' = cuts + 1 /\ UNCHANGED <<faults, crashes, overlaps>>

LEMMA BudgetPays ==
  ASSUME TypeInv, NEW c \in {0, 1}, Raised(c)
  PROVE  Budget' = Budget + c
<1>1. PICK f, k, o, u \in Nat : f = faults /\ k = crashes /\ o = overlaps /\ u = cuts
  BY DEF TypeInv, TypeOK
<1>2. PICK f1, k1, o1, u1 : f1 = faults' /\ k1 = crashes' /\ o1 = overlaps' /\ u1 = cuts'
  OBVIOUS
<1>3. Budget = f + k + o + u /\ Budget' = f1 + k1 + o1 + u1
  BY <1>1, <1>2 DEF Budget
<1>4. \/ c = 0 /\ f1 = f /\ k1 = k /\ o1 = o /\ u1 = u
      \/ c = 1 /\ f1 = f + 1 /\ k1 = k /\ o1 = o /\ u1 = u
      \/ c = 1 /\ f1 = f /\ k1 = k + 1 /\ o1 = o /\ u1 = u
      \/ c = 1 /\ f1 = f /\ k1 = k /\ o1 = o + 1 /\ u1 = u
      \/ c = 1 /\ f1 = f /\ k1 = k /\ o1 = o /\ u1 = u + 1
  BY <1>1, <1>2 DEF Raised
<1>5. f1 + k1 + o1 + u1 = f + k + o + u + c
  BY <1>1, <1>4
<1> QED BY <1>3, <1>5

LEMMA ForkPays ==
  ASSUME TypeInv, ForkInv, IsFiniteSet(docs'), IsFiniteSet(Prevs'),
         NEW c \in {0, 1}, Forks' + Debt' <= Forks + Debt + c,
         Forks + Debt \in Int, Forks' + Debt' \in Int,
         Budget' = Budget + c
  PROVE  ForkInv'
<1>1. Forks + Debt <= Budget
  BY DEF ForkInv, Budget
<1>2. Budget \in Int
  BY DEF TypeInv, TypeOK, Budget
<1>3. Forks' + Debt' <= Budget'
  <2>1. PICK a, b, g, n \in Int : a = Forks + Debt /\ b = Forks' + Debt' /\ g = Budget /\ n = Budget'
    BY <1>2
  <2> QED BY <1>1, <2>1
<1> QED BY <1>3 DEF ForkInv, Budget

(* A step that stores no document: what it may do to the claims, and who   *)
(* pays.                                                                   *)
LEMMA ForkQuiet ==
  ASSUME TypeInv, ForkInv, UNCHANGED docs, Forks' = Forks, Prevs' = Prevs,
         NEW c \in {0, 1}, Debt' <= Debt + c, Budget' = Budget + c
  PROVE  ForkInv'
<1>1. /\ Debt \in Nat /\ Debt' \in Nat
      /\ Forks \in Int
  <2>1. Forks = Cardinality(docs) - Cardinality(Prevs)
    BY DEF Forks, Prevs
  <2>2. Cardinality(docs) \in Nat /\ Cardinality(Prevs) \in Nat
    BY FS_CardinalityType DEF ForkInv
  <2> QED BY <2>1, <2>2, DebtFacts, IndexerConstants
<1>2. Forks' + Debt' <= Forks + Debt + c /\ Forks + Debt \in Int /\ Forks' + Debt' \in Int
  <2>1. PICK f, d, e \in Int : f = Forks /\ d = Debt /\ e = Debt'
    BY <1>1
  <2>2. e <= d + c /\ Forks' + Debt' = f + e /\ Forks + Debt = f + d
    BY <2>1
  <2>3. f + e <= f + d + c
    BY <2>2
  <2> QED BY <2>2, <2>3
<1>3. IsFiniteSet(docs') /\ IsFiniteSet(Prevs')
  BY DEF ForkInv
<1> QED BY <1>2, <1>3, ForkPays

LEMMA ForkStep == TypeInv /\ TreeInv /\ ForkInv /\ [Next]_vars => ForkInv'
<1> SUFFICES ASSUME TypeInv, TreeInv, ForkInv, [Next]_vars PROVE ForkInv'
  OBVIOUS
<1>1. IsFiniteSet(Workers)
  BY IndexerConstants
<1>2. pc \in [Workers -> Pcs] /\ last \in [Workers -> Hashes] /\ faults \in Nat /\ crashes \in Nat
      /\ Loaded \subseteq Runners
  BY <1>1, DebtFacts DEF TypeInv, TypeOK
<1>3. ASSUME UNCHANGED <<docs, last>>, Runners' = Runners, Loaded' = Loaded,
             file' = file \/ Loaded # {},
             NEW c \in {0, 1}, Budget' = Budget + c
      PROVE  ForkInv'
  <2>1. Debt' = Debt /\ Forks' = Forks /\ Prevs' = Prevs /\ Debt \in Nat
    BY <1>1, <1>3, DebtStays, DebtFacts
  <2>2. Debt' <= Debt + c
    BY <2>1
  <2> QED BY <1>3, <2>1, <2>2, ForkQuiet
<1>4. CASE UNCHANGED vars \/ Publish
  <2>1. UNCHANGED <<docs, last, pc, file, faults, crashes, overlaps, cuts>>
    BY <1>4 DEF vars, redisVars, processVars, historyVars, Publish
  <2>2. Runners' = Runners /\ Loaded' = Loaded
    BY <2>1 DEF Runners, Running, Loaded
  <2>3. Budget' = Budget + 0
    BY <2>1, BudgetPays DEF Raised
  <2> QED BY <1>3, <2>1, <2>2, <2>3
<1>5. ASSUME NEW w \in Workers, Start(w) PROVE ForkInv'
  <2>1. /\ w \notin Runners /\ Goto(w, "connect") /\ UNCHANGED <<docs, last, file, faults,
                                                                 crashes, cuts>>
        /\ overlaps' = IF Runners # {} THEN overlaps + 1 ELSE overlaps
    BY <1>5 DEF Start, Runners
  <2>2. Runners' = Runners \cup {w} /\ Loaded' = Loaded
    BY <1>2, <2>1, GotoSets DEF InLoop
  <2>3. /\ Forks' = Forks /\ Prevs' = Prevs
        /\ Runners = {} => Debt' <= Debt
        /\ Debt' <= Debt + 1 /\ Debt \in Nat
    BY <1>1, <2>1, <2>2, DebtStarts, DebtFacts
  <2>4. CASE Runners = {}
    <3>1. Budget' = Budget + 0
      BY <2>1, <2>4, BudgetPays DEF Raised
    <3>2. Debt' <= Debt + 0
      BY <2>3, <2>4
    <3> QED BY <2>1, <2>3, <3>1, <3>2, ForkQuiet
  <2>5. CASE Runners # {}
    <3>1. Budget' = Budget + 1
      BY <2>1, <2>5, BudgetPays DEF Raised
    <3> QED BY <2>1, <2>3, <3>1, ForkQuiet
  <2> QED BY <2>4, <2>5
<1>6. ASSUME NEW w \in Workers, LoadState(w) PROVE ForkInv'
  <2>1. /\ pc[w] = "load" /\ Goto(w, "read") /\ last' = [last EXCEPT ![w] = file]
        /\ UNCHANGED <<docs, file, faults, crashes, overlaps, cuts>>
    BY <1>6 DEF LoadState, historyVars
  <2>2. w \in Runners /\ w \notin Loaded
    BY <2>1 DEF Runners, Running, Loaded, InLoop
  <2>3. Runners' = Runners /\ Loaded' = Loaded \cup {w}
    BY <2>1, <2>2, GotoSets DEF InLoop
  <2>4. Forks' = Forks /\ Prevs' = Prevs /\ Debt' <= Debt /\ Debt \in Nat
    BY <1>1, <2>1, <2>2, <2>3, DebtLoads, DebtFacts
  <2>5. Budget' = Budget + 0 /\ Debt' <= Debt + 0
    BY <2>1, <2>4, BudgetPays DEF Raised
  <2> QED BY <2>1, <2>4, <2>5, ForkQuiet
<1>7. ASSUME NEW w \in Workers, Goto(w, "down"), w \in Runners, UNCHANGED <<docs, last>>,
             \/ /\ file' = file
                /\ \/ faults' = faults + 1 /\ UNCHANGED <<crashes, overlaps, cuts>>
                   \/ crashes' = crashes + 1 /\ UNCHANGED <<faults, overlaps, cuts>>
             \/ w \in Loaded /\ file' = last[w] /\ UNCHANGED <<faults, crashes, overlaps, cuts>>
      PROVE  ForkInv'
  <2>1. Runners' = Runners \ {w} /\ Loaded' = Loaded \ {w}
    BY <1>7, GotoSets DEF InLoop
  <2>2. /\ Forks' = Forks /\ Prevs' = Prevs
        /\ Debt' <= Debt + 1
        /\ w \in Loaded /\ file' = last[w] => Debt' <= Debt
        /\ Debt \in Nat
    BY <1>1, <1>7, <2>1, DebtLeaves, DebtFacts
  <2>3. CASE /\ file' = file
             /\ \/ faults' = faults + 1 /\ UNCHANGED <<crashes, overlaps, cuts>>
                \/ crashes' = crashes + 1 /\ UNCHANGED <<faults, overlaps, cuts>>
    <3>1. Budget' = Budget + 1
      BY <2>3, BudgetPays DEF Raised
    <3> QED BY <1>7, <2>2, <3>1, ForkQuiet
  <2>4. CASE w \in Loaded /\ file' = last[w] /\ UNCHANGED <<faults, crashes, overlaps, cuts>>
    <3>1. Budget' = Budget + 0 /\ Debt' <= Debt + 0
      BY <2>2, <2>4, BudgetPays DEF Raised
    <3> QED BY <1>7, <2>2, <3>1, ForkQuiet
  <2> QED BY <1>7, <2>3, <2>4
<1>8. ASSUME NEW w \in Workers, NEW label, Goto(w, label), label # "down", w \in Runners,
             w \in Loaded <=> label \in InLoop \cup {"close", "closing"}
      PROVE  Runners' = Runners /\ Loaded' = Loaded
  BY <1>8, GotoSets
<1>9. ASSUME NEW w \in Workers, CheckHealth(w) \/ EnsureConsumerGroup(w) PROVE ForkInv'
  <2>1. /\ UNCHANGED <<docs, last, file, faults, crashes, overlaps,
                       cuts>> /\ pc[w] \in {"connect", "setup"}
        /\ Goto(w, "setup") \/ Goto(w, "load")
    BY <1>9 DEF CheckHealth, EnsureConsumerGroup, historyVars
  <2>2. w \in Runners /\ w \notin Loaded
    BY <2>1 DEF Runners, Running, Loaded, InLoop
  <2>3. Runners' = Runners /\ Loaded' = Loaded
    BY <1>8, <2>1, <2>2 DEF InLoop
  <2>4. Budget' = Budget + 0
    BY <2>1, BudgetPays DEF Raised
  <2> QED BY <1>3, <2>1, <2>3, <2>4
<1>10. ASSUME NEW w \in Workers, StartUpFails(w) \/ Crash(w) PROVE ForkInv'
  <2>1. /\ Goto(w, "down") /\ UNCHANGED <<docs, last, file>> /\ pc[w] # "down"
        /\ \/ faults' = faults + 1 /\ UNCHANGED <<crashes, overlaps, cuts>>
           \/ crashes' = crashes + 1 /\ UNCHANGED <<faults, overlaps, cuts>>
    BY <1>10 DEF StartUpFails, Crash, Fault, Running
  <2> QED BY <1>7, <2>1 DEF Runners, Running
<1>11. ASSUME NEW w \in Workers, IndexDecision(w) \/ IndexReplyLost(w) \/ InterruptIndexing(w)
       PROVE  ForkInv'
  <2>1. /\ pc[w] = "index" /\ docs' = docs \cup {Document(w)}
        /\ Goto(w, "ack") \/ Goto(w, "close")
        /\ \/ /\ last' = [last EXCEPT ![w] = Hash(Document(w))]
              /\ UNCHANGED <<faults, crashes, overlaps, cuts>>
           \/ last' = last /\ Raised(1)
    BY <1>11 DEF IndexDecision, IndexReplyLost, InterruptIndexing, Fault, Raised, historyVars
  <2>2. w \in Runners /\ w \in Loaded
    BY <2>1 DEF Runners, Running, Loaded, InLoop
  <2>3. Runners' = Runners /\ Loaded' = Loaded
    BY <1>8, <2>1, <2>2 DEF InLoop
  <2>4. last' = last \/ last' = [last EXCEPT ![w] = Hash(Document(w))]
    BY <2>1
  <2>5. /\ IsFiniteSet(docs') /\ IsFiniteSet(Prevs')
        /\ Forks' + Debt' <= Forks + Debt + 1
        /\ last' # last => Forks' + Debt' <= Forks + Debt
    BY <2>1, <2>2, <2>3, <2>4, DebtAdds
  <2>6. Forks + Debt \in Int /\ Forks' + Debt' \in Int
    <3>1. Forks = Cardinality(docs) - Cardinality(Prevs) /\ Forks' = Cardinality(docs') - Cardinality(Prevs')
      BY DEF Forks, Prevs
    <3>2. /\ Cardinality(docs) \in Nat /\ Cardinality(Prevs) \in Nat
          /\ Cardinality(docs') \in Nat /\ Cardinality(Prevs') \in Nat
      BY <2>5, FS_CardinalityType DEF ForkInv
    <3>3. Debt \in Nat /\ Debt' \in Nat
      BY <1>1, DebtFacts
    <3> QED BY <3>1, <3>2, <3>3
  <2>7. CASE last' = [last EXCEPT ![w] = Hash(Document(w))] /\ UNCHANGED <<faults, crashes,
                                                                           overlaps, cuts>>
    <3>1. last' # last
      BY <1>2, <2>1, <2>7, HashIsNew
    <3>2. Budget' = Budget + 0 /\ Forks' + Debt' <= Forks + Debt + 0
      BY <2>5, <2>6, <2>7, <3>1, BudgetPays DEF Raised
    <3> QED BY <2>5, <2>6, <3>2, ForkPays
  <2>8. CASE last' = last /\ Raised(1)
    <3>1. Budget' = Budget + 1
      BY <2>8, BudgetPays
    <3> QED BY <2>5, <2>6, <3>1, ForkPays
  <2> QED BY <2>1, <2>7, <2>8
<1>12. ASSUME NEW w \in Workers,
              \/ Read(w) \/ IndexRefused(w) \/ IndexRaises(w) \/ Acknowledge(w) \/ AcknowledgeFails(w)
              \/ Truncate(w) \/ Interrupt(w)
              \/ Write(w) /\ pc[w] = "write"
              \/ SaveFails(w) /\ pc[w] \in {"save", "write"}
       PROVE  ForkInv'
  <2>1. UNCHANGED <<docs, last>> /\ pc[w] \in InLoop \cup {"close"}
    BY <1>12 DEF Read, IndexRefused, IndexRaises, Acknowledge, AcknowledgeFails, Truncate,
        Interrupt,
       Write, SaveFails, InLoop
  <2>2. \/ Goto(w, "index") \/ Goto(w, "ack") \/ Goto(w, "read") \/ Goto(w, "save") \/ Goto(w, "write")
        \/ Goto(w, "close") \/ Goto(w, "closing")
    BY <1>12 DEF Read, IndexRefused, IndexRaises, Acknowledge, AcknowledgeFails, Truncate,
        Interrupt,
       Write, SaveFails, NextEntry
  <2>3. w \in Runners /\ w \in Loaded
    BY <2>1 DEF Runners, Running, Loaded, InLoop
  <2>4. Runners' = Runners /\ Loaded' = Loaded
    BY <1>8, <2>2, <2>3 DEF InLoop
  <2>5. \/ UNCHANGED <<faults, crashes, overlaps, cuts>>
        \/ faults' = faults + 1 /\ UNCHANGED <<crashes, overlaps, cuts>>
    BY <1>12 DEF Read, IndexRefused, IndexRaises, Acknowledge, AcknowledgeFails, Truncate,
        Interrupt,
       Write, SaveFails, Fault, historyVars
  <2>6. Budget' = Budget + 0 \/ Budget' = Budget + 1
    BY <2>5, BudgetPays DEF Raised
  <2> QED BY <1>3, <2>1, <2>3, <2>4, <2>6
<1>13. ASSUME NEW w \in Workers,
              \/ Write(w) /\ pc[w] # "write"
              \/ SaveFails(w) /\ pc[w] \notin {"save", "write"}
       PROVE  ForkInv'
  <2>1. /\ Goto(w, "down") /\ UNCHANGED <<docs, last>> /\ pc[w] \in {"close", "closing"}
        /\ \/ file' = file /\ faults' = faults + 1 /\ UNCHANGED <<crashes, overlaps, cuts>>
           \/ file' = last[w] /\ UNCHANGED <<faults, crashes, overlaps, cuts>>
    BY <1>13 DEF Write, SaveFails, Fault, historyVars
  <2>2. w \in Runners /\ w \in Loaded
    BY <2>1 DEF Runners, Running, Loaded
  <2> QED BY <1>7, <2>1, <2>2
<1>14. ASSUME NEW w \in Workers, ReadReplyLost(w) PROVE ForkInv'
  <2>1. UNCHANGED <<docs, last, pc, file, crashes, overlaps, cuts>> /\ faults' = faults + 1
    BY <1>14 DEF ReadReplyLost, Fault, processVars
  <2>2. Runners' = Runners /\ Loaded' = Loaded
    BY <2>1 DEF Runners, Running, Loaded
  <2>3. Budget' = Budget + 1
    BY <2>1, BudgetPays DEF Raised
  <2> QED BY <1>3, <2>1, <2>2, <2>3
<1>15. ASSUME NEW w \in Workers, Step(w) PROVE ForkInv'
  BY <1>4, <1>5, <1>6, <1>9, <1>10, <1>11, <1>12, <1>13, <1>14, <1>15 DEF Step, EmptyPoll
<1> QED BY <1>4, <1>10, <1>11, <1>12, <1>15 DEF Next

(* The hash chain forks no oftener than a call failed, a process died, two *)
(* ran side by side or Ctrl-C came while a document was being stored.      *)
THEOREM ForksArePaidFor == Spec => []ForksBounded
<1>1. Init => ForkInv
  <2> SUFFICES ASSUME Init PROVE ForkInv
    OBVIOUS
  <2>1. docs = {} /\ Prevs = {} /\ Runners = {} /\ Loaded = {} /\ faults + crashes + overlaps + cuts = 0
    BY DEF Init, Prevs, Runners, Running, Loaded, InLoop
  <2>2. Heads = {Genesis} /\ Claimants = 1
    BY <2>1 DEF Init, Heads, HeadsOf, Claimants, CountOf
  <2>3. Cardinality(Heads) = 1 /\ Cardinality(docs) = 0 /\ Cardinality(Prevs) = 0
        /\ IsFiniteSet(docs) /\ IsFiniteSet(Prevs)
    BY <2>1, <2>2, FS_Singleton, FS_EmptySet
  <2>4. Forks = Cardinality(docs) - Cardinality(Prevs)
    BY DEF Forks, Prevs
  <2> QED BY <2>1, <2>2, <2>3, <2>4 DEF ForkInv, Debt
<1>2. TypeInv /\ ForkInv => ForksBounded
  <2> SUFFICES ASSUME TypeInv, ForkInv PROVE ForksBounded
    OBVIOUS
  <2>1. Forks = Cardinality(docs) - Cardinality(Prevs)
    BY DEF Forks, Prevs
  <2>2. Cardinality(docs) \in Nat /\ Cardinality(Prevs) \in Nat /\ Debt \in Nat
    BY DebtFacts, IndexerConstants, FS_CardinalityType DEF ForkInv
  <2>3. Forks + Debt <= Budget /\ Budget \in Int
    BY DEF ForkInv, Budget, TypeInv, TypeOK
  <2>4. Forks <= Budget
    BY <2>1, <2>2, <2>3
  <2> QED BY <2>4 DEF ForksBounded, Budget
<1> QED BY <1>1, <1>2, ForkStep, TypeInvariant, TreeInvariant, PTL DEF Spec
=============================================================================
