---------------------------- MODULE AuditIndexer ----------------------------
(***************************************************************************)
(* The audit indexer (motor/opensearch_indexer.py).  It reads the stream   *)
(* soc:decisions through a consumer group and stores one document per      *)
(* decision in OpenSearch; every document carries the hash of the one the  *)
(* process stored before it.  The hash of the last document lives in the   *)
(* process and, every SaveEvery decisions, in a state file.                *)
(*                                                                         *)
(* Nothing keeps a second copy from running beside the first (the logbook  *)
(* tells of one left over in a dead session), so the processes are a set;  *)
(* all of them use one consumer name, one group and one state file.        *)
(*                                                                         *)
(* SHA-256 is taken to be injective on what it is given here: a hash is    *)
(* the sequence of the decisions it commits to, the empty one is           *)
(* "genesis".                                                              *)
(***************************************************************************)
EXTENDS Integers, Sequences, FiniteSets

CONSTANTS
  Workers,        \* copies of the indexer that may be started
  ReadCount,      \* COUNT of XREADGROUP (10)
  SaveEvery,      \* decisions between two writes of the state file (100)
  MaxLen,         \* MAXLEN of the XADD of publish_decision (10 000)
  MaxDecisions,   \* bound: decisions published
  MaxFaults,      \* bound: calls that fail
  MaxCrashes,     \* bound: times a process dies
  MaxInterrupts   \* bound: times a process is interrupted from the keyboard

ASSUME IndexerConstants ==
  /\ IsFiniteSet(Workers)
  /\ ReadCount \in Nat \ {0} /\ SaveEvery \in Nat \ {0} /\ MaxLen \in Nat \ {0}
  /\ MaxDecisions \in Nat /\ MaxFaults \in Nat /\ MaxCrashes \in Nat /\ MaxInterrupts \in Nat

VARIABLES
  \* Redis
  published,      \* decisions published so far; a decision is its position
  first,          \* oldest decision MAXLEN has left in the stream
  group,          \* does the consumer group exist?
  lastDelivered,  \* last-delivered-id of the group
  pel,            \* delivered, not acknowledged
  \* OpenSearch
  docs,           \* documents of soc-decisions
  \* the disk
  file,           \* what load_state would make of the state file
  \* each process
  pc, last,       \* the call it is about to make, last_hash
  cur, end,       \* decision in hand and last one of the reply
  count,          \* processed % SaveEvery
  \* history
  delivered,      \* decisions handed to some process
  refused,        \* decisions OpenSearch did not take
  overlaps,       \* processes started beside a running one
  cuts,           \* interrupts while a document was being stored
  faults, crashes, interrupts

redisVars   == <<published, first, group, lastDelivered, pel>>
processVars == <<pc, last, cur, end, count>>
historyVars == <<delivered, refused, overlaps, cuts, faults, crashes, interrupts>>
vars == <<redisVars, docs, file, processVars, historyVars>>

Genesis == <<>>

Hashes == Seq(Nat)

InLoop  == {"read", "index", "ack", "save", "write"}
InBatch == InLoop \ {"read"}
Pcs     == {"down", "connect", "setup", "load", "close", "closing"} \cup InLoop

TypeOK ==
  /\ published \in Nat
  /\ first \in Nat \ {0} /\ first <= published + 1
  /\ group \in BOOLEAN /\ lastDelivered \in 0 .. published
  /\ pel \subseteq 1 .. published
  /\ docs \subseteq [entry : 1 .. published, prev : Hashes]
  /\ file \in Hashes
  /\ pc \in [Workers -> Pcs] /\ last \in [Workers -> Hashes]
  /\ cur \in [Workers -> Nat] /\ end \in [Workers -> Nat]
  /\ count \in [Workers -> 0 .. SaveEvery - 1]
  /\ delivered \subseteq 1 .. published /\ refused \subseteq 1 .. published
  /\ overlaps \in Nat /\ cuts \in Nat
  /\ faults \in 0 .. MaxFaults /\ crashes \in 0 .. MaxCrashes
  /\ interrupts \in 0 .. MaxInterrupts

Init ==
  /\ published = 0 /\ first = 1
  /\ group = FALSE /\ lastDelivered = 0 /\ pel = {}
  /\ docs = {} /\ file = Genesis
  /\ pc = [w \in Workers |-> "down"] /\ last = [w \in Workers |-> Genesis]
  /\ cur = [w \in Workers |-> 1] /\ end = [w \in Workers |-> 0]
  /\ count = [w \in Workers |-> 0]
  /\ delivered = {} /\ refused = {} /\ overlaps = 0 /\ cuts = 0
  /\ faults = 0 /\ crashes = 0 /\ interrupts = 0

Fault == faults < MaxFaults /\ faults' = faults + 1

Goto(w, label) == pc' = [pc EXCEPT ![w] = label]

-----------------------------------------------------------------------------
(* publish_decision: XADD, trimmed lazily to no less than MaxLen entries.  *)
Publish ==
  /\ published < MaxDecisions
  /\ published' = published + 1
  /\ first' \in {first} \cup {k \in first .. published' : k + MaxLen <= published' + 1}
  /\ UNCHANGED <<group, lastDelivered, pel, docs, file, processVars, historyVars>>

-----------------------------------------------------------------------------
(* main() up to the loop.                                                  *)

Running(w) == pc[w] # "down"

Start(w) ==
  /\ ~Running(w)
  /\ Goto(w, "connect")
  /\ overlaps' = IF \E v \in Workers : Running(v) THEN overlaps + 1 ELSE overlaps
  /\ UNCHANGED <<redisVars, docs, file, last, cur, end, count, delivered, refused, cuts, faults,
                 crashes, interrupts>>

CheckHealth(w) ==
  /\ pc[w] = "connect"
  /\ Goto(w, "setup")
  /\ UNCHANGED <<redisVars, docs, file, last, cur, end, count, historyVars>>

(* "No se puede conectar a OpenSearch. Abortando.", or Redis is away when  *)
(* the group is created: the process ends.                                 *)
StartUpFails(w) ==
  /\ pc[w] \in {"connect", "setup"}
  /\ Fault
  /\ Goto(w, "down")
  /\ UNCHANGED <<redisVars, docs, file, last, cur, end, count, delivered, refused, overlaps, cuts,
                 crashes, interrupts>>

(* Faulty: every start recreates the group from the first entry.           *)
EnsureConsumerGroup_Anew(w) ==
  /\ pc[w] = "setup"
  /\ Goto(w, "load")
  /\ group' = TRUE
  /\ lastDelivered' = 0
  /\ UNCHANGED <<published, first, pel, docs, file, last, cur, end, count, historyVars>>

(* Faulty: the group is created at the end of the stream (id=$).           *)
EnsureConsumerGroup_AtEnd(w) ==
  /\ pc[w] = "setup"
  /\ Goto(w, "load")
  /\ group' = TRUE
  /\ lastDelivered' = IF group THEN lastDelivered ELSE published
  /\ UNCHANGED <<published, first, pel, docs, file, last, cur, end, count, historyVars>>

(* XGROUP CREATE ... id=0: BUSYGROUP leaves an existing group as it is.    *)
EnsureConsumerGroup(w) ==
  /\ pc[w] = "setup"
  /\ Goto(w, "load")
  /\ group' = TRUE
  /\ lastDelivered' = IF group THEN lastDelivered ELSE 0
  /\ UNCHANGED <<published, first, pel, docs, file, last, cur, end, count, historyVars>>

LoadState(w) ==
  /\ pc[w] = "load"
  /\ Goto(w, "read")
  /\ last' = [last EXCEPT ![w] = file]
  /\ count' = [count EXCEPT ![w] = 0]
  /\ UNCHANGED <<redisVars, docs, file, cur, end, historyVars>>

-----------------------------------------------------------------------------
(* The loop: XREADGROUP.                                                   *)

Undelivered == {i \in first .. published : i > lastDelivered}

NextBatch == {i \in Undelivered : \A j \in Undelivered : i < j + ReadCount}

Deliver ==
  /\ NextBatch # {}
  /\ pel' = pel \cup NextBatch
  /\ \E l \in NextBatch : (\A i \in NextBatch : i <= l) /\ lastDelivered' = l
  /\ delivered' = delivered \cup NextBatch

Read(w) ==
  /\ pc[w] = "read"
  /\ Deliver
  /\ \E f \in NextBatch : (\A i \in NextBatch : f <= i) /\ cur' = [cur EXCEPT ![w] = f]
  /\ end' = [end EXCEPT ![w] = lastDelivered']
  /\ Goto(w, "index")
  /\ UNCHANGED <<published, first, group, docs, file, last, count, refused, overlaps, cuts, faults,
                 crashes, interrupts>>

ReadReplyLost(w) ==
  /\ pc[w] = "read"
  /\ Fault
  /\ Deliver
  /\ UNCHANGED <<published, first, group, docs, file, processVars, refused, overlaps, cuts, crashes,
                 interrupts>>

EmptyPoll(w) ==
  /\ pc[w] = "read"
  /\ NextBatch = {}
  /\ UNCHANGED vars

-----------------------------------------------------------------------------
(* One decision: index_decision, XACK, and now and then save_state.        *)

Document(w) == [entry |-> cur[w], prev |-> last[w]]

(* compute_hash.                                                           *)
Hash(d) == Append(d.prev, d.entry)

(* Faulty: the reply is taken to be one longer than it is.                 *)
NextEntry_PastEnd(w) ==
  /\ cur' = [cur EXCEPT ![w] = @ + 1]
  /\ Goto(w, IF cur[w] <= end[w] THEN "index" ELSE "read")

NextEntry(w) ==
  /\ cur' = [cur EXCEPT ![w] = @ + 1]
  /\ Goto(w, IF cur[w] < end[w] THEN "index" ELSE "read")

(* Faulty: the new hash is not kept.                                       *)
IndexDecision_KeepsPrev(w) ==
  /\ pc[w] = "index"
  /\ docs' = docs \cup {Document(w)}
  /\ Goto(w, "ack")
  /\ UNCHANGED <<redisVars, file, last, cur, end, count, historyVars>>

IndexDecision(w) ==
  /\ pc[w] = "index"
  /\ docs' = docs \cup {Document(w)}
  /\ last' = [last EXCEPT ![w] = Hash(Document(w))]
  /\ Goto(w, "ack")
  /\ UNCHANGED <<redisVars, file, cur, end, count, historyVars>>

(* Faulty: the chain advances although nothing was stored.                 *)
IndexRefused_Advances(w) ==
  /\ pc[w] = "index"
  /\ Fault
  /\ refused' = refused \cup {cur[w]}
  /\ last' = [last EXCEPT ![w] = Hash(Document(w))]
  /\ Goto(w, "ack")
  /\ UNCHANGED <<redisVars, docs, file, cur, end, count, delivered, overlaps, cuts, crashes,
                 interrupts>>

(* OpenSearch is away or answers with an error: prev_hash is returned and  *)
(* the decision is acknowledged all the same.                              *)
IndexRefused(w) ==
  /\ pc[w] = "index"
  /\ Fault
  /\ refused' = refused \cup {cur[w]}
  /\ Goto(w, "ack")
  /\ UNCHANGED <<redisVars, docs, file, last, cur, end, count, delivered, overlaps, cuts, crashes,
                 interrupts>>

(* The answer is lost after the document was stored: index_decision        *)
(* cannot tell and returns prev_hash.                                      *)
IndexReplyLost(w) ==
  /\ pc[w] = "index"
  /\ Fault
  /\ docs' = docs \cup {Document(w)}
  /\ Goto(w, "ack")
  /\ UNCHANGED <<redisVars, file, last, cur, end, count, delivered, refused, overlaps, cuts,
                 crashes, interrupts>>

(* An error whose body is not JSON (a proxy's 502) raises inside the       *)
(* handler of os_request: logged, not acknowledged.                        *)
IndexRaises(w) ==
  /\ pc[w] = "index"
  /\ Fault
  /\ refused' = refused \cup {cur[w]}
  /\ NextEntry(w)
  /\ UNCHANGED <<redisVars, docs, file, last, end, count, delivered, overlaps, cuts, crashes,
                 interrupts>>

(* Faulty: replies are counted, not decisions.                             *)
Acknowledge_CountsReplies(w) ==
  /\ pc[w] = "ack"
  /\ pel' = pel \ {cur[w]}
  /\ LET n == IF cur[w] = end[w] THEN (count[w] + 1) % SaveEvery ELSE count[w]
     IN  /\ count' = [count EXCEPT ![w] = n]
         /\ IF cur[w] = end[w] /\ n = 0 THEN Goto(w, "save") /\ UNCHANGED cur ELSE NextEntry(w)
  /\ UNCHANGED <<published, first, group, lastDelivered, docs, file, last, end, historyVars>>

Acknowledge(w) ==
  /\ pc[w] = "ack"
  /\ pel' = pel \ {cur[w]}
  /\ count' = [count EXCEPT ![w] = (@ + 1) % SaveEvery]
  /\ \/ (count[w] + 1) % SaveEvery = 0 /\ Goto(w, "save") /\ UNCHANGED cur
     \/ (count[w] + 1) % SaveEvery # 0 /\ NextEntry(w)
  /\ UNCHANGED <<published, first, group, lastDelivered, docs, file, last, end, historyVars>>

(* XACK raises: the decision is stored, not counted, and stays pending.    *)
AcknowledgeFails(w) ==
  /\ pc[w] = "ack"
  /\ Fault
  /\ NextEntry(w)
  /\ UNCHANGED <<redisVars, docs, file, last, end, count, delivered, refused, overlaps, cuts,
                 crashes, interrupts>>

(* save_state: open(..., "w") empties the file, closing it writes it.      *)
Truncate(w) ==
  /\ pc[w] \in {"save", "close"}
  /\ file' = Genesis
  /\ Goto(w, IF pc[w] = "save" THEN "write" ELSE "closing")
  /\ UNCHANGED <<redisVars, docs, last, cur, end, count, historyVars>>

(* Faulty: leaving on Ctrl-C does not save.                                *)
Write_NotOnExit(w) ==
  \/ /\ pc[w] = "write"
     /\ file' = last[w]
     /\ NextEntry(w)
     /\ UNCHANGED <<redisVars, docs, last, end, count, historyVars>>
  \/ /\ pc[w] = "closing"
     /\ Goto(w, "down")
     /\ UNCHANGED <<redisVars, docs, file, last, cur, end, count, historyVars>>

Write(w) ==
  /\ file' = last[w]
  /\ \/ pc[w] = "write" /\ NextEntry(w)
     \/ pc[w] = "closing" /\ Goto(w, "down") /\ UNCHANGED cur
  /\ UNCHANGED <<redisVars, docs, last, end, count, historyVars>>

(* The disk refuses the open or the write.                                 *)
SaveFails(w) ==
  /\ Fault
  /\ \/ pc[w] \in {"save", "write"} /\ NextEntry(w)
     \/ pc[w] \in {"close", "closing"} /\ Goto(w, "down") /\ UNCHANGED cur
  /\ UNCHANGED <<redisVars, docs, file, last, end, count, delivered, refused, overlaps, cuts,
                 crashes, interrupts>>

-----------------------------------------------------------------------------
(* Ctrl-C inside the loop saves and leaves.                                *)
Interrupt(w) ==
  /\ pc[w] \in InLoop
  /\ interrupts < MaxInterrupts /\ interrupts' = interrupts + 1
  /\ Goto(w, "close")
  /\ UNCHANGED <<redisVars, docs, file, last, cur, end, count, delivered, refused, overlaps, cuts,
                 faults, crashes>>

(* Ctrl-C while OpenSearch is answering: no call fails and the state is    *)
(* saved, but the document is stored and last_hash not assigned.           *)
InterruptIndexing(w) ==
  /\ pc[w] = "index"
  /\ interrupts < MaxInterrupts /\ interrupts' = interrupts + 1
  /\ cuts' = cuts + 1
  /\ docs' = docs \cup {Document(w)}
  /\ Goto(w, "close")
  /\ UNCHANGED <<redisVars, file, last, cur, end, count, delivered, refused, overlaps, faults,
                 crashes>>

(* SIGTERM, SIGKILL, a power cut, a Ctrl-C before the loop, while the      *)
(* state is saved on leaving or in the pause after an error: nothing is    *)
(* saved.                                                                  *)
Crash(w) ==
  /\ Running(w)
  /\ crashes < MaxCrashes /\ crashes' = crashes + 1
  /\ Goto(w, "down")
  /\ UNCHANGED <<redisVars, docs, file, last, cur, end, count, delivered, refused, overlaps, cuts,
                 faults, interrupts>>

Step(w) ==
  \/ Start(w) \/ CheckHealth(w) \/ StartUpFails(w) \/ EnsureConsumerGroup(w) \/ LoadState(w)
  \/ Read(w) \/ ReadReplyLost(w) \/ EmptyPoll(w)
  \/ IndexDecision(w) \/ IndexRefused(w) \/ IndexReplyLost(w) \/ IndexRaises(w)
  \/ Acknowledge(w) \/ AcknowledgeFails(w)
  \/ Truncate(w) \/ Write(w) \/ SaveFails(w)

Next ==
  \/ Publish
  \/ \E w \in Workers : Step(w) \/ Interrupt(w) \/ InterruptIndexing(w) \/ Crash(w)

Spec == Init /\ [][Next]_vars

(* The service restarts the indexer when it ends (Restart=always); its     *)
(* calls time out, so the loop never stands still.                         *)
FairSpec == Spec /\ \A w \in Workers : WF_vars(Step(w))

-----------------------------------------------------------------------------
(* Properties.                                                             *)

HashesOf(D) == {Hash(d) : d \in D}

(* The hash every document chains to is the hash of a document that is in  *)
(* the index: no refused document, lost answer, crash, truncated file or   *)
(* second process leaves a link to nothing ("No avanzar la cadena si       *)
(* fallo").                                                                *)
NoDanglingPrev == \A d \in docs : d.prev \in {Genesis} \cup HashesOf(docs)

(* No decision is indexed twice, by one process or by two.                 *)
IndexedOnce == \A d, e \in docs : d.entry = e.entry => d = e

(* A decision handed out and no longer pending is in the index, unless     *)
(* OpenSearch refused it.                                                  *)
AckedMeansIndexed ==
  \A i \in delivered \ pel : i \in refused \/ \E d \in docs : d.entry = i

(* The index holds each decision once at most, and each acknowledged one.  *)
DecisionsKept == IndexedOnce /\ AckedMeansIndexed

(* Documents that chain to one that already had a successor.               *)
Forks == Cardinality(docs) - Cardinality({d.prev : d \in docs})

(* The chain forks only where a process died, a call failed, two processes *)
(* ran side by side, or Ctrl-C came while a document was being stored,     *)
(* once for each of them; leaving with Ctrl-C at any other call of the     *)
(* loop and starting again does not fork it.                               *)
ForksBounded == Forks <= faults + crashes + overlaps + cuts

(* While one process runs and no call fails, the state file is at most     *)
(* SaveEvery documents behind the chain: that is how far back a crash can  *)
(* make the next process start.                                            *)
StateLagBounded ==
  \A w \in Workers :
    pc[w] \in InLoop \ {"write"} /\ faults = 0 /\ overlaps = 0
      => Len(last[w]) - Len(file) <= SaveEvery

(* The index as an abstract hash tree.                                     *)
Tree == INSTANCE AuditTree WITH Decisions <- 1 .. MaxDecisions, tree <- docs

(* The indexer implements it: it only ever adds documents, each for a new  *)
(* decision and each on top of what is there.                              *)
GrowsTree == Tree!Spec

InHand(w) == IF pc[w] \in InBatch THEN cur[w] .. end[w] ELSE {}

Stranded == {i \in pel : \A w \in Workers : i \notin InHand(w)}

(* Indexed, refused, left pending by a process that had it or by a lost    *)
(* reply, or trimmed unread.                                               *)
Settled(i) ==
  \/ i \in refused \cup Stranded
  \/ i < first /\ i \notin delivered
  \/ \E d \in docs : d.entry = i

(* The indexers never stand still before a decision: what was published is *)
(* settled sooner or later, all of it.                                     *)
EveryDecisionSettles ==
  (\E i \in 1 .. published : ~Settled(i)) ~> (\A i \in 1 .. published : Settled(i))
=============================================================================
