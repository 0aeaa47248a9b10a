------------------------- MODULE Enrichment_proofs -------------------------
(***************************************************************************)
(* Proofs about Enrichment, for any addresses, lifetimes of the caches and *)
(* number of failures.                                                     *)
(***************************************************************************)
EXTENDS Enrichment, FiniteSetTheorems, TLAPS

(* Between two enrichments nothing is under construction; the list is      *)
(* empty until CrowdSec's turn.                                            *)
HandOK ==
  /\ pc = "idle" => score = NoScore /\ spent = 0
  /\ pc # "idle" => ip \in Ips
  /\ pc \in {"idle", "get", "ask", "store", "crowd_get"} => list = {}

(* The age of an opinion and the time its cache entry has left make up a   *)
(* lifetime and the time one enrichment takes, at most.                    *)
CacheFresh ==
  \A s \in Services, i \in Ips :
    cache[s][i].left > 0 /\ cache[s][i].score = "high" =>
      high[s][i] + cache[s][i].left <= Ttl + Slack

(* In the enrichment under way an opinion ages with it.                    *)
ScoreFresh ==
  /\ \A s \in Services :
       pc # "idle" /\ score[s] = "high" => high[s][ip] < Ttl + Slack + spent
  /\ pc = "store" /\ score[service] = "high" => high[service][ip] <= spent

(* The same of the list of decisions, for being on it and for not being on it. *)
CrowdFresh ==
  crowd.left > 0 =>
    \A i \in Ips :
      /\ i \in crowd.ips => listed[i] + crowd.left <= CrowdTtl + Slack
      /\ i \notin crowd.ips => absent[i] + crowd.left <= CrowdTtl + Slack

ListFresh ==
  /\ pc = "crowd_store" =>
       \A i \in Ips :
         /\ i \in list => listed[i] <= spent
         /\ i \notin list => absent[i] <= spent
  /\ pc = "done" /\ CrowdSecOn =>
       /\ ip \in list => listed[ip] < CrowdTtl + Slack + spent
       /\ ip \notin list => blind \/ absent[ip] < CrowdTtl + Slack + spent

(* The answers that will be asked for again too early: their entries are   *)
(* gone before they are a lifetime old. The answer about to be stored is   *)
(* not one of them.                                                        *)
Short(s, i) == cache[s][i].left + good[s][i] < Ttl
InHand(s, i) == pc = "store" /\ s = service /\ i = ip
Owed == {p \in Services \X Ips : Short(p[1], p[2]) /\ ~ InHand(p[1], p[2])}

(* And the question on its way only because the cache could not be read.   *)
Unread == pc = "ask" /\ ~ Short(service, ip) /\ good[service][ip] < Ttl
Asking == IF Unread THEN 1 ELSE 0

QuotaOK ==
  /\ IsFiniteSet(Owed)
  /\ repeated + Cardinality(Owed) + Asking <= faults + crashes

IInv == TypeOK /\ HandOK /\ CacheFresh /\ ScoreFresh /\ CrowdFresh /\ ListFresh /\ QuotaOK

USE EnrichmentConstants

-----------------------------------------------------------------------------
(* What a tick does to an age and to an entry.                             *)

LEMMA OlderType ==
  ASSUME NEW old \in Nat, NEW n \in 0 .. old
  PROVE  Older(n, old) \in 0 .. old /\ Older(n, old) <= n + 1
BY DEF Older

LEMMA ExpireType ==
  ASSUME NEW e \in [score : Scores, left : 0 .. Ttl]
  PROVE  /\ Expire(e, NoEntry) \in [score : Scores, left : 0 .. Ttl]
         /\ e.left <= 1 => Expire(e, NoEntry).left = 0
         /\ e.left > 1 => /\ Expire(e, NoEntry).left = e.left - 1
                          /\ Expire(e, NoEntry).score = e.score
BY DEF Expire, NoEntry, Scores

LEMMA ExpireListType ==
  ASSUME NEW e \in [ips : SUBSET Ips, left : 0 .. CrowdTtl]
  PROVE  /\ Expire(e, NoList) \in [ips : SUBSET Ips, left : 0 .. CrowdTtl]
         /\ e.left <= 1 => Expire(e, NoList).left = 0
         /\ e.left > 1 => /\ Expire(e, NoList).left = e.left - 1
                          /\ Expire(e, NoList).ips = e.ips
BY DEF Expire, NoList

LEMMA EntryType ==
  ASSUME NEW V, NEW f \in [Services -> [Ips -> V]], NEW s \in Services, NEW i, NEW v \in V
  PROVE  /\ [f EXCEPT ![s][i] = v] \in [Services -> [Ips -> V]]
         /\ \A t \in Services, j \in Ips :
              [f EXCEPT ![s][i] = v][t][j] = (IF t = s /\ j = i THEN v ELSE f[t][j])
OBVIOUS

LEMMA SetexType ==
  ASSUME TypeOK, ip \in Ips
  PROVE  Setex \in [Services -> [Ips -> [score : Scores, left : 0 .. Ttl]]]
<1>1. [score |-> score[service], left |-> Ttl] \in [score : Scores, left : 0 .. Ttl]
  BY DEF TypeOK
<1>. QED  BY <1>1, EntryType DEF TypeOK, Setex

-----------------------------------------------------------------------------
(* Types.                                                                  *)

LEMMA TypeInit == Init => TypeOK
<1>. SUFFICES ASSUME Init PROVE TypeOK  OBVIOUS
<1>1. Old \in Nat /\ CrowdOld \in Nat  BY DEF Old, CrowdOld
<1>2. NoEntry \in [score : Scores, left : 0 .. Ttl]  BY DEF NoEntry, Scores
<1>3. NoList \in [ips : SUBSET Ips, left : 0 .. CrowdTtl]  BY DEF NoList
<1>4. NoScore \in [Services -> Scores]  BY DEF NoScore, Scores
<1>5. /\ cache \in [Services -> [Ips -> [score : Scores, left : 0 .. Ttl]]]
      /\ high \in [Services -> [Ips -> 0 .. Old]] /\ good \in [Services -> [Ips -> 0 .. Ttl]]
      /\ listed \in [Ips -> 0 .. CrowdOld] /\ absent \in [Ips -> 0 .. CrowdOld]
  BY <1>1, <1>2 DEF Init
<1>6. blind \in BOOLEAN  BY Zenon DEF Init
<1>7. /\ spent \in 0 .. Slack /\ repeated \in Nat
      /\ faults \in 0 .. MaxFaults /\ crashes \in 0 .. MaxCrashes
  BY DEF Init
<1>8. /\ pc \in {"idle", "get", "ask", "store", "crowd_get", "crowd_ask", "crowd_store", "done"}
      /\ service \in Services /\ ip \in Ips \cup {NoIp} /\ list \subseteq Ips
      /\ crowd \in [ips : SUBSET Ips, left : 0 .. CrowdTtl] /\ score \in [Services -> Scores]
  BY <1>3, <1>4 DEF Init, Services
<1>. QED  BY <1>5, <1>6, <1>7, <1>8 DEF TypeOK

LEMMA TypeTick == TypeOK /\ Tick => TypeOK'
<1>. SUFFICES ASSUME TypeOK, Tick PROVE TypeOK'  OBVIOUS
<1>1. cache' \in [Services -> [Ips -> [score : Scores, left : 0 .. Ttl]]]
  BY ExpireType DEF TypeOK, Tick
<1>2. crowd' \in [ips : SUBSET Ips, left : 0 .. CrowdTtl]
  BY ExpireListType DEF TypeOK, Tick
<1>3. spent' \in 0 .. Slack  BY DEF TypeOK, Tick
<1>4. Old \in Nat /\ CrowdOld \in Nat  BY DEF Old, CrowdOld
<1>5. high' \in [Services -> [Ips -> 0 .. Old]]
  BY <1>4, OlderType DEF TypeOK, Tick
<1>6. good' \in [Services -> [Ips -> 0 .. Ttl]]
  BY OlderType DEF TypeOK, Tick
<1>7. listed' \in [Ips -> 0 .. CrowdOld] /\ absent' \in [Ips -> 0 .. CrowdOld]
  BY <1>4, OlderType DEF TypeOK, Tick
<1>. QED  BY <1>1, <1>2, <1>3, <1>5, <1>6, <1>7 DEF TypeOK, Tick, resultVars, counters

(* The steps of a lookup that ask nobody and store nothing.                *)
LEMMA TypeLookup ==
  TypeOK /\ (NotAsked \/ CacheHit \/ CacheMiss \/ CacheReadFails \/ AnswerFails) => TypeOK'
<1>. SUFFICES ASSUME TypeOK, NotAsked \/ CacheHit \/ CacheMiss \/ CacheReadFails \/ AnswerFails
     PROVE  TypeOK'
  OBVIOUS
<1>. USE DEF Services, NextLookup
<1>1. CASE NotAsked \/ AnswerFails
  BY <1>1 DEF TypeOK, NotAsked, AnswerFails, cacheVars, answerVars, crowdAges, counters
<1>2. CASE CacheHit
  <2>1. score' \in [Services -> Scores]
    BY <1>2 DEF TypeOK, CacheHit, Asked
  <2>. QED  BY <1>2, <2>1 DEF TypeOK, CacheHit, cacheVars, answerVars, crowdAges, counters
<1>3. CASE CacheMiss
  BY <1>3 DEF TypeOK, CacheMiss, cacheVars, resultVars, answerVars, crowdAges, counters
<1>4. CASE CacheReadFails
  BY <1>4 DEF TypeOK, CacheReadFails, Fault, cacheVars, resultVars, answerVars, crowdAges
<1>. QED  BY <1>1, <1>2, <1>3, <1>4

LEMMA TypeAnswer == TypeOK /\ Answer => TypeOK'
<1>. SUFFICES ASSUME TypeOK, Answer PROVE TypeOK'  OBVIOUS
<1>1. Old \in Nat  BY DEF Old
<1>2. high' \in [Services -> [Ips -> 0 .. Old]] /\ good' \in [Services -> [Ips -> 0 .. Ttl]]
  <2>1. 0 \in 0 .. Old /\ 0 \in 0 .. Ttl  BY <1>1
  <2>2. [high EXCEPT ![service][ip] = 0] \in [Services -> [Ips -> 0 .. Old]]
    BY <2>1, EntryType DEF TypeOK
  <2>3. [good EXCEPT ![service][ip] = 0] \in [Services -> [Ips -> 0 .. Ttl]]
    BY <2>1, EntryType DEF TypeOK
  <2>. QED  BY <2>2, <2>3 DEF TypeOK, Answer
<1>3. score' \in [Services -> Scores] /\ repeated' \in Nat
  BY DEF TypeOK, Answer
<1>. QED  BY <1>2, <1>3 DEF TypeOK, Answer, cacheVars, crowdAges

LEMMA TypeStore == TypeOK /\ HandOK /\ (Store \/ StoreFails) => TypeOK'
<1>. SUFFICES ASSUME TypeOK, HandOK, Store \/ StoreFails PROVE TypeOK'  OBVIOUS
<1>1. cache' \in [Services -> [Ips -> [score : Scores, left : 0 .. Ttl]]]
  <2>1. ip \in Ips  BY DEF HandOK, Store, StoreFails
  <2>. QED  BY <2>1, SetexType DEF TypeOK, Store, StoreFails
<1>2. faults' \in 0 .. MaxFaults /\ repeated' = repeated /\ crashes' = crashes
  BY DEF TypeOK, Store, StoreFails, Fault, counters
<1>. QED
  BY <1>1, <1>2 DEF TypeOK, Store, StoreFails, NextLookup, Services, answerVars, crowdAges

LEMMA TypeList ==
  TypeOK /\ (ListHit \/ ListMiss \/ ListReadFails \/ FetchDecisions \/ StoreList \/ StoreListFails)
    => TypeOK'
<1>. SUFFICES ASSUME TypeOK, ListHit \/ ListMiss \/ ListReadFails \/ FetchDecisions
                               \/ StoreList \/ StoreListFails
     PROVE  TypeOK'
  OBVIOUS
<1>. USE DEF cacheVars, resultVars, answerVars, crowdAges, counters
<1>1. CASE ListHit \/ ListMiss
  BY <1>1 DEF TypeOK, ListHit, ListMiss
<1>2. CASE ListReadFails
  BY <1>2 DEF TypeOK, ListReadFails, Fault
<1>3. CASE FetchDecisions
  <2>1. CrowdOld \in Nat  BY DEF CrowdOld
  <2>. QED  BY <1>3, <2>1 DEF TypeOK, FetchDecisions
<1>4. CASE StoreList \/ StoreListFails
  <2>1. SetexList \in [ips : SUBSET Ips, left : 0 .. CrowdTtl]  BY DEF TypeOK, SetexList
  <2>. QED  BY <1>4, <2>1 DEF TypeOK, StoreList, StoreListFails, Fault
<1>. QED  BY <1>1, <1>2, <1>3, <1>4

LEMMA TypeRest == TypeOK /\ ((\E i \in Ips : Begin(i)) \/ Return \/ Crash) => TypeOK'
<1>. USE DEF cacheVars, answerVars, crowdAges, counters
<1>1. TypeOK /\ (\E i \in Ips : Begin(i)) => TypeOK'
  BY DEF TypeOK, Begin
<1>2. TypeOK /\ Forget => /\ pc' = "idle" /\ service' \in Services /\ ip' \in Ips \cup {NoIp}
                          /\ score' \in [Services -> Scores] /\ list' \subseteq Ips
                          /\ spent' \in 0 .. Slack
  <2>1. NoScore \in [Services -> Scores]  BY DEF NoScore, Scores
  <2>. QED  BY <2>1 DEF Forget, Services
<1>3. Forget => blind' \in BOOLEAN  BY Zenon DEF Forget
<1>4. TypeOK /\ Return => TypeOK'
  BY <1>2, <1>3 DEF TypeOK, Return
<1>5. TypeOK /\ Crash => TypeOK'
  BY <1>2, <1>3 DEF TypeOK, Crash
<1>. QED  BY <1>1, <1>4, <1>5

LEMMA TypeStep == TypeOK /\ HandOK /\ [Next]_vars => TypeOK'
<1>1. TypeOK /\ UNCHANGED vars => TypeOK'
  BY DEF TypeOK, vars, cacheVars, resultVars, answerVars, crowdAges, counters
<1>. QED
  BY <1>1, TypeTick, TypeLookup, TypeAnswer, TypeStore, TypeList, TypeRest DEF Next

-----------------------------------------------------------------------------
(* What is under construction.                                             *)

LEMMA HandStep == TypeOK /\ HandOK /\ [Next]_vars => HandOK'
<1>. SUFFICES ASSUME TypeOK, HandOK, [Next]_vars PROVE HandOK'  OBVIOUS
<1>. USE DEF HandOK, cacheVars, resultVars, NextLookup
<1>1. CASE Tick  BY <1>1 DEF Tick
<1>2. ASSUME NEW i \in Ips, Begin(i) PROVE HandOK'  BY <1>2 DEF Begin
<1>3. CASE NotAsked \/ CacheHit \/ CacheMiss \/ CacheReadFails
  BY <1>3 DEF NotAsked, CacheHit, CacheMiss, CacheReadFails
<1>4. CASE Answer \/ AnswerFails \/ Store \/ StoreFails
  BY <1>4 DEF Answer, AnswerFails, Store, StoreFails
<1>5. CASE ListHit \/ ListMiss \/ ListReadFails
  BY <1>5 DEF ListHit, ListMiss, ListReadFails
<1>6. CASE FetchDecisions \/ StoreList \/ StoreListFails
  BY <1>6 DEF FetchDecisions, StoreList, StoreListFails
<1>7. CASE Return \/ Crash  BY <1>7 DEF Return, Crash, Forget
<1>8. CASE UNCHANGED vars  BY <1>8 DEF vars
<1>. QED  BY <1>1, <1>2, <1>3, <1>4, <1>5, <1>6, <1>7, <1>8 DEF Next

-----------------------------------------------------------------------------
(* Opinions.                                                               *)

LEMMA FreshTick ==
  TypeOK /\ HandOK /\ CacheFresh /\ ScoreFresh /\ Tick => CacheFresh' /\ ScoreFresh'
<1>. SUFFICES ASSUME TypeOK, HandOK, CacheFresh, ScoreFresh, Tick
     PROVE  CacheFresh' /\ ScoreFresh'
  OBVIOUS
<1>1. \A s \in Services, i \in Ips : high'[s][i] <= high[s][i] + 1
  <2>1. Old \in Nat  BY DEF Old
  <2>. QED  BY <2>1, OlderType DEF TypeOK, Tick
<1>2. \A s \in Services, i \in Ips :
        cache'[s][i].left > 0 => /\ cache'[s][i].left = cache[s][i].left - 1
                                 /\ cache'[s][i].score = cache[s][i].score
                                 /\ cache[s][i].left > 0
  <2>. SUFFICES ASSUME NEW s \in Services, NEW i \in Ips, cache'[s][i].left > 0
       PROVE  /\ cache'[s][i].left = cache[s][i].left - 1
              /\ cache'[s][i].score = cache[s][i].score
              /\ cache[s][i].left > 0
    OBVIOUS
  <2>1. cache'[s][i] = Expire(cache[s][i], NoEntry)  BY DEF Tick
  <2>2. cache[s][i] \in [score : Scores, left : 0 .. Ttl]  BY DEF TypeOK
  <2>3. cache[s][i].left \in 0 .. Ttl  BY <2>2
  <2>4. cache[s][i].left > 1  BY <2>1, <2>2, <2>3, ExpireType
  <2>. QED  BY <2>1, <2>2, <2>3, <2>4, ExpireType
<1>3. /\ \A s \in Services, i \in Ips : high[s][i] \in Nat /\ high'[s][i] \in Nat
      /\ \A s \in Services, i \in Ips : cache[s][i].left \in Nat
      /\ spent \in Nat
  <2>1. TypeOK'  BY TypeTick
  <2>2. Old \in Nat  BY DEF Old
  <2>. QED  BY <2>1, <2>2 DEF TypeOK
<1>4. CacheFresh'
  BY <1>1, <1>2, <1>3 DEF CacheFresh
<1>5. /\ UNCHANGED <<pc, service, ip, score>>
      /\ pc # "idle" => spent' = spent + 1 /\ ip \in Ips
      /\ service \in Services
  BY DEF Tick, resultVars, HandOK, TypeOK
<1>6. ScoreFresh'
  BY <1>1, <1>3, <1>5 DEF ScoreFresh
<1>. QED  BY <1>4, <1>6

(* Steps that leave opinions alone and put nothing older in their place.   *)
LEMMA FreshFrame ==
  ASSUME TypeOK, HandOK, CacheFresh, ScoreFresh,
         UNCHANGED <<cache, high>>,
         pc' = "idle" \/ UNCHANGED <<ip, score, spent>>,
         pc' = "store" => pc = "store" /\ UNCHANGED service,
         pc' # "idle" => pc # "idle"
  PROVE  CacheFresh' /\ ScoreFresh'
BY DEF CacheFresh, ScoreFresh

LEMMA FreshAnswer ==
  TypeOK /\ HandOK /\ CacheFresh /\ ScoreFresh /\ Answer => CacheFresh' /\ ScoreFresh'
<1>. SUFFICES ASSUME TypeOK, HandOK, CacheFresh, ScoreFresh, Answer
     PROVE  CacheFresh' /\ ScoreFresh'
  OBVIOUS
<1>1. PICK n \in Scores :
        /\ score' = [score EXCEPT ![service] = n]
        /\ high' = IF n = "high" THEN [high EXCEPT ![service][ip] = 0] ELSE high
  BY DEF Answer
<1>2. Old \in Nat /\ ip \in Ips /\ service \in Services /\ spent \in Nat
  BY DEF Old, Answer, HandOK, TypeOK
<1>3. \A s \in Services, i \in Ips :
        high'[s][i] = (IF n = "high" /\ s = service /\ i = ip THEN 0 ELSE high[s][i])
  <2>1. 0 \in 0 .. Old /\ high \in [Services -> [Ips -> 0 .. Old]]  BY <1>2 DEF TypeOK
  <2>. QED  BY <1>1, <1>2, <2>1, EntryType
<1>4. \A s \in Services, i \in Ips : high[s][i] \in Nat /\ cache[s][i].left \in 0 .. Ttl
  BY <1>2 DEF TypeOK
<1>5. \A s \in Services : score'[s] = (IF s = service THEN n ELSE score[s])
  BY <1>1 DEF TypeOK
<1>6. CacheFresh'
  BY <1>3, <1>4 DEF CacheFresh, Answer, cacheVars
<1>7. ScoreFresh'
  BY <1>2, <1>3, <1>4, <1>5 DEF ScoreFresh, Answer
<1>. QED  BY <1>6, <1>7

LEMMA FreshStore ==
  TypeOK /\ HandOK /\ CacheFresh /\ ScoreFresh /\ (Store \/ StoreFails)
    => CacheFresh' /\ ScoreFresh'
<1>. SUFFICES ASSUME TypeOK, HandOK, CacheFresh, ScoreFresh, Store \/ StoreFails
     PROVE  CacheFresh' /\ ScoreFresh'
  OBVIOUS
<1>1. /\ Old \in Nat /\ ip \in Ips /\ service \in Services /\ spent \in 0 .. Slack
      /\ pc = "store" /\ pc' \in {"get", "crowd_get", "done"}
      /\ UNCHANGED <<ip, score, spent, high>>
      /\ cache' = cache \/ cache' = Setex
  BY DEF Old, Store, StoreFails, NextLookup, HandOK, TypeOK, answerVars
<1>2. CASE cache' = cache
  BY <1>1, <1>2, FreshFrame
<1>3. CASE cache' = Setex
  <2>1. \A s \in Services, i \in Ips :
          cache'[s][i] = IF s = service /\ i = ip THEN [score |-> score[service], left |-> Ttl]
                         ELSE cache[s][i]
    <3>1. [score |-> score[service], left |-> Ttl] \in [score : Scores, left : 0 .. Ttl]
      BY DEF TypeOK
    <3>. QED  BY <1>1, <1>3, <3>1, EntryType DEF TypeOK, Setex
  <2>2. score[service] = "high" => high[service][ip] <= spent
    BY <1>1 DEF ScoreFresh
  <2>3. high[service][ip] \in Nat  BY <1>1 DEF TypeOK
  <2>4. CacheFresh'
    BY <1>1, <2>1, <2>2, <2>3 DEF CacheFresh
  <2>5. ScoreFresh'
    BY <1>1 DEF ScoreFresh
  <2>. QED  BY <2>4, <2>5
<1>. QED  BY <1>1, <1>2, <1>3

LEMMA FreshHit ==
  TypeOK /\ HandOK /\ CacheFresh /\ ScoreFresh /\ CacheHit => CacheFresh' /\ ScoreFresh'
<1>. SUFFICES ASSUME TypeOK, HandOK, CacheFresh, ScoreFresh, CacheHit
     PROVE  CacheFresh' /\ ScoreFresh'
  OBVIOUS
<1>1. /\ ip \in Ips /\ service \in Services /\ spent \in Nat /\ cache[service][ip].left > 0
      /\ pc # "idle" /\ pc' \in {"get", "crowd_get", "done"}
      /\ UNCHANGED <<cache, ip, spent, high>>
  BY DEF CacheHit, NextLookup, HandOK, TypeOK, cacheVars, answerVars
<1>2. \A s \in Services :
        score'[s] = (IF s = service THEN cache[service][ip].score ELSE score[s])
  BY DEF CacheHit, TypeOK
<1>3. /\ high[service][ip] \in Nat /\ cache[service][ip].left \in Nat
  <2>1. Old \in Nat  BY DEF Old
  <2>. QED  BY <1>1, <2>1 DEF TypeOK
<1>4. cache[service][ip].score = "high" => high[service][ip] < Ttl + Slack + spent
  BY <1>1, <1>3 DEF CacheFresh
<1>5. CacheFresh'  BY <1>1 DEF CacheFresh
<1>6. ScoreFresh'  BY <1>1, <1>2, <1>4 DEF ScoreFresh
<1>. QED  BY <1>5, <1>6

LEMMA FreshStep ==
  TypeOK /\ HandOK /\ CacheFresh /\ ScoreFresh /\ [Next]_vars => CacheFresh' /\ ScoreFresh'
<1>. SUFFICES ASSUME TypeOK, HandOK, CacheFresh, ScoreFresh, [Next]_vars
     PROVE  CacheFresh' /\ ScoreFresh'
  OBVIOUS
<1>1. ASSUME NEW i \in Ips, Begin(i) PROVE CacheFresh' /\ ScoreFresh'
  <2>1. \A s \in Services : score'[s] # "high"
    BY <1>1 DEF Begin, HandOK, NoScore
  <2>. QED  BY <1>1, <2>1 DEF Begin, CacheFresh, ScoreFresh, cacheVars, answerVars
<1>. USE DEF cacheVars, resultVars, answerVars, NextLookup
<1>2. CASE NotAsked \/ CacheMiss \/ CacheReadFails \/ AnswerFails
  BY <1>2, FreshFrame DEF NotAsked, CacheMiss, CacheReadFails, AnswerFails
<1>3. CASE ListHit \/ ListMiss \/ ListReadFails
  BY <1>3, FreshFrame DEF ListHit, ListMiss, ListReadFails
<1>4. CASE FetchDecisions \/ StoreList \/ StoreListFails
  BY <1>4, FreshFrame DEF FetchDecisions, StoreList, StoreListFails
<1>5. CASE Return \/ Crash
  BY <1>5, FreshFrame DEF Return, Crash, Forget
<1>6. CASE UNCHANGED vars
  BY <1>6, FreshFrame DEF vars
<1>. QED
  BY <1>1, <1>2, <1>3, <1>4, <1>5, <1>6, FreshTick, FreshHit, FreshAnswer, FreshStore DEF Next

-----------------------------------------------------------------------------
(* The list of decisions.                                                  *)

LEMMA ListTick ==
  TypeOK /\ HandOK /\ CrowdFresh /\ ListFresh /\ Tick => CrowdFresh' /\ ListFresh'
<1>. SUFFICES ASSUME TypeOK, HandOK, CrowdFresh, ListFresh, Tick
     PROVE  CrowdFresh' /\ ListFresh'
  OBVIOUS
<1>1. /\ \A i \in Ips : listed'[i] <= listed[i] + 1 /\ absent'[i] <= absent[i] + 1
      /\ \A i \in Ips : listed[i] \in Nat /\ absent[i] \in Nat
      /\ \A i \in Ips : listed'[i] \in Nat /\ absent'[i] \in Nat
  <2>1. CrowdOld \in Nat  BY DEF CrowdOld
  <2>2. \A i \in Ips : listed[i] \in 0 .. CrowdOld /\ absent[i] \in 0 .. CrowdOld
    BY DEF TypeOK
  <2>3. \A i \in Ips : /\ listed'[i] = Older(listed[i], CrowdOld)
                       /\ absent'[i] = Older(absent[i], CrowdOld)
    BY DEF Tick
  <2>4. \A n \in 0 .. CrowdOld : /\ Older(n, CrowdOld) \in 0 .. CrowdOld
                                 /\ Older(n, CrowdOld) <= n + 1
    BY <2>1, OlderType
  <2>5. \A n \in 0 .. CrowdOld : n \in Nat  BY <2>1
  <2>. QED  BY <2>2, <2>3, <2>4, <2>5
<1>2. crowd'.left > 0 => /\ crowd'.left = crowd.left - 1 /\ crowd'.ips = crowd.ips
                         /\ crowd.left > 0
  <2>1. crowd' = Expire(crowd, NoList)  BY DEF Tick
  <2>2. crowd \in [ips : SUBSET Ips, left : 0 .. CrowdTtl]  BY DEF TypeOK
  <2>3. crowd.left \in 0 .. CrowdTtl  BY <2>2
  <2>. QED  BY <2>1, <2>2, <2>3, ExpireListType
<1>3. crowd.left \in Nat /\ spent \in Nat  BY DEF TypeOK
<1>4. CrowdFresh'
  BY <1>1, <1>2, <1>3 DEF CrowdFresh
<1>5. /\ UNCHANGED <<pc, ip, list, blind>>
      /\ pc # "idle" => spent' = spent + 1 /\ ip \in Ips
  BY DEF Tick, resultVars, HandOK
<1>6. ListFresh'
  BY <1>1, <1>3, <1>5 DEF ListFresh
<1>. QED  BY <1>4, <1>6

LEMMA ListFrame ==
  ASSUME CrowdFresh, UNCHANGED <<crowd, listed, absent>>,
         pc' # "crowd_store", pc' = "done" => ~ CrowdSecOn
  PROVE  CrowdFresh' /\ ListFresh'
BY DEF CrowdFresh, ListFresh

LEMMA ListOwn ==
  TypeOK /\ HandOK /\ CrowdFresh /\ ListFresh /\ (ListHit \/ ListReadFails \/ FetchDecisions)
    => CrowdFresh' /\ ListFresh'
<1>. SUFFICES ASSUME TypeOK, HandOK, CrowdFresh, ListFresh,
                     ListHit \/ ListReadFails \/ FetchDecisions
     PROVE  CrowdFresh' /\ ListFresh'
  OBVIOUS
<1>1. /\ crowd.left \in 0 .. CrowdTtl /\ spent \in Nat
      /\ \A i \in Ips : listed[i] \in Nat /\ absent[i] \in Nat
  <2>1. CrowdOld \in Nat  BY DEF CrowdOld
  <2>. QED  BY <2>1 DEF TypeOK
<1>2. CASE ListHit
  <2>1. CrowdFresh'  BY <1>2 DEF CrowdFresh, ListHit, cacheVars, crowdAges
  <2>2. /\ pc' = "done" /\ list' = crowd.ips /\ ip \in Ips /\ crowd.left > 0
        /\ UNCHANGED <<ip, spent, listed, absent>>
    BY <1>2 DEF ListHit, HandOK, crowdAges
  <2>3. /\ ip \in crowd.ips => listed[ip] < CrowdTtl + Slack + spent
        /\ ip \notin crowd.ips => absent[ip] < CrowdTtl + Slack + spent
    BY <1>1, <2>2 DEF CrowdFresh
  <2>4. ListFresh'  BY <2>2, <2>3 DEF ListFresh
  <2>. QED  BY <2>1, <2>4
<1>3. CASE ListReadFails
  <2>1. CrowdFresh'  BY <1>3 DEF CrowdFresh, ListReadFails, cacheVars, crowdAges
  <2>2. pc' = "done" /\ blind' = TRUE /\ list' = {}
    BY <1>3 DEF ListReadFails, HandOK
  <2>3. ListFresh'  BY <2>2 DEF ListFresh
  <2>. QED  BY <2>1, <2>3
<1>4. CASE FetchDecisions
  <2>1. PICK l \in SUBSET Ips :
          /\ list' = l
          /\ listed' = [i \in Ips |-> IF i \in l THEN 0 ELSE listed[i]]
          /\ absent' = [i \in Ips |-> IF i \in l THEN absent[i] ELSE 0]
    BY <1>4 DEF FetchDecisions
  <2>2. CrowdFresh'
    BY <1>1, <1>4, <2>1 DEF CrowdFresh, FetchDecisions, cacheVars
  <2>3. ListFresh'
    BY <1>1, <1>4, <2>1 DEF ListFresh, FetchDecisions
  <2>. QED  BY <2>2, <2>3
<1>. QED  BY <1>2, <1>3, <1>4

LEMMA ListStored ==
  TypeOK /\ HandOK /\ CrowdFresh /\ ListFresh /\ (StoreList \/ StoreListFails)
    => CrowdFresh' /\ ListFresh'
<1>. SUFFICES ASSUME TypeOK, HandOK, CrowdFresh, ListFresh, StoreList \/ StoreListFails
     PROVE  CrowdFresh' /\ ListFresh'
  OBVIOUS
<1>1. /\ pc = "crowd_store" /\ pc' = "done" /\ spent \in 0 .. Slack /\ ip \in Ips
      /\ UNCHANGED <<ip, spent, list, blind, listed, absent>>
      /\ crowd' = crowd \/ crowd' = SetexList
  BY DEF StoreList, StoreListFails, HandOK, TypeOK, resultVars, crowdAges
<1>2. \A i \in Ips : listed[i] \in Nat /\ absent[i] \in Nat
  <2>1. CrowdOld \in Nat  BY DEF CrowdOld
  <2>. QED  BY <2>1 DEF TypeOK
<1>3. \A i \in Ips : /\ i \in list => listed[i] <= spent
                     /\ i \notin list => absent[i] <= spent
  BY <1>1 DEF ListFresh
<1>4. CrowdFresh'
  BY <1>1, <1>2, <1>3 DEF CrowdFresh, SetexList
<1>5. ListFresh'
  BY <1>1, <1>2, <1>3 DEF ListFresh
<1>. QED  BY <1>4, <1>5

LEMMA ListStep ==
  TypeOK /\ HandOK /\ CrowdFresh /\ ListFresh /\ [Next]_vars => CrowdFresh' /\ ListFresh'
<1>. SUFFICES ASSUME TypeOK, HandOK, CrowdFresh, ListFresh, [Next]_vars
     PROVE  CrowdFresh' /\ ListFresh'
  OBVIOUS
<1>. USE DEF cacheVars, resultVars, crowdAges, NextLookup
<1>1. ASSUME NEW i \in Ips, Begin(i) PROVE CrowdFresh' /\ ListFresh'
  BY <1>1, ListFrame DEF Begin
<1>2. CASE NotAsked \/ CacheHit \/ CacheMiss \/ CacheReadFails
  BY <1>2, ListFrame DEF NotAsked, CacheHit, CacheMiss, CacheReadFails
<1>3. CASE Answer \/ AnswerFails \/ Store \/ StoreFails
  BY <1>3, ListFrame DEF Answer, AnswerFails, Store, StoreFails
<1>4. CASE ListMiss \/ Return \/ Crash
  BY <1>4, ListFrame DEF ListMiss, Return, Crash, Forget
<1>5. CASE UNCHANGED vars
  BY <1>5 DEF vars, CrowdFresh, ListFresh
<1>. QED
  BY <1>1, <1>2, <1>3, <1>4, <1>5, ListTick, ListOwn, ListStored DEF Next

-----------------------------------------------------------------------------
(* The quota.                                                              *)

(* A step that owes nothing new and asks nothing new.                      *)
LEMMA QuotaFrame ==
  ASSUME TypeOK, TypeOK', QuotaOK, Owed' \subseteq Owed, Unread' => Unread,
         UNCHANGED <<repeated, faults, crashes>>
  PROVE  QuotaOK'
<1>1. /\ IsFiniteSet(Owed') /\ Cardinality(Owed') <= Cardinality(Owed)
      /\ Cardinality(Owed) \in Nat /\ Cardinality(Owed') \in Nat
  BY FS_Subset, FS_CardinalityType DEF QuotaOK
<1>2. Asking' <= Asking /\ Asking \in Nat /\ Asking' \in Nat
  BY DEF Asking
<1>. QED  BY <1>1, <1>2 DEF QuotaOK, TypeOK

LEMMA AskingType ==
  Asking \in {0, 1} /\ Asking' \in {0, 1}
BY Zenon DEF Asking

(* A failure pays for one answer or one question.                          *)
LEMMA QuotaPaid ==
  ASSUME TypeOK, TypeOK', QuotaOK, NEW p,
         \/ Owed' \subseteq Owed \cup {p} /\ ~ Unread'
         \/ Owed' \subseteq Owed /\ ~ Unread,
         repeated' = repeated,
         \/ faults' = faults + 1 /\ crashes' = crashes
         \/ faults' = faults /\ crashes' = crashes + 1
  PROVE  QuotaOK'
<1>1. Cardinality(Owed) \in Nat /\ IsFiniteSet(Owed)
  BY FS_CardinalityType DEF QuotaOK
<1>2. /\ repeated \in Nat /\ faults \in Nat /\ crashes \in Nat
      /\ faults' \in Nat /\ crashes' \in Nat
  BY DEF TypeOK
<1>3. Asking \in Nat /\ Asking' \in Nat /\ Asking <= 1 /\ Asking' <= 1
  BY AskingType
<1>4. /\ IsFiniteSet(Owed') /\ Cardinality(Owed') \in Nat
      /\ Cardinality(Owed') + Asking' <= Cardinality(Owed) + Asking + 1
  <2>1. CASE Owed' \subseteq Owed \cup {p} /\ ~ Unread'
    <3>1. /\ IsFiniteSet(Owed \cup {p})
          /\ \/ Cardinality(Owed \cup {p}) = Cardinality(Owed)
             \/ Cardinality(Owed \cup {p}) = Cardinality(Owed) + 1
      BY <1>1, FS_AddElement
    <3>2. /\ IsFiniteSet(Owed') /\ Cardinality(Owed') <= Cardinality(Owed \cup {p})
          /\ Cardinality(Owed') \in Nat
      BY <2>1, <3>1, FS_Subset, FS_CardinalityType
    <3>3. Asking' = 0  BY <2>1 DEF Asking
    <3>. QED  BY <1>1, <1>3, <3>1, <3>2, <3>3
  <2>2. CASE Owed' \subseteq Owed /\ ~ Unread
    <3>1. /\ IsFiniteSet(Owed') /\ Cardinality(Owed') <= Cardinality(Owed)
          /\ Cardinality(Owed') \in Nat
      BY <1>1, <2>2, FS_Subset, FS_CardinalityType
    <3>2. Asking = 0  BY <2>2 DEF Asking
    <3>. QED  BY <1>1, <1>3, <3>1, <3>2
  <2>. QED  BY <2>1, <2>2
<1>5. repeated + Cardinality(Owed) + Asking <= faults + crashes  BY DEF QuotaOK
<1>6. repeated + Cardinality(Owed') + Asking' <= faults' + crashes'
  BY <1>1, <1>2, <1>3, <1>4, <1>5
<1>. QED  BY <1>4, <1>6 DEF QuotaOK

LEMMA Lefts ==
  ASSUME TypeOK
  PROVE  \A s \in Services, i \in Ips :
           cache[s][i].left \in 0 .. Ttl /\ good[s][i] \in 0 .. Ttl
BY DEF TypeOK

(* A tick takes from an entry what it adds to the age of the answer.       *)
LEMMA ShortTick ==
  ASSUME TypeOK, Tick, NEW s \in Services, NEW i \in Ips
  PROVE  /\ Short(s, i)' => Short(s, i)
         /\ ~ Short(s, i)' /\ good'[s][i] < Ttl => ~ Short(s, i) /\ good[s][i] < Ttl
<1>1. /\ cache[s][i] \in [score : Scores, left : 0 .. Ttl]
      /\ cache[s][i].left \in 0 .. Ttl /\ good[s][i] \in 0 .. Ttl
  BY DEF TypeOK
<1>2. /\ cache'[s][i] = Expire(cache[s][i], NoEntry)
      /\ good'[s][i] = Older(good[s][i], Ttl)
  BY DEF Tick
<1>3. cache'[s][i].left = IF cache[s][i].left <= 1 THEN 0 ELSE cache[s][i].left - 1
  BY <1>1, <1>2, ExpireType
<1>. QED  BY <1>1, <1>2, <1>3 DEF Short, Older

LEMMA QuotaTick == TypeOK /\ HandOK /\ QuotaOK /\ Tick => QuotaOK'
<1>. SUFFICES ASSUME TypeOK, HandOK, QuotaOK, Tick PROVE QuotaOK'  OBVIOUS
<1>1. Owed' \subseteq Owed
  <2>1. \A s \in Services, i \in Ips : Short(s, i)' => Short(s, i)  BY ShortTick
  <2>2. UNCHANGED <<pc, service, ip>>  BY DEF Tick, resultVars
  <2>. QED  BY <2>1, <2>2 DEF Owed, InHand, Short
<1>2. Unread' => Unread
  <2>1. service \in Services /\ (pc = "ask" => ip \in Ips) /\ UNCHANGED <<pc, service, ip>>
    BY DEF Tick, resultVars, HandOK, TypeOK
  <2>. QED  BY <2>1, ShortTick DEF Unread, Short
<1>3. UNCHANGED <<repeated, faults, crashes>>  BY DEF Tick, counters
<1>. QED  BY <1>1, <1>2, <1>3, TypeTick, QuotaFrame

(* A step that leaves caches and answers alone, and puts none out of hand. *)
LEMMA QuotaStay ==
  ASSUME TypeOK, TypeOK', QuotaOK, UNCHANGED <<cache, good, repeated, faults, crashes>>,
         pc # "store", pc' # "ask"
  PROVE  QuotaOK'
<1>1. Owed' \subseteq Owed  BY DEF Owed, InHand, Short
<1>2. ~ Unread'  BY DEF Unread
<1>. QED  BY <1>1, <1>2, QuotaFrame

LEMMA QuotaAsk ==
  TypeOK /\ TypeOK' /\ HandOK /\ QuotaOK /\ (CacheMiss \/ CacheReadFails) => QuotaOK'
<1>. SUFFICES ASSUME TypeOK, TypeOK', HandOK, QuotaOK, CacheMiss \/ CacheReadFails
     PROVE  QuotaOK'
  OBVIOUS
<1>1. /\ pc = "get" /\ pc' = "ask" /\ ip \in Ips /\ service \in Services
      /\ UNCHANGED <<cache, good, service, ip>>
  BY DEF CacheMiss, CacheReadFails, HandOK, TypeOK, cacheVars, answerVars, resultVars
<1>2. Owed' \subseteq Owed  BY <1>1 DEF Owed, InHand, Short
<1>3. CASE CacheMiss
  <2>1. ~ Unread'  BY <1>1, <1>3, Lefts DEF Unread, Short, CacheMiss
  <2>. QED  BY <1>2, <1>3, <2>1, QuotaFrame DEF CacheMiss, counters
<1>4. CASE CacheReadFails
  <2>1. ~ Unread  BY <1>1 DEF Unread
  <2>2. repeated' = repeated /\ faults' = faults + 1 /\ crashes' = crashes
    BY <1>4 DEF CacheReadFails, Fault
  <2>. QED  BY <1>2, <2>1, <2>2, QuotaPaid
<1>. QED  BY <1>3, <1>4

LEMMA QuotaAnswer == TypeOK /\ TypeOK' /\ HandOK /\ QuotaOK /\ Answer => QuotaOK'
<1>. SUFFICES ASSUME TypeOK, TypeOK', HandOK, QuotaOK, Answer PROVE QuotaOK'  OBVIOUS
<1>. DEFINE p == <<service, ip>>
<1>1. /\ pc = "ask" /\ pc' = "store" /\ ip \in Ips /\ service \in Services
      /\ UNCHANGED <<cache, service, ip, faults, crashes>>
      /\ repeated' = IF good[service][ip] < Ttl THEN repeated + 1 ELSE repeated
  BY DEF Answer, HandOK, TypeOK, cacheVars
<1>2. \A s \in Services, i \in Ips :
        ~ (s = service /\ i = ip) => good'[s][i] = good[s][i]
  BY <1>1 DEF Answer, TypeOK
<1>3. Owed' \subseteq Owed \ {p}
  BY <1>1, <1>2 DEF Owed, InHand, Short
<1>4. /\ IsFiniteSet(Owed) /\ Cardinality(Owed) \in Nat
      /\ IsFiniteSet(Owed') /\ Cardinality(Owed') \in Nat
      /\ Cardinality(Owed') <= Cardinality(Owed \ {p})
      /\ Cardinality(Owed \ {p}) \in Nat
      /\ Cardinality(Owed \ {p}) = IF p \in Owed THEN Cardinality(Owed) - 1 ELSE Cardinality(Owed)
  BY <1>3, FS_Subset, FS_CardinalityType, FS_RemoveElement DEF QuotaOK
<1>5. Asking' = 0 /\ Asking \in {0, 1}
  BY <1>1 DEF Asking, Unread
<1>6. good[service][ip] < Ttl => p \in Owed \/ Asking = 1
  BY <1>1 DEF Owed, InHand, Asking, Unread
<1>7. repeated \in Nat /\ faults \in Nat /\ crashes \in Nat  BY DEF TypeOK
<1>8. repeated' + Cardinality(Owed') <= repeated + Cardinality(Owed) + Asking
  BY <1>1, <1>4, <1>5, <1>6, <1>7
<1>. QED  BY <1>1, <1>4, <1>5, <1>7, <1>8 DEF QuotaOK

LEMMA QuotaStore == TypeOK /\ TypeOK' /\ HandOK /\ QuotaOK /\ (Store \/ StoreFails) => QuotaOK'
<1>. SUFFICES ASSUME TypeOK, TypeOK', HandOK, QuotaOK, Store \/ StoreFails PROVE QuotaOK'
  OBVIOUS
<1>1. /\ pc = "store" /\ pc' \in {"get", "crowd_get", "done"}
      /\ ip \in Ips /\ service \in Services /\ UNCHANGED good
  BY DEF Store, StoreFails, NextLookup, HandOK, TypeOK, answerVars
<1>2. ~ Unread'  BY <1>1 DEF Unread
<1>3. \A s \in Services, i \in Ips :
        Setex[s][i].left = IF s = service /\ i = ip THEN Ttl ELSE cache[s][i].left
  <2>. DEFINE entry == [score |-> score[service], left |-> Ttl]
  <2>1. entry \in [score : Scores, left : 0 .. Ttl] /\ entry.left = Ttl
    BY DEF TypeOK
  <2>2. Setex = [cache EXCEPT ![service][ip] = entry]  BY DEF Setex
  <2>3. cache \in [Services -> [Ips -> [score : Scores, left : 0 .. Ttl]]]  BY DEF TypeOK
  <2>. HIDE DEF entry
  <2>4. \A s \in Services, i \in Ips :
          Setex[s][i] = IF s = service /\ i = ip THEN entry ELSE cache[s][i]
    BY <1>1, <2>1, <2>2, <2>3, EntryType
  <2>. QED  BY <2>1, <2>4
<1>4. CASE Store
  <2>1. Owed' \subseteq Owed
    <3>1. \A s \in Services, i \in Ips :
            Short(s, i)' => ~ (s = service /\ i = ip) /\ Short(s, i)
      BY <1>1, <1>3, <1>4, Lefts DEF Short, Store
    <3>. QED  BY <3>1 DEF Owed, InHand, Short
  <2>. QED  BY <1>2, <1>4, <2>1, QuotaFrame DEF Store, counters
<1>5. CASE StoreFails
  <2>1. Owed' \subseteq Owed \cup {<<service, ip>>}
    <3>1. \A s \in Services, i \in Ips :
            Short(s, i)' => (s = service /\ i = ip) \/ Short(s, i)
      BY <1>1, <1>3, <1>5 DEF Short, StoreFails
    <3>. QED  BY <3>1 DEF Owed, InHand, Short
  <2>2. repeated' = repeated /\ faults' = faults + 1 /\ crashes' = crashes
    BY <1>5 DEF StoreFails, Fault
  <2>. QED  BY <1>2, <2>1, <2>2, QuotaPaid
<1>. QED  BY <1>4, <1>5

LEMMA QuotaCrash == TypeOK /\ TypeOK' /\ HandOK /\ QuotaOK /\ Crash => QuotaOK'
<1>. SUFFICES ASSUME TypeOK, TypeOK', HandOK, QuotaOK, Crash PROVE QuotaOK'  OBVIOUS
<1>1. pc' = "idle" /\ UNCHANGED <<cache, good>>
  BY DEF Crash, Forget, cacheVars, answerVars
<1>2. Owed' \subseteq Owed \cup {<<service, ip>>}
  BY <1>1 DEF Owed, InHand, Short
<1>3. ~ Unread'  BY <1>1 DEF Unread
<1>4. repeated' = repeated /\ faults' = faults /\ crashes' = crashes + 1
  BY DEF Crash
<1>. QED  BY <1>2, <1>3, <1>4, QuotaPaid

LEMMA QuotaStep == TypeOK /\ HandOK /\ QuotaOK /\ [Next]_vars => QuotaOK'
<1>. SUFFICES ASSUME TypeOK, HandOK, QuotaOK, [Next]_vars PROVE QuotaOK'  OBVIOUS
<1>1. TypeOK'  BY TypeStep
<1>. USE DEF cacheVars, answerVars, counters, NextLookup
<1>2. ASSUME NEW i \in Ips, Begin(i) PROVE QuotaOK'
  BY <1>1, <1>2, QuotaStay DEF Begin
<1>3. CASE NotAsked \/ CacheHit \/ AnswerFails
  BY <1>1, <1>3, QuotaStay DEF NotAsked, CacheHit, AnswerFails
<1>4. CASE ListHit \/ ListMiss \/ FetchDecisions \/ StoreList \/ Return
  BY <1>1, <1>4, QuotaStay DEF ListHit, ListMiss, FetchDecisions, StoreList, Return, Forget
<1>5. CASE ListReadFails \/ StoreListFails
  <2>1. /\ pc # "store" /\ pc' = "done" /\ UNCHANGED <<cache, good, repeated, crashes>>
        /\ faults' = faults + 1
    BY <1>5 DEF ListReadFails, StoreListFails, Fault
  <2>2. Owed' \subseteq Owed \cup {<<service, ip>>}  BY <2>1 DEF Owed, InHand, Short
  <2>3. ~ Unread'  BY <2>1 DEF Unread
  <2>. QED  BY <1>1, <2>1, <2>2, <2>3, QuotaPaid
<1>6. CASE UNCHANGED vars
  <2>1. Owed' \subseteq Owed /\ (Unread' => Unread)
    BY <1>6 DEF vars, resultVars, Owed, InHand, Short, Unread
  <2>. QED  BY <1>1, <1>6, <2>1, QuotaFrame DEF vars
<1>. QED
  BY <1>1, <1>2, <1>3, <1>4, <1>5, <1>6, QuotaTick, QuotaAsk, QuotaAnswer, QuotaStore, QuotaCrash
  DEF Next

-----------------------------------------------------------------------------

LEMMA Inductive == Spec => []IInv
<1>1. Init => IInv
  <2>. SUFFICES ASSUME Init PROVE IInv  OBVIOUS
  <2>1. TypeOK  BY TypeInit
  <2>2. HandOK  BY DEF Init, HandOK
  <2>3. CacheFresh /\ ScoreFresh
    BY DEF Init, CacheFresh, ScoreFresh, NoEntry, NoScore
  <2>4. CrowdFresh /\ ListFresh  BY DEF Init, CrowdFresh, ListFresh, NoList
  <2>5. QuotaOK
    <3>1. Owed = {}  BY DEF Init, Owed, Short, NoEntry
    <3>2. Asking = 0  BY DEF Init, Asking, Unread
    <3>3. repeated = 0 /\ faults = 0 /\ crashes = 0  BY DEF Init
    <3>. QED  BY <3>1, <3>2, <3>3, FS_EmptySet DEF QuotaOK
  <2>. QED  BY <2>1, <2>2, <2>3, <2>4, <2>5 DEF IInv
<1>2. IInv /\ [Next]_vars => IInv'
  BY TypeStep, HandStep, FreshStep, ListStep, QuotaStep DEF IInv
<1>. QED  BY <1>1, <1>2, PTL DEF Spec

(* Type correctness of the caches and of the enrichment under way.         *)
THEOREM EnrichmentTypeCorrect == Spec => []TypeOK
<1>1. IInv => TypeOK  BY DEF IInv
<1>. QED  BY <1>1, Inductive, PTL

(* What enrich returns is at most a cache lifetime and twice its own       *)
(* duration old, for the services whose opinion can block an address and   *)
(* for CrowdSec.                                                           *)
THEOREM EnrichmentIsRecent == Spec => []ResultIsRecent
<1>1. IInv => ResultIsRecent
  <2>. SUFFICES ASSUME IInv, pc = "done" PROVE ResultIsRecent
    BY DEF ResultIsRecent, CorroborationIsFresh, CrowdSecIsRecent
  <2>1. ip \in Ips /\ spent \in 0 .. Slack  BY DEF IInv, HandOK, TypeOK
  <2>2. \A s \in Services : high[s][ip] \in Nat
    <3>1. Old \in Nat  BY DEF Old
    <3>. QED  BY <2>1, <3>1 DEF IInv, TypeOK
  <2>3. listed[ip] \in Nat /\ absent[ip] \in Nat
    <3>1. CrowdOld \in Nat  BY DEF CrowdOld
    <3>. QED  BY <2>1, <3>1 DEF IInv, TypeOK
  <2>4. CorroborationIsFresh
    BY <2>1, <2>2 DEF CorroborationIsFresh, Corroborating, IInv, ScoreFresh
  <2>5. CrowdSecIsRecent
    BY <2>1, <2>3 DEF CrowdSecIsRecent, Observed, IInv, ListFresh
  <2>. QED  BY <2>4, <2>5 DEF ResultIsRecent
<1>. QED  BY <1>1, Inductive, PTL

(* A service is asked again within the lifetime of its answer only once    *)
(* for each failure of Redis and each death of the worker.                 *)
THEOREM QuotaIsKept == Spec => []QuotaKept
<1>1. IInv => QuotaKept
  <2>. SUFFICES ASSUME IInv PROVE QuotaKept  OBVIOUS
  <2>1. Cardinality(Owed) \in Nat  BY FS_CardinalityType DEF IInv, QuotaOK
  <2>2. Asking \in Nat  BY DEF Asking
  <2>. QED  BY <2>1, <2>2 DEF IInv, QuotaOK, QuotaKept, TypeOK
<1>. QED  BY <1>1, Inductive, PTL
=============================================================================
