----------------------------- MODULE Enrichment -----------------------------
(***************************************************************************)
(* R1, the passive enrichment of an address (response/enrichment.py with   *)
(* response/crowdsec_adapter.py): two reputation services behind one Redis *)
(* cache each, a list of CrowdSec decisions behind a third, and the count  *)
(* of corroborating sources that lets R2 block.                            *)
(*                                                                         *)
(* Time has no origin: a cache entry is its remaining ticks, and what a    *)
(* service last said is its age, which stops counting when it is Old.      *)
(***************************************************************************)
EXTENDS Naturals, FiniteSets

CONSTANTS
  Ips,
  NoIp,
  Public,         \* those _is_public_ip accepts
  Abuse, Otx,     \* the services, in the order enrich asks them
  Keys,           \* services with an API key
  CrowdSecOn,     \* are crowdsec_lapi_url and its key configured?
  Ttl,            \* abuseipdb_cache_ttl = otx_cache_ttl, in ticks
  CrowdTtl,       \* crowdsec_cache_ttl
  Slack,          \* bound: ticks one enrich may take, given its timeouts
  MaxFaults,      \* bound: failing calls to Redis
  MaxCrashes      \* bound: times the worker dies

Services == {Abuse, Otx}

ASSUME EnrichmentConstants ==
  /\ NoIp \notin Ips /\ Public \subseteq Ips
  /\ Abuse # Otx /\ Keys \subseteq Services /\ CrowdSecOn \in BOOLEAN
  /\ Ttl \in Nat \ {0} /\ CrowdTtl \in Nat \ {0} /\ Slack \in Nat
  /\ MaxFaults \in Nat /\ MaxCrashes \in Nat

(* A score or pulse count that reaches its threshold, or one that does not *)
(* or that no answer gave.                                                 *)
Scores == {"high", "none"}

Old == Ttl + 2 * Slack            \* ages stop counting here
CrowdOld == CrowdTtl + 2 * Slack

NoScore == [s \in Services |-> "none"]
NoEntry == [score |-> "none", left |-> 0]
NoList  == [ips |-> {}, left |-> 0]

VARIABLES
  cache,          \* enrich:<ip> and enrich:otx:<ip>
  crowd,          \* enrich:crowdsec:decisions
  pc, service,    \* next step, and the service it is for
  ip, score,      \* the result under construction
  list,           \* decisions_raw
  spent,          \* ticks this enrich has taken
  \* history
  high,           \* age of the last answer above the threshold
  good,           \* age of the last answer
  listed, absent, \* age of the last list with the address, and of the last
                  \* without it or failure to get one
  blind,          \* did reading the list fail in this enrich?
  repeated,       \* answers to a question answered less than Ttl ago
  faults, crashes

cacheVars   == <<cache, crowd>>
resultVars  == <<service, ip, score, list, blind>>
answerVars  == <<high, good>>
crowdAges   == <<listed, absent>>
counters    == <<repeated, faults, crashes>>
vars == <<cacheVars, pc, resultVars, spent, answerVars, crowdAges, counters>>

TypeOK ==
  /\ cache \in [Services -> [Ips -> [score : Scores, left : 0 .. Ttl]]]
  /\ crowd \in [ips : SUBSET Ips, left : 0 .. CrowdTtl]
  /\ pc \in {"idle", "get", "ask", "store", "crowd_get", "crowd_ask", "crowd_store", "done"}
  /\ service \in Services /\ ip \in Ips \cup {NoIp}
  /\ score \in [Services -> Scores] /\ list \subseteq Ips
  /\ spent \in 0 .. Slack /\ blind \in BOOLEAN
  /\ high \in [Services -> [Ips -> 0 .. Old]] /\ good \in [Services -> [Ips -> 0 .. Ttl]]
  /\ listed \in [Ips -> 0 .. CrowdOld] /\ absent \in [Ips -> 0 .. CrowdOld]
  /\ repeated \in Nat /\ faults \in 0 .. MaxFaults /\ crashes \in 0 .. MaxCrashes

Init ==
  /\ cache = [s \in Services |-> [i \in Ips |-> NoEntry]]
  /\ crowd = NoList
  /\ pc = "idle" /\ service = Abuse /\ ip = NoIp
  /\ score = NoScore /\ list = {} /\ blind = FALSE
  /\ spent = 0
  /\ high = [s \in Services |-> [i \in Ips |-> Old]] 
  /\ good = [s \in Services |-> [i \in Ips |-> Ttl]]
  /\ listed = [i \in Ips |-> CrowdOld] /\ absent = listed
  /\ repeated = 0 /\ faults = 0 /\ crashes = 0

Fault == faults < MaxFaults /\ faults' = faults + 1 /\ UNCHANGED <<repeated, crashes>>

-----------------------------------------------------------------------------
(* The clock: keys expire, and no enrich takes longer than its timeouts.   *)

Expire(entry, gone) == IF entry.left <= 1 THEN gone ELSE [entry EXCEPT !.left = @ - 1]
Older(n, old) == IF n = old THEN old ELSE n + 1

(* Faulty: a request has no timeout.                                       *)
Tick_NoTimeout ==
  /\ IF pc = "idle" THEN UNCHANGED spent ELSE spent' = spent + 1
  /\ cache' = [s \in Services |-> [i \in Ips |-> Expire(cache[s][i], NoEntry)]]
  /\ crowd' = Expire(crowd, NoList)
  /\ high' = [s \in Services |-> [i \in Ips |-> Older(high[s][i], Old)]]
  /\ good' = [s \in Services |-> [i \in Ips |-> Older(good[s][i], Ttl)]]
  /\ listed' = [i \in Ips |-> Older(listed[i], CrowdOld)]
  /\ absent' = [i \in Ips |-> Older(absent[i], CrowdOld)]
  /\ UNCHANGED <<pc, resultVars, counters>>

Tick ==
  /\ IF pc = "idle" THEN UNCHANGED spent ELSE spent < Slack /\ spent' = spent + 1
  /\ cache' = [s \in Services |-> [i \in Ips |-> Expire(cache[s][i], NoEntry)]]
  /\ crowd' = Expire(crowd, NoList)
  /\ high' = [s \in Services |-> [i \in Ips |-> Older(high[s][i], Old)]]
  /\ good' = [s \in Services |-> [i \in Ips |-> Older(good[s][i], Ttl)]]
  /\ listed' = [i \in Ips |-> Older(listed[i], CrowdOld)]
  /\ absent' = [i \in Ips |-> Older(absent[i], CrowdOld)]
  /\ UNCHANGED <<pc, resultVars, counters>>

-----------------------------------------------------------------------------
(* enrich: both lookups, then CrowdSec, then the count.                    *)

Begin(i) ==
  /\ pc = "idle"
  /\ pc' = "get" /\ ip' = i
  /\ UNCHANGED <<cacheVars, service, score, list, blind, spent, answerVars, crowdAges, counters>>

NextLookup ==
  \/ service = Abuse /\ service' = Otx /\ pc' = "get"
  \/ service = Otx /\ pc' = (IF CrowdSecOn THEN "crowd_get" ELSE "done") /\ UNCHANGED service

Asked == ip \in Public /\ service \in Keys

NotAsked ==
  /\ pc = "get" /\ ~ Asked
  /\ NextLookup
  /\ UNCHANGED <<cacheVars, ip, score, list, blind, spent, answerVars, crowdAges, counters>>

(* Faulty: a hit renews the entry.                                         *)
CacheHit_Renews ==
  /\ pc = "get" /\ Asked /\ cache[service][ip].left > 0
  /\ score' = [score EXCEPT ![service] = cache[service][ip].score]
  /\ cache' = [cache EXCEPT ![service][ip].left = Ttl]
  /\ NextLookup
  /\ UNCHANGED <<crowd, ip, list, blind, spent, answerVars, crowdAges, counters>>

CacheHit ==
  /\ pc = "get" /\ Asked /\ cache[service][ip].left > 0
  /\ score' = [score EXCEPT ![service] = cache[service][ip].score]
  /\ NextLookup
  /\ UNCHANGED <<cacheVars, ip, list, blind, spent, answerVars, crowdAges, counters>>

CacheMiss ==
  /\ pc = "get" /\ Asked /\ cache[service][ip].left = 0
  /\ pc' = "ask"
  /\ UNCHANGED <<cacheVars, resultVars, spent, answerVars, crowdAges, counters>>

CacheReadFails ==
  /\ pc = "get" /\ Asked
  /\ Fault
  /\ pc' = "ask"
  /\ UNCHANGED <<cacheVars, resultVars, spent, answerVars, crowdAges>>

Answer ==
  /\ pc = "ask"
  /\ \E n \in Scores :
       /\ score' = [score EXCEPT ![service] = n]
       /\ high' = IF n = "high" THEN [high EXCEPT ![service][ip] = 0] ELSE high
  /\ good' = [good EXCEPT ![service][ip] = 0]
  /\ repeated' = IF good[service][ip] < Ttl THEN repeated + 1 ELSE repeated
  /\ pc' = "store"
  /\ UNCHANGED <<cacheVars, service, ip, list, blind, spent, crowdAges, faults, crashes>>

(* An HTTP error, a timeout or a body that is not JSON: nothing is cached. *)
AnswerFails ==
  /\ pc = "ask"
  /\ NextLookup
  /\ UNCHANGED <<cacheVars, ip, score, list, blind, spent, answerVars, crowdAges, counters>>

(* Faulty: answers without a score above the threshold are not cached.     *)
Setex_OnlyHigh ==
  IF score[service] # "high" THEN cache
  ELSE [cache EXCEPT ![service][ip] = [score |-> score[service], left |-> Ttl]]

Setex == [cache EXCEPT ![service][ip] = [score |-> score[service], left |-> Ttl]]

Store ==
  /\ pc = "store"
  /\ cache' = Setex
  /\ NextLookup
  /\ UNCHANGED <<crowd, ip, score, list, blind, spent, answerVars, crowdAges, counters>>

StoreFails ==
  /\ pc = "store"
  /\ Fault
  /\ cache' \in {cache, Setex}
  /\ NextLookup
  /\ UNCHANGED <<crowd, ip, score, list, blind, spent, answerVars, crowdAges>>

-----------------------------------------------------------------------------
(* _crowdsec_lookup: the whole list is cached, an empty one included.      *)

ListHit ==
  /\ pc = "crowd_get" /\ crowd.left > 0
  /\ list' = crowd.ips
  /\ pc' = "done"
  /\ UNCHANGED <<cacheVars, service, ip, score, blind, spent, answerVars, crowdAges, counters>>

ListMiss ==
  /\ pc = "crowd_get" /\ crowd.left = 0
  /\ pc' = "crowd_ask"
  /\ UNCHANGED <<cacheVars, resultVars, spent, answerVars, crowdAges, counters>>

ListReadFails ==
  /\ pc = "crowd_get"
  /\ Fault
  /\ blind' = TRUE
  /\ pc' = "done"
  /\ UNCHANGED <<cacheVars, service, ip, score, list, spent, answerVars, crowdAges>>

(* The answer of the LAPI, or {} when it has none.                         *)
FetchDecisions ==
  /\ pc = "crowd_ask"
  /\ \E l \in SUBSET Ips :
       /\ list' = l
       /\ listed' = [i \in Ips |-> IF i \in l THEN 0 ELSE listed[i]]
       /\ absent' = [i \in Ips |-> IF i \in l THEN absent[i] ELSE 0]
  /\ pc' = "crowd_store"
  /\ UNCHANGED <<cacheVars, service, ip, score, blind, spent, answerVars, counters>>

SetexList == [ips |-> list, left |-> CrowdTtl]

StoreList ==
  /\ pc = "crowd_store"
  /\ crowd' = SetexList
  /\ pc' = "done"
  /\ UNCHANGED <<cache, resultVars, spent, answerVars, crowdAges, counters>>

StoreListFails ==
  /\ pc = "crowd_store"
  /\ Fault
  /\ crowd' \in {crowd, SetexList}
  /\ pc' = "done"
  /\ UNCHANGED <<cache, resultVars, spent, answerVars, crowdAges>>

(* What is left of an enrich when it is over: nothing.                     *)
Forget ==
  /\ pc' = "idle" /\ service' = Abuse /\ ip' = NoIp
  /\ score' = NoScore /\ list' = {} /\ blind' = FALSE /\ spent' = 0

Return ==
  /\ pc = "done"
  /\ Forget
  /\ UNCHANGED <<cacheVars, answerVars, crowdAges, counters>>

Crash ==
  /\ pc # "idle"
  /\ crashes < MaxCrashes /\ crashes' = crashes + 1
  /\ Forget
  /\ UNCHANGED <<cacheVars, answerVars, crowdAges, repeated, faults>>

Next ==
  \/ Tick
  \/ \E i \in Ips : Begin(i)
  \/ NotAsked \/ CacheHit \/ CacheMiss \/ CacheReadFails
  \/ Answer \/ AnswerFails \/ Store \/ StoreFails
  \/ ListHit \/ ListMiss \/ ListReadFails \/ FetchDecisions \/ StoreList \/ StoreListFails
  \/ Return \/ Crash

Spec == Init /\ [][Next]_vars

-----------------------------------------------------------------------------
(* What R2 and the decisions index get.                                    *)

(* count_corroborating_sources.                                            *)
Corroborating == {s \in Services : score[s] = "high"}

(* crowdsec_observado.                                                     *)
Observed == ip \in list

(* A block is never justified by an old opinion: every source that         *)
(* corroborates said so itself less than a cache lifetime ago, plus the    *)
(* time an enrichment may take before storing and after reading it.        *)
CorroborationIsFresh ==
  pc = "done" => \A s \in Corroborating : high[s][ip] < Ttl + 2 * Slack

(* With CrowdSec configured, what enrich says of the address was true of   *)
(* CrowdSec, or CrowdSec was not reachable, less than the short lifetime   *)
(* ago; only a failing read of the list lets it say no without asking.     *)
CrowdSecIsRecent ==
  (pc = "done" /\ CrowdSecOn) =>
    IF Observed THEN listed[ip] < CrowdTtl + 2 * Slack
                ELSE blind \/ absent[ip] < CrowdTtl + 2 * Slack

(* Both of them: R2 and the decisions index never get an older picture.    *)
ResultIsRecent == CorroborationIsFresh /\ CrowdSecIsRecent

(* The caches keep the quota: a service answers again what it answered     *)
(* less than Ttl ago only where Redis failed or the worker died, once for  *)
(* each of them.                                                           *)
QuotaKept == repeated <= faults + crashes
=============================================================================
