------------------------------- MODULE Labeller -------------------------------
(***************************************************************************)
(* The daily labeller (scripts/training/etiquetador/etiquetador_diario.py).*)
(* A cron job starts it; each run reads the records of eve.json stamped    *)
(* later than its cursor, asks AbuseIPDB about the sources it does not     *)
(* know, appends a labelled row per flow to the training corpus and saves  *)
(* the cursor.                                                             *)
(*                                                                         *)
(* A record of eve.json is an alert, with its category, or the end of a    *)
(* flow, and is named by its position.  A row keeps the flow, the label    *)
(* and the score it was given; reasons and features are left out.          *)
(***************************************************************************)
EXTENDS Integers, Sequences, FiniteSets

CONSTANTS
  Flows,          \* flows that may end
  Ips,            \* their external sources
  SrcOf(_),       \* source of a flow, in Ips when es_ip_interna says no
  Controlled,     \* flows get_label_campana finds in a registered campaign
  Scores,         \* scores AbuseIPDB may give, 0 .. 100
  MaxCalls,       \* MAX_API_CALLS (900)
  SaveEvery,      \* calls between two saves of the cache (100)
  MaxRecords,     \* bound: records logged
  MaxEarlier,     \* bound: records stamped earlier than one before them
  MaxCrashes      \* bound: runs that are killed

ASSUME LabellerConstants ==
  /\ Controlled \subseteq Flows /\ Scores \subseteq 0 .. 100
  /\ MaxCalls \in Nat \ {0} /\ SaveEvery \in Nat \ {0}
  /\ MaxRecords \in Nat /\ MaxEarlier \in Nat /\ MaxCrashes \in Nat

ScoreAtaque  == 40
ScoreBenigno == 10
Unknown      == -1

VARIABLES
  eve,            \* records of eve.json
  half,           \* is the line of the last one still being written?
  earlier,        \* those stamped earlier than one before them
  \* files of the labeller
  cursor,         \* ultimo_timestamp, 0 before the first run
  stored,         \* cached score of each source
  broken,         \* files that were opened for writing and never filled
  corpus,         \* rows, oldest first
  headed,         \* did the corpus begin with a header?
  ragged,         \* does it end in the middle of a row?
  \* the run
  pc,
  upto,           \* records it has read
  cache,          \* scores in memory
  todo, calls,    \* sources to ask about, calls made
  at,             \* the last record it has written a row for
  \* history
  passed,         \* records no run will read: the cursor moved past them
  glued,          \* flows whose row was written behind a torn one
  crashes

eveVars     == <<eve, half, earlier>>
fileVars    == <<cursor, stored, broken, corpus, headed, ragged>>
runVars     == <<upto, cache, todo, calls, at>>
historyVars == <<passed, glued, crashes>>
vars == <<eveVars, fileVars, pc, runVars, historyVars>>

Categories == {"attack", "noise", "other"}
NoCategory == "none"

IsFlow(i) == eve[i].kind = "flow"

Top == LET stamps == {0} \cup {eve[i].stamp : i \in 1 .. Len(eve)}
       IN CHOOSE s \in stamps : \A t \in stamps : t <= s

TypeOK ==
  /\ eve \in Seq([kind : Categories \cup {"flow"}, flow : Flows, stamp : Nat \ {0}])
  /\ half \in BOOLEAN /\ earlier \in 0 .. MaxEarlier
  /\ cursor \in 0 .. Top /\ broken \subseteq {"state", "cache", "corpus"}
  /\ stored \in [Ips -> Scores \cup {Unknown}] /\ cache \in [Ips -> Scores \cup {Unknown}]
  /\ corpus \in Seq([flow : Flows, label : {-1, 0, 1}, score : Scores \cup {Unknown}])
  /\ headed \in BOOLEAN /\ ragged \in BOOLEAN
  /\ pc \in {"idle", "read", "ask", "opencache", "cache", "write", "open", "state"}
  /\ upto \in 0 .. Len(eve) /\ at \in 0 .. upto
  /\ todo \subseteq Ips /\ calls \in 0 .. MaxCalls
  /\ passed \subseteq 1 .. Len(eve) /\ glued \subseteq Flows /\ crashes \in 0 .. MaxCrashes

NoScores == [ip \in Ips |-> Unknown]

Init ==
  /\ eve = <<>> /\ half = FALSE /\ earlier = 0
  /\ cursor = 0 /\ stored = NoScores /\ broken = {}
  /\ corpus = <<>> /\ headed \in BOOLEAN /\ ragged = FALSE
  /\ pc = "idle" /\ upto = 0 /\ cache = NoScores /\ todo = {} /\ calls = 0 /\ at = 0
  /\ passed = {} /\ glued = {} /\ crashes = 0

-----------------------------------------------------------------------------
(* Suricata: a flow's alerts come before its end; several threads write,   *)
(* so a record can carry the stamp of the one before it or an earlier one. *)

Log(kind, f, s) ==
  /\ ~half
  /\ \A i \in 1 .. Len(eve) : ~(IsFlow(i) /\ eve[i].flow = f)
  /\ Len(eve) < MaxRecords
  /\ s >= Top - 1
  /\ IF s < Top THEN earlier < MaxEarlier /\ earlier' = earlier + 1 ELSE UNCHANGED earlier
  /\ eve' = Append(eve, [kind |-> kind, flow |-> f, stamp |-> s])
  /\ half' \in BOOLEAN
  /\ passed' = IF s <= cursor THEN passed \cup {Len(eve')} ELSE passed
  /\ UNCHANGED <<fileVars, pc, runVars, glued, crashes>>

Flush ==
  /\ half /\ half' = FALSE
  /\ UNCHANGED <<eve, earlier, fileVars, pc, runVars, historyVars>>

-----------------------------------------------------------------------------
(* main.                                                                   *)

(* The process ends; what it had read goes with it.                        *)
End ==
  /\ pc' = "idle"
  /\ upto' = 0 /\ cache' = NoScores /\ todo' = {} /\ calls' = 0 /\ at' = 0

(* cargar_estado, cargar_cache, get_fieldnames.                            *)
StartRun ==
  /\ pc = "idle" /\ broken = {}
  /\ pc' = "read" /\ cache' = stored
  /\ UNCHANGED <<eveVars, fileVars, upto, todo, calls, at, historyVars>>

(* json.load of an empty file raises, next(csv.reader) too, and so in      *)
(* every run to come.                                                      *)
StartFails ==
  /\ pc = "idle" /\ broken # {}
  /\ UNCHANGED vars

(* Faulty: a record with the stamp of the cursor is read again.            *)
Fresh_Again(n) == {i \in 1 .. n : eve[i].stamp >= cursor}

(* The records among the first n that are stamped later than the cursor.   *)
Fresh(n) == {i \in 1 .. n : eve[i].stamp > cursor}

FlowsNew(n) == {i \in Fresh(n) : IsFlow(i)}

(* ip_counter.                                                             *)
Volume(ip, n) == Cardinality({i \in FlowsNew(n) : SrcOf(eve[i].flow) = ip})

(* Fase 1. A line that is half written does not parse.                     *)
ReadEve ==
  /\ pc = "read"
  /\ upto' = IF half THEN Len(eve) - 1 ELSE Len(eve)
  /\ todo' = {ip \in Ips : Volume(ip, upto') > 0 /\ cache[ip] = Unknown}
  /\ pc' = IF FlowsNew(upto') = {} THEN "open" ELSE IF todo' = {} THEN "write" ELSE "ask"
  /\ UNCHANGED <<eveVars, fileVars, cache, calls, at, historyVars>>

Busiest(ip) == \A other \in todo : Volume(other, upto) <= Volume(ip, upto)

(* Faulty: a call that fails is not counted, and made again.               *)
Ask_Retries(ip) ==
  /\ pc = "ask" /\ ip \in todo /\ Busiest(ip)
  /\ \E score \in Scores \cup {Unknown} :
       /\ cache' = [cache EXCEPT ![ip] = score]
       /\ calls' = IF score = Unknown THEN calls ELSE calls + 1
       /\ todo' = IF score = Unknown THEN todo ELSE IF calls' < MaxCalls THEN todo \ {ip} ELSE {}
  /\ pc' = IF calls' % SaveEvery = 0 \/ todo' = {} THEN "opencache" ELSE "ask"
  /\ UNCHANGED <<eveVars, fileVars, upto, at, historyVars>>

(* Fase 2: query_abuse, the busiest sources first. A call that fails       *)
(* leaves its source unknown for this run.                                 *)
Ask(ip) ==
  /\ pc = "ask" /\ ip \in todo /\ Busiest(ip)
  /\ calls' = calls + 1
  /\ \E score \in Scores \cup {Unknown} : cache' = [cache EXCEPT ![ip] = score]
  /\ todo' = IF calls' < MaxCalls THEN todo \ {ip} ELSE {}
  /\ pc' = IF calls' % SaveEvery = 0 \/ todo' = {} THEN "opencache" ELSE "ask"
  /\ UNCHANGED <<eveVars, fileVars, upto, at, historyVars>>

(* guardar_cache: open("w") empties the file, json.dump fills it.          *)
OpenCache ==
  /\ pc = "opencache"
  /\ broken' = broken \cup {"cache"}
  /\ pc' = "cache"
  /\ UNCHANGED <<eveVars, cursor, stored, corpus, headed, ragged, runVars, historyVars>>

DumpCache ==
  /\ pc = "cache"
  /\ stored' = cache /\ broken' = broken \ {"cache"}
  /\ pc' = IF todo = {} THEN "write" ELSE "ask"
  /\ UNCHANGED <<eveVars, cursor, corpus, headed, ragged, runVars, historyVars>>

-----------------------------------------------------------------------------
(* Fase 4.                                                                 *)

(* alert_index keeps the last alert of a flow.                             *)
Category(f) ==
  LET alerts == {i \in Fresh(upto) : ~IsFlow(i) /\ eve[i].flow = f}
  IN IF alerts = {} THEN NoCategory
     ELSE eve[CHOOSE i \in alerts : \A j \in alerts : j <= i].kind

(* In alert_index, or flow.alerted, which Suricata sets.                   *)
Alerted(f) == \E i \in 1 .. Len(eve) : ~IsFlow(i) /\ eve[i].flow = f

Score(f) == IF SrcOf(f) \in Ips THEN cache[SrcOf(f)] ELSE Unknown

(* Faulty: noise is looked at before anything else.                        *)
GetLabel_NoiseFirst(category, alerted, score) ==
  IF category = "noise" \/ (~alerted /\ score < ScoreBenigno) THEN 0
  ELSE IF category = "attack" \/ score >= ScoreAtaque \/ (alerted /\ score >= 20) THEN 1
  ELSE -1

(* get_label: an attack, or a bad score; noise, or a quiet flow of an      *)
(* address that is clean or unknown; a middling score with an alert; the   *)
(* rest is for review.                                                     *)
GetLabel(category, alerted, score) ==
  IF category = "attack" \/ score >= ScoreAtaque THEN 1
  ELSE IF category = "noise" \/ (~alerted /\ score < ScoreBenigno) THEN 0
  ELSE IF alerted /\ score >= 20 THEN 1
  ELSE -1

Row(f) ==
  [flow |-> f, score |-> Score(f),
   label |-> IF f \in Controlled THEN 1 ELSE GetLabel(Category(f), Alerted(f), Score(f))]

(* Without a header, the fieldnames of a later run are the first row of    *)
(* data, and writerow raises.                                              *)
Headless == ~headed /\ (corpus # <<>> \/ ragged)

(* The loop has begun, or its first row will not raise.                    *)
MayWrite == at > 0 \/ ~Headless

(* Record i is the next flow of the loop over flows_nuevos.                *)
IsNext(i) ==
  /\ i \in FlowsNew(upto) /\ i > at
  /\ \A j \in FlowsNew(upto) : j > at => i <= j

(* A row is appended; the first one continues a line that was torn.        *)
WriteRow(i) ==
  /\ pc = "write" /\ MayWrite /\ IsNext(i)
  /\ IF ragged THEN glued' = glued \cup {eve[i].flow} /\ UNCHANGED corpus
     ELSE corpus' = Append(corpus, Row(eve[i].flow)) /\ UNCHANGED glued
  /\ ragged' = FALSE
  /\ at' = i
  /\ pc' = IF \E j \in FlowsNew(upto) : j > i THEN "write" ELSE "open"
  /\ UNCHANGED <<eveVars, cursor, stored, broken, headed, upto, cache, todo, calls, passed, crashes>>

HeaderFails ==
  /\ pc = "write" /\ ~MayWrite
  /\ End
  /\ UNCHANGED <<eveVars, fileVars, historyVars>>

(* The run is killed, or the disk is full, while the rows are written: the *)
(* rest of them is not in the file but for a part of the next, and a file  *)
(* that is new may be left empty.                                          *)
WriteBreaks ==
  /\ pc = "write" /\ MayWrite
  /\ crashes < MaxCrashes /\ crashes' = crashes + 1
  /\ ragged' \in {ragged, TRUE}
  /\ \/ UNCHANGED broken
     \/ ~headed /\ corpus = <<>> /\ ~ragged' /\ broken' = broken \cup {"corpus"}
  /\ End
  /\ UNCHANGED <<eveVars, cursor, stored, corpus, headed, passed, glued>>

(* guardar_estado: open("w") ...                                           *)
OpenState ==
  /\ pc = "open"
  /\ broken' = broken \cup {"state"}
  /\ pc' = "state"
  /\ UNCHANGED <<eveVars, cursor, stored, corpus, headed, ragged, runVars, historyVars>>

(* Faulty: the time of the run is saved.                                   *)
Latest_Now == Top + 1

(* max_ts.                                                                 *)
Latest ==
  LET stamps == {cursor} \cup {eve[i].stamp : i \in 1 .. upto}
  IN CHOOSE s \in stamps : \A t \in stamps : t <= s

(* ... and json.dump.                                                      *)
DumpState ==
  /\ pc = "state"
  /\ cursor' = Latest /\ broken' = broken \ {"state"}
  /\ passed' = passed \cup {i \in upto + 1 .. Len(eve) : eve[i].stamp <= cursor'}
  /\ End
  /\ UNCHANGED <<eveVars, stored, corpus, headed, ragged, glued, crashes>>

Crash ==
  /\ pc \notin {"idle", "write"}
  /\ crashes < MaxCrashes /\ crashes' = crashes + 1
  /\ End
  /\ UNCHANGED <<eveVars, fileVars, passed, glued>>

Step ==
  \/ StartRun \/ StartFails \/ ReadEve
  \/ \E ip \in Ips : Ask(ip)
  \/ \E i \in 1 .. upto : WriteRow(i)
  \/ OpenCache \/ DumpCache \/ HeaderFails \/ OpenState \/ DumpState

Next ==
  \/ \E kind \in Categories \cup {"flow"}, f \in Flows, s \in 1 .. Top + 1 : Log(kind, f, s)
  \/ Flush \/ Step \/ WriteBreaks \/ Crash

Spec == Init /\ [][Next]_vars

(* cron starts it day after day, its requests time out, and Suricata ends  *)
(* the line it writes.                                                     *)
FairSpec == Spec /\ WF_vars(Step) /\ WF_vars(Flush)

-----------------------------------------------------------------------------
(* Properties.                                                             *)

Copies(f) == Cardinality({k \in 1 .. Len(corpus) : corpus[k].flow = f})

(* Between two runs, each flow that the cursor covers is in the corpus, if *)
(* it was there to be read when the cursor moved and was not written       *)
(* behind a torn row; and no flow is there more than once and once again   *)
(* for each run that was killed.                                           *)
LabelledOnce ==
  /\ pc = "idle" =>
       \A i \in 1 .. Len(eve) \ passed :
         IsFlow(i) /\ eve[i].stamp <= cursor => Copies(eve[i].flow) > 0 \/ eve[i].flow \in glued
  /\ \A f \in Flows : Copies(f) <= 1 + crashes

(* Alert of f of the kind, logged and read after position i.               *)
AlertAfter(i, f, kind) == \E j \in i + 1 .. Len(eve) : eve[j].kind = kind /\ eve[j].flow = f

(* A flow that raised an attack alert is benign for the training set only  *)
(* if a later alert of it was noise or the alert was passed over, and a    *)
(* flow is an attack only for its alert, its campaign or its source: an    *)
(* alert read by an earlier run, an unknown source or a run that repeats a *)
(* killed one do not turn one into the other.                              *)
LabelsJustified ==
  \A k \in 1 .. Len(corpus) :
    LET row == corpus[k] IN
      /\ row.label = 0 =>
           /\ row.flow \notin Controlled /\ row.score < ScoreAtaque
           /\ \A i \in 1 .. Len(eve) :
                eve[i].kind = "attack" /\ eve[i].flow = row.flow
                  => i \in passed \/ AlertAfter(i, row.flow, "noise")
      /\ row.label = 1 =>
           \/ row.flow \in Controlled \/ row.score >= 20
           \/ AlertAfter(0, row.flow, "attack")

(* Every flow is labelled one day, but those passed over or glued, and     *)
(* unless a killed run left a file it cannot read or the corpus has no     *)
(* header.                                                                 *)
EveryFlowIsLabelled ==
  (\E n \in 1 .. Len(eve) : IsFlow(n))
    ~> \A n \in 1 .. Len(eve) :
         IsFlow(n) => \/ Copies(eve[n].flow) > 0
                      \/ n \in passed \/ eve[n].flow \in glued
                      \/ pc = "idle" /\ broken # {}
                      \/ Headless
=============================================================================
