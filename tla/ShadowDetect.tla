---------------------------- MODULE ShadowDetect ----------------------------
(***************************************************************************)
(* The shadow detector (vigilante/shadow_detect.py).  A timer starts it    *)
(* every few minutes; each run reads what Suricata added to eve.json since *)
(* the offset in its state file, counts the findings in OpenSearch and     *)
(* saves the new offset.                                                   *)
(*                                                                         *)
(* A line of eve.json is two units long, so that a run can end, and the    *)
(* next one begin, in the middle of a line.  An event is its position      *)
(* among all events ever logged; what the thresholds and the curated SIDs  *)
(* make of it is the sequence of entities it is a finding for.             *)
(***************************************************************************)
EXTENDS Integers, Sequences, FiniteSets

CONSTANTS
  Events,         \* what an event may be: sequences of entities
  MaxLines,       \* MAX_LINES_PER_RUN (200 000)
  MaxEvents,      \* bound: events logged
  MaxHalves,      \* bound: lines a run may see half written
  MaxRotations,   \* bound: times eve.json is truncated
  MaxFaults,      \* bound: requests to OpenSearch that fail
  MaxCrashes      \* bound: runs that are killed

ASSUME ShadowConstants ==
  /\ \A ev \in Events : ev \in Seq(UNION {{e[k] : k \in 1 .. Len(e)} : e \in Events})
  /\ MaxLines \in Nat \ {0}
  /\ MaxEvents \in Nat /\ MaxHalves \in Nat /\ MaxRotations \in Nat
  /\ MaxFaults \in Nat /\ MaxCrashes \in Nat

Entities == UNION {{e[k] : k \in 1 .. Len(e)} : e \in Events}

NoOffset == -1      \* the sentinel of load_offset

VARIABLES
  \* eve.json
  log,            \* every event ever logged
  base,           \* events that were truncated away
  half,           \* is the last line only half written?
  \* the state file: a saved offset, or NoOffset when missing or unreadable
  file,
  \* OpenSearch
  docs,           \* documents, oldest first
  searchable,     \* how many of them a search sees
  expired,        \* how many of them are older than DEDUP_WINDOW_HOURS
  \* the run
  pc,
  start, offset,  \* offset read from the file, offset to be saved
  todo,           \* findings still to be written
  target,         \* document _find_recent came back with, 0 for none
  \* history
  counted,        \* how often each finding was counted in some document
  failed,         \* findings one of whose requests failed
  jumped, jumps,  \* events passed over by runs that began at the end, such runs
  torn,           \* events a run saw half written
  unseen,         \* documents written after a search that could not see
  halves, rotations, faults, crashes

eveVars     == <<log, base, half, halves, rotations>>
osVars      == <<docs, searchable, expired>>
runVars     == <<start, offset, todo, target>>
historyVars == <<counted, failed, jumped, jumps, torn, unseen, faults, crashes>>
vars == <<eveVars, file, osVars, pc, runVars, historyVars>>

InEve == base + 1 .. Len(log)

(* Where line i of the file begins and ends.                               *)
Begins(i) == 2 * (i - base) - 2
Ends(i)   == 2 * (i - base)

Size == 2 * (Len(log) - base) - (IF half THEN 1 ELSE 0)

FindingsOf(i) == {<<i, k>> : k \in 1 .. Len(log[i])}

Findings == UNION {FindingsOf(i) : i \in 1 .. Len(log)}

EntityOf(f) == log[f[1]][f[2]]

Times(f) == IF f \in DOMAIN counted THEN counted[f] ELSE 0

TypeOK ==
  /\ log \in Seq(Events) /\ base \in 0 .. Len(log) /\ half \in BOOLEAN
  /\ file \in {NoOffset} \cup Nat
  /\ docs \in Seq([entity : Entities, occurrences : Nat \ {0}])
  /\ searchable \in 0 .. Len(docs) /\ expired \in 0 .. Len(docs)
  /\ pc \in {"idle", "first", "read", "find", "write", "open", "dump"}
  /\ start \in Nat /\ offset \in Nat
  /\ todo \subseteq Findings /\ target \in 0 .. Len(docs)
  /\ DOMAIN counted \subseteq Findings /\ failed \subseteq Findings
  /\ jumped \subseteq 1 .. Len(log) /\ jumps \in Nat /\ torn \subseteq 1 .. Len(log)
  /\ halves \in 0 .. MaxHalves /\ rotations \in 0 .. MaxRotations
  /\ unseen \subseteq 1 .. Len(docs) + 1
  /\ faults \in 0 .. MaxFaults /\ crashes \in 0 .. MaxCrashes

Init ==
  /\ log = <<>> /\ base = 0 /\ half = FALSE
  /\ file = NoOffset
  /\ docs = <<>> /\ searchable = 0 /\ expired = 0
  /\ pc = "idle" /\ start = 0 /\ offset = 0 /\ todo = {} /\ target = 0
  /\ counted = <<>> /\ failed = {} /\ jumped = {} /\ jumps = 0 /\ torn = {} /\ unseen = {}
  /\ halves = 0 /\ rotations = 0 /\ faults = 0 /\ crashes = 0

-----------------------------------------------------------------------------
(* Suricata.                                                               *)

LogEvent(ev) ==
  /\ ~half /\ Len(log) < MaxEvents
  /\ log' = Append(log, ev)
  /\ \/ half' = FALSE /\ UNCHANGED halves
     \/ half' = TRUE /\ halves < MaxHalves /\ halves' = halves + 1
  /\ UNCHANGED <<base, rotations, file, osVars, pc, runVars, historyVars>>

FinishLine ==
  /\ half
  /\ half' = FALSE
  /\ UNCHANGED <<log, base, halves, rotations, file, osVars, pc, runVars, historyVars>>

Rotate ==
  /\ ~half /\ InEve # {}
  /\ rotations < MaxRotations /\ rotations' = rotations + 1
  /\ base' = Len(log)
  /\ UNCHANGED <<log, half, halves, file, osVars, pc, runVars, historyVars>>

-----------------------------------------------------------------------------
(* OpenSearch: an indexed document can be searched after the next refresh, *)
(* and leaves the window DEDUP_WINDOW_HOURS after it was detected.         *)

Refresh ==
  /\ searchable < Len(docs)
  /\ searchable' = Len(docs)
  /\ UNCHANGED <<eveVars, file, docs, expired, pc, runVars, historyVars>>

Expire ==
  /\ expired < Len(docs)
  /\ expired' = expired + 1
  /\ UNCHANGED <<eveVars, file, docs, searchable, pc, runVars, historyVars>>

Fault == faults < MaxFaults /\ faults' = faults + 1

-----------------------------------------------------------------------------
(* check().                                                                *)

(* The process ends and what it had read goes with it.                     *)
End == pc' = "idle" /\ start' = 0 /\ offset' = 0 /\ todo' = {} /\ target' = 0

(* Faulty: an offset of 0 is taken for a missing one.                      *)
StartRun_ZeroIsMissing ==
  /\ pc = "idle"
  /\ IF file \in {NoOffset, 0}
       THEN pc' = "first" /\ UNCHANGED start
       ELSE pc' = "read" /\ start' = file
  /\ UNCHANGED <<eveVars, file, osVars, offset, todo, target, historyVars>>

(* load_offset.                                                            *)
StartRun ==
  /\ pc = "idle"
  /\ IF file = NoOffset
       THEN pc' = "first" /\ UNCHANGED start
       ELSE pc' = "read" /\ start' = file
  /\ UNCHANGED <<eveVars, file, osVars, offset, todo, target, historyVars>>

(* First run, or the state file was unreadable: begin at the end.          *)
FirstRun ==
  /\ pc = "first"
  /\ offset' = Size
  /\ jumped' = jumped \cup InEve /\ jumps' = jumps + 1
  /\ pc' = "open"
  /\ UNCHANGED <<eveVars, file, osVars, start, todo, target, counted, failed, torn, unseen, faults, crashes>>

(* A file shorter than the offset was rotated: begin at 0.                 *)
From == IF start <= Size THEN start ELSE 0

Lines == {i \in InEve : Ends(i) > From}

(* Lines that parse: whole, and read from their beginning.                 *)
Parsed == {i \in Lines : Begins(i) >= From /\ Ends(i) <= Size}

(* read_new_events.                                                        *)
ReadNewEvents ==
  /\ pc = "read"
  /\ Cardinality(Lines) <= MaxLines
  /\ todo' = UNION {FindingsOf(i) : i \in Parsed}
  /\ torn' = torn \cup (Lines \ Parsed)
  /\ offset' = Size
  /\ pc' = IF todo' = {} THEN "open" ELSE "find"
  /\ UNCHANGED <<eveVars, file, osVars, start, target, counted, failed, jumped, jumps, unseen, faults, crashes>>

(* More than MaxLines lines: the loop is left by break, and f.tell() after *)
(* an unfinished iteration raises OSError.  The run ends here.             *)
TellFails ==
  /\ pc = "read"
  /\ Cardinality(Lines) > MaxLines
  /\ End
  /\ UNCHANGED <<eveVars, file, osVars, historyVars>>

(* The findings are dealt with in the order of the file.                   *)
IsNext(f) == f \in todo /\ \A g \in todo : f[1] < g[1] \/ (f[1] = g[1] /\ f[2] <= g[2])

(* Faulty: "lt" for "gte", the documents outside the window.               *)
Recent_Older(e) == {d \in 1 .. searchable : d <= expired /\ docs[d].entity = e}

(* _find_recent: the newest document of the entity inside the window.      *)
Recent(e) == {d \in expired + 1 .. searchable : docs[d].entity = e}

FindRecent(f) ==
  /\ pc = "find" /\ IsNext(f)
  /\ LET found == Recent(EntityOf(f)) IN
       IF found = {} THEN target' = 0
       ELSE target' \in found /\ \A d \in found : d <= target'
  /\ unseen' = IF \E d \in searchable + 1 .. Len(docs) :
                       d > expired /\ docs[d].entity = EntityOf(f)
                 THEN unseen \cup {Len(docs) + 1} ELSE unseen \ {Len(docs) + 1}
  /\ pc' = "write"
  /\ UNCHANGED <<eveVars, file, osVars, start, offset, todo, counted, failed, jumped, jumps, torn,
                 faults, crashes>>

(* No answer is taken for "none".                                          *)
FindFails ==
  /\ pc = "find"
  /\ Fault
  /\ target' = 0
  /\ unseen' = unseen \cup {Len(docs) + 1}
  /\ pc' = "write"
  /\ UNCHANGED <<eveVars, file, osVars, start, offset, todo, counted, failed, jumped, jumps, torn, crashes>>

NextFinding(f) ==
  /\ todo' = todo \ {f}
  /\ pc' = IF todo' = {} THEN "open" ELSE "find"
  /\ target' = 0
  /\ UNCHANGED <<start, offset>>

Count(f) ==
  counted' = [g \in DOMAIN counted \cup {f} |-> IF g = f THEN Times(f) + 1 ELSE counted[g]]

(* _bump_occurrence or index_finding reaches OpenSearch.                   *)
Stored(f) ==
  /\ Count(f)
  /\ IF target > 0
       THEN /\ docs' = [docs EXCEPT ![target].occurrences = @ + 1]
            /\ UNCHANGED <<searchable, expired>>
       ELSE /\ docs' = Append(docs, [entity |-> EntityOf(f), occurrences |-> 1])
            /\ UNCHANGED <<searchable, expired>>

Upsert(f) ==
  /\ pc = "write" /\ IsNext(f)
  /\ Stored(f)
  /\ NextFinding(f)
  /\ UNCHANGED <<eveVars, file, failed, jumped, jumps, torn, unseen, faults, crashes>>

(* The answer is lost or says no: logged, and the next finding.            *)
UpsertFails(f) ==
  /\ pc = "write" /\ IsNext(f)
  /\ Fault
  /\ failed' = failed \cup {f}
  /\ Stored(f) \/ UNCHANGED <<osVars, counted>>
  /\ NextFinding(f)
  /\ UNCHANGED <<eveVars, file, jumped, jumps, torn, unseen, crashes>>

(* save_offset: open("w") empties the file ...                             *)
OpenState ==
  /\ pc = "open"
  /\ file' = NoOffset
  /\ pc' = "dump"
  /\ UNCHANGED <<eveVars, osVars, runVars, historyVars>>

(* Faulty: the size of the file at the end of the run is saved.            *)
DumpState_Size ==
  /\ pc = "dump"
  /\ file' = Size
  /\ End
  /\ UNCHANGED <<eveVars, osVars, historyVars>>

(* Faulty: the number of bytes read is saved.                              *)
DumpState_Delta ==
  /\ pc = "dump"
  /\ file' = offset - start
  /\ End
  /\ UNCHANGED <<eveVars, osVars, historyVars>>

(* ... and json.dump fills it.                                             *)
DumpState ==
  /\ pc = "dump"
  /\ file' = offset
  /\ End
  /\ UNCHANGED <<eveVars, osVars, historyVars>>

(* The run is killed, or the disk refuses the state file.                  *)
Crash ==
  /\ pc # "idle"
  /\ crashes < MaxCrashes /\ crashes' = crashes + 1
  /\ End
  /\ UNCHANGED <<eveVars, file, osVars, counted, failed, jumped, jumps, torn, unseen, faults>>

Step ==
  \/ StartRun \/ FirstRun \/ ReadNewEvents \/ TellFails
  \/ FindFails \/ \E f \in todo : FindRecent(f) \/ Upsert(f) \/ UpsertFails(f)
  \/ OpenState \/ DumpState

Next ==
  \/ \E ev \in Events : LogEvent(ev)
  \/ FinishLine \/ Rotate \/ Refresh \/ Expire
  \/ Step \/ Crash

Spec == Init /\ [][Next]_vars

(* shadow-detect.timer starts a run again and again, and every request of  *)
(* a run times out.                                                        *)
FairSpec == Spec /\ WF_vars(Step)

-----------------------------------------------------------------------------
(* Properties.                                                             *)

(* A finding is counted again only by a run that repeats one that was      *)
(* killed before it had saved its offset: overlapping reads, failing       *)
(* requests, half-written lines and rotations count nothing twice.         *)
CountedOncePerCrash == \A f \in Findings : Times(f) <= 1 + crashes

(* When no run is working, every event before the saved offset was looked  *)
(* at: all its findings are counted, but those whose request failed, and   *)
(* no event was passed over but by a run that began at the end of the file *)
(* or saw the line half written. Runs begin at the end of the file once,   *)
(* and once more for each that was killed while it wrote the state file.   *)
NothingMissed ==
  /\ rotations = 0 /\ file # NoOffset =>
       \A i \in InEve \ (jumped \cup torn) :
         Ends(i) <= file => \A f \in FindingsOf(i) : Times(f) > 0 \/ f \in failed
  /\ jumps <= 1 + crashes

EventsKept == CountedOncePerCrash /\ NothingMissed

(* "evita que una fuente ruidosa ... genere un documento nuevo": inside    *)
(* the window an entity has one document, not counting those written after *)
(* a search that failed or ran before a refresh.                           *)
DuplicatesBounded ==
  \A e \in Entities :
    Cardinality({d \in expired + 1 .. Len(docs) : docs[d].entity = e} \ unseen) <= 1

Looked(i) ==
  \/ i \in jumped \cup torn \/ i <= base
  \/ \A f \in FindingsOf(i) : Times(f) > 0 \/ f \in failed

(* "procesa hasta este limite y deja el resto para la proxima corrida":    *)
(* every event is one day looked at.                                       *)
EveryEventIsLooked ==
  \A i \in 1 .. MaxEvents : i <= Len(log) ~> (i <= Len(log) /\ Looked(i))

Overrun == pc = "read" /\ Cardinality(Lines) > MaxLines

(* It is, unless a run falls behind by more than MaxLines lines or the     *)
(* file was truncated, which an offset it has outgrown does not show.      *)
LookedUnlessOverrun ==
  (\E i \in 1 .. Len(log) : ~Looked(i))
    ~> (\A i \in 1 .. Len(log) : Looked(i)) \/ Overrun \/ rotations > 0
=============================================================================
