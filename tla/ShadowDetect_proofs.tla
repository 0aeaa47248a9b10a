------------------------ MODULE ShadowDetect_proofs ------------------------
(***************************************************************************)
(* Proofs about ShadowDetect, for any events, any limit of lines and any   *)
(* number of rotations, faults and crashes: its types, what is counted     *)
(* twice or missed, and how many documents an entity has.                  *)
(***************************************************************************)
EXTENDS ShadowDetect, SequenceTheorems, FiniteSetTheorems, TLAPS

(* The bookkeeping is of findings there are.                               *)
CountedOK == DOMAIN counted \subseteq Findings /\ \A f \in DOMAIN counted : counted[f] \in Nat

(* A half-written line is in the file, findings wait only while they are   *)
(* being written, and a run knows what it found in the state file.         *)
PhaseOK ==
  /\ half => base < Len(log)
  /\ pc \notin {"find", "write"} => todo = {}
  /\ pc = "read" => start = file
  /\ pc \in {"first", "dump"} => file = NoOffset

TypeInv == TypeOK /\ CountedOK /\ PhaseOK

-----------------------------------------------------------------------------
(* The operators.                                                          *)

LEMMA EventSeq == ASSUME NEW ev \in Events PROVE ev \in Seq(Entities)
BY ShadowConstants DEF Entities

LEMMA FindingPair ==
  ASSUME log \in Seq(Events), NEW f \in Findings
  PROVE  /\ f[1] \in 1 .. Len(log) /\ f[2] \in 1 .. Len(log[f[1]])
         /\ f = <<f[1], f[2]>> /\ f \in FindingsOf(f[1]) /\ EntityOf(f) \in Entities
<1>1. PICK i \in 1 .. Len(log) : f \in FindingsOf(i)  BY DEF Findings
<1>2. PICK k \in 1 .. Len(log[i]) : f = <<i, k>>  BY <1>1 DEF FindingsOf
<1>3. f[1] = i /\ f[2] = k  BY <1>2
<1>4. log[i] \in Seq(Entities)  BY EventSeq
<1>5. log[i][k] \in Entities  BY <1>4
<1>. QED  BY <1>1, <1>2, <1>3, <1>5 DEF EntityOf

(* What is logged stays what it is.                                        *)
LEMMA LogGrows ==
  ASSUME log \in Seq(Events), NEW ev \in Events, log' = Append(log, ev)
  PROVE  /\ log' \in Seq(Events) /\ Len(log') = Len(log) + 1
         /\ \A i \in 1 .. Len(log) : FindingsOf(i)' = FindingsOf(i)
         /\ Findings \subseteq Findings'
         /\ \A f \in Findings : EntityOf(f)' = EntityOf(f)
<1>1. log' \in Seq(Events) /\ Len(log') = Len(log) + 1
  OBVIOUS
<1>2. \A i \in 1 .. Len(log) : log'[i] = log[i]
  OBVIOUS
<1>3. \A i \in 1 .. Len(log) : FindingsOf(i)' = FindingsOf(i)
  BY <1>2 DEF FindingsOf
<1>4. Findings \subseteq Findings'
  <2>1. 1 .. Len(log) \subseteq 1 .. Len(log')  BY <1>1
  <2>. QED  BY <1>3, <2>1 DEF Findings
<1>5. \A f \in Findings : EntityOf(f)' = EntityOf(f)
  BY <1>2, FindingPair DEF EntityOf
<1>. QED  BY <1>1, <1>3, <1>4, <1>5

LEMMA LogStays ==
  ASSUME log' = log
  PROVE  /\ Findings' = Findings /\ \A i : FindingsOf(i)' = FindingsOf(i)
         /\ \A f : EntityOf(f)' = EntityOf(f)
BY DEF Findings, FindingsOf, EntityOf

(* The file ends at the end of its last line, or inside it.                *)
LEMMA SizeFacts ==
  ASSUME log \in Seq(Events), base \in 0 .. Len(log), half \in BOOLEAN, half => base < Len(log)
  PROVE  /\ Size \in Nat /\ Size <= 2 * (Len(log) - base)
         /\ 2 * (Len(log) - base) - 1 <= Size
         /\ ~half => Size = 2 * (Len(log) - base)
         /\ half => Size = 2 * (Len(log) - base) - 1
<1>. Len(log) \in Nat  OBVIOUS
<1>1. CASE half   BY <1>1 DEF Size
<1>2. CASE ~half  BY <1>2 DEF Size
<1>. QED  BY <1>1, <1>2

LEMMA SizeNat == TypeInv => Size \in Nat
<1>. SUFFICES ASSUME TypeInv PROVE Size \in Nat  OBVIOUS
<1>1. log \in Seq(Events) /\ base \in 0 .. Len(log) /\ half \in BOOLEAN /\ (half => base < Len(log))
  BY Zenon DEF TypeInv, TypeOK, PhaseOK
<1>. QED  BY <1>1, SizeFacts

(* Steps of which eve.json knows nothing.                                  *)
LEMMA FileStays ==
  ASSUME UNCHANGED eveVars
  PROVE  /\ InEve' = InEve /\ Findings' = Findings /\ Size' = Size
         /\ \A i : FindingsOf(i)' = FindingsOf(i)
         /\ \A i : Begins(i)' = Begins(i) /\ Ends(i)' = Ends(i)
<1>1. log' = log /\ base' = base  BY DEF eveVars
<1>2. half' = half  BY Zenon DEF eveVars
<1>3. Size' = Size  BY <1>1, <1>2, Zenon DEF Size
<1>. QED  BY <1>1, <1>3, LogStays DEF InEve, Begins, Ends

LEMMA TimesStay == ASSUME counted' = counted PROVE \A f : Times(f)' = Times(f)
BY DEF Times

LEMMA TimesNat == ASSUME CountedOK, NEW f PROVE Times(f) \in Nat
BY DEF CountedOK, Times

(* A finding that is stored is counted once more, and no other is.         *)
LEMMA CountFacts ==
  ASSUME CountedOK, NEW f \in Findings, Count(f), log' = log
  PROVE  /\ CountedOK' /\ Times(f)' = Times(f) + 1
         /\ \A g : g # f => Times(g)' = Times(g)
<1>1. Times(f) \in Nat  BY TimesNat
<1>2. DOMAIN counted' = DOMAIN counted \cup {f}  BY DEF Count
<1>3. \A g \in DOMAIN counted' : counted'[g] = IF g = f THEN Times(f) + 1 ELSE counted[g]
  BY DEF Count
<1>4. Findings' = Findings  BY LogStays
<1>5. CountedOK'  BY <1>1, <1>2, <1>3, <1>4 DEF CountedOK
<1>6. Times(f)' = Times(f) + 1  BY <1>2, <1>3 DEF Times
<1>7. \A g : g # f => Times(g)' = Times(g)  BY <1>2, <1>3 DEF Times
<1>. QED  BY <1>5, <1>6, <1>7

-----------------------------------------------------------------------------
(* Types.                                                                  *)

LEMMA TypeInit == Init => TypeInv
<1>. SUFFICES ASSUME Init PROVE TypeInv  OBVIOUS
<1>1. log \in Seq(Events) /\ docs \in Seq([entity : Entities, occurrences : Nat \ {0}])
  BY EmptySeq DEF Init
<1>2. Len(log) = 0 /\ Len(docs) = 0  BY DEF Init
<1>3. half \in BOOLEAN /\ ~half  BY Zenon DEF Init
<1>4. counted = <<>> /\ DOMAIN counted = {}  BY DEF Init
<1>5. TypeOK  BY <1>1, <1>2, <1>3, <1>4, ShadowConstants DEF Init, TypeOK
<1>6. CountedOK /\ PhaseOK  BY <1>3, <1>4 DEF Init, CountedOK, PhaseOK
<1>. QED  BY <1>5, <1>6 DEF TypeInv

(* The numbers among the variables.                                        *)
LEMMA Numbers ==
  ASSUME TypeOK
  PROVE  /\ Len(log) \in Nat /\ base \in 0 .. Len(log) /\ rotations \in 0 .. MaxRotations
         /\ Len(docs) \in Nat /\ searchable \in 0 .. Len(docs) /\ expired \in 0 .. Len(docs)
         /\ target \in 0 .. Len(docs)
<1>1. /\ log \in Seq(Events) /\ base \in 0 .. Len(log) /\ rotations \in 0 .. MaxRotations
      /\ docs \in Seq([entity : Entities, occurrences : Nat \ {0}])
      /\ searchable \in 0 .. Len(docs) /\ expired \in 0 .. Len(docs)
      /\ target \in 0 .. Len(docs)
  BY Zenon DEF TypeOK
<1>2. Len(log) \in Nat /\ Len(docs) \in Nat  BY <1>1, LenProperties, Zenon
<1>. QED  BY <1>1, <1>2, Zenon

LEMMA TypeFault == TypeOK /\ Fault => faults' \in 0 .. MaxFaults
BY ShadowConstants DEF TypeOK, Fault

(* Suricata writes, eve.json is truncated.                                 *)
LEMMA TypeLogEvent == ASSUME TypeInv, NEW ev \in Events, LogEvent(ev) PROVE TypeInv'
<1>. USE DEF TypeInv
<1>1. /\ log \in Seq(Events) /\ log' = Append(log, ev)
  BY DEF TypeOK, LogEvent
<1>2. /\ log' \in Seq(Events) /\ Len(log') = Len(log) + 1 /\ Findings \subseteq Findings'
  BY <1>1, LogGrows
<1>3. Len(log) \in Nat /\ base \in 0 .. Len(log')  /\ 1 .. Len(log) \subseteq 1 .. Len(log')
  BY <1>1, <1>2 DEF TypeOK
<1>4. half' \in BOOLEAN  BY Zenon DEF LogEvent
<1>5. halves' \in 0 .. MaxHalves  BY ShadowConstants DEF LogEvent, TypeOK
<1>6. TypeOK'
  <2>. USE DEF TypeOK, LogEvent, osVars, runVars, historyVars
  <2>1. log' \in Seq(Events) /\ base' \in 0 .. Len(log')  BY <1>2, <1>3
  <2>2. /\ file' \in {NoOffset} \cup Nat /\ start' \in Nat /\ offset' \in Nat
        /\ docs' \in Seq([entity : Entities, occurrences : Nat \ {0}])
        /\ searchable' \in 0 .. Len(docs') /\ expired' \in 0 .. Len(docs')
        /\ target' \in 0 .. Len(docs') /\ unseen' \subseteq 1 .. Len(docs') + 1
    OBVIOUS
  <2>3. pc' \in {"idle", "first", "read", "find", "write", "open", "dump"}  OBVIOUS
  <2>4. todo' \subseteq Findings' /\ DOMAIN counted' \subseteq Findings' /\ failed' \subseteq Findings'
    BY <1>2
  <2>5. jumped' \subseteq 1 .. Len(log') /\ torn' \subseteq 1 .. Len(log')  BY <1>3
  <2>6. jumps' \in Nat /\ rotations' \in 0 .. MaxRotations /\ faults' \in 0 .. MaxFaults
        /\ crashes' \in 0 .. MaxCrashes
    OBVIOUS
  <2>. QED  BY <2>1, <1>4, <1>5, <2>2, <2>3, <2>4, <2>5, <2>6
<1>7. CountedOK'  BY <1>2 DEF CountedOK, LogEvent, historyVars
<1>8. PhaseOK'
  <2>1. base' < Len(log')  BY <1>2, <1>3 DEF LogEvent, TypeOK
  <2>. QED  BY <2>1 DEF PhaseOK, LogEvent, runVars
<1>. QED  BY <1>6, <1>7, <1>8

LEMMA TypeFile == TypeInv /\ (FinishLine \/ Rotate) => TypeInv'
<1>. SUFFICES ASSUME TypeInv, FinishLine \/ Rotate PROVE TypeInv'  OBVIOUS
<1>. USE DEF TypeInv, FinishLine, Rotate, osVars, runVars, historyVars
<1>1. log' = log /\ Findings' = Findings  BY LogStays
<1>2. half' \in BOOLEAN  BY Zenon DEF TypeOK
<1>3. base' \in 0 .. Len(log') /\ rotations' \in 0 .. MaxRotations
  <2>. HIDE DEF TypeInv
  <2>. USE Numbers DEF TypeInv
  <2>1. CASE FinishLine
    <3>. QED  BY <1>1, <2>1
  <2>2. CASE Rotate
    <3>. QED  BY <1>1, <2>2, ShadowConstants
  <2>. QED  BY <2>1, <2>2
<1>4. TypeOK'  BY <1>1, <1>2, <1>3 DEF TypeOK
<1>5. CountedOK'  BY <1>1 DEF CountedOK
<1>6. ~half'  BY Zenon
<1>7. PhaseOK'  BY <1>6 DEF PhaseOK
<1>. QED  BY <1>4, <1>5, <1>7

(* A refresh, a document that leaves the window.                           *)
LEMMA TypeSearch == TypeInv /\ (Refresh \/ Expire) => TypeInv'
<1>. SUFFICES ASSUME TypeInv, Refresh \/ Expire PROVE TypeInv'  OBVIOUS
<1>. USE DEF TypeInv, Refresh, Expire, eveVars, runVars, historyVars
<1>1. log' = log /\ Findings' = Findings  BY LogStays
<1>2. half' \in BOOLEAN  BY Zenon DEF TypeOK
<1>3. searchable' \in 0 .. Len(docs') /\ expired' \in 0 .. Len(docs')
  BY Numbers
<1>4. TypeOK'  BY <1>1, <1>2, <1>3 DEF TypeOK
<1>5. CountedOK'  BY <1>1 DEF CountedOK
<1>6. half' = half  BY Zenon
<1>7. PhaseOK'  BY <1>1, <1>6 DEF PhaseOK
<1>. QED  BY <1>4, <1>5, <1>7

(* The beginning and the end of a run.                                     *)
LEMMA TypeRun ==
  TypeInv /\ (StartRun \/ FirstRun \/ TellFails \/ OpenState \/ DumpState \/ Crash) => TypeInv'
<1>. SUFFICES ASSUME TypeInv, StartRun \/ FirstRun \/ TellFails \/ OpenState \/ DumpState \/ Crash
     PROVE  TypeInv'
  OBVIOUS
<1>. USE DEF TypeInv
<1>0. UNCHANGED <<log, base, half, halves, rotations, osVars, counted, failed, torn, unseen, faults>>
  BY DEF StartRun, FirstRun, TellFails, OpenState, DumpState, Crash, eveVars, historyVars
<1>1. Findings' = Findings  BY <1>0, LogStays
<1>2. half' = half /\ half' \in BOOLEAN  BY <1>0, Zenon DEF TypeOK
<1>3. Size \in Nat  BY SizeNat DEF TypeInv
<1>4. /\ file' \in {NoOffset} \cup Nat /\ start' \in Nat /\ offset' \in Nat
      /\ todo' \subseteq Findings' /\ target' \in 0 .. Len(docs')
  <2>1. /\ file \in {NoOffset} \cup Nat /\ start \in Nat /\ offset \in Nat
        /\ todo \subseteq Findings
    BY Zenon DEF TypeOK
  <2>2. file' \in {file, NoOffset, offset}
    BY Zenon DEF StartRun, FirstRun, TellFails, OpenState, DumpState, Crash
  <2>3. /\ start' \in {start, 0} \/ (file # NoOffset /\ start' = file)
        /\ offset' \in {offset, 0, Size}
        /\ todo' \in {todo, {}} /\ target' \in {target, 0}
    <3>. HIDE DEF TypeInv
    <3>1. CASE StartRun  BY <3>1 DEF StartRun
    <3>2. CASE FirstRun  BY <3>2 DEF FirstRun
    <3>3. CASE OpenState  BY <3>3 DEF OpenState, runVars
    <3>4. CASE TellFails \/ DumpState \/ Crash
      <4>1. End  BY <3>4 DEF TellFails, DumpState, Crash
      <4>. QED  BY <4>1 DEF End
    <3>. QED  BY <3>1, <3>2, <3>3, <3>4
  <2>4. docs' = docs  BY <1>0 DEF osVars
  <2>5. /\ file' \in {NoOffset} \cup Nat /\ start' \in Nat /\ offset' \in Nat
        /\ todo' \subseteq Findings'
    <3>. HIDE DEF TypeInv
    <3>. QED  BY <1>1, <1>3, <2>1, <2>2, <2>3
  <2>. QED  BY <2>3, <2>4, <2>5, Numbers
<1>5. pc' \in {"idle", "first", "read", "find", "write", "open", "dump"}
  BY DEF StartRun, FirstRun, TellFails, OpenState, DumpState, Crash, End
<1>6. jumped' \subseteq 1 .. Len(log') /\ jumps' \in Nat
  <2>1. log' = log /\ InEve \subseteq 1 .. Len(log)  BY <1>0 DEF TypeOK, InEve
  <2>2. jumped' \in {jumped, jumped \cup InEve} /\ jumps' \in {jumps, jumps + 1}
    BY DEF StartRun, FirstRun, TellFails, OpenState, DumpState, Crash, historyVars
  <2>. QED  BY <2>1, <2>2 DEF TypeOK
<1>7. crashes' \in 0 .. MaxCrashes
  BY ShadowConstants
     DEF TypeOK, StartRun, FirstRun, TellFails, OpenState, DumpState, Crash, historyVars
<1>8. TypeOK'
  BY <1>0, <1>1, <1>2, <1>4, <1>5, <1>6, <1>7 DEF TypeOK, osVars
<1>9. CountedOK'  BY <1>0, <1>1 DEF CountedOK
<1>10. PhaseOK'
  BY <1>0, <1>2
     DEF PhaseOK, StartRun, FirstRun, TellFails, OpenState, DumpState, Crash, End, runVars
<1>. QED  BY <1>8, <1>9, <1>10

LEMMA TypeReadNewEvents == TypeInv /\ ReadNewEvents => TypeInv'
<1>. SUFFICES ASSUME TypeInv, ReadNewEvents PROVE TypeInv'  OBVIOUS
<1>. USE DEF TypeInv, ReadNewEvents, eveVars, osVars
<1>1. log' = log /\ Findings' = Findings  BY LogStays
<1>2. half' = half /\ half' \in BOOLEAN  BY Zenon DEF TypeOK
<1>3. Size \in Nat  BY SizeNat DEF TypeInv
<1>4. Lines \subseteq 1 .. Len(log) /\ Parsed \subseteq 1 .. Len(log)
  BY DEF Lines, Parsed, InEve, TypeOK
<1>5. todo' \subseteq Findings'  BY <1>1, <1>4 DEF Findings
<1>6. torn' \subseteq 1 .. Len(log')  BY <1>1, <1>4 DEF TypeOK
<1>7. TypeOK'  BY <1>1, <1>2, <1>3, <1>5, <1>6 DEF TypeOK
<1>8. CountedOK'  BY <1>1 DEF CountedOK
<1>9. PhaseOK'  BY <1>1, <1>2 DEF PhaseOK
<1>. QED  BY <1>7, <1>8, <1>9

LEMMA TypeFind ==
  ASSUME TypeInv, (\E f \in todo : FindRecent(f)) \/ FindFails PROVE TypeInv'
<1>. USE DEF TypeInv
<1>0. UNCHANGED <<eveVars, file, osVars, start, offset, todo, counted, failed, jumped, jumps, torn, crashes>>
  BY DEF FindRecent, FindFails
<1>1. log' = log /\ Findings' = Findings  BY <1>0, LogStays DEF eveVars
<1>2. half' = half /\ half' \in BOOLEAN  BY <1>0, Zenon DEF TypeOK, eveVars
<1>3. target' \in 0 .. Len(docs)
  <2>1. \A e : Recent(e) \subseteq 0 .. Len(docs)  BY Numbers DEF Recent
  <2>2. CASE FindFails  BY <2>2, Numbers DEF FindFails
  <2>3. ASSUME NEW f \in todo, FindRecent(f) PROVE target' \in 0 .. Len(docs)
    <3>1. target' = 0 \/ target' \in Recent(EntityOf(f))  BY <2>3, Zenon DEF FindRecent
    <3>. QED  BY <2>1, <3>1, Numbers
  <2>. QED  BY <2>2, <2>3
<1>4. unseen' \subseteq 1 .. Len(docs) + 1
  <2>1. Len(docs) + 1 \in 1 .. Len(docs) + 1  BY DEF TypeOK
  <2>. QED  BY <2>1 DEF FindRecent, FindFails, TypeOK
<1>5. faults' \in 0 .. MaxFaults  BY TypeFault DEF FindRecent, FindFails, TypeOK
<1>6. pc' = "write" /\ pc = "find"  BY DEF FindRecent, FindFails
<1>7. TypeOK'
  BY <1>0, <1>1, <1>2, <1>3, <1>4, <1>5, <1>6 DEF TypeOK, eveVars, osVars
<1>8. CountedOK'  BY <1>0, <1>1 DEF CountedOK
<1>9. PhaseOK'  BY <1>0, <1>2, <1>6 DEF PhaseOK, eveVars
<1>. QED  BY <1>7, <1>8, <1>9

LEMMA StoredDocs ==
  ASSUME TypeInv, NEW f \in todo, Stored(f) \/ UNCHANGED <<osVars, counted>>
  PROVE  /\ docs' \in Seq([entity : Entities, occurrences : Nat \ {0}])
         /\ Len(docs') \in {Len(docs), Len(docs) + 1}
         /\ searchable' = searchable /\ expired' = expired
<1>0. /\ docs \in Seq([entity : Entities, occurrences : Nat \ {0}])
      /\ Len(docs) \in Nat /\ target \in 0 .. Len(docs)
  BY Numbers, Zenon DEF TypeInv, TypeOK
<1>1. EntityOf(f) \in Entities  BY FindingPair DEF TypeInv, TypeOK
<1>2. CASE UNCHANGED <<osVars, counted>>  BY <1>0, <1>2 DEF osVars
<1>3. CASE Stored(f) /\ target > 0
  <2>1. target \in 1 .. Len(docs)  BY <1>0, <1>3
  <2>2. docs[target] \in [entity : Entities, occurrences : Nat \ {0}]
    BY <1>0, <2>1, ElementOfSeq
  <2>3. docs' = [docs EXCEPT ![target].occurrences = @ + 1]  BY <1>3 DEF Stored
  <2>4. DEFINE r == [docs[target] EXCEPT !.occurrences = @ + 1]
  <2>5. r \in [entity : Entities, occurrences : Nat \ {0}]
    <3>1. docs[target].occurrences \in Nat  BY <2>2
    <3>2. docs[target].occurrences + 1 \in Nat \ {0}  BY <3>1
    <3>. QED  BY <2>2, <3>2
  <2>6. docs' = [docs EXCEPT ![target] = r]  BY <2>3
  <2>. HIDE DEF r
  <2>7. docs' \in Seq([entity : Entities, occurrences : Nat \ {0}]) /\ Len(docs') = Len(docs)
    BY <1>0, <2>1, <2>5, <2>6, ExceptSeq
  <2>. QED  BY <1>3, <2>7 DEF Stored
<1>4. CASE Stored(f) /\ ~(target > 0)
  <2>1. docs' = Append(docs, [entity |-> EntityOf(f), occurrences |-> 1])  BY <1>4 DEF Stored
  <2>2. [entity |-> EntityOf(f), occurrences |-> 1] \in [entity : Entities, occurrences : Nat \ {0}]
    BY <1>1
  <2>. QED  BY <1>0, <1>4, <2>1, <2>2 DEF Stored
<1>. QED  BY <1>2, <1>3, <1>4

LEMMA TypeUpsert ==
  ASSUME TypeInv, NEW f \in todo, Upsert(f) \/ UpsertFails(f) PROVE TypeInv'
<1>. USE DEF TypeInv
<1>0. /\ Stored(f) \/ UNCHANGED <<osVars, counted>>
      /\ NextFinding(f)
      /\ pc = "write"
      /\ UNCHANGED <<eveVars, file, jumped, jumps, torn, unseen, crashes>>
  BY DEF Upsert, UpsertFails
<1>1. log' = log /\ Findings' = Findings  BY <1>0, LogStays DEF eveVars
<1>2. half' = half /\ half' \in BOOLEAN  BY <1>0, Zenon DEF TypeOK, eveVars
<1>3. /\ docs' \in Seq([entity : Entities, occurrences : Nat \ {0}])
      /\ Len(docs') \in {Len(docs), Len(docs) + 1}
      /\ searchable' = searchable /\ expired' = expired
  BY <1>0, StoredDocs
<1>4. /\ searchable' \in 0 .. Len(docs') /\ expired' \in 0 .. Len(docs')
      /\ unseen' \subseteq 1 .. Len(docs') + 1
  BY <1>0, <1>3 DEF TypeOK
<1>5. faults' \in 0 .. MaxFaults  BY TypeFault DEF Upsert, UpsertFails, TypeOK
<1>6. f \in Findings  BY DEF TypeOK
<1>7. failed' \subseteq Findings  BY <1>6 DEF Upsert, UpsertFails, TypeOK
<1>8. CountedOK'
  <2>1. CASE Stored(f)  BY <1>1, <1>6, <2>1, CountFacts DEF Stored
  <2>2. CASE UNCHANGED <<osVars, counted>>  BY <1>1, <2>2 DEF CountedOK
  <2>. QED  BY <1>0, <2>1, <2>2
<1>9. /\ todo' \subseteq Findings /\ target' = 0 /\ pc' \in {"open", "find"}
      /\ start' = start /\ offset' = offset /\ (pc' = "open" => todo' = {})
  BY <1>0 DEF NextFinding, TypeOK
<1>10. TypeOK'
  <2>1. target' \in 0 .. Len(docs')  BY <1>3, <1>9
  <2>2. DOMAIN counted' \subseteq Findings'  BY <1>8 DEF CountedOK
  <2>. QED
    BY <1>0, <1>1, <1>2, <1>3, <1>4, <1>5, <1>7, <1>9, <2>1, <2>2 DEF TypeOK, eveVars
<1>11. PhaseOK'  BY <1>0, <1>2, <1>9 DEF PhaseOK, eveVars
<1>. QED  BY <1>8, <1>10, <1>11

LEMMA TypeStep == TypeInv /\ [Next]_vars => TypeInv'
<1>. SUFFICES ASSUME TypeInv, [Next]_vars PROVE TypeInv'  OBVIOUS
<1>1. CASE \E ev \in Events : LogEvent(ev)  BY <1>1, TypeLogEvent
<1>2. CASE FinishLine \/ Rotate  BY <1>2, TypeFile
<1>3. CASE Refresh \/ Expire  BY <1>3, TypeSearch
<1>4. CASE StartRun \/ FirstRun \/ TellFails \/ OpenState \/ DumpState \/ Crash  BY <1>4, TypeRun
<1>5. CASE ReadNewEvents  BY <1>5, TypeReadNewEvents
<1>6. CASE FindFails \/ \E f \in todo : FindRecent(f)  BY <1>6, TypeFind
<1>7. CASE \E f \in todo : Upsert(f) \/ UpsertFails(f)  BY <1>7, TypeUpsert
<1>8. CASE UNCHANGED vars
  <2>. USE <1>8 DEF vars, eveVars, osVars, runVars, historyVars
  <2>1. log' = log /\ Findings' = Findings  BY LogStays
  <2>2. half' = half  BY Zenon
  <2>3. TypeOK'  BY <2>1, <2>2 DEF TypeInv, TypeOK
  <2>4. CountedOK' /\ PhaseOK'  BY <2>1, <2>2 DEF TypeInv, CountedOK, PhaseOK
  <2>. QED  BY <2>3, <2>4 DEF TypeInv
<1>. QED  BY <1>1, <1>2, <1>3, <1>4, <1>5, <1>6, <1>7, <1>8 DEF Next, Step

-----------------------------------------------------------------------------
(* What is counted.                                                        *)

Working == pc \in {"find", "write", "open", "dump"}

(* Where a run that is given the offset x reads on.                        *)
ReadsFrom(x) == IF x <= Size THEN x ELSE 0

(* What such a run reads was counted only by runs that were killed.        *)
Unread(x) ==
  \A i \in InEve : Begins(i) >= ReadsFrom(x) => \A f \in FindingsOf(i) : Times(f) <= crashes

(* So is what a run is about to write, and it lies before the offset the   *)
(* run will save, unless it was truncated away.                            *)
OnceInv ==
  /\ CountedOncePerCrash
  /\ \A f \in todo : /\ Times(f) <= crashes
                     /\ f[1] \in InEve => Begins(f[1]) < offset /\ offset <= Size
  /\ Working => Unread(offset)
  /\ ~Working /\ file # NoOffset => Unread(file)

(* The file only gets longer, and new lines are new findings.              *)
LEMMA EveGrows ==
  ASSUME TypeInv, FinishLine \/ \E ev \in Events : LogEvent(ev)
  PROVE  /\ base' = base /\ UNCHANGED <<rotations, file, osVars, pc, runVars, historyVars>>
         /\ Size \in Nat /\ Size' \in Nat /\ Size <= Size'
         /\ InEve \subseteq InEve' /\ Findings \subseteq Findings'
         /\ \A i \in InEve : FindingsOf(i)' = FindingsOf(i)
         /\ \A i \in InEve' \ InEve : /\ Size <= Begins(i)
                                     /\ \A f \in FindingsOf(i)' : f \notin Findings
<1>. USE DEF TypeInv
<1>1. log \in Seq(Events) /\ base \in 0 .. Len(log) /\ half \in BOOLEAN /\ (half => base < Len(log))
  BY Zenon DEF TypeOK, PhaseOK
<1>2. /\ Size \in Nat /\ Size <= 2 * (Len(log) - base)
      /\ ~half => Size = 2 * (Len(log) - base)
      /\ half => Size = 2 * (Len(log) - base) - 1
  BY <1>1, SizeFacts
<1>3. TypeInv'  BY TypeStep DEF Next
<1>4. /\ log' \in Seq(Events) /\ base' \in 0 .. Len(log') /\ half' \in BOOLEAN
      /\ half' => base' < Len(log')
  BY <1>3, Zenon DEF TypeOK, PhaseOK
<1>5. /\ Size' \in Nat /\ 2 * (Len(log') - base') - 1 <= Size'
      /\ ~half' => Size' = 2 * (Len(log') - base')
  <2>1. ASSUME log' \in Seq(Events), base' \in 0 .. Len(log'), half' \in BOOLEAN, half' => base' < Len(log')
        PROVE  /\ Size' \in Nat /\ 2 * (Len(log') - base') - 1 <= Size'
               /\ ~half' => Size' = 2 * (Len(log') - base')
    <3>. Len(log') \in Nat  BY <2>1
    <3>1. CASE half'   BY <2>1, <3>1 DEF Size
    <3>2. CASE ~half'  BY <2>1, <3>2 DEF Size
    <3>. QED  BY <3>1, <3>2
  <2>. QED  BY <1>4, <2>1
<1>6. CASE FinishLine
  <2>1. log' = log /\ base' = base /\ half /\ ~half'  BY <1>6, Zenon DEF FinishLine
  <2>2. Size <= Size'  BY <1>1, <1>2, <1>5, <2>1
  <2>3. InEve' = InEve  BY <2>1 DEF InEve
  <2>. QED  BY <1>2, <1>5, <1>6, <2>1, <2>2, <2>3, LogStays DEF FinishLine
<1>7. CASE \E ev \in Events : LogEvent(ev)
  <2>1. PICK ev \in Events : LogEvent(ev)  BY <1>7
  <2>2. base' = base /\ log' = Append(log, ev) /\ ~half  BY <2>1, Zenon DEF LogEvent
  <2>3. /\ Len(log') = Len(log) + 1 /\ Findings \subseteq Findings'
        /\ \A i \in 1 .. Len(log) : FindingsOf(i)' = FindingsOf(i)
    BY <1>1, <2>2, LogGrows
  <2>4. Size <= Size'  BY <1>1, <1>2, <1>5, <2>2, <2>3
  <2>5. InEve \subseteq InEve' /\ InEve \subseteq 1 .. Len(log)  BY <1>1, <2>2, <2>3 DEF InEve
  <2>6. ASSUME NEW i \in InEve' \ InEve
        PROVE  Size <= Begins(i) /\ \A f \in FindingsOf(i)' : f \notin Findings
    <3>1. i = Len(log) + 1  BY <1>1, <2>2, <2>3 DEF InEve
    <3>2. \A f \in FindingsOf(i)' : f[1] = i  BY DEF FindingsOf
    <3>3. \A f \in Findings : f[1] \in 1 .. Len(log)  BY <1>1, FindingPair
    <3>4. Size <= Begins(i)  BY <1>1, <1>2, <2>2, <3>1 DEF Begins
    <3>. QED  BY <1>1, <3>1, <3>2, <3>3, <3>4
  <2>7. UNCHANGED <<rotations, file, osVars, pc, runVars, historyVars>>  BY <2>1 DEF LogEvent
  <2>. QED  BY <1>2, <1>5, <2>2, <2>3, <2>4, <2>5, <2>6, <2>7
<1>. QED  BY <1>6, <1>7

LEMMA OnceInit == Init => OnceInv
<1>. SUFFICES ASSUME Init PROVE OnceInv  OBVIOUS
<1>1. Findings = {}
  <2>1. 1 .. Len(log) = {}  BY DEF Init
  <2>. QED  BY <2>1 DEF Findings
<1>. QED  BY <1>1 DEF Init, OnceInv, CountedOncePerCrash, Working

LEMMA OnceEveGrows ==
  ASSUME TypeInv, OnceInv, FinishLine \/ \E ev \in Events : LogEvent(ev)
  PROVE  OnceInv'
<1>. USE DEF TypeInv
<1>1. /\ base' = base
      /\ file' = file /\ pc' = pc /\ offset' = offset /\ todo' = todo /\ counted' = counted /\ crashes' = crashes
      /\ Size \in Nat /\ Size' \in Nat /\ Size <= Size'
      /\ InEve \subseteq InEve' /\ Findings \subseteq Findings'
      /\ \A i \in InEve : FindingsOf(i)' = FindingsOf(i)
      /\ \A i \in InEve' \ InEve : /\ Size <= Begins(i)
                                  /\ \A f \in FindingsOf(i)' : f \notin Findings
  BY EveGrows DEF runVars, historyVars
<1>2. \A f : Times(f)' = Times(f)  BY <1>1 DEF Times
<1>3. \A i : Begins(i)' = Begins(i)  BY <1>1 DEF Begins
<1>4. \A f : f \notin Findings => Times(f) = 0  BY DEF CountedOK, Times
<1>5. crashes \in Nat  BY DEF TypeOK
<1>6. CountedOncePerCrash'
  <2>. SUFFICES ASSUME NEW f \in Findings' PROVE Times(f)' <= 1 + crashes'
    BY DEF CountedOncePerCrash
  <2>. QED  BY <1>1, <1>2, <1>4, <1>5 DEF OnceInv, CountedOncePerCrash
<1>7. ASSUME NEW f \in todo' PROVE (f[1] \in InEve)' => f[1] \in InEve
  <2>1. f[1] \in 1 .. Len(log)  BY <1>1, FindingPair DEF TypeOK
  <2>. QED  BY <1>1, <2>1 DEF InEve, TypeOK
<1>8. ASSUME NEW f \in todo'
      PROVE  (Times(f) <= crashes /\ (f[1] \in InEve => Begins(f[1]) < offset /\ offset <= Size))'
  BY <1>1, <1>2, <1>3, <1>7 DEF OnceInv, TypeOK
<1>9. ASSUME NEW x \in Nat, Unread(x) PROVE Unread(x)'
  <2>. SUFFICES ASSUME NEW i \in InEve', (Begins(i) >= ReadsFrom(x))', NEW f \in FindingsOf(i)'
                PROVE  (Times(f) <= crashes)'
    BY DEF Unread
  <2>1. CASE i \notin InEve  BY <1>1, <1>2, <1>4, <1>5, <2>1
  <2>2. CASE i \in InEve
    <3>1. ReadsFrom(x) <= ReadsFrom(x)'  BY <1>1 DEF ReadsFrom
    <3>2. Begins(i) \in Int  BY <2>2 DEF Begins, InEve, TypeOK
    <3>3. ReadsFrom(x) \in Nat /\ ReadsFrom(x)' \in Nat  BY DEF ReadsFrom
    <3>4. Begins(i) >= ReadsFrom(x)  BY <1>3, <3>1, <3>2, <3>3
    <3>. QED  BY <1>1, <1>2, <1>9, <2>2, <3>4 DEF Unread
  <2>. QED  BY <2>1, <2>2
<1>10. Working' <=> Working  BY <1>1 DEF Working
<1>11. (Working => Unread(offset))'
  <2>1. Unread(offset)' <=> \A x : x = offset => Unread(x)'  BY <1>1 DEF Unread, ReadsFrom
  <2>. QED  BY <1>9, <1>10, <2>1 DEF OnceInv, TypeOK
<1>12. (~Working /\ file # NoOffset => Unread(file))'
  <2>1. Unread(file)' <=> \A x : x = file => Unread(x)'  BY <1>1 DEF Unread, ReadsFrom
  <2>. QED  BY <1>1, <1>9, <1>10, <2>1 DEF OnceInv, TypeOK
<1>. QED  BY <1>6, <1>8, <1>11, <1>12 DEF OnceInv

LEMMA OnceRotate == ASSUME TypeInv, OnceInv, Rotate PROVE OnceInv'
<1>1. log' = log /\ base' = Len(log) /\ counted' = counted /\ crashes' = crashes /\ todo' = todo
  BY DEF Rotate, runVars, historyVars
<1>2. InEve' = {}
  <2>1. Len(log) \in Nat  BY DEF TypeInv, TypeOK
  <2>. QED  BY <1>1, <2>1 DEF InEve
<1>3. Findings' = Findings /\ \A f : Times(f)' = Times(f)  BY <1>1, LogStays DEF Times
<1>. QED  BY <1>1, <1>2, <1>3 DEF OnceInv, CountedOncePerCrash, Unread

(* Steps that neither read the file nor count.                             *)
LEMMA OnceQuiet ==
  ASSUME TypeInv, OnceInv, UNCHANGED <<eveVars, counted, crashes, todo>>,
         Working' <=> Working,
         Working => offset' = offset, ~Working => file' = file
  PROVE  OnceInv'
<1>1. /\ InEve' = InEve /\ Findings' = Findings /\ \A i : FindingsOf(i)' = FindingsOf(i)
      /\ \A i : Begins(i)' = Begins(i)
      /\ \A f : Times(f)' = Times(f)
  BY FileStays, TimesStay
<1>2. Size' = Size  BY FileStays
<1>3. CountedOncePerCrash'  BY <1>1 DEF OnceInv, CountedOncePerCrash
<1>4. \A f \in todo : Working  BY DEF TypeInv, PhaseOK, Working
<1>5. ASSUME NEW f \in todo'
      PROVE  (Times(f) <= crashes /\ (f[1] \in InEve => Begins(f[1]) < offset /\ offset <= Size))'
  BY <1>1, <1>2, <1>4 DEF OnceInv
<1>6. (Working => Unread(offset))'
  BY <1>1, <1>2 DEF OnceInv, Unread, ReadsFrom
<1>7. (~Working /\ file # NoOffset => Unread(file))'
  BY <1>1, <1>2 DEF OnceInv, Unread, ReadsFrom
<1>. QED  BY <1>3, <1>5, <1>6, <1>7 DEF OnceInv

(* A run that begins has nothing to write yet, one that read the file has  *)
(* nothing behind the offset.                                              *)
LEMMA NothingBehind ==
  ASSUME TypeInv
  PROVE  \A i \in InEve : Begins(i) < Size
<1>1. log \in Seq(Events) /\ base \in 0 .. Len(log) /\ half \in BOOLEAN /\ (half => base < Len(log))
  BY Zenon DEF TypeInv, TypeOK, PhaseOK
<1>2. 2 * (Len(log) - base) - 1 <= Size /\ Size \in Nat /\ Len(log) \in Nat  BY <1>1, SizeFacts
<1>. QED  BY <1>1, <1>2 DEF InEve, Begins

LEMMA OnceRead == ASSUME TypeInv, OnceInv, FirstRun \/ ReadNewEvents PROVE OnceInv'
<1>1. /\ UNCHANGED <<eveVars, counted, crashes>> /\ offset' = Size /\ ~Working /\ Working'
  BY DEF FirstRun, ReadNewEvents, Working
<1>2. /\ InEve' = InEve /\ Findings' = Findings /\ \A i : FindingsOf(i)' = FindingsOf(i)
      /\ \A i : Begins(i)' = Begins(i)
      /\ \A f : Times(f)' = Times(f)
  BY <1>1, FileStays, TimesStay
<1>3. Size' = Size  BY <1>1, FileStays
<1>4. Size \in Nat  BY SizeNat
<1>5. CountedOncePerCrash'  BY <1>1, <1>2 DEF OnceInv, CountedOncePerCrash
<1>6. Unread(offset)'
  <2>1. ReadsFrom(offset)' = Size  BY <1>1, <1>3, <1>4 DEF ReadsFrom
  <2>2. \A i \in InEve : Begins(i) \in Int  BY DEF InEve, Begins, TypeInv, TypeOK
  <2>. QED  BY <1>2, <1>4, <2>1, <2>2, NothingBehind DEF Unread
<1>7. ASSUME NEW f \in todo'
      PROVE  (Times(f) <= crashes /\ (f[1] \in InEve => Begins(f[1]) < offset /\ offset <= Size))'
  <2>1. ReadNewEvents /\ f \in UNION {FindingsOf(i) : i \in Parsed}
    BY DEF FirstRun, ReadNewEvents, TypeInv, PhaseOK
  <2>2. PICK i \in Parsed : f \in FindingsOf(i)  BY <2>1
  <2>3. f[1] = i  BY <2>2 DEF FindingsOf
  <2>4. start = file /\ file # NoOffset
    BY <2>1 DEF ReadNewEvents, TypeInv, TypeOK, PhaseOK, NoOffset
  <2>5. Begins(i) >= ReadsFrom(file) /\ i \in InEve
    BY <2>2, <2>4 DEF Parsed, Lines, From, ReadsFrom
  <2>6. Times(f) <= crashes  BY <1>1, <2>2, <2>4, <2>5 DEF OnceInv, Unread
  <2>7. Begins(i) < Size  BY <2>5, NothingBehind
  <2>. QED  BY <1>1, <1>2, <1>3, <1>4, <2>3, <2>6, <2>7
<1>. QED  BY <1>1, <1>5, <1>6, <1>7 DEF OnceInv

LEMMA OnceUpsert ==
  ASSUME TypeInv, OnceInv, NEW f \in todo, Upsert(f) \/ UpsertFails(f) PROVE OnceInv'
<1>0. /\ Count(f) \/ UNCHANGED counted
      /\ todo' = todo \ {f} /\ offset' = offset /\ Working /\ Working'
      /\ UNCHANGED <<eveVars, crashes>>
  BY DEF Upsert, UpsertFails, Stored, NextFinding, Working
<1>1. /\ InEve' = InEve /\ Findings' = Findings /\ \A i : FindingsOf(i)' = FindingsOf(i)
      /\ \A i : Begins(i)' = Begins(i)
  BY <1>0, FileStays
<1>2. Size' = Size  BY <1>0, FileStays
<1>3. f \in Findings /\ crashes \in Nat /\ offset \in Nat  BY DEF TypeInv, TypeOK
<1>4. Times(f) \in Nat /\ Times(f)' \in {Times(f), Times(f) + 1}
  <2>1. CASE Count(f)  BY <1>0, <1>3, <2>1, CountFacts, TimesNat DEF TypeInv, eveVars
  <2>2. CASE UNCHANGED counted  BY <2>2, TimesNat DEF Times, TypeInv
  <2>. QED  BY <1>0, <2>1, <2>2
<1>5. \A g : g # f => Times(g)' = Times(g)
  <2>1. CASE Count(f)  BY <1>0, <1>3, <2>1, CountFacts DEF TypeInv, eveVars
  <2>2. CASE UNCHANGED counted  BY <2>2 DEF Times
  <2>. QED  BY <1>0, <2>1, <2>2
<1>6. Times(f) <= crashes  BY DEF OnceInv
<1>7. CountedOncePerCrash'
  <2>. SUFFICES ASSUME NEW g \in Findings PROVE Times(g)' <= 1 + crashes
    BY <1>0, <1>1 DEF CountedOncePerCrash
  <2>1. CASE g = f  BY <1>3, <1>4, <1>6, <2>1
  <2>2. CASE g # f  BY <1>5, <2>2 DEF OnceInv, CountedOncePerCrash
  <2>. QED  BY <2>1, <2>2
<1>8. ASSUME NEW g \in todo'
      PROVE  (Times(g) <= crashes /\ (g[1] \in InEve => Begins(g[1]) < offset /\ offset <= Size))'
  BY <1>0, <1>1, <1>2, <1>5 DEF OnceInv
<1>9. Unread(offset)'
  <2>. SUFFICES ASSUME NEW i \in InEve, Begins(i) >= ReadsFrom(offset), NEW g \in FindingsOf(i)
                PROVE  Times(g)' <= crashes
    BY <1>0, <1>1, <1>2 DEF Unread, ReadsFrom
  <2>1. g # f
    <3>. SUFFICES ASSUME g = f PROVE FALSE  OBVIOUS
    <3>1. f[1] = i  BY DEF FindingsOf
    <3>2. Begins(i) < offset /\ offset <= Size  BY <3>1 DEF OnceInv
    <3>3. Begins(i) \in Int  BY DEF Begins, InEve, TypeInv, TypeOK
    <3>. QED  BY <1>3, <3>2, <3>3 DEF ReadsFrom
  <2>. QED  BY <1>0, <1>5, <2>1 DEF OnceInv, Unread
<1>. QED  BY <1>0, <1>7, <1>8, <1>9 DEF OnceInv

LEMMA OnceDumpState == ASSUME TypeInv, OnceInv, DumpState PROVE OnceInv'
<1>1. /\ UNCHANGED <<eveVars, counted, crashes>> /\ file' = offset /\ todo' = {} /\ Working /\ ~Working'
  BY DEF DumpState, End, Working, historyVars
<1>2. /\ InEve' = InEve /\ Findings' = Findings /\ \A i : FindingsOf(i)' = FindingsOf(i)
      /\ \A i : Begins(i)' = Begins(i)
      /\ \A f : Times(f)' = Times(f)
  BY <1>1, FileStays, TimesStay
<1>3. Size' = Size  BY <1>1, FileStays
<1>4. CountedOncePerCrash'  BY <1>1, <1>2 DEF OnceInv, CountedOncePerCrash
<1>5. Unread(file)'  BY <1>1, <1>2, <1>3 DEF OnceInv, Unread, ReadsFrom
<1>. QED  BY <1>1, <1>4, <1>5 DEF OnceInv

LEMMA OnceCrash == ASSUME TypeInv, OnceInv, Crash PROVE OnceInv'
<1>1. /\ UNCHANGED <<eveVars, counted>> /\ crashes' = crashes + 1 /\ todo' = {} /\ ~Working'
  BY DEF Crash, End, Working
<1>2. Findings' = Findings /\ \A f : Times(f)' = Times(f)  BY <1>1, LogStays DEF eveVars, Times
<1>3. crashes \in Nat /\ \A f : Times(f) \in Nat  BY TimesNat DEF TypeInv, TypeOK
<1>4. \A f \in Findings : Times(f)' <= crashes'  BY <1>1, <1>2, <1>3 DEF OnceInv, CountedOncePerCrash
<1>5. CountedOncePerCrash'  BY <1>1, <1>2, <1>3, <1>4 DEF CountedOncePerCrash
<1>6. Unread(file)'
  <2>1. InEve' \subseteq 1 .. Len(log')  BY <1>1 DEF eveVars, InEve, TypeInv, TypeOK
  <2>2. \A i \in InEve' : FindingsOf(i)' \subseteq Findings'  BY <2>1 DEF Findings
  <2>. QED  BY <1>2, <1>4, <2>2 DEF Unread
<1>. QED  BY <1>1, <1>5, <1>6 DEF OnceInv

LEMMA OnceStep == TypeInv /\ OnceInv /\ [Next]_vars => OnceInv'
<1>. SUFFICES ASSUME TypeInv, OnceInv, [Next]_vars PROVE OnceInv'  OBVIOUS
<1>1. CASE FinishLine \/ \E ev \in Events : LogEvent(ev)  BY <1>1, OnceEveGrows
<1>2. CASE Rotate  BY <1>2, OnceRotate
<1>3. CASE FirstRun \/ ReadNewEvents  BY <1>3, OnceRead
<1>4. CASE \E f \in todo : Upsert(f) \/ UpsertFails(f)  BY <1>4, OnceUpsert
<1>5. CASE DumpState  BY <1>5, OnceDumpState
<1>6. CASE Crash  BY <1>6, OnceCrash
<1>7. CASE Refresh \/ Expire \/ UNCHANGED vars
  BY <1>7, OnceQuiet DEF Refresh, Expire, vars, runVars, historyVars, Working
<1>8. CASE StartRun \/ OpenState
  BY <1>8, OnceQuiet DEF StartRun, OpenState, runVars, historyVars, Working
<1>9. CASE TellFails
  <2>1. todo = {}  BY <1>9 DEF TellFails, TypeInv, PhaseOK
  <2>. QED  BY <1>9, <2>1, OnceQuiet DEF TellFails, End, historyVars, Working
<1>10. CASE FindFails \/ \E f \in todo : FindRecent(f)
  BY <1>10, OnceQuiet DEF FindFails, FindRecent, Working
<1>. QED
  BY <1>1, <1>2, <1>3, <1>4, <1>5, <1>6, <1>7, <1>8, <1>9, <1>10 DEF Next, Step

-----------------------------------------------------------------------------
(* What is missed.                                                         *)

(* Every event that ends by the offset x was looked at: but for those that *)
(* some run passed over or saw half written, each finding is counted, or   *)
(* its request failed, or it is one of these.                              *)
Covered(x, pending) ==
  \A i \in InEve \ (jumped \cup torn) :
    Ends(i) <= x => \A f \in FindingsOf(i) : Times(f) > 0 \/ f \in failed \/ f \in pending

(* That holds of the saved offset and, with what is still to be written,   *)
(* of the offset the run will save. A run that begins at the end is one    *)
(* more than the killed ones only while an offset is saved or about to be. *)
KeptInv ==
  /\ rotations = 0 /\ file # NoOffset => file <= Size /\ Covered(file, {})
  /\ rotations = 0 /\ Working => offset <= Size /\ Covered(offset, todo)
  /\ jumps <= 1 + crashes
  /\ file = NoOffset /\ ~Working => jumps <= crashes

LEMMA KeptInit == Init => KeptInv
<1>. SUFFICES ASSUME Init PROVE KeptInv  OBVIOUS
<1>. QED  BY DEF Init, KeptInv, Working

LEMMA KeptEveGrows ==
  ASSUME TypeInv, KeptInv, FinishLine \/ \E ev \in Events : LogEvent(ev)
  PROVE  KeptInv'
<1>1. /\ base' = base /\ rotations' = rotations
      /\ file' = file /\ pc' = pc /\ offset' = offset /\ todo' = todo
      /\ UNCHANGED <<counted, failed, jumped, torn, jumps, crashes>>
      /\ Size \in Nat /\ Size' \in Nat /\ Size <= Size'
      /\ InEve \subseteq InEve'
      /\ \A i \in InEve : FindingsOf(i)' = FindingsOf(i)
      /\ \A i \in InEve' \ InEve : Size <= Begins(i)
  BY EveGrows DEF runVars, historyVars
<1>2. \A f : Times(f)' = Times(f)  BY <1>1, TimesStay
<1>3. \A i : Ends(i)' = Ends(i)  BY <1>1 DEF Ends
<1>4. \A i \in InEve' \ InEve : Size < Ends(i) /\ Ends(i) \in Int
  <2>. SUFFICES ASSUME NEW i \in InEve' \ InEve PROVE Size < Ends(i) /\ Ends(i) \in Int  OBVIOUS
  <2>1. i \in Int /\ base \in Int  BY <1>1 DEF InEve, TypeInv, TypeOK
  <2>. QED  BY <1>1, <2>1 DEF Begins, Ends
<1>5. ASSUME NEW x \in Nat, NEW P, x <= Size, Covered(x, P)
      PROVE  (Covered(x, P))' /\ x <= Size'
  <2>1. x <= Size'  BY <1>1, <1>5
  <2>2. ASSUME NEW i \in InEve' \ (jumped \cup torn)', Ends(i)' <= x, NEW f \in FindingsOf(i)'
        PROVE  (Times(f) > 0 \/ f \in failed \/ f \in P)'
    <3>1. i \in InEve  BY <1>1, <1>3, <1>4, <1>5, <2>2
    <3>. QED  BY <1>1, <1>2, <1>3, <1>5, <2>2, <3>1 DEF Covered
  <2>. QED  BY <2>1, <2>2 DEF Covered
<1>6. /\ Covered(file, {})' <=> \A x : x = file => Covered(x, {})'
      /\ Covered(offset, todo)' <=> \A x, P : x = offset /\ P = todo => Covered(x, P)'
  BY <1>1 DEF Covered
<1>7. (rotations = 0 /\ file # NoOffset => file <= Size /\ Covered(file, {}))'
  BY <1>1, <1>5, <1>6 DEF KeptInv, TypeInv, TypeOK
<1>8. (rotations = 0 /\ Working => offset <= Size /\ Covered(offset, todo))'
  BY <1>1, <1>5, <1>6 DEF KeptInv, Working, TypeInv, TypeOK
<1>9. (jumps <= 1 + crashes)' /\ (file = NoOffset /\ ~Working => jumps <= crashes)'
  BY <1>1 DEF KeptInv, Working
<1>. QED  BY <1>7, <1>8, <1>9 DEF KeptInv

LEMMA KeptRotate == ASSUME TypeInv, KeptInv, Rotate PROVE KeptInv'
<1>1. rotations \in Nat  BY ShadowConstants DEF TypeInv, TypeOK
<1>2. rotations' # 0 /\ UNCHANGED <<file, pc, jumps, crashes>>  BY <1>1 DEF Rotate, historyVars
<1>. QED  BY <1>2 DEF KeptInv, Working

(* Steps that neither read the file nor count.                             *)
LEMMA KeptQuiet ==
  ASSUME TypeInv, KeptInv, UNCHANGED <<eveVars, counted, failed, jumped, torn, jumps, crashes>>,
         Working' <=> Working,
         Working => offset' = offset /\ todo' = todo,
         file' = file \/ (Working /\ file' = NoOffset)
  PROVE  KeptInv'
<1>1. /\ InEve' = InEve /\ Size' = Size /\ \A i : FindingsOf(i)' = FindingsOf(i)
      /\ \A i : Ends(i)' = Ends(i)
      /\ \A f : Times(f)' = Times(f)
  BY FileStays, TimesStay
<1>2. rotations' = rotations  BY DEF eveVars
<1>3. (rotations = 0 /\ file # NoOffset => file <= Size /\ Covered(file, {}))'
  BY <1>1, <1>2 DEF KeptInv, Covered
<1>4. (rotations = 0 /\ Working => offset <= Size /\ Covered(offset, todo))'
  BY <1>1, <1>2 DEF KeptInv, Covered
<1>5. (jumps <= 1 + crashes)' /\ (file = NoOffset /\ ~Working => jumps <= crashes)'
  BY DEF KeptInv
<1>. QED  BY <1>3, <1>4, <1>5 DEF KeptInv

LEMMA KeptFirstRun == ASSUME TypeInv, KeptInv, FirstRun PROVE KeptInv'
<1>1. /\ UNCHANGED <<eveVars, counted, failed, torn, crashes, file>>
      /\ offset' = Size /\ jumped' = jumped \cup InEve /\ jumps' = jumps + 1
      /\ file = NoOffset /\ ~Working /\ Working'
  BY DEF FirstRun, Working, TypeInv, PhaseOK
<1>2. InEve' = InEve /\ Size' = Size /\ Size \in Nat  BY <1>1, FileStays, SizeNat
<1>3. jumps \in Nat /\ crashes \in Nat  BY DEF TypeInv, TypeOK
<1>4. (offset <= Size /\ Covered(offset, todo))'  BY <1>1, <1>2 DEF Covered
<1>. QED  BY <1>1, <1>3, <1>4 DEF KeptInv

(* A line that lies before the new offset was read, unless it lies before  *)
(* the old one; what is read is one of the findings to be written.         *)
LEMMA KeptReadNewEvents == ASSUME TypeInv, KeptInv, ReadNewEvents PROVE KeptInv'
<1>1. /\ UNCHANGED <<eveVars, counted, failed, jumped, jumps, crashes, file>>
      /\ offset' = Size /\ todo' = UNION {FindingsOf(i) : i \in Parsed}
      /\ torn' = torn \cup (Lines \ Parsed)
      /\ start = file /\ file # NoOffset /\ Working'
  BY DEF ReadNewEvents, Working, TypeInv, TypeOK, PhaseOK, NoOffset
<1>2. /\ InEve' = InEve /\ Size' = Size /\ \A i : FindingsOf(i)' = FindingsOf(i)
      /\ \A i : Ends(i)' = Ends(i)
      /\ \A f : Times(f)' = Times(f)
  BY <1>1, FileStays, TimesStay
<1>3. Size \in Nat /\ rotations' = rotations  BY <1>1, SizeNat DEF eveVars
<1>4. rotations = 0 => Covered(file, {})'
  BY <1>1, <1>2 DEF KeptInv, Covered
<1>5. ASSUME rotations = 0 PROVE Covered(offset, todo)'
  <2>. SUFFICES ASSUME NEW i \in InEve, i \notin jumped, i \notin torn', NEW f \in FindingsOf(i)
                PROVE  Times(f) > 0 \/ f \in failed \/ f \in todo'
    BY <1>1, <1>2 DEF Covered
  <2>1. From = file  BY <1>1, <1>5 DEF From, KeptInv
  <2>2. CASE i \in Lines  BY <1>1, <2>2
  <2>3. CASE i \notin Lines
    <3>1. Ends(i) <= file  BY <1>1, <2>1, <2>3 DEF Lines, Ends, InEve, TypeInv, TypeOK
    <3>. QED  BY <1>1, <1>5, <3>1 DEF KeptInv, Covered
  <2>. QED  BY <2>2, <2>3
<1>. QED  BY <1>1, <1>2, <1>3, <1>4, <1>5 DEF KeptInv

LEMMA KeptUpsert ==
  ASSUME TypeInv, KeptInv, NEW f \in todo, Upsert(f) \/ UpsertFails(f) PROVE KeptInv'
<1>1. /\ Count(f) \/ (UNCHANGED counted /\ f \in failed')
      /\ todo' = todo \ {f} /\ offset' = offset /\ Working /\ Working' /\ failed \subseteq failed'
      /\ UNCHANGED <<eveVars, file, jumped, torn, jumps, crashes>>
  BY DEF Upsert, UpsertFails, Stored, NextFinding, Working
<1>2. /\ InEve' = InEve /\ Size' = Size /\ \A i : FindingsOf(i)' = FindingsOf(i)
      /\ \A i : Ends(i)' = Ends(i) /\ rotations' = rotations
  BY <1>1, FileStays DEF eveVars
<1>3. f \in Findings  BY DEF TypeInv, TypeOK
<1>4. \A g : Times(g) > 0 => Times(g)' > 0
  <2>1. CASE Count(f)  BY <1>1, <1>3, <2>1, CountFacts, TimesNat DEF TypeInv, eveVars
  <2>2. CASE UNCHANGED counted  BY <2>2, TimesStay
  <2>. QED  BY <1>1, <2>1, <2>2
<1>5. Times(f)' > 0 \/ f \in failed'
  <2>1. CASE Count(f)  BY <1>1, <1>3, <2>1, CountFacts, TimesNat DEF TypeInv, eveVars
  <2>. QED  BY <1>1, <2>1
<1>6. (rotations = 0 /\ file # NoOffset => file <= Size /\ Covered(file, {}))'
  BY <1>1, <1>2, <1>4 DEF KeptInv, Covered
<1>7. (rotations = 0 /\ Working => offset <= Size /\ Covered(offset, todo))'
  BY <1>1, <1>2, <1>4, <1>5 DEF KeptInv, Covered
<1>. QED  BY <1>1, <1>6, <1>7 DEF KeptInv

LEMMA KeptDumpState == ASSUME TypeInv, KeptInv, DumpState PROVE KeptInv'
<1>1. /\ UNCHANGED <<eveVars, counted, failed, jumped, torn, jumps, crashes>>
      /\ file' = offset /\ todo = {} /\ Working /\ ~Working'
  BY DEF DumpState, End, Working, historyVars, TypeInv, PhaseOK
<1>2. /\ InEve' = InEve /\ Size' = Size /\ \A i : FindingsOf(i)' = FindingsOf(i)
      /\ \A i : Ends(i)' = Ends(i) /\ rotations' = rotations
      /\ \A f : Times(f)' = Times(f)
  BY <1>1, FileStays, TimesStay DEF eveVars
<1>3. file' # NoOffset  BY <1>1 DEF NoOffset, TypeInv, TypeOK
<1>4. (rotations = 0 => file <= Size /\ Covered(file, {}))'  BY <1>1, <1>2 DEF KeptInv, Covered
<1>. QED  BY <1>1, <1>3, <1>4 DEF KeptInv

LEMMA KeptCrash == ASSUME TypeInv, KeptInv, Crash PROVE KeptInv'
<1>1. /\ UNCHANGED <<eveVars, file, counted, failed, jumped, torn, jumps>>
      /\ crashes' = crashes + 1 /\ ~Working'
  BY DEF Crash, End, Working
<1>2. /\ InEve' = InEve /\ Size' = Size /\ \A i : FindingsOf(i)' = FindingsOf(i)
      /\ \A i : Ends(i)' = Ends(i) /\ rotations' = rotations
      /\ \A f : Times(f)' = Times(f)
  BY <1>1, FileStays, TimesStay DEF eveVars
<1>3. (rotations = 0 /\ file # NoOffset => file <= Size /\ Covered(file, {}))'
  BY <1>1, <1>2 DEF KeptInv, Covered
<1>4. jumps' <= crashes' /\ crashes' <= 1 + crashes' /\ jumps' \in Nat /\ crashes' \in Nat
  BY <1>1 DEF KeptInv, TypeInv, TypeOK
<1>. QED  BY <1>1, <1>3, <1>4 DEF KeptInv

LEMMA KeptStep == TypeInv /\ KeptInv /\ [Next]_vars => KeptInv'
<1>. SUFFICES ASSUME TypeInv, KeptInv, [Next]_vars PROVE KeptInv'  OBVIOUS
<1>1. CASE FinishLine \/ \E ev \in Events : LogEvent(ev)  BY <1>1, KeptEveGrows
<1>2. CASE Rotate  BY <1>2, KeptRotate
<1>3. CASE FirstRun  BY <1>3, KeptFirstRun
<1>4. CASE ReadNewEvents  BY <1>4, KeptReadNewEvents
<1>5. CASE \E f \in todo : Upsert(f) \/ UpsertFails(f)  BY <1>5, KeptUpsert
<1>6. CASE DumpState  BY <1>6, KeptDumpState
<1>7. CASE Crash  BY <1>7, KeptCrash
<1>8. CASE Refresh \/ Expire \/ UNCHANGED vars
  BY <1>8, KeptQuiet DEF Refresh, Expire, vars, runVars, historyVars, Working
<1>9. CASE StartRun \/ OpenState \/ TellFails
  BY <1>9, KeptQuiet DEF StartRun, OpenState, TellFails, End, runVars, historyVars, Working
<1>10. CASE FindFails \/ \E f \in todo : FindRecent(f)
  BY <1>10, KeptQuiet DEF FindFails, FindRecent, Working
<1>. QED
  BY <1>1, <1>2, <1>3, <1>4, <1>5, <1>6, <1>7, <1>8, <1>9, <1>10 DEF Next, Step

-----------------------------------------------------------------------------
(* The documents of an entity.                                             *)

(* Of two documents of an entity inside the window the later was written   *)
(* after a search that could not see; so will be the one about to be       *)
(* written, or it is the only one.                                         *)
DocsInv ==
  /\ \A c, d \in expired + 1 .. Len(docs) :
       c < d /\ docs[c].entity = docs[d].entity => d \in unseen
  /\ pc = "write" /\ target = 0 =>
       \A f \in todo : IsNext(f) =>
         \/ Len(docs) + 1 \in unseen
         \/ \A d \in expired + 1 .. Len(docs) : docs[d].entity # EntityOf(f)

LEMMA NextIsOne ==
  ASSUME TypeInv, NEW f, NEW g, IsNext(f), IsNext(g) PROVE f = g
<1>1. f \in Findings /\ g \in Findings  BY DEF IsNext, TypeInv, TypeOK
<1>2. /\ f = <<f[1], f[2]>> /\ f[1] \in Int /\ f[2] \in Int
      /\ g = <<g[1], g[2]>> /\ g[1] \in Int /\ g[2] \in Int
  BY <1>1, FindingPair DEF TypeInv, TypeOK
<1>3. f[1] = g[1] /\ f[2] = g[2]  BY <1>2 DEF IsNext
<1>. QED  BY <1>2, <1>3

LEMMA DocsInit == Init => DocsInv
<1>. SUFFICES ASSUME Init PROVE DocsInv  OBVIOUS
<1>1. Len(docs) = 0 /\ expired = 0 /\ pc = "idle"  BY DEF Init
<1>. QED  BY <1>1 DEF DocsInv

(* Steps that write no document and search for none.                       *)
LEMMA DocsQuiet ==
  ASSUME TypeInv, DocsInv, docs' = docs, expired' \in {expired, expired + 1}, unseen' = unseen,
         pc' = "write" => /\ pc = "write" /\ target' = target /\ todo' = todo
                          /\ \A f \in todo : EntityOf(f)' = EntityOf(f)
  PROVE  DocsInv'
<1>1. expired \in Nat /\ Len(docs) \in Nat  BY DEF TypeInv, TypeOK
<1>2. expired' + 1 .. Len(docs') \subseteq expired + 1 .. Len(docs)  BY <1>1
<1>3. \A c, d \in expired' + 1 .. Len(docs') :
        c < d /\ docs'[c].entity = docs'[d].entity => d \in unseen'
  BY <1>2 DEF DocsInv
<1>4. ASSUME pc' = "write", target' = 0, NEW f \in todo', IsNext(f)'
      PROVE  \/ Len(docs') + 1 \in unseen'
             \/ \A d \in expired' + 1 .. Len(docs') : docs'[d].entity # EntityOf(f)'
  <2>1. IsNext(f)  BY <1>4 DEF IsNext
  <2>. QED  BY <1>2, <1>4, <2>1 DEF DocsInv
<1>. QED  BY <1>3, <1>4 DEF DocsInv

LEMMA DocsEveGrows ==
  ASSUME TypeInv, DocsInv, FinishLine \/ Rotate \/ \E ev \in Events : LogEvent(ev)
  PROVE  DocsInv'
<1>1. UNCHANGED <<osVars, unseen, pc, target, todo>>
  BY DEF FinishLine, Rotate, LogEvent, osVars, runVars, historyVars
<1>2. \A f \in todo : EntityOf(f)' = EntityOf(f)
  <2>1. log \in Seq(Events) /\ todo \subseteq Findings  BY DEF TypeInv, TypeOK
  <2>2. CASE FinishLine \/ Rotate  BY <2>2, LogStays DEF FinishLine, Rotate
  <2>3. CASE \E ev \in Events : LogEvent(ev)  BY <2>1, <2>3, LogGrows DEF LogEvent
  <2>. QED  BY <2>2, <2>3
<1>. QED  BY <1>1, <1>2, DocsQuiet DEF osVars

LEMMA DocsFindRecent == ASSUME TypeInv, DocsInv, NEW f \in todo, FindRecent(f) PROVE DocsInv'
<1>1. /\ UNCHANGED <<log, docs, searchable, expired, todo>> /\ IsNext(f)
      /\ unseen' = IF \E d \in searchable + 1 .. Len(docs) : d > expired /\ docs[d].entity = EntityOf(f)
                     THEN unseen \cup {Len(docs) + 1} ELSE unseen \ {Len(docs) + 1}
  BY DEF FindRecent, eveVars, osVars
<1>2. expired \in 0 .. Len(docs) /\ searchable \in 0 .. Len(docs) /\ Len(docs) \in Nat
  BY DEF TypeInv, TypeOK
<1>3. \A c, d \in expired + 1 .. Len(docs) :
        c < d /\ docs[c].entity = docs[d].entity => d \in unseen'
  <2>1. \A d \in expired + 1 .. Len(docs) : d \in unseen => d \in unseen'  BY <1>1, <1>2
  <2>. QED  BY <2>1 DEF DocsInv
<1>4. ASSUME target' = 0, NEW g \in todo, IsNext(g)'
      PROVE  \/ Len(docs) + 1 \in unseen'
             \/ \A d \in expired + 1 .. Len(docs) : docs[d].entity # EntityOf(g)
  <2>1. IsNext(g)  BY <1>1, <1>4 DEF IsNext
  <2>2. g = f  BY <1>1, <2>1, NextIsOne
  <2>3. Recent(EntityOf(f)) = {}
    <3>1. Recent(EntityOf(f)) \subseteq 1 .. Len(docs)  BY <1>2 DEF Recent
    <3>. QED  BY <1>2, <1>4, <3>1 DEF FindRecent
  <2>. SUFFICES ASSUME Len(docs) + 1 \notin unseen', NEW d \in expired + 1 .. Len(docs),
                       docs[d].entity = EntityOf(f)
                PROVE  FALSE
    BY <2>2
  <2>4. CASE d <= searchable  BY <1>2, <2>3, <2>4 DEF Recent
  <2>5. CASE d > searchable  BY <1>1, <1>2, <2>5
  <2>. QED  BY <1>2, <2>4, <2>5
<1>. QED  BY <1>1, <1>3, <1>4, LogStays DEF DocsInv

LEMMA DocsFindFails == ASSUME TypeInv, DocsInv, FindFails PROVE DocsInv'
<1>1. UNCHANGED <<docs, expired>> /\ unseen' = unseen \cup {Len(docs) + 1}
  BY DEF FindFails, osVars
<1>. QED  BY <1>1 DEF DocsInv

LEMMA DocsUpsert ==
  ASSUME TypeInv, DocsInv, NEW f \in todo, Upsert(f) \/ UpsertFails(f) PROVE DocsInv'
<1>1. /\ Stored(f) \/ UNCHANGED <<osVars, counted>>
      /\ IsNext(f) /\ pc = "write" /\ pc' # "write" /\ unseen' = unseen
  BY DEF Upsert, UpsertFails, NextFinding
<1>2. expired \in 0 .. Len(docs) /\ Len(docs) \in Nat /\ target \in 0 .. Len(docs)
  BY DEF TypeInv, TypeOK
<1>3. SUFFICES \A c, d \in expired' + 1 .. Len(docs') :
                 c < d /\ docs'[c].entity = docs'[d].entity => d \in unseen
  BY <1>1 DEF DocsInv
<1>4. CASE UNCHANGED <<osVars, counted>>  BY <1>4 DEF osVars, DocsInv
<1>5. CASE Stored(f) /\ target > 0
  <2>1. docs' = [docs EXCEPT ![target].occurrences = @ + 1] /\ expired' = expired
    BY <1>5 DEF Stored
  <2>2. \A d \in 1 .. Len(docs) : docs[d] \in [entity : Entities, occurrences : Nat \ {0}]
    <3>1. docs \in Seq([entity : Entities, occurrences : Nat \ {0}])
      BY Zenon DEF TypeInv, TypeOK
    <3>. QED  BY <3>1, ElementOfSeq
  <2>3. Len(docs') = Len(docs)  BY <1>5, StoredDocs, <2>1 DEF TypeInv, TypeOK
  <2>4. \A d \in 1 .. Len(docs) : docs'[d].entity = docs[d].entity
    BY <2>1, <2>2 DEF TypeInv, TypeOK
  <2>. QED  BY <1>2, <2>1, <2>3, <2>4 DEF DocsInv
<1>6. CASE Stored(f) /\ ~(target > 0)
  <2>1. docs' = Append(docs, [entity |-> EntityOf(f), occurrences |-> 1]) /\ expired' = expired
        /\ target = 0
    BY <1>2, <1>6 DEF Stored
  <2>2. /\ Len(docs') = Len(docs) + 1 /\ \A d \in 1 .. Len(docs) : docs'[d] = docs[d]
        /\ docs'[Len(docs) + 1].entity = EntityOf(f)
    BY <2>1 DEF TypeInv, TypeOK
  <2>3. \/ Len(docs) + 1 \in unseen
        \/ \A d \in expired + 1 .. Len(docs) : docs[d].entity # EntityOf(f)
    BY <1>1, <2>1 DEF DocsInv
  <2>. SUFFICES ASSUME NEW c \in expired + 1 .. Len(docs) + 1, NEW d \in expired + 1 .. Len(docs) + 1,
                       c < d, docs'[c].entity = docs'[d].entity
                PROVE  d \in unseen
    BY <2>1, <2>2
  <2>4. c \in 1 .. Len(docs) /\ c \in expired + 1 .. Len(docs)  BY <1>2
  <2>5. CASE d = Len(docs) + 1  BY <2>2, <2>3, <2>4, <2>5
  <2>6. CASE d # Len(docs) + 1
    <3>1. d \in 1 .. Len(docs) /\ d \in expired + 1 .. Len(docs)  BY <1>2, <2>6
    <3>. QED  BY <2>2, <2>4, <3>1 DEF DocsInv
  <2>. QED  BY <2>5, <2>6
<1>. QED  BY <1>1, <1>4, <1>5, <1>6

LEMMA DocsStep == TypeInv /\ DocsInv /\ [Next]_vars => DocsInv'
<1>. SUFFICES ASSUME TypeInv, DocsInv, [Next]_vars PROVE DocsInv'  OBVIOUS
<1>1. CASE FinishLine \/ Rotate \/ \E ev \in Events : LogEvent(ev)  BY <1>1, DocsEveGrows
<1>2. CASE \E f \in todo : FindRecent(f)  BY <1>2, DocsFindRecent
<1>3. CASE FindFails  BY <1>3, DocsFindFails
<1>4. CASE \E f \in todo : Upsert(f) \/ UpsertFails(f)  BY <1>4, DocsUpsert
<1>5. CASE Refresh \/ Expire \/ UNCHANGED vars
  BY <1>5, DocsQuiet, LogStays DEF Refresh, Expire, vars, eveVars, osVars, runVars, historyVars
<1>6. CASE StartRun \/ FirstRun \/ ReadNewEvents \/ TellFails
  BY <1>6, DocsQuiet
     DEF StartRun, FirstRun, ReadNewEvents, TellFails, End, osVars, historyVars
<1>7. CASE OpenState \/ DumpState \/ Crash
  BY <1>7, DocsQuiet DEF OpenState, DumpState, Crash, End, osVars, historyVars
<1>. QED  BY <1>1, <1>2, <1>3, <1>4, <1>5, <1>6, <1>7 DEF Next, Step

-----------------------------------------------------------------------------
(* The theorems.                                                           *)

IInv == TypeInv /\ OnceInv /\ KeptInv /\ DocsInv

LEMMA IInvariant == Spec => []IInv
<1>1. Init => IInv  BY TypeInit, OnceInit, KeptInit, DocsInit DEF IInv
<1>2. IInv /\ [Next]_vars => IInv'  BY TypeStep, OnceStep, KeptStep, DocsStep DEF IInv
<1>. QED  BY <1>1, <1>2, PTL DEF Spec

(* The detector's variables have their types: what it is about to write    *)
(* are findings of events that were logged, and the document it will       *)
(* update exists.                                                          *)
THEOREM DetectorTypeCorrect == Spec => []TypeOK
<1>1. IInv => TypeOK  BY DEF IInv, TypeInv
<1>. QED  BY <1>1, IInvariant, PTL

(* Only a killed run makes another count a finding again, and what lies    *)
(* before the saved offset was looked at, but for failed requests, lines   *)
(* seen half written and runs that began at the end of eve.json, which     *)
(* they do once and once more for each killed one.                         *)
THEOREM FindingsAreKept == Spec => []EventsKept
<1>1. IInv => EventsKept
  BY DEF IInv, OnceInv, KeptInv, EventsKept, NothingMissed, Covered
<1>. QED  BY <1>1, IInvariant, PTL

LEMMA AtMostOne == ASSUME NEW S, \A c, d \in S : c = d PROVE Cardinality(S) <= 1
<1>1. CASE S = {}  BY <1>1, FS_EmptySet
<1>2. CASE S # {}
  <2>1. PICK d : S = {d}  BY <1>2
  <2>2. Cardinality({d}) = 1  BY FS_Singleton
  <2>. QED  BY <2>1, <2>2
<1>. QED  BY <1>1, <1>2

(* Inside the window an entity has one document, not counting those that   *)
(* were written after a search that failed or came before a refresh.       *)
THEOREM DocumentsAreFew == Spec => []DuplicatesBounded
<1>1. IInv => DuplicatesBounded
  <2>. SUFFICES ASSUME TypeOK, DocsInv, NEW e \in Entities,
                       NEW c \in {k \in expired + 1 .. Len(docs) : docs[k].entity = e} \ unseen,
                       NEW d \in {k \in expired + 1 .. Len(docs) : docs[k].entity = e} \ unseen
                PROVE  c = d
    BY AtMostOne DEF IInv, TypeInv, DuplicatesBounded
  <2>1. c \in Nat /\ d \in Nat  BY Numbers
  <2>2. ~(c < d) /\ ~(d < c)  BY DEF DocsInv
  <2>. QED  BY <2>1, <2>2
<1>. QED  BY <1>1, IInvariant, PTL
=============================================================================
