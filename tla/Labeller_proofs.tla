---------------------------- MODULE Labeller_proofs ----------------------------
(***************************************************************************)
(* Proofs about Labeller: its types, what the corpus lacks and repeats,    *)
(* and what its labels rest on, for any flows, sources, campaigns, scores, *)
(* quota, late and half-written records and killed runs.                   *)
(***************************************************************************)
EXTENDS Labeller, FiniteSetTheorems, WellFoundedInduction, TLAPS

Kinds   == Categories \cup {"flow"}
Records == [kind : Kinds, flow : Flows, stamp : Nat \ {0}]
Labels  == {-1, 0, 1}
RowSet  == [flow : Flows, label : Labels, score : Scores \cup {Unknown}]

Recorded(f) == Copies(f) > 0 \/ f \in glued

HasBound(e) == \E b \in Nat : \A i \in 1 .. Len(e) : e[i].stamp <= b

(* A flow's records end with its end, and no stamp is endless.             *)
LogOK ==
  /\ half => Len(eve) > 0
  /\ \A i, j \in 1 .. Len(eve) : IsFlow(i) /\ i < j => eve[j].flow # eve[i].flow
  /\ HasBound(eve)

(* A source is asked about within the quota; rows are written in phase 4.  *)
RunOK ==
  /\ todo # {} => calls < MaxCalls
  /\ pc \in {"idle", "read"} => calls = 0
  /\ at > 0 => pc \in {"write", "open", "state"}

TypeInv == TypeOK /\ LogOK /\ RunOK

-----------------------------------------------------------------------------
(* The operators.                                                          *)

(* A bounded set of positions or stamps has a greatest one.                *)
LEMMA HasGreatest ==
  ASSUME NEW b \in Nat, NEW T \in SUBSET (0 .. b), T # {}
  PROVE  \E m \in T : \A t \in T : t <= m
<1>. DEFINE D == {b - t : t \in T}
<1>1. D \subseteq Nat /\ D # {}
  <2>1. PICK t \in T : TRUE  OBVIOUS
  <2>2. b - t \in D  BY <2>1
  <2>3. \A u \in T : b - u \in Nat  OBVIOUS
  <2>. QED  BY <2>2, <2>3
<1>2. PICK d \in D : \A e \in D : ~(<<e, d>> \in OpToRel(<, Nat))
  BY <1>1, NatLessThanWellFounded, WFMin
<1>3. \A e \in D : ~(e < d)
  BY <1>1, <1>2 DEF OpToRel
<1>4. PICK m \in T : d = b - m  OBVIOUS
<1>5. \A t \in T : b - t \in D  OBVIOUS
<1>6. \A t \in T : ~(b - t < b - m)  BY <1>3, <1>4, <1>5
<1>7. \A t \in T : t <= m  BY <1>6
<1>. QED  BY <1>7

LEMMA RecordFacts ==
  ASSUME NEW e \in Seq(Records)
  PROVE  /\ Len(e) \in Nat
         /\ \A i \in 1 .. Len(e) :
              /\ e[i] \in Records /\ e[i].kind \in Kinds /\ e[i].flow \in Flows
              /\ e[i].stamp \in Nat /\ e[i].stamp > 0
<1>1. \A i \in 1 .. Len(e) : e[i] \in Records  OBVIOUS
<1>. QED  BY <1>1 DEF Records

StampsOf(e, n) == {e[i].stamp : i \in 1 .. n}
TopOf(e) ==
  CHOOSE s \in {0} \cup StampsOf(e, Len(e)) : \A t \in {0} \cup StampsOf(e, Len(e)) : t <= s

LEMMA TopFacts ==
  ASSUME NEW e \in Seq(Records), HasBound(e)
  PROVE  /\ TopOf(e) \in Nat
         /\ \A i \in 1 .. Len(e) : e[i].stamp <= TopOf(e)
         /\ TopOf(e) = 0 \/ \E i \in 1 .. Len(e) : TopOf(e) = e[i].stamp
<1>1. PICK b \in Nat : \A i \in 1 .. Len(e) : e[i].stamp <= b  BY DEF HasBound
<1>. DEFINE T == {0} \cup StampsOf(e, Len(e))
<1>2. \A i \in 1 .. Len(e) : e[i].stamp \in Nat /\ e[i].stamp <= b
  BY <1>1, RecordFacts
<1>3. T \in SUBSET (0 .. b) /\ T # {}  BY <1>2 DEF StampsOf
<1>4. \E m \in T : \A t \in T : t <= m  BY <1>3, HasGreatest
<1>5. TopOf(e) = CHOOSE m \in T : \A t \in T : t <= m  BY DEF TopOf
<1>6. \A i \in 1 .. Len(e) : e[i].stamp \in T  BY DEF StampsOf
<1>7. \A m \in T : m = 0 \/ \E i \in 1 .. Len(e) : m = e[i].stamp  BY DEF StampsOf
<1>. HIDE DEF T
<1>8. TopOf(e) \in T /\ \A t \in T : t <= TopOf(e)  BY <1>4, <1>5
<1>9. TopOf(e) \in 0 .. b  BY <1>3, <1>8
<1>. QED  BY <1>6, <1>7, <1>8, <1>9

LEMMA TopIs == Top = TopOf(eve)
BY DEF Top, TopOf, StampsOf

(* A new record leaves the latest stamp the latest, or is it.              *)
LEMMA TopGrows ==
  ASSUME NEW e \in Seq(Records), HasBound(e), NEW r \in Records
  PROVE  LET d == Append(e, r) IN
         /\ d \in Seq(Records) /\ HasBound(d) /\ Len(d) = Len(e) + 1
         /\ d[Len(e) + 1] = r /\ \A i \in 1 .. Len(e) : d[i] = e[i]
         /\ TopOf(d) \in Nat /\ TopOf(e) \in Nat /\ TopOf(e) <= TopOf(d)
<1>. DEFINE d == Append(e, r)
<1>1. /\ d \in Seq(Records) /\ Len(d) = Len(e) + 1 /\ Len(e) \in Nat
      /\ d[Len(e) + 1] = r /\ \A i \in 1 .. Len(e) : d[i] = e[i]
  OBVIOUS
<1>. HIDE DEF d
<1>2. HasBound(d)
  <2>1. PICK b \in Nat : \A i \in 1 .. Len(e) : e[i].stamp <= b  BY DEF HasBound
  <2>2. r.stamp \in Nat  BY DEF Records
  <2>3. \A i \in 1 .. Len(e) : e[i].stamp \in Nat  BY RecordFacts
  <2>4. b + r.stamp \in Nat /\ \A i \in 1 .. Len(d) : d[i].stamp <= b + r.stamp
    BY <1>1, <2>1, <2>2, <2>3
  <2>. QED  BY <2>4 DEF HasBound
<1>3. TopOf(e) <= TopOf(d) /\ TopOf(e) \in Nat /\ TopOf(d) \in Nat
  <2>1. /\ TopOf(d) \in Nat /\ \A i \in 1 .. Len(d) : d[i].stamp <= TopOf(d)
    BY <1>1, <1>2, TopFacts
  <2>2. /\ TopOf(e) \in Nat
        /\ TopOf(e) = 0 \/ \E i \in 1 .. Len(e) : TopOf(e) = e[i].stamp
    BY TopFacts
  <2>3. CASE TopOf(e) = 0  BY <2>1, <2>3
  <2>4. ASSUME NEW i \in 1 .. Len(e), TopOf(e) = e[i].stamp PROVE TopOf(e) <= TopOf(d)
    <3>1. i \in 1 .. Len(d) /\ d[i] = e[i]  BY <1>1
    <3>. QED  BY <2>1, <2>4, <3>1
  <2>. QED  BY <2>1, <2>2, <2>3, <2>4
<1>. QED  BY <1>1, <1>2, <1>3 DEF d

(* The cursor moves to the latest of what was read.                        *)
LEMMA LatestFacts ==
  ASSUME TypeOK, LogOK
  PROVE  /\ Latest \in cursor .. Top
         /\ \A i \in 1 .. upto : eve[i].stamp <= Latest
<1>1. eve \in Seq(Records) /\ cursor \in 0 .. Top /\ upto \in 0 .. Len(eve)
  BY DEF TypeOK, Records, Kinds
<1>2. Top \in Nat /\ \A i \in 1 .. Len(eve) : eve[i].stamp <= Top
  BY <1>1, TopFacts, TopIs DEF LogOK
<1>. DEFINE T == {cursor} \cup StampsOf(eve, upto)
<1>3. Len(eve) \in Nat  BY <1>1
<1>4. \A i \in 1 .. upto : eve[i].stamp \in Nat /\ eve[i].stamp <= Top
  BY <1>1, <1>2, <1>3, RecordFacts
<1>5. T \in SUBSET (0 .. Top) /\ T # {}  BY <1>1, <1>4 DEF StampsOf
<1>6. \E m \in T : \A t \in T : t <= m  BY <1>2, <1>5, HasGreatest
<1>7. Latest = CHOOSE m \in T : \A t \in T : t <= m  BY DEF Latest, StampsOf
<1>8. cursor \in T /\ \A i \in 1 .. upto : eve[i].stamp \in T  BY DEF StampsOf
<1>. HIDE DEF T
<1>9. Latest \in T /\ \A t \in T : t <= Latest  BY <1>6, <1>7
<1>10. Latest \in 0 .. Top /\ cursor <= Latest /\ \A i \in 1 .. upto : eve[i].stamp <= Latest
  BY <1>5, <1>8, <1>9
<1>. QED  BY <1>1, <1>2, <1>10

(* The category of a flow is that of its last alert of this run.           *)
LEMMA CategoryFacts ==
  ASSUME NEW f, upto \in Nat, Category(f) # NoCategory
  PROVE  \E j \in Fresh(upto) :
           /\ ~IsFlow(j) /\ eve[j].flow = f /\ eve[j].kind = Category(f)
           /\ \A i \in Fresh(upto) : ~IsFlow(i) /\ eve[i].flow = f => i <= j
<1>. DEFINE T == {i \in Fresh(upto) : ~IsFlow(i) /\ eve[i].flow = f}
<1>1. T # {} /\ Category(f) = eve[CHOOSE i \in T : \A j \in T : j <= i].kind
  BY DEF Category
<1>2. T \in SUBSET (0 .. upto)  BY DEF Fresh
<1>3. \E i \in T : \A j \in T : j <= i  BY <1>1, <1>2, HasGreatest
<1>. HIDE DEF T
<1>4. PICK j : j \in T /\ (\A i \in T : i <= j) /\ Category(f) = eve[j].kind
  BY <1>1, <1>3
<1>. QED  BY <1>4 DEF T

LEMMA CopiesAppend ==
  ASSUME corpus \in Seq(RowSet), NEW row \in RowSet, corpus' = Append(corpus, row)
  PROVE  \A f : /\ Copies(f) \in Nat
                /\ Copies(f)' = Copies(f) + (IF row.flow = f THEN 1 ELSE 0)
<1>. SUFFICES ASSUME NEW f
              PROVE  /\ Copies(f) \in Nat
                     /\ Copies(f)' = Copies(f) + (IF row.flow = f THEN 1 ELSE 0)
  OBVIOUS
<1>. DEFINE n == Len(corpus)
           H == {k \in 1 .. n : corpus[k].flow = f}
           G == {k \in 1 .. Len(corpus') : corpus'[k].flow = f}
<1>1. n \in Nat /\ Len(corpus') = n + 1 /\ corpus'[n + 1] = row
      /\ \A k \in 1 .. n : corpus'[k] = corpus[k]
  OBVIOUS
<1>2. IsFiniteSet(1 .. n)
  <2>1. 1 \in Int /\ n \in Int  BY <1>1
  <2>. HIDE DEF n
  <2>. QED  BY <2>1, FS_Interval
<1>3. H \subseteq 1 .. n /\ n + 1 \notin H  BY <1>1
<1>4. IsFiniteSet(H) /\ Cardinality(H) \in Nat  BY <1>2, <1>3, FS_Subset, FS_CardinalityType
<1>5. Copies(f) = Cardinality(H) /\ Copies(f)' = Cardinality(G)  BY DEF Copies
<1>6. CASE row.flow = f
  <2>1. G = H \cup {n + 1}  BY <1>1, <1>6
  <2>. HIDE DEF H, G, n
  <2>2. Cardinality(H \cup {n + 1}) = Cardinality(H) + 1  BY <1>3, <1>4, FS_AddElement
  <2>. QED  BY <1>4, <1>5, <1>6, <2>1, <2>2
<1>7. CASE row.flow # f
  <2>1. G = H  BY <1>1, <1>7
  <2>. HIDE DEF H, G, n
  <2>. QED  BY <1>4, <1>5, <1>7, <2>1
<1>. QED  BY <1>6, <1>7

LEMMA CopiesStay == ASSUME corpus' = corpus PROVE \A f : Copies(f)' = Copies(f)
BY DEF Copies

LEMMA CopiesType ==
  ASSUME corpus \in Seq(RowSet)
  PROVE  \A f : Copies(f) \in Nat
<1>. SUFFICES ASSUME NEW f PROVE Copies(f) \in Nat  OBVIOUS
<1>. DEFINE n == Len(corpus)
           H == {k \in 1 .. n : corpus[k].flow = f}
<1>1. 1 \in Int /\ n \in Int  OBVIOUS
<1>. HIDE DEF n
<1>2. IsFiniteSet(1 .. n)  BY <1>1, FS_Interval
<1>3. IsFiniteSet(H)  BY <1>2, FS_Subset
<1>. QED  BY <1>3, FS_CardinalityType DEF Copies, n

LEMMA RowType ==
  ASSUME TypeOK, NEW i \in FlowsNew(upto)
  PROVE  /\ i \in 1 .. Len(eve) /\ i \in 1 .. upto /\ IsFlow(i) /\ eve[i].flow \in Flows
         /\ eve[i].stamp > cursor
         /\ Row(eve[i].flow) \in RowSet /\ Row(eve[i].flow).flow = eve[i].flow
<1>1. eve \in Seq(Records) /\ upto \in 0 .. Len(eve) /\ Len(eve) \in Nat
  BY RecordFacts DEF TypeOK, Records, Kinds
<1>2. i \in 1 .. upto /\ eve[i].stamp > cursor /\ IsFlow(i)  BY DEF FlowsNew, Fresh
<1>3. i \in 1 .. Len(eve)  BY <1>1, <1>2
<1>4. eve[i].flow \in Flows  BY <1>1, <1>3, RecordFacts
<1>. DEFINE f == eve[i].flow
<1>5. Score(f) \in Scores \cup {Unknown}  BY DEF Score, TypeOK
<1>6. (IF f \in Controlled THEN 1 ELSE GetLabel(Category(f), Alerted(f), Score(f))) \in Labels
  BY DEF GetLabel, Labels
<1>. HIDE DEF f
<1>7. Row(f) \in RowSet /\ Row(f).flow = f  BY <1>4, <1>5, <1>6 DEF Row, RowSet, f
<1>. QED  BY <1>2, <1>3, <1>4, <1>7 DEF f

-----------------------------------------------------------------------------
(* Types.                                                                  *)

EveTyped ==
  /\ eve \in Seq(Records) /\ LogOK
  /\ half \in BOOLEAN /\ earlier \in 0 .. MaxEarlier
  /\ cursor \in 0 .. Top /\ passed \subseteq 1 .. Len(eve)

FilesTyped ==
  /\ broken \subseteq {"state", "cache", "corpus"}
  /\ stored \in [Ips -> Scores \cup {Unknown}]
  /\ corpus \in Seq(RowSet)
  /\ headed \in BOOLEAN /\ ragged \in BOOLEAN
  /\ glued \subseteq Flows /\ crashes \in 0 .. MaxCrashes

Phases == {"idle", "read", "ask", "opencache", "cache", "write", "open", "state"}

RunTyped ==
  /\ pc \in Phases /\ RunOK
  /\ upto \in 0 .. Len(eve) /\ at \in 0 .. upto
  /\ cache \in [Ips -> Scores \cup {Unknown}]
  /\ todo \subseteq Ips /\ calls \in 0 .. MaxCalls

LEMMA TypeParts == TypeInv <=> EveTyped /\ FilesTyped /\ RunTyped
BY DEF TypeInv, TypeOK, EveTyped, FilesTyped, RunTyped, Phases, Records, Kinds, RowSet, Labels

LEMMA LogFacts ==
  ASSUME TypeInv, NEW kind \in Kinds, NEW f \in Flows, NEW s \in 1 .. Top + 1, Log(kind, f, s)
  PROVE  /\ eve' \in Seq(Records) /\ LogOK' /\ Len(eve') = Len(eve) + 1
         /\ \A i \in 1 .. Len(eve) : eve'[i] = eve[i]
         /\ eve'[Len(eve) + 1].kind = kind /\ eve'[Len(eve) + 1].flow = f
         /\ eve'[Len(eve) + 1].stamp = s
         /\ Top' \in Nat /\ Top \in Nat /\ Top <= Top'
<1>1. EveTyped  BY TypeParts
<1>2. Top = TopOf(eve) /\ Top' = TopOf(eve')  BY TopIs DEF Top, TopOf, StampsOf
<1>3. HasBound(eve) /\ eve \in Seq(Records)  BY <1>1 DEF EveTyped, LogOK
<1>4. Top \in Nat  BY <1>2, <1>3, TopFacts
<1>. DEFINE r == [kind |-> kind, flow |-> f, stamp |-> s]
<1>5. r \in Records  BY <1>4 DEF Records
<1>6. eve' = Append(eve, r)  BY DEF Log
<1>. HIDE DEF r
<1>7. /\ eve' \in Seq(Records) /\ HasBound(eve') /\ Len(eve') = Len(eve) + 1
      /\ eve'[Len(eve) + 1] = r /\ \A i \in 1 .. Len(eve) : eve'[i] = eve[i]
      /\ TopOf(eve') \in Nat /\ TopOf(eve) <= TopOf(eve')
  <2>. DEFINE d == Append(eve, r)
  <2>1. /\ d \in Seq(Records) /\ HasBound(d) /\ Len(d) = Len(eve) + 1
        /\ d[Len(eve) + 1] = r /\ \A i \in 1 .. Len(eve) : d[i] = eve[i]
        /\ TopOf(d) \in Nat /\ TopOf(eve) <= TopOf(d)
    BY <1>3, <1>5, TopGrows
  <2>2. eve' = d  BY <1>6
  <2>. HIDE DEF d
  <2>. QED  BY <2>1, <2>2
<1>8. Len(eve) \in Nat  BY <1>3, RecordFacts
<1>9. \A i, j \in 1 .. Len(eve') : IsFlow(i)' /\ i < j => eve'[j].flow # eve'[i].flow
  <2>. SUFFICES ASSUME NEW i \in 1 .. Len(eve'), NEW j \in 1 .. Len(eve'),
                       eve'[i].kind = "flow", i < j
                PROVE  eve'[j].flow # eve'[i].flow
    BY DEF IsFlow
  <2>1. i \in 1 .. Len(eve) /\ eve[i].kind = "flow" /\ eve'[i] = eve[i]  BY <1>7, <1>8
  <2>2. CASE j \in 1 .. Len(eve)
    <3>1. eve'[j] = eve[j]  BY <1>7, <2>2
    <3>. QED  BY <1>1, <2>1, <2>2, <3>1 DEF EveTyped, LogOK, IsFlow
  <2>3. CASE j = Len(eve) + 1
    <3>1. eve'[j].flow = f  BY <1>7, <2>3 DEF r
    <3>. QED  BY <2>1, <3>1 DEF Log, IsFlow
  <2>. QED  BY <1>7, <1>8, <2>2, <2>3
<1>10. LogOK'
  <2>1. half' => Len(eve') > 0  BY <1>7, <1>8
  <2>. QED  BY <1>7, <1>9, <2>1 DEF LogOK
<1>11. /\ eve'[Len(eve) + 1].kind = kind /\ eve'[Len(eve) + 1].flow = f
       /\ eve'[Len(eve) + 1].stamp = s
  BY <1>7 DEF r
<1>. QED  BY <1>2, <1>4, <1>7, <1>10, <1>11

LEMMA EveStep == TypeInv /\ [Next]_vars => EveTyped'
<1>. SUFFICES ASSUME TypeInv, [Next]_vars PROVE EveTyped'  OBVIOUS
<1>1. EveTyped  BY TypeParts
<1>2. Len(eve) \in Nat  BY <1>1, RecordFacts DEF EveTyped
<1>3. ASSUME NEW kind \in Kinds, NEW f \in Flows, NEW s \in 1 .. Top + 1, Log(kind, f, s)
      PROVE  EveTyped'
  <2>1. /\ eve' \in Seq(Records) /\ LogOK' /\ Len(eve') = Len(eve) + 1
        /\ Top' \in Nat /\ Top \in Nat /\ Top <= Top'
    BY <1>3, LogFacts
  <2>2. half' \in BOOLEAN /\ cursor' = cursor  BY <1>3 DEF Log, fileVars
  <2>3. earlier' \in 0 .. MaxEarlier
    BY <1>1, <1>3, LabellerConstants DEF Log, EveTyped
  <2>4. cursor' \in 0 .. Top'  BY <1>1, <2>1, <2>2 DEF EveTyped
  <2>5. passed' \subseteq 1 .. Len(eve')
    <3>1. 1 .. Len(eve) \subseteq 1 .. Len(eve') /\ Len(eve') \in 1 .. Len(eve')
      BY <1>2, <2>1
    <3>2. passed' \subseteq passed \cup {Len(eve')}  BY <1>3 DEF Log
    <3>. QED  BY <1>1, <3>1, <3>2 DEF EveTyped
  <2>. QED  BY <2>1, <2>2, <2>3, <2>4, <2>5 DEF EveTyped
<1>4. ASSUME UNCHANGED eve, LogOK', half' \in BOOLEAN, UNCHANGED <<earlier, cursor, passed>>
      PROVE  EveTyped'
  <2>1. Top' = Top  BY <1>4 DEF Top
  <2>. QED  BY <1>1, <1>4, <2>1 DEF EveTyped
<1>5. ASSUME UNCHANGED <<eve, half>> PROVE LogOK'
  BY <1>1, <1>5 DEF EveTyped, LogOK, HasBound, IsFlow
<1>6. CASE Flush
  <2>1. LogOK'  BY <1>1, <1>6 DEF Flush, EveTyped, LogOK, HasBound, IsFlow
  <2>. QED  BY <1>4, <1>6, <2>1 DEF Flush, fileVars, historyVars
<1>7. CASE DumpState
  <2>1. Latest \in cursor .. Top  BY LatestFacts DEF TypeInv
  <2>2. UNCHANGED <<eve, half, earlier>> /\ cursor' = Latest  BY <1>7 DEF DumpState, eveVars
  <2>3. Top' = Top  BY <2>2 DEF Top
  <2>4. passed' \subseteq 1 .. Len(eve')
    <3>1. upto \in Nat  BY <1>2, TypeParts DEF RunTyped
    <3>2. upto + 1 .. Len(eve) \subseteq 1 .. Len(eve)  BY <1>2, <3>1
    <3>3. passed' \subseteq passed \cup (upto + 1 .. Len(eve))  BY <1>7 DEF DumpState
    <3>. QED  BY <1>1, <2>2, <3>2, <3>3 DEF EveTyped
  <2>5. cursor' \in 0 .. Top'
    <3>1. Top \in Nat  BY <1>1, TopFacts, TopIs DEF EveTyped, LogOK
    <3>. QED  BY <1>1, <2>1, <2>2, <2>3, <3>1 DEF EveTyped
  <2>. QED  BY <1>1, <1>5, <2>2, <2>4, <2>5 DEF EveTyped
<1>8. CASE UNCHANGED <<eve, half, earlier, cursor, passed>>
  BY <1>1, <1>4, <1>5, <1>8 DEF EveTyped
<1>9. CASE StartRun   BY <1>8, <1>9 DEF StartRun, eveVars, fileVars, historyVars
<1>10. CASE StartFails  BY <1>8, <1>10 DEF StartFails, vars, eveVars, fileVars, historyVars
<1>11. CASE ReadEve   BY <1>8, <1>11 DEF ReadEve, eveVars, fileVars, historyVars
<1>12. ASSUME NEW ip \in Ips, Ask(ip) PROVE EveTyped'
  BY <1>8, <1>12 DEF Ask, eveVars, fileVars, historyVars
<1>13. CASE OpenCache  BY <1>8, <1>13 DEF OpenCache, eveVars, historyVars
<1>14. CASE DumpCache  BY <1>8, <1>14 DEF DumpCache, eveVars, historyVars
<1>15. ASSUME NEW i \in 1 .. upto, WriteRow(i) PROVE EveTyped'
  BY <1>8, <1>15 DEF WriteRow, eveVars
<1>16. CASE HeaderFails  BY <1>8, <1>16 DEF HeaderFails, eveVars, fileVars, historyVars
<1>17. CASE WriteBreaks  BY <1>8, <1>17 DEF WriteBreaks, eveVars
<1>18. CASE OpenState  BY <1>8, <1>18 DEF OpenState, eveVars, historyVars
<1>19. CASE Crash  BY <1>8, <1>19 DEF Crash, eveVars, fileVars
<1>20. CASE UNCHANGED vars  BY <1>8, <1>20 DEF vars, eveVars, fileVars, historyVars
<1>. QED
  BY <1>3, <1>6, <1>7, <1>9, <1>10, <1>11, <1>12, <1>13, <1>14, <1>15, <1>16, <1>17, <1>18,
     <1>19, <1>20 DEF Next, Step, Kinds

LEMMA FilesStep == TypeInv /\ [Next]_vars => FilesTyped'
<1>. SUFFICES ASSUME TypeInv, [Next]_vars PROVE FilesTyped'  OBVIOUS
<1>1. FilesTyped  BY TypeParts
<1>2. CASE UNCHANGED <<stored, corpus, headed, ragged, glued, crashes>>
           /\ broken' \subseteq broken \cup {"state", "cache", "corpus"}
  BY <1>1, <1>2 DEF FilesTyped
<1>3. ASSUME NEW kind, NEW f, NEW s, Log(kind, f, s) PROVE FilesTyped'
  BY <1>2, <1>3 DEF Log, fileVars
<1>4. CASE Flush  BY <1>2, <1>4 DEF Flush, fileVars, historyVars
<1>5. CASE StartRun  BY <1>2, <1>5 DEF StartRun, fileVars, historyVars
<1>6. CASE StartFails  BY <1>2, <1>6 DEF StartFails, vars, fileVars, historyVars
<1>7. CASE ReadEve  BY <1>2, <1>7 DEF ReadEve, fileVars, historyVars
<1>8. ASSUME NEW ip \in Ips, Ask(ip) PROVE FilesTyped'
  BY <1>2, <1>8 DEF Ask, fileVars, historyVars
<1>9. CASE OpenCache  BY <1>2, <1>9 DEF OpenCache, historyVars
<1>10. CASE DumpCache
  <2>1. stored' \in [Ips -> Scores \cup {Unknown}] /\ broken' \subseteq broken
    BY <1>10, TypeParts DEF DumpCache, RunTyped
  <2>. QED  BY <1>1, <1>10, <2>1 DEF DumpCache, FilesTyped, historyVars
<1>11. ASSUME NEW i \in 1 .. upto, WriteRow(i) PROVE FilesTyped'
  <2>1. /\ Row(eve[i].flow) \in RowSet /\ eve[i].flow \in Flows
    BY <1>11, RowType DEF WriteRow, IsNext, TypeInv
  <2>2. corpus' \in Seq(RowSet) /\ glued' \subseteq Flows
    BY <1>1, <1>11, <2>1 DEF WriteRow, FilesTyped
  <2>. QED  BY <1>1, <1>11, <2>2 DEF WriteRow, FilesTyped
<1>12. CASE HeaderFails  BY <1>2, <1>12 DEF HeaderFails, fileVars, historyVars
<1>13. CASE WriteBreaks
  <2>1. crashes' \in 0 .. MaxCrashes
    BY <1>1, <1>13, LabellerConstants DEF WriteBreaks, FilesTyped
  <2>2. broken' \subseteq {"state", "cache", "corpus"} /\ ragged' \in BOOLEAN
    BY <1>1, <1>13 DEF WriteBreaks, FilesTyped
  <2>. QED  BY <1>1, <1>13, <2>1, <2>2 DEF WriteBreaks, FilesTyped
<1>14. CASE OpenState  BY <1>2, <1>14 DEF OpenState, historyVars
<1>15. CASE DumpState  BY <1>2, <1>15 DEF DumpState
<1>16. CASE Crash
  <2>1. crashes' \in 0 .. MaxCrashes
    BY <1>1, <1>16, LabellerConstants DEF Crash, FilesTyped
  <2>. QED  BY <1>1, <1>16, <2>1 DEF Crash, FilesTyped, fileVars
<1>17. CASE UNCHANGED vars  BY <1>2, <1>17 DEF vars, fileVars, historyVars
<1>. QED
  BY <1>3, <1>4, <1>5, <1>6, <1>7, <1>8, <1>9, <1>10, <1>11, <1>12, <1>13, <1>14, <1>15,
     <1>16, <1>17 DEF Next, Step

LEMMA RunStep == TypeInv /\ [Next]_vars => RunTyped'
<1>. SUFFICES ASSUME TypeInv, [Next]_vars PROVE RunTyped'  OBVIOUS
<1>1. RunTyped /\ EveTyped /\ FilesTyped  BY TypeParts
<1>2. Len(eve) \in Nat  BY <1>1, RecordFacts DEF EveTyped
<1>3. ASSUME pc' \in Phases, pc' \in {"idle", "read"} => calls = 0,
             at > 0 => pc' \in {"write", "open", "state"},
             UNCHANGED <<runVars, eve>>
      PROVE  RunTyped'
  BY <1>1, <1>3 DEF RunTyped, RunOK, runVars
<1>4. ASSUME End PROVE RunTyped'
  <2>1. NoScores \in [Ips -> Scores \cup {Unknown}]  BY DEF NoScores
  <2>2. Len(eve') \in Nat
    BY EveStep, RecordFacts DEF EveTyped
  <2>3. pc' \in Phases /\ upto' \in 0 .. Len(eve') /\ at' \in 0 .. upto'
    BY <1>4, <2>2 DEF End, Phases
  <2>4. calls' \in 0 .. MaxCalls /\ RunOK'
    BY <1>4, LabellerConstants DEF End, RunOK
  <2>. QED  BY <1>4, <2>1, <2>3, <2>4 DEF End, RunTyped
<1>5. ASSUME NEW kind \in Kinds, NEW f \in Flows, NEW s \in 1 .. Top + 1, Log(kind, f, s)
      PROVE  RunTyped'
  <2>1. Len(eve') = Len(eve) + 1  BY <1>5, LogFacts
  <2>2. UNCHANGED <<pc, runVars>>  BY <1>5 DEF Log
  <2>3. upto' \in 0 .. Len(eve')  BY <1>1, <1>2, <2>1, <2>2 DEF RunTyped, runVars
  <2>. QED  BY <1>1, <2>2, <2>3 DEF RunTyped, RunOK, runVars
<1>6. CASE Flush  BY <1>1, <1>3, <1>6 DEF Flush, RunTyped, RunOK
<1>7. CASE StartRun
  <2>1. at = 0 /\ calls = 0  BY <1>1, <1>7 DEF StartRun, RunTyped, RunOK
  <2>2. UNCHANGED <<upto, at, todo, calls, eve>> /\ cache' = stored /\ pc' = "read"
    BY <1>7 DEF StartRun, eveVars
  <2>. QED  BY <1>1, <2>1, <2>2 DEF RunTyped, RunOK, FilesTyped, Phases
<1>8. CASE StartFails  BY <1>1, <1>3, <1>8 DEF StartFails, vars, eveVars, RunTyped, RunOK
<1>9. CASE ReadEve
  <2>1. upto' \in 0 .. Len(eve)  BY <1>1, <1>2, <1>9 DEF ReadEve, EveTyped, LogOK
  <2>2. at = 0 /\ at' = 0 /\ eve' = eve /\ UNCHANGED <<cache, calls>>
    BY <1>1, <1>9 DEF ReadEve, RunTyped, RunOK, eveVars
  <2>3. pc' \in Phases \ {"idle", "read"} /\ todo' \subseteq Ips  BY <1>9 DEF ReadEve, Phases
  <2>4. at' \in 0 .. upto'  BY <2>1, <2>2
  <2>5. calls < MaxCalls
    BY <1>1, <1>9, LabellerConstants DEF ReadEve, RunTyped, RunOK
  <2>. QED  BY <1>1, <2>1, <2>2, <2>3, <2>4, <2>5 DEF RunTyped, RunOK
<1>10. ASSUME NEW ip \in Ips, Ask(ip) PROVE RunTyped'
  <2>1. calls < MaxCalls  BY <1>1, <1>10 DEF Ask, RunTyped, RunOK
  <2>2. calls' \in 0 .. MaxCalls  BY <1>1, <1>10, <2>1, LabellerConstants DEF Ask, RunTyped
  <2>3. cache' \in [Ips -> Scores \cup {Unknown}]  BY <1>1, <1>10 DEF Ask, RunTyped
  <2>4. todo' \subseteq Ips /\ (todo' # {} => calls' < MaxCalls)
    BY <1>1, <1>10 DEF Ask, RunTyped
  <2>5. at = 0 /\ UNCHANGED <<upto, at, eve>> /\ pc' \in Phases \ {"idle", "read"}
    BY <1>1, <1>10 DEF Ask, RunTyped, RunOK, Phases, eveVars
  <2>. QED  BY <1>1, <2>2, <2>3, <2>4, <2>5 DEF RunTyped, RunOK
<1>11. CASE OpenCache
  BY <1>1, <1>3, <1>11 DEF OpenCache, RunTyped, RunOK, Phases, eveVars
<1>12. CASE DumpCache
  BY <1>1, <1>3, <1>12 DEF DumpCache, RunTyped, RunOK, Phases, eveVars
<1>13. ASSUME NEW i \in 1 .. upto, WriteRow(i) PROVE RunTyped'
  <2>1. at' \in 0 .. upto /\ UNCHANGED <<upto, cache, todo, calls, eve>>
    BY <1>1, <1>13 DEF WriteRow, RunTyped, eveVars
  <2>2. pc' \in {"write", "open"}  BY <1>13 DEF WriteRow
  <2>. QED  BY <1>1, <2>1, <2>2 DEF RunTyped, RunOK, Phases
<1>14. CASE HeaderFails  BY <1>4, <1>14 DEF HeaderFails
<1>15. CASE WriteBreaks  BY <1>4, <1>15 DEF WriteBreaks
<1>16. CASE OpenState  BY <1>1, <1>3, <1>16 DEF OpenState, RunTyped, RunOK, Phases, eveVars
<1>17. CASE DumpState  BY <1>4, <1>17 DEF DumpState
<1>18. CASE Crash  BY <1>4, <1>18 DEF Crash
<1>19. CASE UNCHANGED vars  BY <1>1, <1>3, <1>19 DEF vars, RunTyped, RunOK, eveVars
<1>. QED
  BY <1>5, <1>6, <1>7, <1>8, <1>9, <1>10, <1>11, <1>12, <1>13, <1>14, <1>15, <1>16, <1>17,
     <1>18, <1>19 DEF Next, Step, Kinds

LEMMA TypeInit == Init => TypeInv
<1>. SUFFICES ASSUME Init PROVE TypeInv  OBVIOUS
<1>1. Len(eve) = 0 /\ eve \in Seq(Records) /\ corpus \in Seq(RowSet)  BY DEF Init
<1>2. HasBound(eve)
  <2>1. 0 \in Nat /\ \A i \in 1 .. Len(eve) : eve[i].stamp <= 0  BY <1>1
  <2>. QED  BY <2>1 DEF HasBound
<1>3. LogOK  BY <1>1, <1>2 DEF Init, LogOK
<1>4. Top \in Nat  BY <1>1, <1>2, TopFacts, TopIs
<1>5. EveTyped
  <2>1. earlier \in 0 .. MaxEarlier /\ cursor \in 0 .. Top
    BY <1>4, LabellerConstants DEF Init
  <2>2. half \in BOOLEAN /\ passed \subseteq 1 .. Len(eve)  BY Zenon DEF Init
  <2>. QED  BY <1>1, <1>3, <2>1, <2>2 DEF EveTyped
<1>6. NoScores \in [Ips -> Scores \cup {Unknown}]  BY DEF NoScores
<1>7. FilesTyped
  <2>1. crashes \in 0 .. MaxCrashes  BY LabellerConstants DEF Init
  <2>2. /\ headed \in BOOLEAN /\ ragged \in BOOLEAN
        /\ broken \subseteq {"state", "cache", "corpus"} /\ glued \subseteq Flows
    BY Zenon DEF Init
  <2>3. stored \in [Ips -> Scores \cup {Unknown}]  BY <1>6 DEF Init
  <2>. QED  BY <1>1, <2>1, <2>2, <2>3 DEF FilesTyped
<1>8. RunTyped  BY <1>1, <1>6, LabellerConstants DEF Init, RunTyped, RunOK, Phases
<1>. QED  BY <1>5, <1>7, <1>8, TypeParts

-----------------------------------------------------------------------------
(* What a step does to the log, the cursor and the corpus.                 *)

(* The run goes on, and nothing of these changes.                          *)
Along ==
  /\ UNCHANGED <<eve, cursor, corpus, glued, passed, crashes, upto, at>>
  /\ pc' \in {"open", "state"} => pc \in {"open", "state"}

(* The run ends without a new cursor: killed, or before its first row.     *)
Over ==
  /\ UNCHANGED <<eve, cursor, corpus, glued, passed>>
  /\ upto' = 0 /\ at' = 0
  /\ crashes' = crashes + 1 \/ (at = 0 /\ crashes' = crashes)

LEMMA StepKinds ==
  ASSUME TypeInv, [Next]_vars
  PROVE  \/ \E kind \in Kinds, f \in Flows, s \in 1 .. Top + 1 : Log(kind, f, s)
         \/ \E i \in 1 .. upto : WriteRow(i)
         \/ DumpState \/ ReadEve \/ Along \/ Over
<1>1. RunTyped  BY TypeParts
<1>2. CASE Flush  BY <1>2 DEF Flush, Along, fileVars, runVars, historyVars
<1>3. CASE StartRun  BY <1>3 DEF StartRun, Along, eveVars, fileVars, historyVars
<1>4. CASE StartFails
  BY <1>4 DEF StartFails, Along, vars, eveVars, fileVars, runVars, historyVars
<1>5. ASSUME NEW ip \in Ips, Ask(ip) PROVE Along
  BY <1>5 DEF Ask, Along, eveVars, fileVars, historyVars
<1>6. CASE OpenCache  BY <1>6 DEF OpenCache, Along, eveVars, runVars, historyVars
<1>7. CASE DumpCache  BY <1>7 DEF DumpCache, Along, eveVars, runVars, historyVars
<1>8. CASE HeaderFails
  <2>1. at = 0  BY <1>1, <1>8 DEF HeaderFails, MayWrite, RunTyped
  <2>. QED  BY <1>8, <2>1 DEF HeaderFails, Over, End, eveVars, fileVars, historyVars
<1>9. CASE WriteBreaks  BY <1>9 DEF WriteBreaks, Over, End, eveVars
<1>10. CASE OpenState  BY <1>10 DEF OpenState, Along, eveVars, runVars, historyVars
<1>11. CASE Crash  BY <1>11 DEF Crash, Over, End, eveVars, fileVars
<1>12. CASE UNCHANGED vars
  BY <1>12 DEF Along, vars, eveVars, fileVars, runVars, historyVars
<1>. QED
  BY <1>2, <1>3, <1>4, <1>5, <1>6, <1>7, <1>8, <1>9, <1>10, <1>11, <1>12 DEF Next, Step, Kinds

-----------------------------------------------------------------------------
(* What the corpus lacks.                                                  *)

(* The rows up to "at" are written, and all of them after phase 4.         *)
WrittenOK ==
  \A i \in FlowsNew(upto) : i <= at \/ pc \in {"open", "state"} => Recorded(eve[i].flow)

(* What the cursor covers, and did not pass over, comes before the rest.   *)
CursorOK ==
  \A i, j \in 1 .. Len(eve) :
    i \notin passed /\ eve[i].stamp <= cursor /\ eve[j].stamp > cursor => i < j

(* Every flow the cursor covers is in the corpus, during a run as well.    *)
CoveredOK ==
  \A i \in 1 .. Len(eve) \ passed :
    IsFlow(i) /\ eve[i].stamp <= cursor => Recorded(eve[i].flow)

LEMMA RecordedStays ==
  ASSUME TypeInv, corpus' = corpus \/ \E row \in RowSet : corpus' = Append(corpus, row),
         glued \subseteq glued'
  PROVE  \A f : Recorded(f) => Recorded(f)'
<1>1. corpus \in Seq(RowSet)  BY TypeParts DEF FilesTyped
<1>2. CASE corpus' = corpus  BY <1>2, CopiesStay DEF Recorded
<1>3. ASSUME NEW row \in RowSet, corpus' = Append(corpus, row)
      PROVE  \A f : Recorded(f) => Recorded(f)'
  <2>. SUFFICES ASSUME NEW f, Recorded(f) PROVE Recorded(f)'  OBVIOUS
  <2>1. Copies(f) \in Nat /\ Copies(f)' \in Nat /\ Copies(f)' >= Copies(f)
    BY <1>1, <1>3, CopiesAppend
  <2>. QED  BY <2>1 DEF Recorded
<1>. QED  BY <1>2, <1>3

(* A row that is written, or lost behind a torn one, records its flow.     *)
LEMMA WriteRowFacts ==
  ASSUME TypeInv, NEW i \in 1 .. upto, WriteRow(i)
  PROVE  /\ UNCHANGED <<eve, cursor, passed, crashes, upto>> /\ at' = i /\ i > at
         /\ i \in FlowsNew(upto) /\ i \in 1 .. Len(eve)
         /\ \A j \in FlowsNew(upto) : j > at => i <= j
         /\ pc' = "open" => \A j \in FlowsNew(upto) : j <= i
         /\ \A f : Recorded(f) => Recorded(f)'
         /\ Recorded(eve[i].flow)'
         /\ \/ corpus' = corpus
            \/ /\ Row(eve[i].flow) \in RowSet /\ Row(eve[i].flow).flow = eve[i].flow
               /\ corpus' = Append(corpus, Row(eve[i].flow))
<1>1. i \in FlowsNew(upto) /\ i > at /\ \A j \in FlowsNew(upto) : j > at => i <= j
  BY DEF WriteRow, IsNext
<1>2. /\ i \in 1 .. Len(eve) /\ Row(eve[i].flow) \in RowSet
      /\ Row(eve[i].flow).flow = eve[i].flow
  BY <1>1, RowType DEF TypeInv
<1>3. UNCHANGED <<eve, cursor, passed, crashes, upto>> /\ at' = i
  BY DEF WriteRow, eveVars
<1>4. pc' = "open" => \A j \in FlowsNew(upto) : j <= i
  BY <1>1 DEF WriteRow, FlowsNew, Fresh
<1>5. CASE ragged
  <2>1. glued' = glued \cup {eve[i].flow} /\ corpus' = corpus  BY <1>5 DEF WriteRow
  <2>2. \A f : Recorded(f) => Recorded(f)'  BY <2>1, RecordedStays
  <2>3. Recorded(eve[i].flow)'  BY <1>3, <2>1 DEF Recorded
  <2>. QED  BY <1>1, <1>2, <1>3, <1>4, <2>1, <2>2, <2>3
<1>6. CASE ~ragged
  <2>1. glued' = glued /\ corpus' = Append(corpus, Row(eve[i].flow))  BY <1>6 DEF WriteRow
  <2>2. \A f : Recorded(f) => Recorded(f)'  BY <1>2, <2>1, RecordedStays
  <2>3. Recorded(eve[i].flow)'
    <3>1. PICK f \in Flows, row \in RowSet :
            f = eve[i].flow /\ row.flow = f /\ corpus' = Append(corpus, row)
      BY <1>1, <1>2, <2>1, RowType DEF TypeInv
    <3>2. corpus \in Seq(RowSet)  BY TypeParts DEF FilesTyped
    <3>3. Copies(f) \in Nat /\ Copies(f)' = Copies(f) + 1  BY <3>1, <3>2, CopiesAppend
    <3>4. Copies(f)' > 0  BY <3>3
    <3>5. Recorded(f)'  BY <3>4 DEF Recorded
    <3>. QED  BY <1>3, <3>1, <3>5
  <2>. QED  BY <1>1, <1>2, <1>3, <1>4, <2>1, <2>2, <2>3
<1>. QED  BY <1>5, <1>6

LEMMA SizeFacts ==
  ASSUME TypeInv
  PROVE  /\ Len(eve) \in Nat /\ upto \in Nat /\ at \in Nat /\ at <= upto /\ upto <= Len(eve)
         /\ cursor \in Nat /\ crashes \in Nat
         /\ \A i \in 1 .. Len(eve) : eve[i].stamp \in Nat /\ eve[i].flow \in Flows
         /\ corpus \in Seq(RowSet) /\ passed \subseteq 1 .. Len(eve)
<1>1. EveTyped /\ FilesTyped /\ RunTyped  BY TypeParts
<1>2. /\ Len(eve) \in Nat
      /\ \A i \in 1 .. Len(eve) : eve[i].stamp \in Nat /\ eve[i].flow \in Flows
  BY <1>1, RecordFacts DEF EveTyped
<1>3. Top \in Nat  BY <1>1, TopFacts, TopIs DEF EveTyped, LogOK
<1>. QED  BY <1>1, <1>2, <1>3, LabellerConstants DEF EveTyped, FilesTyped, RunTyped

LEMMA DumpFacts ==
  ASSUME TypeInv, DumpState
  PROVE  /\ UNCHANGED <<eve, corpus, glued, crashes>> /\ upto' = 0 /\ at' = 0 /\ pc = "state"
         /\ cursor' \in Nat /\ cursor <= cursor'
         /\ \A i \in 1 .. upto : eve[i].stamp <= cursor'
         /\ passed' = passed \cup {i \in upto + 1 .. Len(eve) : eve[i].stamp <= cursor'}
<1>1. Latest \in cursor .. Top /\ \A i \in 1 .. upto : eve[i].stamp <= Latest
  BY LatestFacts DEF TypeInv
<1>2. cursor \in Nat  BY SizeFacts
<1>. QED  BY <1>1, <1>2 DEF DumpState, End, eveVars

LEMMA WrittenStep ==
  ASSUME TypeInv, WrittenOK, [Next]_vars
  PROVE  WrittenOK'
<1>0. /\ Len(eve) \in Nat /\ upto \in Nat /\ at \in Nat /\ at <= upto /\ upto <= Len(eve)
  BY SizeFacts
<1>. SUFFICES ASSUME NEW i \in 1 .. upto', eve'[i].stamp > cursor', eve'[i].kind = "flow",
                     i <= at' \/ pc' \in {"open", "state"}
              PROVE  Recorded(eve[i].flow)'
  BY DEF WrittenOK, FlowsNew, Fresh, IsFlow
<1>1. ASSUME NEW kind \in Kinds, NEW f \in Flows, NEW s \in 1 .. Top + 1, Log(kind, f, s)
      PROVE  Recorded(eve[i].flow)'
  <2>1. UNCHANGED <<upto, at, pc, corpus, glued, cursor>>
    BY <1>1 DEF Log, runVars, fileVars
  <2>2. i \in 1 .. Len(eve)  BY <1>0, <2>1
  <2>3. eve'[i] = eve[i]  BY <1>1, <2>2, LogFacts
  <2>4. i \in FlowsNew(upto)  BY <2>1, <2>3 DEF FlowsNew, Fresh, IsFlow
  <2>5. Recorded(eve[i].flow)  BY <2>1, <2>4 DEF WrittenOK
  <2>. QED  BY <2>1, <2>3, <2>5 DEF Recorded, Copies
<1>2. ASSUME NEW k \in 1 .. upto, WriteRow(k) PROVE Recorded(eve[i].flow)'
  <2>1. /\ UNCHANGED <<eve, cursor, upto>> /\ at' = k
        /\ \A j \in FlowsNew(upto) : j > at => k <= j
        /\ pc' = "open" => \A j \in FlowsNew(upto) : j <= k
        /\ \A f : Recorded(f) => Recorded(f)'
        /\ Recorded(eve[k].flow)'
    BY <1>2, WriteRowFacts
  <2>2. i \in FlowsNew(upto)  BY <2>1 DEF FlowsNew, Fresh, IsFlow
  <2>3. pc' \in {"write", "open"}  BY <1>2 DEF WriteRow
  <2>4. i <= k  BY <2>1, <2>2, <2>3
  <2>5. CASE i <= at
    <3>1. Recorded(eve[i].flow)  BY <2>2, <2>5 DEF WrittenOK
    <3>. QED  BY <2>1, <3>1
  <2>6. CASE i > at
    <3>1. i = k  BY <2>1, <2>2, <2>4, <2>6
    <3>. QED  BY <2>1, <3>1
  <2>. QED  BY <1>0, <2>1, <2>5, <2>6
<1>3. CASE DumpState
  <2>1. upto' = 0  BY <1>3, DumpFacts
  <2>. QED  BY <2>1
<1>4. CASE ReadEve
  <2>1. at' = 0
    BY <1>4, TypeParts DEF ReadEve, RunTyped, RunOK
  <2>2. FlowsNew(upto)' = FlowsNew(upto')
    BY <1>4 DEF ReadEve, FlowsNew, Fresh, IsFlow, eveVars, fileVars
  <2>3. i \in FlowsNew(upto)'  BY DEF FlowsNew, Fresh, IsFlow
  <2>4. pc' \notin {"open", "state"}  BY <1>4, <2>2, <2>3 DEF ReadEve
  <2>. QED  BY <2>1, <2>4
<1>5. CASE Along
  <2>1. i \in FlowsNew(upto)  BY <1>5 DEF Along, FlowsNew, Fresh, IsFlow
  <2>2. Recorded(eve[i].flow)  BY <1>5, <2>1 DEF Along, WrittenOK
  <2>. QED  BY <1>5, <2>2 DEF Along, Recorded, Copies
<1>6. CASE Over
  BY <1>6 DEF Over
<1>. QED  BY <1>1, <1>2, <1>3, <1>4, <1>5, <1>6, StepKinds

LEMMA CursorStep ==
  ASSUME TypeInv, CursorOK, [Next]_vars
  PROVE  CursorOK'
<1>0. /\ Len(eve) \in Nat /\ upto \in Nat /\ cursor \in Nat
      /\ \A i \in 1 .. Len(eve) : eve[i].stamp \in Nat
  BY SizeFacts
<1>1. ASSUME NEW kind \in Kinds, NEW f \in Flows, NEW s \in 1 .. Top + 1, Log(kind, f, s)
      PROVE  CursorOK'
  <2>1. /\ Len(eve') = Len(eve) + 1 /\ \A i \in 1 .. Len(eve) : eve'[i] = eve[i]
        /\ eve'[Len(eve) + 1].stamp = s
    BY <1>1, LogFacts
  <2>2. cursor' = cursor /\ passed' = (IF s <= cursor THEN passed \cup {Len(eve')} ELSE passed)
    BY <1>1 DEF Log, fileVars
  <2>. SUFFICES ASSUME NEW i \in 1 .. Len(eve'), NEW j \in 1 .. Len(eve'), i \notin passed',
                       eve'[i].stamp <= cursor, eve'[j].stamp > cursor
                PROVE  i < j
    BY <2>2 DEF CursorOK
  <2>3. i \in 1 .. Len(eve) /\ eve[i].stamp <= cursor /\ i \notin passed
    BY <1>0, <2>1, <2>2
  <2>4. CASE j \in 1 .. Len(eve)  BY <2>1, <2>3, <2>4 DEF CursorOK
  <2>5. CASE j = Len(eve) + 1  BY <1>0, <2>3, <2>5
  <2>. QED  BY <1>0, <2>1, <2>4, <2>5
<1>2. CASE DumpState
  <2>1. /\ eve' = eve /\ cursor' \in Nat /\ \A i \in 1 .. upto : eve[i].stamp <= cursor'
        /\ passed' = passed \cup {i \in upto + 1 .. Len(eve) : eve[i].stamp <= cursor'}
    BY <1>2, DumpFacts
  <2>. SUFFICES ASSUME NEW i \in 1 .. Len(eve), NEW j \in 1 .. Len(eve), i \notin passed',
                       eve[i].stamp <= cursor', eve[j].stamp > cursor'
                PROVE  i < j
    BY <2>1 DEF CursorOK
  <2>2. i <= upto  BY <1>0, <2>1
  <2>3. ~(j <= upto)  BY <1>0, <2>1
  <2>. QED  BY <1>0, <2>2, <2>3
<1>3. CASE UNCHANGED <<eve, cursor, passed>>  BY <1>3 DEF CursorOK
<1>4. ASSUME NEW k \in 1 .. upto, WriteRow(k) PROVE CursorOK'
  BY <1>3, <1>4, WriteRowFacts
<1>5. CASE ReadEve  BY <1>3, <1>5 DEF ReadEve, eveVars, fileVars, historyVars
<1>. QED  BY <1>1, <1>2, <1>3, <1>4, <1>5, StepKinds DEF Along, Over

LEMMA CoveredStep ==
  ASSUME TypeInv, WrittenOK, CoveredOK, [Next]_vars
  PROVE  CoveredOK'
<1>0. /\ Len(eve) \in Nat /\ upto \in Nat /\ cursor \in Nat
      /\ \A i \in 1 .. Len(eve) : eve[i].stamp \in Nat
  BY SizeFacts
<1>. SUFFICES ASSUME NEW i \in 1 .. Len(eve'), i \notin passed', eve'[i].kind = "flow",
                     eve'[i].stamp <= cursor'
              PROVE  Recorded(eve[i].flow)'
  BY DEF CoveredOK, IsFlow
<1>1. ASSUME NEW kind \in Kinds, NEW f \in Flows, NEW s \in 1 .. Top + 1, Log(kind, f, s)
      PROVE  Recorded(eve[i].flow)'
  <2>1. /\ Len(eve') = Len(eve) + 1 /\ \A j \in 1 .. Len(eve) : eve'[j] = eve[j]
        /\ eve'[Len(eve) + 1].stamp = s
    BY <1>1, LogFacts
  <2>2. /\ UNCHANGED <<cursor, corpus, glued>>
        /\ passed' = (IF s <= cursor THEN passed \cup {Len(eve')} ELSE passed)
    BY <1>1 DEF Log, fileVars
  <2>3. i \in 1 .. Len(eve) /\ i \notin passed /\ eve'[i] = eve[i]  BY <1>0, <2>1, <2>2
  <2>4. Recorded(eve[i].flow)  BY <2>2, <2>3 DEF CoveredOK, IsFlow
  <2>. QED  BY <2>2, <2>3, <2>4 DEF Recorded, Copies
<1>2. ASSUME NEW k \in 1 .. upto, WriteRow(k) PROVE Recorded(eve[i].flow)'
  <2>1. UNCHANGED <<eve, cursor, passed>> /\ \A f : Recorded(f) => Recorded(f)'
    BY <1>2, WriteRowFacts
  <2>2. Recorded(eve[i].flow)  BY <2>1 DEF CoveredOK, IsFlow
  <2>. QED  BY <2>1, <2>2
<1>3. CASE DumpState
  <2>1. /\ UNCHANGED <<eve, corpus, glued>> /\ pc = "state" /\ cursor' \in Nat
        /\ passed' = passed \cup {j \in upto + 1 .. Len(eve) : eve[j].stamp <= cursor'}
    BY <1>3, DumpFacts
  <2>2. i \in 1 .. upto /\ i \notin passed  BY <1>0, <2>1
  <2>3. CASE eve[i].stamp <= cursor
    <3>1. Recorded(eve[i].flow)  BY <2>1, <2>2, <2>3 DEF CoveredOK, IsFlow
    <3>. QED  BY <2>1, <3>1 DEF Recorded, Copies
  <2>4. CASE eve[i].stamp > cursor
    <3>1. i \in FlowsNew(upto)  BY <2>1, <2>2, <2>4 DEF FlowsNew, Fresh, IsFlow
    <3>2. Recorded(eve[i].flow)  BY <2>1, <3>1 DEF WrittenOK
    <3>. QED  BY <2>1, <3>2 DEF Recorded, Copies
  <2>. QED  BY <1>0, <2>1, <2>3, <2>4
<1>4. CASE UNCHANGED <<eve, cursor, passed, corpus, glued>>
  <2>1. Recorded(eve[i].flow)  BY <1>4 DEF CoveredOK, IsFlow
  <2>. QED  BY <1>4, <2>1 DEF Recorded, Copies
<1>5. CASE ReadEve  BY <1>4, <1>5 DEF ReadEve, eveVars, fileVars, historyVars
<1>. QED  BY <1>1, <1>2, <1>3, <1>4, <1>5, StepKinds DEF Along, Over

-----------------------------------------------------------------------------
(* What the corpus repeats.                                                *)

(* The end of f is still to be logged, or to be read and written.          *)
Owed(f) ==
  \A i \in 1 .. Len(eve) :
    IsFlow(i) /\ eve[i].flow = f => eve[i].stamp > cursor /\ i > at

OwedRow(f) == IF Owed(f) THEN 1 ELSE 0

(* A flow has a row for each killed run and one more, now or later.        *)
CopiesOK == \A f \in Flows : Copies(f) + OwedRow(f) <= 1 + crashes

LEMMA CopiesStep ==
  ASSUME TypeInv, CopiesOK, [Next]_vars
  PROVE  CopiesOK'
<1>0. /\ Len(eve) \in Nat /\ upto \in Nat /\ at \in Nat /\ cursor \in Nat /\ crashes \in Nat
      /\ at <= upto
      /\ \A i \in 1 .. Len(eve) : eve[i].stamp \in Nat
      /\ corpus \in Seq(RowSet)
  BY SizeFacts
<1>. SUFFICES ASSUME NEW f \in Flows PROVE Copies(f)' + OwedRow(f)' <= 1 + crashes'
  BY DEF CopiesOK
<1>1. Copies(f) \in Nat /\ Copies(f) + OwedRow(f) <= 1 + crashes
  BY <1>0, CopiesType DEF CopiesOK
<1>2. OwedRow(f) \in {0, 1} /\ OwedRow(f)' \in {0, 1}  BY DEF OwedRow
<1>3. ASSUME corpus' = corpus, crashes' = crashes, Owed(f)' => Owed(f)
      PROVE  Copies(f)' + OwedRow(f)' <= 1 + crashes'
  <2>1. Copies(f)' = Copies(f)  BY <1>3, CopiesStay
  <2>2. OwedRow(f)' <= OwedRow(f)  BY <1>3 DEF OwedRow
  <2>. QED  BY <1>0, <1>1, <1>2, <1>3, <2>1, <2>2
<1>4. ASSUME NEW kind \in Kinds, NEW g \in Flows, NEW s \in 1 .. Top + 1, Log(kind, g, s)
      PROVE  Copies(f)' + OwedRow(f)' <= 1 + crashes'
  <2>1. /\ Len(eve') = Len(eve) + 1 /\ \A i \in 1 .. Len(eve) : eve'[i] = eve[i]
    BY <1>4, LogFacts
  <2>2. UNCHANGED <<corpus, crashes, cursor, at>>  BY <1>4 DEF Log, fileVars, runVars
  <2>3. 1 .. Len(eve) \subseteq 1 .. Len(eve')  BY <1>0, <2>1
  <2>4. Owed(f)' => Owed(f)  BY <2>1, <2>2, <2>3 DEF Owed, IsFlow
  <2>. QED  BY <1>3, <2>2, <2>4
<1>5. ASSUME NEW k \in 1 .. upto, WriteRow(k)
      PROVE  Copies(f)' + OwedRow(f)' <= 1 + crashes'
  <2>1. /\ UNCHANGED <<eve, cursor, crashes>> /\ at' = k /\ k > at
        /\ k \in FlowsNew(upto) /\ k \in 1 .. Len(eve)
        /\ \/ corpus' = corpus
           \/ \E row \in RowSet : row.flow = eve[k].flow /\ corpus' = Append(corpus, row)
    BY <1>5, WriteRowFacts
  <2>2. Owed(f)' => Owed(f)  BY <1>0, <2>1 DEF Owed, IsFlow
  <2>3. CASE corpus' = corpus  BY <1>3, <2>1, <2>2, <2>3
  <2>4. ASSUME NEW row \in RowSet, row.flow = eve[k].flow, corpus' = Append(corpus, row)
        PROVE  Copies(f)' + OwedRow(f)' <= 1 + crashes'
    <3>1. Copies(f)' = Copies(f) + (IF row.flow = f THEN 1 ELSE 0)
      BY <1>0, <2>4, CopiesAppend
    <3>2. CASE row.flow # f
      <4>1. Copies(f)' = Copies(f)  BY <1>1, <3>1, <3>2
      <4>2. OwedRow(f)' <= OwedRow(f)  BY <2>2 DEF OwedRow
      <4>. QED  BY <1>0, <1>1, <1>2, <2>1, <4>1, <4>2
    <3>3. CASE row.flow = f
      <4>1. IsFlow(k) /\ eve[k].flow = f  BY <2>1, <2>4, <3>3 DEF FlowsNew
      <4>2. ~Owed(f)'  BY <2>1, <4>1 DEF Owed, IsFlow
      <4>3. Owed(f)
        <5>1. EveTyped  BY TypeParts
        <5>2. \A i \in 1 .. Len(eve) : IsFlow(i) /\ eve[i].flow = f => i = k
          BY <1>0, <2>1, <4>1, <5>1 DEF EveTyped, LogOK
        <5>3. eve[k].stamp > cursor  BY <2>1 DEF FlowsNew, Fresh
        <5>. QED  BY <2>1, <5>2, <5>3 DEF Owed
      <4>4. OwedRow(f) = 1 /\ OwedRow(f)' = 0  BY <4>2, <4>3 DEF OwedRow
      <4>. QED  BY <1>0, <1>1, <2>1, <3>1, <3>3, <4>4
    <3>. QED  BY <3>2, <3>3
  <2>. QED  BY <2>1, <2>3, <2>4
<1>6. CASE DumpState
  <2>1. /\ UNCHANGED <<eve, corpus, crashes>> /\ cursor' \in Nat /\ cursor <= cursor'
        /\ \A i \in 1 .. upto : eve[i].stamp <= cursor'
    BY <1>6, DumpFacts
  <2>2. Owed(f)' => Owed(f)
    <3>. SUFFICES ASSUME Owed(f)', NEW i \in 1 .. Len(eve), IsFlow(i), eve[i].flow = f
                  PROVE  eve[i].stamp > cursor /\ i > at
      BY DEF Owed
    <3>1. eve[i].stamp > cursor'  BY <2>1 DEF Owed, IsFlow
    <3>2. ~(i <= upto)  BY <1>0, <2>1, <3>1
    <3>. QED  BY <1>0, <2>1, <3>1, <3>2
  <2>. QED  BY <1>3, <2>1, <2>2
<1>7. CASE UNCHANGED <<eve, cursor, corpus, crashes, at>>
  <2>1. Owed(f)' => Owed(f)  BY <1>7 DEF Owed, IsFlow
  <2>. QED  BY <1>3, <1>7, <2>1
<1>8. CASE ReadEve  BY <1>7, <1>8 DEF ReadEve, eveVars, fileVars, historyVars
<1>9. CASE Along  BY <1>7, <1>9 DEF Along
<1>10. CASE Over
  <2>1. CASE crashes' = crashes + 1
    <3>1. Copies(f)' = Copies(f)  BY <1>10, CopiesStay DEF Over
    <3>. QED  BY <1>0, <1>1, <1>2, <2>1, <3>1
  <2>2. CASE at = 0 /\ crashes' = crashes  BY <1>7, <1>10, <2>2 DEF Over
  <2>. QED  BY <1>10, <2>1, <2>2 DEF Over
<1>. QED  BY <1>4, <1>5, <1>6, <1>8, <1>9, <1>10, StepKinds

-----------------------------------------------------------------------------
(* What the labels rest on.                                                *)

Justified(row) ==
  /\ row.label = 0 =>
       /\ row.flow \notin Controlled /\ row.score < ScoreAtaque
       /\ \A i \in 1 .. Len(eve) :
            eve[i].kind = "attack" /\ eve[i].flow = row.flow
              => i \in passed \/ AlertAfter(i, row.flow, "noise")
  /\ row.label = 1 =>
       \/ row.flow \in Controlled \/ row.score >= 20
       \/ AlertAfter(0, row.flow, "attack")

(* No alert of the flow will come that could speak against its label.      *)
Ended(f) == \E i \in 1 .. Len(eve) : IsFlow(i) /\ eve[i].flow = f

RowsOK == \A k \in 1 .. Len(corpus) : Ended(corpus[k].flow) /\ Justified(corpus[k])

LEMMA RowIsJustified ==
  ASSUME TypeInv, CursorOK, NEW i \in FlowsNew(upto)
  PROVE  Ended(eve[i].flow) /\ Justified(Row(eve[i].flow))
<1>. DEFINE f == eve[i].flow
           c == Category(f)
           a == Alerted(f)
           sc == Score(f)
<1>0. /\ Len(eve) \in Nat /\ upto \in Nat /\ upto <= Len(eve) /\ cursor \in Nat
      /\ \A n \in 1 .. Len(eve) : eve[n].stamp \in Nat
  BY SizeFacts
<1>1. i \in 1 .. upto /\ i \in 1 .. Len(eve) /\ IsFlow(i)  BY RowType DEF TypeInv
<1>2. Ended(f)  BY <1>1 DEF Ended
<1>3. \A n \in 1 .. Len(eve) : ~IsFlow(n) /\ eve[n].flow = f => n < i
  <2>1. EveTyped  BY TypeParts
  <2>. QED  BY <1>0, <1>1, <2>1 DEF EveTyped, LogOK
<1>4. sc \in Int
  <2>1. cache \in [Ips -> Scores \cup {Unknown}]  BY TypeParts DEF RunTyped
  <2>2. Score(f) \in Scores \cup {Unknown}  BY <2>1 DEF Score
  <2>3. \A n \in Scores : n \in 0 .. 100  BY LabellerConstants
  <2>4. \A n \in Scores \cup {Unknown} : n \in Int  BY <2>3 DEF Unknown
  <2>. QED  BY <2>2, <2>4
<1>5. Row(f) = [flow |-> f, score |-> sc,
                label |-> IF f \in Controlled THEN 1 ELSE GetLabel(c, a, sc)]
  BY DEF Row
<1>. HIDE DEF c, a, sc
<1>6. CASE GetLabel(c, a, sc) = 0 /\ f \notin Controlled
  <2>1. /\ c # "attack" /\ sc < ScoreAtaque /\ (c = "noise" \/ ~a)
    BY <1>4, <1>6 DEF GetLabel, ScoreAtaque, ScoreBenigno
  <2>2. ASSUME NEW n \in 1 .. Len(eve), eve[n].kind = "attack", eve[n].flow = f
        PROVE  n \in passed \/ AlertAfter(n, f, "noise")
    <3>1. ~IsFlow(n) /\ n < i  BY <1>3, <2>2 DEF IsFlow
    <3>2. c = "noise"  BY <2>1, <2>2, <3>1 DEF a, Alerted
    <3>3. PICK j \in Fresh(upto) :
            /\ eve[j].flow = f /\ eve[j].kind = "noise"
            /\ \A m \in Fresh(upto) : ~IsFlow(m) /\ eve[m].flow = f => m <= j
      BY <1>0, <3>2, CategoryFacts DEF c, NoCategory
    <3>4. j \in 1 .. upto /\ j \in 1 .. Len(eve) /\ eve[j].stamp > cursor
      BY <1>0, <3>3 DEF Fresh
    <3>5. CASE eve[n].stamp > cursor
      <4>1. n \in Fresh(upto)  BY <1>0, <1>1, <3>1, <3>5 DEF Fresh
      <4>2. n <= j /\ n # j  BY <2>2, <3>1, <3>3, <4>1
      <4>3. j \in n + 1 .. Len(eve)  BY <1>0, <3>4, <4>2
      <4>. QED  BY <3>3, <4>3 DEF AlertAfter
    <3>6. CASE ~(eve[n].stamp > cursor) /\ n \notin passed
      <4>1. n < j  BY <1>0, <3>4, <3>6 DEF CursorOK
      <4>2. j \in n + 1 .. Len(eve)  BY <1>0, <3>4, <4>1
      <4>. QED  BY <3>3, <4>2 DEF AlertAfter
    <3>. QED  BY <3>5, <3>6
  <2>. QED  BY <1>2, <1>5, <1>6, <2>1, <2>2 DEF Justified
<1>7. CASE GetLabel(c, a, sc) = 1 /\ f \notin Controlled
  <2>1. c = "attack" \/ sc >= 20
    BY <1>4, <1>7 DEF GetLabel, ScoreAtaque, ScoreBenigno
  <2>2. ASSUME c = "attack" PROVE AlertAfter(0, f, "attack")
    <3>1. PICK j \in Fresh(upto) : eve[j].flow = f /\ eve[j].kind = "attack"
      BY <1>0, <2>2, CategoryFacts DEF c, NoCategory
    <3>2. j \in 0 + 1 .. Len(eve)  BY <1>0, <3>1 DEF Fresh
    <3>. QED  BY <3>1, <3>2 DEF AlertAfter
  <2>. QED  BY <1>2, <1>5, <1>7, <2>1, <2>2 DEF Justified
<1>8. CASE f \in Controlled  BY <1>2, <1>5, <1>8 DEF Justified
<1>9. CASE GetLabel(c, a, sc) = -1 /\ f \notin Controlled
  BY <1>2, <1>5, <1>9 DEF Justified
<1>10. GetLabel(c, a, sc) \in {0, 1, -1}  BY DEF GetLabel
<1>. QED  BY <1>6, <1>7, <1>8, <1>9, <1>10

LEMMA RowStays ==
  ASSUME TypeInv, NEW row \in RowSet, Ended(row.flow), Justified(row),
         passed \subseteq passed',
         \/ eve' = eve
         \/ \E kind \in Kinds, f \in Flows, s \in 1 .. Top + 1 : Log(kind, f, s)
  PROVE  Ended(row.flow)' /\ Justified(row)'
<1>1. Len(eve) \in Nat  BY SizeFacts
<1>. DEFINE Grown ==
       /\ Len(eve') \in Nat /\ Len(eve) <= Len(eve')
       /\ \A i \in 1 .. Len(eve) : eve'[i] = eve[i]
       /\ \A i \in 1 .. Len(eve') : i \in 1 .. Len(eve) \/ eve'[i].flow # row.flow
<1>2. Grown
  <2>1. CASE eve' = eve  BY <1>1, <2>1
  <2>2. ASSUME NEW kind \in Kinds, NEW f \in Flows, NEW s \in 1 .. Top + 1, Log(kind, f, s)
        PROVE  Grown
    <3>1. /\ Len(eve') = Len(eve) + 1 /\ \A i \in 1 .. Len(eve) : eve'[i] = eve[i]
          /\ eve'[Len(eve) + 1].flow = f
      BY <2>2, LogFacts
    <3>2. row.flow # f  BY <2>2 DEF Log, Ended
    <3>. QED  BY <1>1, <3>1, <3>2
  <2>. QED  BY <2>1, <2>2
<1>3. Ended(row.flow)'  BY <1>1, <1>2 DEF Ended, IsFlow
<1>4. ASSUME NEW i \in Nat, NEW kind, AlertAfter(i, row.flow, kind)
      PROVE  AlertAfter(i, row.flow, kind)'
  <2>1. PICK j \in i + 1 .. Len(eve) : eve[j].kind = kind /\ eve[j].flow = row.flow
    BY <1>4 DEF AlertAfter
  <2>2. j \in 1 .. Len(eve) /\ j \in i + 1 .. Len(eve')  BY <1>1, <1>2, <2>1
  <2>. QED  BY <1>2, <2>1, <2>2 DEF AlertAfter
<1>5. ASSUME row.label = 0, NEW i \in 1 .. Len(eve'), eve'[i].kind = "attack",
             eve'[i].flow = row.flow
      PROVE  i \in passed' \/ AlertAfter(i, row.flow, "noise")'
  <2>1. i \in 1 .. Len(eve) /\ eve'[i] = eve[i]  BY <1>2, <1>5
  <2>2. i \in passed \/ AlertAfter(i, row.flow, "noise")  BY <1>5, <2>1 DEF Justified
  <2>. QED  BY <1>4, <2>1, <2>2
<1>6. AlertAfter(0, row.flow, "attack") => AlertAfter(0, row.flow, "attack")'
  BY <1>4
<1>. QED  BY <1>3, <1>5, <1>6 DEF Justified

LEMMA RowsStep ==
  ASSUME TypeInv, CursorOK, RowsOK, [Next]_vars
  PROVE  RowsOK'
<1>0. corpus \in Seq(RowSet)  BY SizeFacts
<1>1. \A k \in 1 .. Len(corpus) : corpus[k] \in RowSet  BY <1>0
<1>2. ASSUME passed \subseteq passed',
             \/ eve' = eve
             \/ \E kind \in Kinds, f \in Flows, s \in 1 .. Top + 1 : Log(kind, f, s)
      PROVE  \A row \in RowSet :
               Ended(row.flow) /\ Justified(row) => Ended(row.flow)' /\ Justified(row)'
  BY <1>2, RowStays
<1>3. ASSUME passed \subseteq passed', corpus' = corpus,
             \/ eve' = eve
             \/ \E kind \in Kinds, f \in Flows, s \in 1 .. Top + 1 : Log(kind, f, s)
      PROVE  RowsOK'
  <2>. SUFFICES ASSUME NEW k \in 1 .. Len(corpus), NEW row \in RowSet, row = corpus[k]
                PROVE  Ended(row.flow)' /\ Justified(row)'
    BY <1>1, <1>3 DEF RowsOK
  <2>1. Ended(row.flow) /\ Justified(row)  BY DEF RowsOK
  <2>. QED  BY <1>2, <1>3, <2>1
<1>4. ASSUME NEW kind \in Kinds, NEW f \in Flows, NEW s \in 1 .. Top + 1, Log(kind, f, s)
      PROVE  RowsOK'
  <2>1. passed \subseteq passed' /\ corpus' = corpus  BY <1>4 DEF Log, fileVars
  <2>. QED  BY <1>3, <1>4, <2>1
<1>5. ASSUME NEW i \in 1 .. upto, WriteRow(i) PROVE RowsOK'
  <2>1. /\ UNCHANGED <<eve, passed>> /\ i \in FlowsNew(upto)
        /\ \/ corpus' = corpus
           \/ /\ Row(eve[i].flow) \in RowSet /\ Row(eve[i].flow).flow = eve[i].flow
              /\ corpus' = Append(corpus, Row(eve[i].flow))
    BY <1>5, WriteRowFacts
  <2>2. CASE corpus' = corpus  BY <1>3, <2>1, <2>2
  <2>3. CASE corpus' # corpus
    <3>1. PICK new \in RowSet :
            corpus' = Append(corpus, new) /\ Ended(new.flow) /\ Justified(new)
      BY <2>1, <2>3, RowIsJustified
    <3>. SUFFICES ASSUME NEW k \in 1 .. Len(corpus'), NEW row \in RowSet, row = corpus'[k]
                  PROVE  Ended(row.flow)' /\ Justified(row)'
      <4>1. \A k \in 1 .. Len(corpus') : corpus'[k] \in RowSet  BY <1>0, <3>1
      <4>. QED  BY <4>1 DEF RowsOK
    <3>2. CASE k \in 1 .. Len(corpus)
      <4>1. row = corpus[k]  BY <1>0, <3>1, <3>2
      <4>. QED  BY <1>2, <2>1, <3>2, <4>1 DEF RowsOK
    <3>3. CASE k = Len(corpus) + 1
      <4>1. row = new  BY <1>0, <3>1, <3>3
      <4>. QED  BY <1>2, <2>1, <3>1, <4>1
    <3>. QED  BY <1>0, <3>1, <3>2, <3>3
  <2>. QED  BY <2>2, <2>3
<1>6. CASE DumpState
  <2>1. UNCHANGED <<eve, corpus>> /\ passed \subseteq passed'  BY <1>6, DumpFacts
  <2>. QED  BY <1>3, <2>1
<1>7. CASE UNCHANGED <<eve, corpus, passed>>  BY <1>3, <1>7
<1>8. CASE ReadEve  BY <1>7, <1>8 DEF ReadEve, eveVars, fileVars, historyVars
<1>. QED  BY <1>4, <1>5, <1>6, <1>7, <1>8, StepKinds DEF Along, Over

-----------------------------------------------------------------------------

IInv == TypeInv /\ WrittenOK /\ CursorOK /\ CoveredOK /\ CopiesOK /\ RowsOK

LEMMA Inductive == Spec => []IInv
<1>1. Init => IInv
  <2>. SUFFICES ASSUME Init PROVE IInv  OBVIOUS
  <2>1. TypeInv  BY TypeInit
  <2>2. Len(eve) = 0 /\ Len(corpus) = 0 /\ upto = 0 /\ crashes = 0  BY DEF Init
  <2>3. WrittenOK  BY <2>2 DEF WrittenOK, FlowsNew, Fresh
  <2>4. CursorOK /\ CoveredOK /\ RowsOK  BY <2>2 DEF CursorOK, CoveredOK, RowsOK
  <2>5. CopiesOK
    <3>. SUFFICES ASSUME NEW f \in Flows PROVE Copies(f) + OwedRow(f) <= 1
      BY <2>2 DEF CopiesOK
    <3>1. {k \in 1 .. Len(corpus) : corpus[k].flow = f} = {}  BY <2>2
    <3>2. Copies(f) = 0  BY <3>1, FS_EmptySet DEF Copies
    <3>. QED  BY <3>2 DEF OwedRow
  <2>. QED  BY <2>1, <2>3, <2>4, <2>5 DEF IInv
<1>2. IInv /\ [Next]_vars => IInv'
  <2>. SUFFICES ASSUME IInv, [Next]_vars PROVE IInv'  OBVIOUS
  <2>1. TypeInv'
    <3>1. EveTyped' /\ FilesTyped' /\ RunTyped'  BY EveStep, FilesStep, RunStep DEF IInv
    <3>. QED
      BY <3>1 DEF TypeInv, TypeOK, EveTyped, FilesTyped, RunTyped, Phases, Records, Kinds,
                  RowSet, Labels
  <2>2. WrittenOK' /\ CursorOK' /\ CoveredOK'
    BY WrittenStep, CursorStep, CoveredStep DEF IInv
  <2>3. CopiesOK' /\ RowsOK'  BY CopiesStep, RowsStep DEF IInv
  <2>. QED  BY <2>1, <2>2, <2>3 DEF IInv
<1>. QED  BY <1>1, <1>2, PTL DEF Spec

(* Type correctness of the log, the labeller's files and the run.          *)
THEOREM LabellerTypeCorrect == Spec => []TypeOK
<1>1. IInv => TypeOK  BY DEF IInv, TypeInv
<1>. QED  BY <1>1, Inductive, PTL

(* A flow the cursor covers is in the corpus, unless the cursor passed it  *)
(* over or its row went behind a torn one, and no flow is there more often *)
(* than once and once again per killed run: for any number of runs, late   *)
(* and half-written records, and kills anywhere in a run.                  *)
THEOREM FlowsAreLabelledOnce == Spec => []LabelledOnce
<1>1. IInv => LabelledOnce
  <2>. SUFFICES ASSUME IInv PROVE LabelledOnce  OBVIOUS
  <2>1. \A i \in 1 .. Len(eve) \ passed :
          IsFlow(i) /\ eve[i].stamp <= cursor => Copies(eve[i].flow) > 0 \/ eve[i].flow \in glued
    BY DEF IInv, CoveredOK, Recorded
  <2>2. ASSUME NEW f \in Flows PROVE Copies(f) <= 1 + crashes
    <3>1. Copies(f) \in Nat /\ crashes \in Nat  BY SizeFacts, CopiesType DEF IInv
    <3>2. OwedRow(f) \in {0, 1} /\ Copies(f) + OwedRow(f) <= 1 + crashes
      BY DEF IInv, CopiesOK, OwedRow
    <3>. QED  BY <3>1, <3>2
  <2>. QED  BY <2>1, <2>2 DEF LabelledOnce
<1>. QED  BY <1>1, Inductive, PTL

(* No flow that raised an attack alert is taught as benign, but for a      *)
(* later noise alert of it or an alert passed over, and none as an attack  *)
(* without cause: whatever was read by which run, and for any scores,      *)
(* quota and killed runs.                                                  *)
THEOREM LabelsAreJustified == Spec => []LabelsJustified
<1>1. IInv => LabelsJustified  BY DEF IInv, RowsOK, Justified, LabelsJustified
<1>. QED  BY <1>1, Inductive, PTL
=============================================================================
