-------------------------- MODULE CaseBoard_proofs --------------------------
(***************************************************************************)
(* Proofs about CaseBoard, for any analysts, cases, clicks, answers under  *)
(* way and failures.                                                       *)
(***************************************************************************)
EXTENDS CaseBoard, SequenceTheorems, FiniteSetTheorems, TLAPS

USE CaseBoardConstants

Phases == {"sent", "read", "written", "failed"}

ClickRecords == [analyst : Analysts, case : Nat, state : States, phase : Phases,
                 raw : Seq(Entries), seen : Seq(Entries)]

Shape ==
  /\ cases \in Seq(Seq(Entries)) /\ Len(cases) <= MaxCases
  /\ clicks \in Seq(ClickRecords) /\ Len(clicks) <= MaxClicks
  /\ answers = [r \in Answers |-> answers[r]]
  /\ view = [a \in Analysts |-> view[a]] /\ pressed = [a \in Analysts |-> pressed[a]]
  /\ faults \in 0 .. MaxFaults

Clicks == 1 .. Len(clicks)

(* s tells the beginning of the history h.                                 *)
Begins(s, h) == Len(s) \in 1 .. Len(h) /\ \A i \in 1 .. Len(s) : s[i] = h[i]

(* Every list under way or on a board tells beginnings of histories.       *)
ListTrue(l) == \A c \in DOMAIN l : c \in Cases /\ l[c] \in Seq(Entries) /\ Begins(l[c], cases[c])

ListsOK ==
  /\ \A r \in Answers : answers[r].analyst \in Analysts \cup {NoAnalyst} /\ ListTrue(answers[r].list)
  /\ \A a \in Analysts : ListTrue(view[a]) /\ pressed[a] \subseteq Cases \X States

(* A button was pressed on such a beginning, of an open case.              *)
ClicksOK ==
  \A q \in Clicks :
    /\ clicks[q].case \in Cases
    /\ Begins(clicks[q].seen, cases[clicks[q].case])
    /\ Last(clicks[q].seen) \in OpenStates

(* One handler at a time, and it holds the case as it is.                  *)
HandlerOK ==
  \A q \in Clicks : clicks[q].phase = "read" =>
    /\ clicks[q].raw = cases[clicks[q].case]
    /\ \A p \in Clicks : clicks[p].phase = "read" => p = q

(* What is not yet written is in no history.                               *)
PendingOK ==
  \A q \in Clicks : clicks[q].phase \in {"sent", "read"} =>
    \A c \in Cases : \A k \in 1 .. Len(cases[c]) : cases[c][k].click # q

(* Every entry but the first comes from a click that saw the history so    *)
(* far, or some beginning of it.                                           *)
DecidedBy(q, h, k) ==
  /\ q \in Clicks
  /\ Len(clicks[q].seen) < k
  /\ Begins(clicks[q].seen, h)
  /\ Last(clicks[q].seen) \in OpenStates

EntriesOK ==
  \A c \in Cases :
    /\ Len(cases[c]) >= 1 /\ cases[c][1].click = 0
    /\ \A k \in 2 .. Len(cases[c]) : DecidedBy(cases[c][k].click, cases[c], k)

IInv ==
  /\ Shape /\ ListsOK /\ ClicksOK /\ HandlerOK /\ PendingOK /\ EntriesOK
  /\ NoChangeLost

-----------------------------------------------------------------------------
(* What a step does to the cases and the clicks.                           *)

First == [state |-> "abierto", click |-> 0]
Opened == Len(cases) < MaxCases /\ cases' = Append(cases, <<First>>) /\ clicks' = clicks

(* The clicks stay where they are, or fail.                                *)
Stayed ==
  /\ cases' = cases
  /\ clicks' \in Seq(ClickRecords) /\ Len(clicks') = Len(clicks)
  /\ \A q \in Clicks :
       /\ clicks'[q].case = clicks[q].case /\ clicks'[q].seen = clicks[q].seen
       /\ \/ clicks'[q].phase = clicks[q].phase /\ clicks'[q].raw = clicks[q].raw
          \/ clicks'[q].phase = "failed"

(* Click q moves to phase p with the history r in its handler.             *)
Moved(q, p, r) ==
  /\ clicks' \in Seq(ClickRecords) /\ Len(clicks') = Len(clicks)
  /\ \A i \in Clicks :
       /\ clicks'[i].case = clicks[i].case /\ clicks'[i].seen = clicks[i].seen
       /\ clicks'[i].phase = (IF i = q THEN p ELSE clicks[i].phase)
       /\ clicks'[i].raw = (IF i = q THEN r ELSE clicks[i].raw)

(* A handler starts.                                                       *)
Started(q) ==
  /\ Receive(q) /\ cases' = cases
  /\ Moved(q, "read", cases[clicks[q].case])

(* A history gets an entry.                                                *)
Entry(q) == [state |-> clicks[q].state, click |-> q]
Written(q) ==
  /\ clicks[q].phase = "read"
  /\ cases' = [cases EXCEPT ![clicks[q].case] = Append(cases[clicks[q].case], Entry(q))]
  /\ \E p \in {"written", "failed"} : Moved(q, p, <<>>)

(* A button is pressed for a case as board a shows it.                     *)
Pressed(a, c) ==
  /\ cases' = cases
  /\ c \in DOMAIN view[a]
  /\ Last(view[a][c]) \in OpenStates
  /\ Len(clicks) < MaxClicks
  /\ \E n \in ClickRecords :
       /\ n.case = c /\ n.phase = "sent" /\ n.seen = view[a][c]
       /\ clicks' = Append(clicks, n)

LEMMA OneClick ==
  ASSUME Shape, NEW q \in Clicks, NEW p \in Phases, NEW r \in Seq(Entries),
         clicks' = [clicks EXCEPT ![q].phase = p, ![q].raw = r]
  PROVE  Moved(q, p, r)
<1>. DEFINE n == [clicks[q] EXCEPT !.phase = p, !.raw = r]
<1>1. clicks[q] \in ClickRecords  BY ElementOfSeq DEF Shape, Clicks
<1>2. n \in ClickRecords /\ n.case = clicks[q].case /\ n.seen = clicks[q].seen
      /\ n.phase = p /\ n.raw = r
  BY <1>1 DEF ClickRecords
<1>3. clicks' = [clicks EXCEPT ![q] = n]
  BY <1>1 DEF ClickRecords
<1>. HIDE DEF n
<1>4. /\ clicks' \in Seq(ClickRecords) /\ Len(clicks') = Len(clicks)
      /\ \A i \in Clicks : clicks'[i] = IF i = q THEN n ELSE clicks[i]
  <2>1. clicks \in Seq(ClickRecords) /\ q \in 1 .. Len(clicks)  BY DEF Shape, Clicks
  <2>2. /\ [clicks EXCEPT ![q] = n] \in Seq(ClickRecords)
        /\ Len([clicks EXCEPT ![q] = n]) = Len(clicks)
        /\ \A i \in 1 .. Len(clicks) :
             [clicks EXCEPT ![q] = n][i] = IF i = q THEN n ELSE clicks[i]
    BY <1>2, <2>1, ExceptSeq
  <2>. QED  BY <1>3, <2>2, Zenon DEF Clicks
<1>5. ASSUME NEW i \in Clicks
      PROVE  /\ clicks'[i].case = clicks[i].case /\ clicks'[i].seen = clicks[i].seen
             /\ clicks'[i].phase = (IF i = q THEN p ELSE clicks[i].phase)
             /\ clicks'[i].raw = (IF i = q THEN r ELSE clicks[i].raw)
  <2>1. CASE i = q
    <3>1. clicks'[i] = n  BY <1>4, <2>1
    <3>. QED  BY <1>2, <2>1, <3>1
  <2>2. CASE i # q
    <3>1. clicks'[i] = clicks[i]  BY <1>4, <2>2
    <3>. QED  BY <2>2, <3>1
  <2>. QED  BY <2>1, <2>2
<1>. QED  BY <1>4, <1>5 DEF Moved

LEMMA EmptyHistory == <<>> \in Seq(Entries)
BY EmptySeq

LEMMA CaseType ==
  ASSUME Shape, NEW c \in Cases
  PROVE  /\ cases[c] \in Seq(Entries) /\ Len(cases[c]) \in Nat
         /\ \A k \in 1 .. Len(cases[c]) : cases[c][k] \in Entries
<1>1. cases \in Seq(Seq(Entries)) /\ c \in 1 .. Len(cases)  BY DEF Shape, Cases
<1>2. cases[c] \in Seq(Entries)  BY <1>1, ElementOfSeq
<1>3. Len(cases[c]) \in Nat  BY <1>2, LenProperties
<1>4. \A k \in 1 .. Len(cases[c]) : cases[c][k] \in Entries  BY <1>2, ElementOfSeq
<1>. QED  BY <1>2, <1>3, <1>4

LEMMA ClickType ==
  ASSUME Shape, NEW q \in Clicks
  PROVE  /\ clicks[q] \in ClickRecords /\ Clicks \subseteq Nat
         /\ clicks[q].phase \in Phases
         /\ clicks[q].case \in Nat /\ clicks[q].state \in States
         /\ clicks[q].seen \in Seq(Entries) /\ Len(clicks[q].seen) \in Nat
<1>1. clicks \in Seq(ClickRecords) /\ q \in 1 .. Len(clicks)  BY DEF Shape, Clicks
<1>2. clicks[q] \in ClickRecords  BY <1>1, ElementOfSeq
<1>3. /\ clicks[q].phase \in Phases /\ clicks[q].case \in Nat /\ clicks[q].state \in States
      /\ clicks[q].seen \in Seq(Entries)
  BY <1>2 DEF ClickRecords
<1>4. Len(clicks[q].seen) \in Nat  BY <1>3, LenProperties
<1>5. Clicks \subseteq Nat  BY <1>1, LenProperties DEF Clicks
<1>. QED  BY <1>2, <1>3, <1>4, <1>5

LEMMA NothingMoved ==
  ASSUME Shape, UNCHANGED <<cases, clicks>>
  PROVE  Stayed
BY DEF Shape, Stayed, Clicks

LEMMA FailedOne ==
  ASSUME Shape, NEW q \in Clicks, cases' = cases,
         clicks' = [clicks EXCEPT ![q].phase = "failed", ![q].raw = <<>>]
  PROVE  Stayed
<1>1. Moved(q, "failed", <<>>)  BY OneClick, EmptyHistory DEF Phases
<1>. QED  BY <1>1 DEF Moved, Stayed

LEMMA WriteEffect ==
  ASSUME Shape, HandlerOK, NEW q \in Clicks, clicks[q].phase = "read", cases' = Changed(q),
         NEW p \in {"written", "failed"},
         clicks' = [clicks EXCEPT ![q].phase = p, ![q].raw = <<>>]
  PROVE  Written(q)
<1>1. Moved(q, p, <<>>)  BY OneClick, EmptyHistory DEF Phases
<1>2. clicks[q].raw = cases[clicks[q].case]  BY DEF HandlerOK
<1>. QED  BY <1>1, <1>2 DEF Written, Changed, Entry

LEMMA FailedAll == Shape /\ Restart => Stayed
<1>. SUFFICES ASSUME Shape, Restart PROVE Stayed  OBVIOUS
<1>. DEFINE f(q) == IF clicks[q].phase \in {"sent", "read"}
                    THEN [clicks[q] EXCEPT !.phase = "failed", !.raw = <<>>] ELSE clicks[q]
<1>1. ASSUME NEW q \in Clicks
      PROVE  /\ f(q) \in ClickRecords
             /\ f(q).case = clicks[q].case /\ f(q).seen = clicks[q].seen
             /\ \/ f(q).phase = clicks[q].phase /\ f(q).raw = clicks[q].raw
                \/ f(q).phase = "failed"
  <2>1. clicks[q] \in ClickRecords  BY <1>1, ClickType
  <2>. QED  BY <2>1, EmptyHistory DEF ClickRecords, Phases
<1>2. clicks' = [q \in Clicks |-> f(q)] /\ cases' = cases
  BY DEF Restart, Clicks
<1>. HIDE DEF f
<1>3. clicks' \in [Clicks -> ClickRecords]  BY <1>1, <1>2
<1>4. Len(clicks) \in Nat  BY LenProperties DEF Shape
<1>5. clicks' \in Seq(ClickRecords)  BY <1>3, <1>4, IsASeq DEF Clicks
<1>6. Len(clicks') = Len(clicks)  BY <1>3, <1>4, <1>5, LenProperties DEF Clicks
<1>. QED  BY <1>1, <1>2, <1>5, <1>6 DEF Stayed

LEMMA PressEffect ==
  ASSUME Shape, ListsOK, NEW a \in Analysts, NEW c \in Cases, Click(a, c)
  PROVE  Pressed(a, c)
<1>1. PICK s \in Buttons(Last(view[a][c])) :
        clicks' = Append(clicks, [analyst |-> a, case |-> c, state |-> s, phase |-> "sent",
                                  raw |-> <<>>, seen |-> view[a][c]])
  BY DEF Click
<1>. DEFINE n == [analyst |-> a, case |-> c, state |-> s, phase |-> "sent",
                  raw |-> <<>>, seen |-> view[a][c]]
<1>2. s \in States /\ Last(view[a][c]) \in OpenStates
  BY <1>1 DEF Buttons, OpenStates, States
<1>3. c \in DOMAIN view[a] /\ cases' = cases /\ Len(clicks) < MaxClicks  BY DEF Click
<1>4. view[a][c] \in Seq(Entries)  BY <1>3 DEF ListsOK, ListTrue
<1>5. c \in Nat  BY LenProperties DEF Cases, Shape
<1>6. n \in ClickRecords /\ n.case = c /\ n.phase = "sent" /\ n.seen = view[a][c]
  BY <1>2, <1>4, <1>5, EmptyHistory DEF ClickRecords, Phases
<1>7. clicks' = Append(clicks, n)  BY <1>1
<1>. HIDE DEF n
<1>. QED  BY <1>2, <1>3, <1>6, <1>7 DEF Pressed

LEMMA Effects ==
  ASSUME Shape, ListsOK, HandlerOK, ClicksOK, [Next]_vars
  PROVE  \/ Opened
         \/ Stayed
         \/ \E q \in Clicks : Started(q) \/ Written(q)
         \/ \E a \in Analysts, c \in Cases : Pressed(a, c)
<1>1. CASE OpenCase  BY <1>1 DEF OpenCase, Opened, First
<1>2. CASE Restart  BY <1>2, FailedAll
<1>3. ASSUME NEW r \in Answers, Show(r) \/ RefreshFails(r)
      PROVE  Stayed
  BY <1>3, NothingMoved DEF Show, RefreshFails
<1>4. ASSUME NEW r \in Answers, NEW a \in Analysts, ListCases(a, r) \/ ListCasesFails(a, r)
      PROVE  Stayed
  BY <1>4, NothingMoved DEF ListCases, ListCasesFails
<1>5. ASSUME NEW q \in Clicks, ReadCase(q)
      PROVE  Started(q)
  <2>1. clicks[q].case \in Cases  BY DEF ClicksOK
  <2>2. cases[clicks[q].case] \in Seq(Entries)  BY <2>1, CaseType
  <2>3. Moved(q, "read", cases[clicks[q].case])
    BY <1>5, <2>2, OneClick DEF ReadCase, Phases
  <2>. QED  BY <1>5, <2>3 DEF ReadCase, Started
<1>6. ASSUME NEW q \in Clicks, WriteCase(q)
      PROVE  Written(q)
  BY <1>6, WriteEffect DEF WriteCase
<1>7. ASSUME NEW q \in Clicks, UpdateFails(q)
      PROVE  Stayed \/ Written(q)
  <2>1. clicks' = [clicks EXCEPT ![q].phase = "failed", ![q].raw = <<>>]
    BY <1>7 DEF UpdateFails
  <2>2. CASE cases' = cases  BY <2>1, <2>2, FailedOne
  <2>3. CASE clicks[q].phase = "read" /\ cases' = Changed(q)
    BY <2>1, <2>3, WriteEffect
  <2>. QED  BY <1>7, <2>2, <2>3 DEF UpdateFails
<1>8. ASSUME NEW q \in Clicks, Alert(q)
      PROVE  Stayed
  BY <1>8, NothingMoved DEF Alert
<1>9. ASSUME NEW a \in Analysts, NEW c \in Cases, Click(a, c)
      PROVE  Pressed(a, c)
  BY <1>9, PressEffect
<1>10. CASE UNCHANGED vars  BY <1>10, NothingMoved DEF vars
<1>. QED
  BY <1>1, <1>2, <1>3, <1>4, <1>5, <1>6, <1>7, <1>8, <1>9, <1>10 DEF Next, Clicks

-----------------------------------------------------------------------------
(* Histories only grow.                                                    *)

Grows ==
  /\ cases' \in Seq(Seq(Entries)) /\ Len(cases) <= Len(cases')
  /\ \A c \in Cases :
       /\ Len(cases[c]) <= Len(cases'[c])
       /\ \A i \in 1 .. Len(cases[c]) : cases'[c][i] = cases[c][i]

LEMMA SameGrows ==
  ASSUME Shape, cases' = cases
  PROVE  Grows
<1>1. Len(cases) \in Nat  BY LenProperties DEF Shape
<1>2. \A c \in Cases : Len(cases[c]) \in Nat  BY CaseType
<1>. QED  BY <1>1, <1>2 DEF Shape, Grows

LEMMA OpenedCases ==
  ASSUME Shape, Opened
  PROVE  /\ Grows
         /\ Len(cases') = Len(cases) + 1 /\ Len(cases) \in Nat
         /\ \A c \in Cases : cases'[c] = cases[c]
         /\ cases'[Len(cases) + 1] = <<First>>
<1>1. <<First>> \in Seq(Entries)  BY DEF First, Entries, States
<1>2. cases \in Seq(Seq(Entries)) /\ Len(cases) \in Nat  BY LenProperties DEF Shape
<1>3. /\ cases' \in Seq(Seq(Entries)) /\ Len(cases') = Len(cases) + 1
      /\ \A c \in Cases : cases'[c] = cases[c]
      /\ cases'[Len(cases) + 1] = <<First>>
  BY <1>1, <1>2, AppendProperties DEF Opened, Cases
<1>4. \A c \in Cases : Len(cases[c]) \in Nat  BY CaseType
<1>. QED  BY <1>2, <1>3, <1>4 DEF Grows

LEMMA WrittenCases ==
  ASSUME Shape, ClicksOK, NEW q \in Clicks, Written(q)
  PROVE  LET d == clicks[q].case
             n == Len(cases[d]) + 1
         IN  /\ Grows
             /\ Len(cases') = Len(cases) /\ d \in Cases /\ Len(cases[d]) \in Nat
             /\ \A c \in Cases : c # d => cases'[c] = cases[c]
             /\ Len(cases'[d]) = n
             /\ \A i \in 1 .. Len(cases[d]) : cases'[d][i] = cases[d][i]
             /\ cases'[d][n] = Entry(q)
<1>. DEFINE d == clicks[q].case
            h == Append(cases[d], Entry(q))
<1>1. Entry(q) \in Entries
  <2>1. clicks[q].state \in States  BY ClickType
  <2>2. q \in 0 .. MaxClicks  BY LenProperties DEF Shape, Clicks
  <2>. QED  BY <2>1, <2>2 DEF Entry, Entries
<1>2. d \in Cases  BY DEF ClicksOK
<1>3. cases[d] \in Seq(Entries) /\ Len(cases[d]) \in Nat  BY <1>2, CaseType
<1>4. /\ h \in Seq(Entries) /\ Len(h) = Len(cases[d]) + 1
      /\ \A i \in 1 .. Len(cases[d]) : h[i] = cases[d][i]
      /\ h[Len(cases[d]) + 1] = Entry(q)
  BY <1>1, <1>3, AppendProperties
<1>5. cases' = [cases EXCEPT ![d] = h]  BY DEF Written
<1>6. cases \in Seq(Seq(Entries)) /\ Len(cases) \in Nat  BY LenProperties DEF Shape
<1>. HIDE DEF h, d
<1>7. /\ cases' \in Seq(Seq(Entries)) /\ Len(cases') = Len(cases)
      /\ \A c \in Cases : cases'[c] = IF c = d THEN h ELSE cases[c]
  BY <1>2, <1>4, <1>5, <1>6, ExceptSeq DEF Cases
<1>8. \A c \in Cases : Len(cases[c]) \in Nat  BY CaseType
<1>9. Grows
  <2>1. ASSUME NEW c \in Cases
        PROVE  /\ Len(cases[c]) <= Len(cases'[c])
               /\ \A i \in 1 .. Len(cases[c]) : cases'[c][i] = cases[c][i]
    <3>1. CASE c = d
      <4>1. cases'[c] = h  BY <1>7, <3>1
      <4>. QED  BY <1>3, <1>4, <3>1, <4>1
    <3>2. CASE c # d
      <4>1. cases'[c] = cases[c]  BY <1>7, <3>2
      <4>. QED  BY <1>8, <4>1
    <3>. QED  BY <3>1, <3>2
  <2>. QED  BY <1>6, <1>7, <2>1 DEF Grows
<1>10. cases'[d] = h  BY <1>2, <1>7
<1>11. \A c \in Cases : c # d => cases'[c] = cases[c]  BY <1>7
<1>. QED  BY <1>2, <1>3, <1>4, <1>7, <1>9, <1>10, <1>11 DEF d

(* What began a history still does.                                        *)
LEMMA BeginsGrows ==
  ASSUME Shape, Grows, NEW s \in Seq(Entries), NEW c \in Cases, Begins(s, cases[c])
  PROVE  c \in Cases' /\ Begins(s, cases'[c])
<1>1. Len(cases) \in Nat /\ Len(cases') \in Nat  BY LenProperties DEF Shape, Grows
<1>2. c \in Cases'  BY <1>1 DEF Grows, Cases
<1>3. cases'[c] \in Seq(Entries)  BY <1>2, ElementOfSeq DEF Grows, Cases
<1>4. Len(cases[c]) \in Nat /\ Len(cases'[c]) \in Nat /\ Len(s) \in Nat
  BY <1>3, CaseType, LenProperties
<1>5. /\ Len(s) \in 1 .. Len(cases[c]) /\ Len(cases[c]) <= Len(cases'[c])
      /\ \A i \in 1 .. Len(s) : s[i] = cases[c][i]
      /\ \A i \in 1 .. Len(cases[c]) : cases'[c][i] = cases[c][i]
  BY DEF Begins, Grows
<1>6. \A i \in 1 .. Len(s) : i \in 1 .. Len(cases[c])  BY <1>4, <1>5
<1>7. \A i \in 1 .. Len(s) : s[i] = cases'[c][i]  BY <1>5, <1>6
<1>8. Len(s) \in 1 .. Len(cases'[c])  BY <1>4, <1>5
<1>. QED  BY <1>2, <1>7, <1>8 DEF Begins

LEMMA AllGrow ==
  ASSUME Shape, ListsOK, HandlerOK, ClicksOK, [Next]_vars
  PROVE  Grows
<1>1. Opened => Grows  BY OpenedCases
<1>2. Stayed => Grows  BY SameGrows DEF Stayed
<1>3. \A q \in Clicks : Started(q) => Grows  BY SameGrows DEF Started
<1>4. \A q \in Clicks : Written(q) => Grows  BY WrittenCases
<1>5. \A a \in Analysts, c \in Cases : Pressed(a, c) => Grows  BY SameGrows DEF Pressed
<1>. QED  BY <1>1, <1>2, <1>3, <1>4, <1>5, Effects

-----------------------------------------------------------------------------
(* Lists.                                                                  *)

LEMMA ListGrows ==
  ASSUME Shape, Grows, NEW l, ListTrue(l)
  PROVE  \A c \in DOMAIN l : c \in Cases' /\ l[c] \in Seq(Entries) /\ Begins(l[c], cases'[c])
BY BeginsGrows DEF ListTrue

LEMMA CasesGrow ==
  ASSUME Shape, Grows
  PROVE  Cases \subseteq Cases'
<1>1. Len(cases) \in Nat /\ Len(cases') \in Nat  BY LenProperties DEF Shape, Grows
<1>. QED  BY <1>1 DEF Grows, Cases

(* What list_cases answers is true when it does.                           *)
LEMMA ListedTrue ==
  ASSUME Shape, EntriesOK, NEW C \in SUBSET Cases, NEW o \in BOOLEAN
  PROVE  ListTrue(Listed(C, o))
<1>. DEFINE D == Newest(Waiting(C, o))
<1>1. D \subseteq Cases  BY DEF Newest, Waiting
<1>2. Listed(C, o) = [c \in D |-> cases[c]]  BY DEF Listed
<1>. HIDE DEF D
<1>3. ASSUME NEW c \in D
      PROVE  c \in Cases /\ cases[c] \in Seq(Entries) /\ Begins(cases[c], cases[c])
  <2>1. c \in Cases  BY <1>1
  <2>2. cases[c] \in Seq(Entries) /\ Len(cases[c]) \in Nat  BY <2>1, CaseType
  <2>3. Len(cases[c]) >= 1  BY <2>1 DEF EntriesOK
  <2>. QED  BY <2>1, <2>2, <2>3 DEF Begins
<1>. QED  BY <1>2, <1>3 DEF ListTrue

LEMMA ListsFrame ==
  ASSUME Shape, ListsOK, Grows,
         \A r \in Answers : answers'[r] = answers[r] \/ answers'[r] = Free,
         UNCHANGED view,
         \A a \in Analysts : pressed'[a] \subseteq pressed[a]
  PROVE  ListsOK'
<1>1. \A c \in DOMAIN NoList : FALSE  BY DEF NoList
<1>2. Free.list = NoList /\ Free.analyst = NoAnalyst  BY DEF Free
<1>3. ASSUME NEW r \in Answers
      PROVE  answers'[r].analyst \in Analysts \cup {NoAnalyst} /\ ListTrue(answers[r].list)'
  <2>1. CASE answers'[r] = answers[r]
    <3>1. ListTrue(answers[r].list)  BY DEF ListsOK
    <3>2. \A c \in DOMAIN answers[r].list :
            /\ c \in Cases' /\ answers[r].list[c] \in Seq(Entries)
            /\ Begins(answers[r].list[c], cases'[c])
      BY <3>1, ListGrows
    <3>. QED  BY <2>1, <3>2 DEF ListTrue, ListsOK
  <2>2. CASE answers'[r] = Free
    BY <1>1, <1>2, <2>2 DEF ListTrue
  <2>. QED  BY <2>1, <2>2
<1>4. ASSUME NEW a \in Analysts
      PROVE  ListTrue(view[a])' /\ pressed'[a] \subseteq Cases' \X States
  <2>1. ListTrue(view[a])  BY DEF ListsOK
  <2>2. \A c \in DOMAIN view[a] :
          c \in Cases' /\ view[a][c] \in Seq(Entries) /\ Begins(view[a][c], cases'[c])
    BY <2>1, ListGrows
  <2>3. pressed'[a] \subseteq Cases' \X States  BY CasesGrow DEF ListsOK
  <2>. QED  BY <2>2, <2>3 DEF ListTrue
<1>. QED  BY <1>3, <1>4 DEF ListsOK

LEMMA ListsStep ==
  ASSUME Shape, ListsOK, HandlerOK, ClicksOK, EntriesOK, [Next]_vars
  PROVE  ListsOK'
<1>1. Grows  BY AllGrow
<1>2. CASE OpenCase \/ Restart \/ UNCHANGED vars
  BY <1>1, <1>2, ListsFrame DEF OpenCase, Restart, boardVars, vars
<1>3. ASSUME NEW q \in Clicks, ReadCase(q) \/ WriteCase(q) \/ UpdateFails(q)
      PROVE  ListsOK'
  BY <1>1, <1>3, ListsFrame DEF ReadCase, WriteCase, UpdateFails, boardVars
<1>4. ASSUME NEW q \in Clicks, Alert(q)
      PROVE  ListsOK'
  <2>1. \A a \in Analysts : pressed'[a] \subseteq pressed[a]  BY <1>4 DEF Alert, Shape
  <2>. QED  BY <1>1, <1>4, <2>1, ListsFrame DEF Alert
<1>5. ASSUME NEW r \in Answers, RefreshFails(r)
      PROVE  ListsOK'
  <2>1. \A t \in Answers : answers'[t] = answers[t] \/ answers'[t] = Free
    BY <1>5 DEF RefreshFails, Shape
  <2>. QED  BY <1>1, <1>5, <2>1, ListsFrame DEF RefreshFails, boardVars
<1>6. ASSUME NEW r \in Answers, Show(r)
      PROVE  ListsOK'
  <2>. DEFINE b == answers[r].analyst
  <2>1. \A t \in Answers : answers'[t] = answers[t] \/ answers'[t] = Free
    BY <1>6 DEF Show, Shape
  <2>2. \A a \in Analysts : /\ view'[a] = (IF a = b THEN answers[r].list ELSE view[a])
                            /\ pressed'[a] = (IF a = b THEN {} ELSE pressed[a])
    BY <1>6 DEF Show, Shape
  <2>3. UNCHANGED cases  BY <1>6 DEF Show
  <2>4. \A c \in DOMAIN NoList : FALSE  BY DEF NoList
  <2>5. Free.list = NoList /\ Free.analyst = NoAnalyst  BY DEF Free
  <2>6. ASSUME NEW t \in Answers
        PROVE  answers'[t].analyst \in Analysts \cup {NoAnalyst} /\ ListTrue(answers[t].list)'
    BY <2>1, <2>3, <2>4, <2>5 DEF ListsOK, ListTrue, Cases
  <2>7. ASSUME NEW a \in Analysts
        PROVE  ListTrue(view[a])' /\ pressed'[a] \subseteq Cases' \X States
    BY <2>2, <2>3 DEF ListsOK, ListTrue, Cases
  <2>. QED  BY <2>6, <2>7 DEF ListsOK
<1>7. ASSUME NEW r \in Answers, NEW a \in Analysts, ListCases(a, r) \/ ListCasesFails(a, r)
      PROVE  ListsOK'
  <2>1. PICK C \in SUBSET Cases, o \in BOOLEAN :
          answers' = [answers EXCEPT ![r] = [analyst |-> a, list |-> Listed(C, o)]]
    BY <1>7 DEF ListCases, ListCasesFails
  <2>2. UNCHANGED <<cases, view, pressed>>  BY <1>7 DEF ListCases, ListCasesFails, boardVars
  <2>3. ListTrue(Listed(C, o))  BY ListedTrue
  <2>. DEFINE l == Listed(C, o)
  <2>. HIDE DEF l
  <2>4. \A t \in Answers : answers'[t] = IF t = r THEN [analyst |-> a, list |-> l] ELSE answers[t]
    BY <2>1 DEF Shape, l
  <2>5. \A c \in DOMAIN l : c \in Cases /\ l[c] \in Seq(Entries) /\ Begins(l[c], cases[c])
    BY <2>3 DEF l, ListTrue
  <2>6. ASSUME NEW t \in Answers
        PROVE  answers'[t].analyst \in Analysts \cup {NoAnalyst} /\ ListTrue(answers[t].list)'
    <3>1. CASE t = r
      <4>1. answers'[t].list = l /\ answers'[t].analyst = a  BY <2>4, <3>1
      <4>. QED  BY <2>2, <2>5, <4>1 DEF ListTrue, Cases
    <3>2. CASE t # r
      <4>1. answers'[t] = answers[t]  BY <2>4, <3>2
      <4>. QED  BY <2>2, <4>1 DEF ListsOK, ListTrue, Cases
    <3>. QED  BY <3>1, <3>2
  <2>7. ASSUME NEW b \in Analysts
        PROVE  ListTrue(view[b])' /\ pressed'[b] \subseteq Cases' \X States
    BY <2>2 DEF ListsOK, ListTrue, Cases
  <2>. QED  BY <2>6, <2>7 DEF ListsOK
<1>8. ASSUME NEW a \in Analysts, NEW c \in Cases, Click(a, c)
      PROVE  ListsOK'
  <2>1. UNCHANGED <<cases, answers, view>>  BY <1>8 DEF Click
  <2>2. PICK s \in Buttons(Last(view[a][c])) : pressed' = [pressed EXCEPT ![a] = @ \cup {<<c, s>>}]
    BY <1>8 DEF Click
  <2>3. s \in States  BY DEF Buttons, States, OpenStates
  <2>4. \A b \in Analysts : pressed'[b] \subseteq pressed[b] \cup {<<c, s>>}
    BY <2>2 DEF Shape
  <2>5. \A b \in Analysts : pressed'[b] \subseteq Cases' \X States
    BY <2>1, <2>3, <2>4 DEF ListsOK, Cases
  <2>. QED  BY <2>1, <2>5 DEF ListsOK, ListTrue, Cases
<1>. QED
  BY <1>2, <1>3, <1>4, <1>5, <1>6, <1>7, <1>8 DEF Next, Clicks

-----------------------------------------------------------------------------
(* Clicks and histories.                                                   *)

LEMMA PressedClicks ==
  ASSUME Shape, ListsOK, NEW a \in Analysts, NEW c \in Cases, Pressed(a, c)
  PROVE  LET n == Len(clicks) + 1
         IN  /\ clicks' \in Seq(ClickRecords) /\ Len(clicks') = n /\ Len(clicks) \in Nat
             /\ \A q \in Clicks : clicks'[q] = clicks[q]
             /\ clicks'[n].case = c /\ clicks'[n].phase = "sent"
             /\ clicks'[n].seen \in Seq(Entries)
             /\ Begins(clicks'[n].seen, cases[c])
             /\ Last(clicks'[n].seen) \in OpenStates
<1>1. PICK e \in ClickRecords :
        /\ e.case = c /\ e.phase = "sent" /\ e.seen = view[a][c]
        /\ clicks' = Append(clicks, e)
  BY DEF Pressed
<1>2. clicks \in Seq(ClickRecords) /\ Len(clicks) \in Nat  BY LenProperties DEF Shape
<1>3. /\ clicks' \in Seq(ClickRecords) /\ Len(clicks') = Len(clicks) + 1
      /\ \A q \in Clicks : clicks'[q] = clicks[q]
      /\ clicks'[Len(clicks) + 1] = e
  BY <1>1, <1>2, AppendProperties DEF Clicks
<1>4. view[a][c] \in Seq(Entries) /\ Begins(view[a][c], cases[c])
  BY DEF Pressed, ListsOK, ListTrue
<1>5. Last(view[a][c]) \in OpenStates  BY DEF Pressed
<1>. QED  BY <1>1, <1>2, <1>3, <1>4, <1>5

(* Clicks keep their case and what they saw.                               *)
ClicksKept ==
  /\ Clicks \subseteq Clicks'
  /\ \A q \in Clicks : clicks'[q].case = clicks[q].case /\ clicks'[q].seen = clicks[q].seen

LEMMA AllKept ==
  ASSUME Shape, ListsOK, HandlerOK, ClicksOK, [Next]_vars
  PROVE  ClicksKept
<1>1. Opened => ClicksKept  BY DEF Opened, ClicksKept, Clicks
<1>2. Stayed => ClicksKept  BY DEF Stayed, ClicksKept, Clicks
<1>3. \A q \in Clicks : Started(q) \/ Written(q) => ClicksKept
  BY DEF Started, Written, Moved, ClicksKept, Clicks
<1>4. ASSUME NEW a \in Analysts, NEW c \in Cases, Pressed(a, c) PROVE ClicksKept
  BY <1>4, PressedClicks DEF ClicksKept, Clicks
<1>. QED  BY <1>1, <1>2, <1>3, <1>4, Effects

(* One entry at most is added to one case, by the click that is written.   *)
LEMMA NewEntry ==
  ASSUME Shape, ListsOK, HandlerOK, ClicksOK, [Next]_vars, NEW c \in Cases,
         NEW k \in 1 .. Len(cases'[c]), k \notin 1 .. Len(cases[c])
  PROVE  \E q \in Clicks :
           /\ Written(q) /\ c = clicks[q].case /\ k = Len(cases[c]) + 1
           /\ cases'[c][k] = Entry(q)
<1>1. Len(cases[c]) \in Nat  BY CaseType
<1>2. ~ (cases'[c] = cases[c])  OBVIOUS
<1>3. ~ Opened  BY <1>2, OpenedCases
<1>4. cases' # cases  BY <1>2
<1>5. PICK q \in Clicks : Written(q)
  BY <1>3, <1>4, Effects DEF Stayed, Started, Pressed
<1>6. c = clicks[q].case  BY <1>2, <1>5, WrittenCases
<1>7. /\ Len(cases'[c]) = Len(cases[c]) + 1
      /\ cases'[c][Len(cases[c]) + 1] = Entry(q)
  BY <1>5, <1>6, WrittenCases
<1>8. k = Len(cases[c]) + 1  BY <1>1, <1>7
<1>. QED  BY <1>5, <1>6, <1>7, <1>8

LEMMA ShapeStep ==
  ASSUME Shape, ListsOK, HandlerOK, ClicksOK, [Next]_vars
  PROVE  Shape'
<1>1. cases' \in Seq(Seq(Entries))  BY AllGrow DEF Grows
<1>2. clicks' \in Seq(ClickRecords)
  <2>1. Opened => clicks' \in Seq(ClickRecords)  BY DEF Opened, Shape
  <2>2. Stayed => clicks' \in Seq(ClickRecords)  BY DEF Stayed
  <2>3. \A q \in Clicks : Started(q) \/ Written(q) => clicks' \in Seq(ClickRecords)
    BY DEF Started, Written, Moved
  <2>4. \A a \in Analysts, c \in Cases : Pressed(a, c) => clicks' \in Seq(ClickRecords)
    BY PressedClicks
  <2>. QED  BY <2>1, <2>2, <2>3, <2>4, Effects
<1>3. Len(cases) \in Nat /\ Len(clicks) \in Nat  BY LenProperties DEF Shape
<1>4. Len(cases') <= MaxCases /\ Len(clicks') <= MaxClicks
  <2>1. ASSUME Opened PROVE Len(cases') <= MaxCases /\ Len(clicks') <= MaxClicks
    <3>1. Len(cases') = Len(cases) + 1  BY <2>1, OpenedCases
    <3>. QED  BY <1>3, <2>1, <3>1 DEF Opened, Shape
  <2>2. Stayed => Len(cases') <= MaxCases /\ Len(clicks') <= MaxClicks
    BY DEF Stayed, Shape
  <2>3. \A q \in Clicks : Started(q) => Len(cases') <= MaxCases /\ Len(clicks') <= MaxClicks
    BY DEF Started, Moved, Shape
  <2>4. \A q \in Clicks : Written(q) => Len(cases') <= MaxCases /\ Len(clicks') <= MaxClicks
    <3>1. \A q \in Clicks : Written(q) => Len(cases') = Len(cases)  BY WrittenCases
    <3>. QED  BY <3>1 DEF Written, Moved, Shape
  <2>5. ASSUME NEW a \in Analysts, NEW c \in Cases, Pressed(a, c)
        PROVE  Len(cases') <= MaxCases /\ Len(clicks') <= MaxClicks
    <3>1. Len(clicks') = Len(clicks) + 1  BY <2>5, PressedClicks
    <3>. QED  BY <1>3, <2>5, <3>1 DEF Pressed, Shape
  <2>. QED  BY <2>1, <2>2, <2>3, <2>4, <2>5, Effects
<1>5. /\ answers' = [r \in Answers |-> answers'[r]]
      /\ view' = [a \in Analysts |-> view'[a]] /\ pressed' = [a \in Analysts |-> pressed'[a]]
  <2>1. \A q \in Clicks : ReadCase(q) \/ WriteCase(q) \/ UpdateFails(q) \/ Alert(q) =>
          /\ answers' = [r \in Answers |-> answers'[r]]
          /\ view' = [a \in Analysts |-> view'[a]] /\ pressed' = [a \in Analysts |-> pressed'[a]]
    BY DEF Shape, ReadCase, WriteCase, UpdateFails, Alert, boardVars
  <2>2. \A r \in Answers : Show(r) \/ RefreshFails(r) =>
          /\ answers' = [t \in Answers |-> answers'[t]]
          /\ view' = [a \in Analysts |-> view'[a]] /\ pressed' = [a \in Analysts |-> pressed'[a]]
    BY DEF Shape, Show, RefreshFails, boardVars
  <2>3. \A r \in Answers, b \in Analysts : ListCases(b, r) \/ ListCasesFails(b, r) =>
          /\ answers' = [t \in Answers |-> answers'[t]]
          /\ view' = [a \in Analysts |-> view'[a]] /\ pressed' = [a \in Analysts |-> pressed'[a]]
    BY DEF Shape, ListCases, ListCasesFails, boardVars
  <2>4. \A b \in Analysts, c \in Cases : Click(b, c) =>
          /\ answers' = [t \in Answers |-> answers'[t]]
          /\ view' = [a \in Analysts |-> view'[a]] /\ pressed' = [a \in Analysts |-> pressed'[a]]
    BY DEF Shape, Click
  <2>5. OpenCase \/ Restart \/ UNCHANGED vars =>
          /\ answers' = [t \in Answers |-> answers'[t]]
          /\ view' = [a \in Analysts |-> view'[a]] /\ pressed' = [a \in Analysts |-> pressed'[a]]
    BY DEF Shape, OpenCase, Restart, boardVars, vars
  <2>. QED  BY <2>1, <2>2, <2>3, <2>4, <2>5 DEF Next, Clicks
<1>6. faults' \in 0 .. MaxFaults
  <2>1. faults' = faults \/ Fault
    BY DEF Next, OpenCase, Restart, Show, RefreshFails, ListCases, ListCasesFails, ReadCase,
       WriteCase, UpdateFails, Alert, Click, vars
  <2>. QED  BY <2>1 DEF Fault, Shape
<1>. QED  BY <1>1, <1>2, <1>4, <1>5, <1>6 DEF Shape

LEMMA ClicksStep ==
  ASSUME Shape, ListsOK, HandlerOK, ClicksOK, [Next]_vars
  PROVE  ClicksOK'
<1>1. Grows /\ ClicksKept  BY AllGrow, AllKept
<1>2. ASSUME NEW q \in Clicks
      PROVE  /\ clicks'[q].case \in Cases'
             /\ Begins(clicks'[q].seen, cases'[clicks'[q].case])
             /\ Last(clicks'[q].seen) \in OpenStates
  <2>. DEFINE c == clicks[q].case
              s == clicks[q].seen
  <2>1. c \in Cases /\ Begins(s, cases[c]) /\ Last(s) \in OpenStates  BY DEF ClicksOK
  <2>2. s \in Seq(Entries)  BY ClickType
  <2>3. clicks'[q].case = c /\ clicks'[q].seen = s  BY <1>1 DEF ClicksKept
  <2>. HIDE DEF c, s
  <2>4. c \in Cases' /\ Begins(s, cases'[c])  BY <1>1, <2>1, <2>2, BeginsGrows
  <2>. QED  BY <2>1, <2>3, <2>4
<1>3. ASSUME NEW q \in Clicks', q \notin Clicks
      PROVE  /\ clicks'[q].case \in Cases'
             /\ Begins(clicks'[q].seen, cases'[clicks'[q].case])
             /\ Last(clicks'[q].seen) \in OpenStates
  <2>1. PICK a \in Analysts, c \in Cases : Pressed(a, c)
    BY <1>3, Effects DEF Opened, Stayed, Started, Written, Moved, Clicks
  <2>2. q = Len(clicks) + 1
    BY <1>3, <2>1, PressedClicks DEF Clicks
  <2>3. cases' = cases  BY <2>1 DEF Pressed
  <2>. QED  BY <2>1, <2>2, <2>3, PressedClicks DEF Cases
<1>. QED  BY <1>2, <1>3 DEF ClicksOK

LEMMA HandlerStep ==
  ASSUME Shape, ListsOK, HandlerOK, ClicksOK, [Next]_vars
  PROVE  HandlerOK'
<1>1. CASE Opened
  <2>1. clicks' = clicks /\ \A c \in Cases : cases'[c] = cases[c]
    BY <1>1, OpenedCases DEF Opened
  <2>. QED  BY <2>1 DEF HandlerOK, ClicksOK, Clicks
<1>2. CASE Stayed
  BY <1>2 DEF Stayed, HandlerOK, Clicks
<1>3. ASSUME NEW q \in Clicks, Started(q) PROVE HandlerOK'
  <2>1. \A p \in Clicks : clicks[p].phase # "read"
    BY <1>3 DEF Started, Receive, InHandler, Clicks
  <2>2. \A p \in Clicks : clicks'[p].phase = "read" => p = q
    BY <1>3, <2>1 DEF Started, Moved
  <2>3. clicks'[q].raw = cases'[clicks'[q].case]
    BY <1>3 DEF Started, Moved
  <2>4. Clicks' = Clicks  BY <1>3 DEF Started, Moved, Clicks
  <2>. QED  BY <2>2, <2>3, <2>4 DEF HandlerOK
<1>4. ASSUME NEW q \in Clicks, Written(q) PROVE HandlerOK'
  <2>1. \A p \in Clicks : clicks'[p].phase # "read"
    BY <1>4 DEF Written, Moved, HandlerOK
  <2>2. Clicks' = Clicks  BY <1>4 DEF Written, Moved, Clicks
  <2>. QED  BY <2>1, <2>2 DEF HandlerOK
<1>5. ASSUME NEW a \in Analysts, NEW c \in Cases, Pressed(a, c) PROVE HandlerOK'
  <2>1. cases' = cases  BY <1>5 DEF Pressed
  <2>2. /\ \A q \in Clicks' : q \in Clicks \/ q = Len(clicks) + 1
        /\ \A q \in Clicks : clicks'[q] = clicks[q]
        /\ clicks'[Len(clicks) + 1].phase = "sent"
    BY <1>5, PressedClicks DEF Clicks
  <2>. QED  BY <2>1, <2>2 DEF HandlerOK
<1>. QED  BY <1>1, <1>2, <1>3, <1>4, <1>5, Effects

LEMMA PendingStep ==
  ASSUME Shape, ListsOK, HandlerOK, ClicksOK, EntriesOK, PendingOK, [Next]_vars
  PROVE  PendingOK'
<1>1. CASE Opened
  <2>1. /\ clicks' = clicks /\ \A c \in Cases : cases'[c] = cases[c]
        /\ \A c \in Cases' : c \in Cases \/ cases'[c] = <<First>>
    BY <1>1, OpenedCases DEF Opened, Cases
  <2>2. \A q \in Clicks : q # 0  BY LenProperties DEF Clicks, Shape
  <2>3. Len(<<First>>) = 1 /\ <<First>>[1].click = 0  BY DEF First
  <2>4. \A k \in 1 .. 1 : k = 1  OBVIOUS
  <2>. QED  BY <2>1, <2>2, <2>3, <2>4 DEF PendingOK, Clicks
<1>2. CASE Stayed
  BY <1>2 DEF Stayed, PendingOK, Clicks, Cases
<1>3. ASSUME NEW q \in Clicks, Started(q) PROVE PendingOK'
  <2>1. clicks[q].phase = "sent"  BY <1>3 DEF Started, Receive
  <2>. QED  BY <1>3, <2>1 DEF Started, Moved, PendingOK, Clicks, Cases
<1>4. ASSUME NEW q \in Clicks, Written(q) PROVE PendingOK'
  <2>1. Clicks' = Clicks /\ Cases' = Cases
    BY <1>4, WrittenCases DEF Written, Moved, Clicks, Cases
  <2>. SUFFICES ASSUME NEW p \in Clicks, clicks'[p].phase \in {"sent", "read"},
                       NEW c \in Cases, NEW k \in 1 .. Len(cases'[c])
       PROVE  cases'[c][k].click # p
    BY <2>1 DEF PendingOK
  <2>2. p # q /\ clicks[p].phase \in {"sent", "read"}
    BY <1>4 DEF Written, Moved
  <2>3. CASE k \in 1 .. Len(cases[c])
    <3>1. cases'[c][k] = cases[c][k]  BY <2>3, AllGrow DEF Grows
    <3>. QED  BY <2>2, <2>3, <3>1 DEF PendingOK
  <2>4. CASE k \notin 1 .. Len(cases[c])
    <3>1. c = clicks[q].case  BY <1>4, <2>4, WrittenCases
    <3>2. k = Len(cases[c]) + 1 /\ cases'[c][k] = Entry(q)
      BY <1>4, <2>4, <3>1, WrittenCases
    <3>. QED  BY <2>2, <3>2 DEF Entry
  <2>. QED  BY <2>3, <2>4
<1>5. ASSUME NEW a \in Analysts, NEW c \in Cases, Pressed(a, c) PROVE PendingOK'
  <2>1. cases' = cases  BY <1>5 DEF Pressed
  <2>2. /\ \A q \in Clicks' : q \in Clicks \/ q = Len(clicks) + 1
        /\ \A q \in Clicks : clicks'[q] = clicks[q]
        /\ Len(clicks) \in Nat
    BY <1>5, PressedClicks DEF Clicks
  <2>3. ASSUME NEW d \in Cases, NEW k \in 1 .. Len(cases[d])
        PROVE  cases[d][k].click # Len(clicks) + 1
    <3>1. CASE k = 1  BY <2>2, <3>1 DEF EntriesOK
    <3>2. CASE k # 1
      <4>1. k \in 2 .. Len(cases[d])  BY <3>2, CaseType
      <4>2. cases[d][k].click \in Clicks  BY <4>1 DEF EntriesOK, DecidedBy
      <4>. QED  BY <2>2, <4>2 DEF Clicks
    <3>. QED  BY <3>1, <3>2
  <2>4. Cases' = Cases  BY <2>1 DEF Cases
  <2>5. ASSUME NEW q \in Clicks', clicks'[q].phase \in {"sent", "read"},
               NEW d \in Cases, NEW k \in 1 .. Len(cases[d])
        PROVE  cases[d][k].click # q
    <3>1. CASE q \in Clicks  BY <2>2, <2>5, <3>1 DEF PendingOK
    <3>2. CASE q = Len(clicks) + 1  BY <2>3, <3>2
    <3>. QED  BY <2>2, <3>1, <3>2
  <2>. QED  BY <2>1, <2>4, <2>5, Zenon DEF PendingOK
<1>. QED  BY <1>1, <1>2, <1>3, <1>4, <1>5, Effects

LEMMA DecidedStays ==
  ASSUME Shape, ListsOK, HandlerOK, ClicksOK, [Next]_vars,
         NEW c \in Cases, NEW q, NEW k, DecidedBy(q, cases[c], k)
  PROVE  /\ q \in Clicks' /\ Len(clicks'[q].seen) < k
         /\ Begins(clicks'[q].seen, cases'[c])
         /\ Last(clicks'[q].seen) \in OpenStates
<1>1. Grows /\ ClicksKept  BY AllGrow, AllKept
<1>2. q \in Clicks  BY DEF DecidedBy
<1>3. clicks[q].seen \in Seq(Entries)  BY <1>2, ClickType
<1>4. Begins(clicks[q].seen, cases'[c])  BY <1>1, <1>3, BeginsGrows DEF DecidedBy
<1>. QED  BY <1>1, <1>2, <1>4 DEF DecidedBy, ClicksKept

LEMMA EntriesStep ==
  ASSUME Shape, ListsOK, HandlerOK, ClicksOK, EntriesOK, [Next]_vars
  PROVE  EntriesOK'
<1>1. Grows /\ ClicksKept /\ Shape'  BY AllGrow, AllKept, ShapeStep
<1>2. ASSUME NEW c \in Cases
      PROVE  /\ Len(cases'[c]) >= 1 /\ cases'[c][1].click = 0
             /\ \A k \in 2 .. Len(cases'[c]) : DecidedBy(cases[c][k].click, cases[c], k)'
  <2>1. Len(cases[c]) \in Nat /\ Len(cases[c]) >= 1  BY CaseType DEF EntriesOK
  <2>2. /\ Len(cases'[c]) \in Nat /\ Len(cases'[c]) >= 1
        /\ \A i \in 1 .. Len(cases[c]) : cases'[c][i] = cases[c][i]
    <3>1. cases'[c] \in Seq(Entries)
      BY <1>1, CasesGrow, ElementOfSeq DEF Grows, Cases
    <3>2. Len(cases'[c]) \in Nat  BY <3>1, LenProperties
    <3>. QED  BY <1>1, <2>1, <3>2 DEF Grows
  <2>3. cases'[c][1].click = 0  BY <2>1, <2>2 DEF EntriesOK
  <2>4. ASSUME NEW k \in 2 .. Len(cases'[c])
        PROVE  DecidedBy(cases[c][k].click, cases[c], k)'
    <3>1. CASE k \in 1 .. Len(cases[c])
      <4>1. cases'[c][k] = cases[c][k]  BY <2>2, <3>1
      <4>2. DecidedBy(cases[c][k].click, cases[c], k)  BY <2>1, <3>1 DEF EntriesOK
      <4>. QED  BY <4>1, <4>2, DecidedStays DEF DecidedBy
    <3>2. CASE k \notin 1 .. Len(cases[c])
      <4>1. k \in 1 .. Len(cases'[c])  BY <2>2
      <4>2. PICK q \in Clicks : /\ Written(q) /\ c = clicks[q].case /\ k = Len(cases[c]) + 1
                                /\ cases'[c][k] = Entry(q)
        BY <3>2, <4>1, NewEntry
      <4>3. Len(clicks[q].seen) < k
        BY <2>1, <4>2 DEF ClicksOK, Begins
      <4>4. DecidedBy(q, cases[c], k)  BY <4>2, <4>3 DEF DecidedBy, ClicksOK
      <4>5. cases'[c][k].click = q  BY <4>2 DEF Entry
      <4>. QED  BY <4>4, <4>5, DecidedStays DEF DecidedBy
    <3>. QED  BY <3>1, <3>2
  <2>. QED  BY <2>2, <2>3, <2>4
<1>3. ASSUME NEW c \in Cases', c \notin Cases
      PROVE  Len(cases'[c]) = 1 /\ cases'[c][1].click = 0
  <2>1. Len(cases) \in Nat  BY LenProperties DEF Shape
  <2>2. Len(cases') # Len(cases)  BY <1>3 DEF Cases
  <2>3. Opened
    BY <2>2, Effects, WrittenCases DEF Stayed, Started, Pressed
  <2>4. cases'[c] = <<First>>  BY <1>3, <2>1, <2>3, OpenedCases DEF Cases
  <2>. QED  BY <2>4 DEF First
<1>4. \A k \in 2 .. 1 : FALSE  OBVIOUS
<1>. QED  BY <1>2, <1>3, <1>4 DEF EntriesOK

LEMMA LostStep ==
  ASSUME Shape, ListsOK, HandlerOK, ClicksOK, PendingOK, NoChangeLost, [Next]_vars
  PROVE  NoChangeLost'
<1>1. Grows /\ ClicksKept  BY AllGrow, AllKept
<1>2. SUFFICES ASSUME NEW q \in Clicks', clicks'[q].phase = "written"
      PROVE  \E k \in 1 .. Len(cases'[clicks'[q].case]) :
               \A i \in 1 .. Len(cases'[clicks'[q].case]) :
                 cases'[clicks'[q].case][i].click = q <=> i = k
  BY DEF NoChangeLost, Clicks
<1>3. q \in Clicks /\ (clicks[q].phase = "written" \/ Written(q))
  <2>1. Opened => q \in Clicks /\ clicks[q].phase = "written"
    BY <1>2 DEF Opened, Clicks
  <2>2. Stayed => q \in Clicks /\ clicks[q].phase = "written"
    BY <1>2 DEF Stayed, Clicks
  <2>3. \A p \in Clicks : Started(p) => q \in Clicks /\ clicks[q].phase = "written"
    BY <1>2 DEF Started, Moved, Clicks
  <2>4. \A p \in Clicks : Written(p) => q \in Clicks /\ (clicks[q].phase = "written" \/ p = q)
    BY <1>2 DEF Written, Moved, Clicks
  <2>5. \A a \in Analysts, c \in Cases : Pressed(a, c) =>
          q \in Clicks /\ clicks[q].phase = "written"
    BY <1>2, PressedClicks DEF Clicks
  <2>. QED  BY <2>1, <2>2, <2>3, <2>4, <2>5, Effects
<1>. DEFINE c == clicks[q].case
<1>4. clicks'[q].case = c /\ c \in Cases  BY <1>1, <1>3 DEF ClicksKept, ClicksOK
<1>5. Len(cases[c]) \in Nat  BY <1>4, CaseType
<1>6. \A i \in 1 .. Len(cases[c]) : cases'[c][i] = cases[c][i] /\ i \in 1 .. Len(cases'[c])
  <2>1. Len(cases'[c]) \in Nat
    <3>1. cases'[c] \in Seq(Entries)
      BY <1>1, <1>4, CasesGrow, ElementOfSeq DEF Grows, Cases
    <3>. QED  BY <3>1, LenProperties
  <2>2. /\ Len(cases[c]) <= Len(cases'[c])
        /\ \A i \in 1 .. Len(cases[c]) : cases'[c][i] = cases[c][i]
    BY <1>1, <1>4, Zenon DEF Grows
  <2>. HIDE DEF c
  <2>3. 1 .. Len(cases[c]) \subseteq 1 .. Len(cases'[c])  BY <1>5, <2>1, <2>2
  <2>. QED  BY <2>2, <2>3, Zenon
<1>. HIDE DEF c
<1>7. CASE clicks[q].phase = "written"
  <2>1. PICK k \in 1 .. Len(cases[c]) :
          \A i \in 1 .. Len(cases[c]) : cases[c][i].click = q <=> i = k
    BY <1>3, <1>7 DEF NoChangeLost, Clicks, c
  <2>2. ASSUME NEW i \in 1 .. Len(cases'[c])
        PROVE  cases'[c][i].click = q <=> i = k
    <3>1. CASE i \in 1 .. Len(cases[c])  BY <1>6, <2>1, <3>1
    <3>2. CASE i \notin 1 .. Len(cases[c])
      <4>1. PICK p \in Clicks : Written(p) /\ cases'[c][i] = Entry(p)
        BY <1>4, <3>2, NewEntry
      <4>2. p # q  BY <1>7, <4>1 DEF Written
      <4>3. i # k  BY <2>1, <3>2
      <4>. QED  BY <4>1, <4>2, <4>3 DEF Entry
    <3>. QED  BY <3>1, <3>2
  <2>. QED  BY <1>4, <1>6, <2>1, <2>2
<1>8. CASE Written(q)
  <2>1. \A i \in 1 .. Len(cases[c]) : cases[c][i].click # q
    BY <1>3, <1>4, <1>8 DEF PendingOK, Written
  <2>2. /\ Len(cases'[c]) = Len(cases[c]) + 1
        /\ cases'[c][Len(cases[c]) + 1].click = q
    <3>1. /\ Len(cases'[c]) = Len(cases[c]) + 1
          /\ cases'[c][Len(cases[c]) + 1] = Entry(q)
      BY <1>3, <1>8, WrittenCases DEF c
    <3>. QED  BY <3>1 DEF Entry
  <2>3. ASSUME NEW i \in 1 .. Len(cases'[c])
        PROVE  cases'[c][i].click = q <=> i = Len(cases[c]) + 1
    <3>1. CASE i = Len(cases[c]) + 1  BY <2>2, <3>1
    <3>2. CASE i # Len(cases[c]) + 1
      <4>1. i \in 1 .. Len(cases[c])  BY <1>5, <2>2, <3>2
      <4>. QED  BY <1>6, <2>1, <3>2, <4>1
    <3>. QED  BY <3>1, <3>2
  <2>4. Len(cases[c]) + 1 \in 1 .. Len(cases'[c])  BY <1>5, <2>2
  <2>. QED  BY <1>4, <2>3, <2>4
<1>. QED  BY <1>3, <1>7, <1>8

-----------------------------------------------------------------------------

LEMMA Inductive == Spec => []IInv
<1>1. Init => IInv
  <2>. SUFFICES ASSUME Init PROVE IInv  OBVIOUS
  <2>1. cases = <<>> /\ clicks = <<>>  BY DEF Init
  <2>2. Cases = {} /\ Clicks = {}  BY <2>1 DEF Cases, Clicks
  <2>3. \A c \in DOMAIN NoList : FALSE  BY DEF NoList
  <2>4. Shape  BY EmptySeq DEF Init, Shape
  <2>5. ListsOK
    <3>1. \A r \in Answers : answers[r].list = NoList /\ answers[r].analyst = NoAnalyst
      BY DEF Init, Free
    <3>2. \A a \in Analysts : view[a] = NoList /\ pressed[a] = {}  BY DEF Init
    <3>. QED  BY <2>3, <3>1, <3>2 DEF ListsOK, ListTrue
  <2>6. ClicksOK /\ HandlerOK /\ PendingOK  BY <2>2 DEF ClicksOK, HandlerOK, PendingOK
  <2>7. EntriesOK  BY <2>2 DEF EntriesOK
  <2>8. NoChangeLost  BY <2>2 DEF NoChangeLost, Clicks
  <2>. QED  BY <2>4, <2>5, <2>6, <2>7, <2>8 DEF IInv
<1>2. IInv /\ [Next]_vars => IInv'
  BY ShapeStep, ListsStep, ClicksStep, HandlerStep, PendingStep, EntriesStep, LostStep DEF IInv
<1>. QED  BY <1>1, <1>2, PTL DEF Spec

(* Type correctness of the cases, the clicks, the answers and the boards.  *)
THEOREM CaseBoardTypeCorrect == Spec => []TypeOK
<1>1. IInv => TypeOK
  <2>. SUFFICES ASSUME IInv PROVE TypeOK  OBVIOUS
  <2>1. Shape /\ ListsOK /\ ClicksOK  BY DEF IInv
  <2>2. ASSUME NEW q \in Clicks PROVE IsClick(clicks[q])
    <3>1. clicks[q] \in ClickRecords /\ clicks[q].case \in Cases
      BY <2>1, ClickType DEF ClicksOK
    <3>. QED  BY <3>1 DEF ClickRecords, Phases, IsClick
  <2>3. \A l : ListTrue(l) => IsList(l)  BY DEF ListTrue, IsList
  <2>. QED  BY <2>1, <2>2, <2>3 DEF TypeOK, Shape, ListsOK, Clicks
<1>. QED  BY <1>1, Inductive, PTL

(* A written change is in its case's history exactly once, and each change *)
(* was decided on a board that showed an earlier part of that history in   *)
(* which the case was open: for any number of analysts and boards, answers *)
(* that overtake each other, failing calls and restarts of the server.     *)
THEOREM HistoriesAreTrue == Spec => []HistoryIsTrue
<1>1. IInv => HistoryIsTrue
  <2>. SUFFICES ASSUME IInv, NEW c \in Cases, NEW k \in 2 .. Len(cases[c])
       PROVE  LET seen == clicks[cases[c][k].click].seen
              IN  /\ Len(seen) < k /\ SubSeq(cases[c], 1, Len(seen)) = seen
                  /\ Last(seen) \in OpenStates
    BY DEF HistoryIsTrue, DecidedOnOpen, IInv
  <2>. DEFINE seen == clicks[cases[c][k].click].seen
  <2>1. Shape /\ DecidedBy(cases[c][k].click, cases[c], k)  BY DEF IInv, EntriesOK
  <2>2. /\ Len(seen) < k /\ Last(seen) \in OpenStates
        /\ Len(seen) \in 1 .. Len(cases[c])
        /\ \A i \in 1 .. Len(seen) : seen[i] = cases[c][i]
    BY <2>1 DEF DecidedBy, Begins
  <2>3. /\ seen \in Seq(Entries) /\ Len(seen) \in Nat
        /\ Len(cases[c]) \in Nat /\ \A i \in 1 .. Len(cases[c]) : cases[c][i] \in Entries
    BY <2>1, ClickType, CaseType DEF DecidedBy
  <2>. HIDE DEF seen
  <2>4. \A i \in 1 .. Len(seen) : cases[c][i] \in Entries  BY <2>2, <2>3
  <2>5. /\ SubSeq(cases[c], 1, Len(seen)) \in Seq(Entries)
        /\ Len(SubSeq(cases[c], 1, Len(seen))) = Len(seen)
        /\ \A i \in 1 .. Len(seen) : SubSeq(cases[c], 1, Len(seen))[i] = cases[c][i]
    BY <2>2, <2>3, <2>4, SubSeqProperties
  <2>6. SubSeq(cases[c], 1, Len(seen)) = seen
    BY <2>2, <2>3, <2>5, SeqEqual
  <2>. QED  BY <2>2, <2>6 DEF seen
<1>. QED  BY <1>1, Inductive, PTL

-----------------------------------------------------------------------------
(* The queue.                                                              *)

Newer(W, c) == {d \in W : d > c}
Rank(W) == [c \in W |-> Cardinality(Newer(W, c))]

(* Counted from the newest, the cases of a list are 0, 1, 2 and so on.     *)
LEMMA RankIsOnto ==
  ASSUME NEW W \in SUBSET Nat, IsFiniteSet(W), NEW n \in Nat, n < Cardinality(W)
  PROVE  /\ \A c \in W : IsFiniteSet(Newer(W, c)) /\ Rank(W)[c] \in Nat
         /\ \A c, d \in W : c < d => Rank(W)[d] < Rank(W)[c]
         /\ \E c \in W : Rank(W)[c] = n
<1>. DEFINE N == Cardinality(W)
<1>1. N \in Nat  BY FS_CardinalityType
<1>2. ASSUME NEW c \in W
      PROVE  /\ IsFiniteSet(Newer(W, c)) /\ Rank(W)[c] = Cardinality(Newer(W, c))
             /\ Rank(W)[c] \in Nat
  <2>1. Newer(W, c) \in SUBSET W  BY DEF Newer
  <2>2. IsFiniteSet(Newer(W, c))  BY <2>1, FS_Subset
  <2>3. Cardinality(Newer(W, c)) \in Nat  BY <2>2, FS_CardinalityType
  <2>. QED  BY <2>2, <2>3 DEF Rank
<1>3. ASSUME NEW c \in W, NEW d \in W, c < d
      PROVE  Rank(W)[d] < Rank(W)[c]
  <2>. c \in Nat /\ d \in Nat  OBVIOUS
  <2>1. Newer(W, d) \in SUBSET Newer(W, c) /\ d \in Newer(W, c) /\ d \notin Newer(W, d)
    <3>1. \A e \in W : e > d => e > c  BY <1>3
    <3>2. d > c /\ ~(d > d)  BY <1>3
    <3>. QED  BY <3>1, <3>2, Zenon DEF Newer
  <2>2. /\ Cardinality(Newer(W, d)) <= Cardinality(Newer(W, c))
        /\ Cardinality(Newer(W, c)) # Cardinality(Newer(W, d))
    BY <1>2, <2>1, FS_Subset, Zenon
  <2>. QED  BY <1>2, <2>2
<1>4. ASSUME NEW c \in W PROVE Rank(W)[c] \in 0 .. N - 1
  <2>1. Newer(W, c) \in SUBSET W /\ c \notin Newer(W, c)  BY DEF Newer
  <2>2. Cardinality(Newer(W, c)) <= N /\ Cardinality(Newer(W, c)) # N
    BY <2>1, FS_Subset, Zenon
  <2>. QED  BY <1>1, <1>2, <2>2
<1>. HIDE DEF N
<1>5. Rank(W) \in [W -> 0 .. N - 1]
  <2>1. Rank(W) = [c \in W |-> Rank(W)[c]]  BY DEF Rank
  <2>. QED  BY <1>4, <2>1, Zenon
<1>6. \A c, d \in W : Rank(W)[c] = Rank(W)[d] => c = d
  <2>. SUFFICES ASSUME NEW c \in W, NEW d \in W, Rank(W)[c] = Rank(W)[d], c # d PROVE FALSE
    OBVIOUS
  <2>1. c < d \/ d < c  OBVIOUS
  <2>. QED  BY <1>2, <1>3, <2>1
<1>7. Rank(W) \in Injection(W, 0 .. N - 1)
  <2>1. DOMAIN Rank(W) = W  BY DEF Rank
  <2>. QED  BY <1>5, <1>6, <2>1, Zenon DEF Injection, IsInjective
<1>8. IsFiniteSet(0 .. N - 1) /\ Cardinality(0 .. N - 1) = N
  BY <1>1, FS_Interval
<1>9. Rank(W) \in Surjection(W, 0 .. N - 1)
  BY <1>7, <1>8, FS_Injection, Zenon DEF N
<1>10. n \in 0 .. N - 1  BY <1>1 DEF N
<1>11. \E c \in W : Rank(W)[c] = n  BY <1>9, <1>10 DEF Surjection
<1>. QED  BY <1>2, <1>3, <1>11

(* What a full list leaves out is older than all of it.                    *)
LEMMA NewestIsFull ==
  ASSUME NEW W \in SUBSET Nat, IsFiniteSet(W), NEW c \in W, c \notin Newest(W)
  PROVE  Cardinality(Newer(Newest(W), c)) = Limit
<1>. DEFINE L == Newest(W)
<1>1. \A d \in W : IsFiniteSet(Newer(W, d)) /\ Cardinality(Newer(W, d)) \in Nat
      /\ Newer(W, d) \in SUBSET W /\ Rank(W)[d] = Cardinality(Newer(W, d))
  <2>. SUFFICES ASSUME NEW d \in W
                PROVE  /\ IsFiniteSet(Newer(W, d)) /\ Cardinality(Newer(W, d)) \in Nat
                       /\ Newer(W, d) \in SUBSET W /\ Rank(W)[d] = Cardinality(Newer(W, d))
    OBVIOUS
  <2>1. Newer(W, d) \in SUBSET W  BY DEF Newer
  <2>2. IsFiniteSet(Newer(W, d))  BY <2>1, FS_Subset
  <2>. QED  BY <2>1, <2>2, FS_CardinalityType DEF Rank
<1>2. L = {d \in W : Rank(W)[d] < Limit}  BY <1>1, Zenon DEF Newest, Newer
<1>3. Limit \in Nat /\ Cardinality(W) \in Nat  BY FS_CardinalityType
<1>4. Rank(W)[c] \in Nat /\ Rank(W)[c] >= Limit  BY <1>1, <1>2, <1>3
<1>5. Limit < Cardinality(W)
  <2>1. Newer(W, c) \in SUBSET W /\ c \notin Newer(W, c)  BY DEF Newer
  <2>2. Cardinality(Newer(W, c)) <= Cardinality(W) /\ Cardinality(Newer(W, c)) # Cardinality(W)
    BY <2>1, FS_Subset, Zenon
  <2>. QED  BY <1>1, <1>3, <1>4, <2>2
<1>6. \A a, d \in W : a < d => Rank(W)[d] < Rank(W)[a]
  <2>1. 0 \in Nat /\ 0 < Cardinality(W)  BY <1>3, <1>5
  <2>. QED  BY <2>1, RankIsOnto
<1>7. \A n \in 0 .. Limit - 1 : \E d \in W : Rank(W)[d] = n
  <2>. SUFFICES ASSUME NEW n \in 0 .. Limit - 1 PROVE \E d \in W : Rank(W)[d] = n
    OBVIOUS
  <2>1. n \in Nat /\ n < Cardinality(W)  BY <1>3, <1>5
  <2>. QED  BY <2>1, RankIsOnto
<1>. HIDE DEF L
<1>. DEFINE f == [d \in L |-> Rank(W)[d]]
<1>8. f \in [L -> 0 .. Limit - 1]
  <2>1. \A d \in L : Rank(W)[d] \in 0 .. Limit - 1  BY <1>1, <1>2, <1>3
  <2>. QED  BY <2>1
<1>9. \A n \in 0 .. Limit - 1 : \E d \in L : f[d] = n
  BY <1>2, <1>3, <1>7
<1>10. \A a, d \in L : f[a] = f[d] => a = d
  <2>. SUFFICES ASSUME NEW a \in L, NEW d \in L, Rank(W)[a] = Rank(W)[d], a # d PROVE FALSE
    OBVIOUS
  <2>1. a \in W /\ d \in W  BY <1>2
  <2>2. a < d \/ d < a  BY <2>1
  <2>3. Rank(W)[a] \in Nat /\ Rank(W)[d] \in Nat  BY <1>1, <2>1
  <2>. QED  BY <1>6, <2>1, <2>2, <2>3
<1>11. DOMAIN f = L  OBVIOUS
<1>. HIDE DEF f
<1>12. f \in Surjection(L, 0 .. Limit - 1) /\ f \in Injection(L, 0 .. Limit - 1)
  BY <1>8, <1>9, <1>10, <1>11, Zenon DEF Surjection, Injection, IsInjective
<1>13. IsFiniteSet(0 .. Limit - 1) /\ Cardinality(0 .. Limit - 1) = Limit
  <2>1. 0 \in Int /\ Limit - 1 \in Int /\ ~(0 > Limit - 1) /\ (Limit - 1) - 0 + 1 = Limit
    BY <1>3, CaseBoardConstants
  <2>. QED  BY <2>1, FS_Interval
<1>14. Cardinality(L) = Limit  BY <1>12, <1>13, FS_Injection, Zenon
<1>15. Newer(L, c) = L
  <2>. SUFFICES ASSUME NEW d \in L PROVE d > c
    BY DEF Newer
  <2>1. d \in W /\ Rank(W)[d] < Limit /\ Rank(W)[d] \in Nat  BY <1>1, <1>2
  <2>2. d # c  BY <1>3, <1>4, <2>1
  <2>3. ~(d < c)  BY <1>3, <1>4, <1>6, <2>1
  <2>. QED  BY <2>1, <2>2, <2>3
<1>. QED  BY <1>14, <1>15 DEF L

(* Whatever the watcher and the analysts do meanwhile, list_cases leaves   *)
(* an open case out of an answer only when the answer holds as many newer  *)
(* ones as its limit, or when a call to Redis failed.                      *)
THEOREM QueueIsHonest == Spec => QueueHonest
<1>1. ASSUME IInv, [Next]_vars, NEW r \in Answers, NEW c \in Cases,
             answers[r] = Free, answers'[r] # Free, faults' = faults,
             Last(cases[c]) \in OpenStates, c \notin DOMAIN answers'[r].list
      PROVE  Cardinality({d \in DOMAIN answers'[r].list : d > c}) = Limit
  <2>1. faults \in Nat /\ answers = [s \in Answers |-> answers[s]] /\ Len(cases) \in Nat
    BY <1>1, LenProperties DEF IInv, Shape
  <2>2. ~(\E s \in Answers : Show(s) \/ RefreshFails(s))
    BY <1>1, <2>1 DEF Show, RefreshFails
  <2>3. ~(OpenCase \/ Restart \/ UNCHANGED vars)
    BY <1>1 DEF OpenCase, Restart, vars
  <2>4. ~(\E q \in 1 .. Len(clicks) : ReadCase(q) \/ WriteCase(q) \/ UpdateFails(q) \/ Alert(q))
    BY <1>1 DEF ReadCase, WriteCase, UpdateFails, Alert
  <2>5. ~(\E a \in Analysts, d \in Cases : Click(a, d))
    BY <1>1 DEF Click
  <2>6. ~(\E s \in Answers, a \in Analysts : ListCasesFails(a, s))
    BY <1>1, <2>1 DEF ListCasesFails, Fault
  <2>7. PICK s \in Answers, a \in Analysts : ListCases(a, s)
    BY <1>1, <2>2, <2>3, <2>4, <2>5, <2>6 DEF Next
  <2>8. PICK only_open \in BOOLEAN :
          answers' = [answers EXCEPT ![s] = [analyst |-> a, list |-> Listed(Cases, only_open)]]
    BY <2>7 DEF ListCases
  <2>9. answers'[r].list = Listed(Cases, only_open)
    BY <1>1, <2>1, <2>8
  <2>. DEFINE W == Waiting(Cases, only_open)
  <2>10. W \in SUBSET Cases /\ c \in W  BY <1>1 DEF Waiting
  <2>11. IsFiniteSet(Cases) /\ Cases \in SUBSET Nat
    <3>1. 1 \in Int /\ Len(cases) \in Int  BY <2>1
    <3>2. IsFiniteSet(1 .. Len(cases))  BY <3>1, FS_Interval
    <3>. QED  BY <2>1, <3>2 DEF Cases
  <2>12. IsFiniteSet(W) /\ W \in SUBSET Nat  BY <2>10, <2>11, FS_Subset
  <2>13. DOMAIN answers'[r].list = Newest(W)  BY <2>9 DEF Listed
  <2>. HIDE DEF W
  <2>. QED  BY <1>1, <2>10, <2>12, <2>13, NewestIsFull DEF Newer
<1>2. IInv /\ [Next]_vars =>
        [\A r \in Answers : \A c \in Cases :
           (/\ answers[r] = Free /\ answers'[r] # Free /\ faults' = faults
            /\ Last(cases[c]) \in OpenStates /\ c \notin DOMAIN answers'[r].list)
           => Cardinality({d \in DOMAIN answers'[r].list : d > c}) = Limit]_vars
  BY <1>1
<1>. QED  BY <1>2, Inductive, PTL DEF Spec, QueueHonest
=============================================================================
