------------------------------ MODULE CaseBoard ------------------------------
(***************************************************************************)
(* The cases of the FIM watcher on the analysts' boards: open_case         *)
(* (vigilante/cases.py) writes them to Redis, the handlers of main.py call *)
(* list_cases and update_case_state (motor/dashboard.py), and every        *)
(* browser (dashboard.html) shows the answer of some refresh and offers    *)
(* buttons for the state it shows.                                         *)
(*                                                                         *)
(* The handlers are async functions that never await: on the one event     *)
(* loop of uvicorn each runs to its end before another starts. The         *)
(* watcher, the browsers and the network interleave with them.             *)
(***************************************************************************)
EXTENDS Naturals, Sequences, FiniteSets

CONSTANTS
  Analysts,
  NoAnalyst,
  Limit,          \* cases in an answer of list_cases
  MaxCases,       \* bound: cases the watcher opens
  MaxClicks,      \* bound: buttons pressed
  Answers,        \* bound: answers on their way at once, to all browsers
  MaxFaults       \* bound: failing Redis calls and deaths of the server

ASSUME CaseBoardConstants ==
  /\ NoAnalyst \notin Analysts /\ Limit \in Nat \ {0}
  /\ MaxCases \in Nat /\ MaxClicks \in Nat /\ MaxFaults \in Nat

(* "cerrado" is both cerrado_confirmado and cerrado_falso_positivo.        *)
States == {"abierto", "en_investigacion", "cerrado"}
OpenStates == {"abierto", "en_investigacion"}

Last(history) == history[Len(history)].state

VARIABLES
  cases,          \* soc:cases:<id>: their histories, in the order of opening
  clicks,         \* the POSTs of handleCaseAction, and how far the server is with each
  answers,        \* to the GETs of refresh(), not yet shown
  view,           \* the list each board shows: case -> history
  pressed,        \* the buttons each board has disabled
  faults

boardVars == <<view, pressed>>
vars == <<cases, clicks, answers, boardVars, faults>>

Cases == 1 .. Len(cases)          \* soc:cases:index

Entries == [state : States, click : 0 .. MaxClicks]

IsList(l) == DOMAIN l \subseteq Cases /\ \A c \in DOMAIN l : l[c] \in Seq(Entries)

IsClick(q) ==
  /\ q.analyst \in Analysts /\ q.case \in Cases /\ q.state \in States
  /\ q.phase \in {"sent", "read", "written", "failed"}
  /\ q.raw \in Seq(Entries) /\ q.seen \in Seq(Entries)

TypeOK ==
  /\ cases \in Seq(Seq(Entries))
  /\ Len(cases) <= MaxCases /\ Len(clicks) <= MaxClicks /\ faults \in 0 .. MaxFaults
  /\ \A q \in 1 .. Len(clicks) : IsClick(clicks[q])
  /\ \A r \in Answers : answers[r].analyst \in Analysts \cup {NoAnalyst} /\ IsList(answers[r].list)
  /\ \A a \in Analysts : IsList(view[a]) /\ pressed[a] \subseteq Cases \X States

NoList == [c \in {} |-> <<>>]
Free == [analyst |-> NoAnalyst, list |-> NoList]

Init ==
  /\ cases = <<>>
  /\ clicks = <<>> /\ answers = [r \in Answers |-> Free]
  /\ view = [a \in Analysts |-> NoList] /\ pressed = [a \in Analysts |-> {}]
  /\ faults = 0

Fault == faults < MaxFaults /\ faults' = faults + 1

-----------------------------------------------------------------------------
(* open_case, in the watcher's process, at its SADD: until then no board   *)
(* hears of the case (FimResponse has the two calls and their failures).   *)
OpenCase ==
  /\ Len(cases) < MaxCases
  /\ cases' = Append(cases, <<[state |-> "abierto", click |-> 0]>>)
  /\ UNCHANGED <<clicks, answers, boardVars, faults>>

-----------------------------------------------------------------------------
(* The server.                                                             *)

InHandler == {q \in 1 .. Len(clicks) : clicks[q].phase = "read"}

Newest(C) == {c \in C : Cardinality({d \in C : d > c}) < Limit}

Waiting(C, only_open) == {c \in C : only_open => Last(cases[c]) \in OpenStates}

(* Faulty: the list is cut before it is filtered.                          *)
Listed_CutFirst(C, only_open) == [c \in Waiting(Newest(C), only_open) |-> cases[c]]

Listed(C, only_open) == [c \in Newest(Waiting(C, only_open)) |-> cases[c]]

(* The list for a refresh of a: on loading the page, by its timer, after a *)
(* change, or for a new filter. r is the answer under way to the browser.  *)
ListCases(a, r) ==
  /\ answers[r] = Free /\ InHandler = {}
  /\ \E only_open \in BOOLEAN :
       answers' = [answers EXCEPT ![r] = [analyst |-> a, list |-> Listed(Cases, only_open)]]
  /\ UNCHANGED <<cases, clicks, boardVars, faults>>

(* SMEMBERS fails and the list is empty, or a GET does and a case is       *)
(* missing: the answer says nothing of it.                                 *)
ListCasesFails(a, r) ==
  /\ answers[r] = Free /\ InHandler = {}
  /\ Fault
  /\ \E read \in SUBSET Cases, only_open \in BOOLEAN :
       answers' = [answers EXCEPT ![r] = [analyst |-> a, list |-> Listed(read, only_open)]]
  /\ UNCHANGED <<cases, clicks, boardVars>>

(* The handler of a POST may start. That the state is one of the valid     *)
(* ones and that the case exists need no branch: boards send nothing else  *)
(* and cases are never deleted.                                            *)
Receive(q) == clicks[q].phase = "sent" /\ InHandler = {}

(* Faulty: the handler is not async, so it runs in a thread of its own.    *)
ReadCase_Threaded(q) ==
  /\ clicks[q].phase = "sent"
  /\ clicks' = [clicks EXCEPT ![q].phase = "read", ![q].raw = cases[clicks[q].case]]
  /\ UNCHANGED <<cases, answers, boardVars, faults>>

ReadCase(q) ==
  /\ Receive(q)
  /\ clicks' = [clicks EXCEPT ![q].phase = "read", ![q].raw = cases[clicks[q].case]]
  /\ UNCHANGED <<cases, answers, boardVars, faults>>

(* raw with the new state, as it is SET.                                   *)
Changed(q) ==
  [cases EXCEPT ![clicks[q].case] =
     Append(clicks[q].raw, [state |-> clicks[q].state, click |-> q])]

WriteCase(q) ==
  /\ clicks[q].phase = "read"
  /\ cases' = Changed(q)
  /\ clicks' = [clicks EXCEPT ![q].phase = "written", ![q].raw = <<>>]
  /\ UNCHANGED <<answers, boardVars, faults>>

UpdateFails(q) ==
  /\ Fault
  /\ \/ Receive(q) /\ UNCHANGED cases
     \/ clicks[q].phase = "read" /\ cases' \in {cases, Changed(q)}
  /\ clicks' = [clicks EXCEPT ![q].phase = "failed", ![q].raw = <<>>]
  /\ UNCHANGED <<answers, boardVars>>

(* The server dies with whatever it has not answered.                      *)
Restart ==
  /\ Fault
  /\ clicks' = [q \in 1 .. Len(clicks) |->
       IF clicks[q].phase \in {"sent", "read"}
       THEN [clicks[q] EXCEPT !.phase = "failed", !.raw = <<>>] ELSE clicks[q]]
  /\ UNCHANGED <<cases, answers, boardVars>>

-----------------------------------------------------------------------------
(* The browsers.                                                           *)

(* renderCases: the rows, and with them the buttons, are made anew.        *)
Show(r) ==
  /\ answers[r] # Free
  /\ view' = [view EXCEPT ![answers[r].analyst] = answers[r].list]
  /\ pressed' = [pressed EXCEPT ![answers[r].analyst] = {}]
  /\ answers' = [answers EXCEPT ![r] = Free]
  /\ UNCHANGED <<cases, clicks, faults>>

(* One of the ten requests of the refresh fails: the board stays.          *)
RefreshFails(r) ==
  /\ answers[r] # Free
  /\ answers' = [answers EXCEPT ![r] = Free]
  /\ UNCHANGED <<cases, clicks, boardVars, faults>>

(* Faulty: a button sends a state that is not one of VALID_CASE_STATES.    *)
Buttons_Unknown(state) ==
  CASE state = "abierto"          -> States \ {"abierto"}
    [] state = "en_investigacion" -> {"resuelto"}
    [] OTHER                      -> {}

Buttons(state) ==
  CASE state = "abierto"          -> States \ {"abierto"}
    [] state = "en_investigacion" -> States \ OpenStates
    [] OTHER                      -> {}

Click(a, c) ==
  /\ Len(clicks) < MaxClicks /\ c \in DOMAIN view[a]
  /\ \E s \in Buttons(Last(view[a][c])) :
       /\ <<c, s>> \notin pressed[a]
       /\ clicks' = Append(clicks, [analyst |-> a, case |-> c, state |-> s, phase |-> "sent",
                                    raw |-> <<>>, seen |-> view[a][c]])
       /\ pressed' = [pressed EXCEPT ![a] = @ \cup {<<c, s>>}]
  /\ UNCHANGED <<cases, answers, view, faults>>

(* A 500, or the connection is lost whatever the server does or goes on to *)
(* do: the analyst may press the button again. (When the answer comes, the *)
(* button stays disabled and a refresh follows.)                           *)
Alert(q) ==
  /\ <<clicks[q].case, clicks[q].state>> \in pressed[clicks[q].analyst]
  /\ pressed' = [pressed EXCEPT ![clicks[q].analyst] = @ \ {<<clicks[q].case, clicks[q].state>>}]
  /\ UNCHANGED <<cases, clicks, answers, view, faults>>

Next ==
  \/ OpenCase \/ Restart
  \/ \E r \in Answers :
       Show(r) \/ RefreshFails(r) \/ \E a \in Analysts : ListCases(a, r) \/ ListCasesFails(a, r)
  \/ \E q \in 1 .. Len(clicks) : ReadCase(q) \/ WriteCase(q) \/ UpdateFails(q) \/ Alert(q)
  \/ \E a \in Analysts, c \in Cases : Click(a, c)

Spec == Init /\ [][Next]_vars

-----------------------------------------------------------------------------
(* What the analysts can count on.                                         *)

(* No change is lost: each one the server has written is in the case's     *)
(* history exactly once, whatever the other analysts and the watcher do.   *)
(* update_case_state reads and writes back the whole case without WATCH;   *)
(* only the event loop keeps two of them apart.                            *)
NoChangeLost ==
  \A q \in 1 .. Len(clicks) : clicks[q].phase = "written" =>
    \E k \in 1 .. Len(cases[clicks[q].case]) :
      \A i \in 1 .. Len(cases[clicks[q].case]) : cases[clicks[q].case][i].click = q <=> i = k

(* Nobody changes a closed case knowingly. The server accepts any change   *)
(* in any state, but each entry of a history was decided on a board that   *)
(* showed an earlier part of that same history in which the case was open. *)
DecidedOnOpen ==
  \A c \in Cases : \A k \in 2 .. Len(cases[c]) :
    LET seen == clicks[cases[c][k].click].seen
    IN  Len(seen) < k /\ SubSeq(cases[c], 1, Len(seen)) = seen /\ Last(seen) \in OpenStates

(* What a case's history tells is what the analysts did, and all of it.    *)
HistoryIsTrue == NoChangeLost /\ DecidedOnOpen

(* The queue hides no open case but for newer cases: an answer leaves one  *)
(* out only if it is full of newer ones or Redis failed for it.            *)
QueueHonest ==
  [][\A r \in Answers : \A c \in Cases :
       (/\ answers[r] = Free /\ answers'[r] # Free /\ faults' = faults
        /\ Last(cases[c]) \in OpenStates /\ c \notin DOMAIN answers'[r].list)
       => Cardinality({d \in DOMAIN answers'[r].list : d > c}) = Limit]_vars
=============================================================================
