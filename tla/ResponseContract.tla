-------------------------- MODULE ResponseContract --------------------------
(***************************************************************************)
(* What the response layer promises the fast path, with no stream, process *)
(* or call in sight: tasks are taken in the order they were submitted, one *)
(* at a time, each at most once; one that is lost stays lost; a drop is    *)
(* asked for only on behalf of the task being processed, and only if that  *)
(* task is one R2 may act on; and a firewall is touched only because it    *)
(* was asked for, though maybe long after the task.                        *)
(***************************************************************************)
EXTENDS Naturals, Sequences

CONSTANTS
  Task,       \* what may be submitted
  Droppable   \* those of them whose address R2 may drop

VARIABLES
  tasks,    \* everything submitted, in order
  status,   \* "waiting", "started", "settled" or "lost", for each of them
  asked,    \* positions of the tasks that asked for a drop of their address
  dropped   \* positions of those for which a firewall did

vars == <<tasks, status, asked, dropped>>

Waiting == {i \in 1 .. Len(status) : status[i] = "waiting"}

Started == {i \in 1 .. Len(status) : status[i] = "started"}

Mark(s, S, value) == [i \in 1 .. Len(s) |-> IF i \in S THEN value ELSE s[i]]

Init == tasks = <<>> /\ status = <<>> /\ asked = {} /\ dropped = {}

(* A bounded queue takes the new task and may give up old ones for it.     *)
Submit(t, L) ==
  /\ L \subseteq Waiting
  /\ tasks' = Append(tasks, t)
  /\ status' = Append(Mark(status, L, "lost"), "waiting")
  /\ UNCHANGED <<asked, dropped>>

Begin(i) ==
  /\ i \in Waiting /\ Started = {}
  /\ \A j \in 1 .. i - 1 : status[j] \in {"settled", "lost"}
  /\ status' = Mark(status, {i}, "started")
  /\ UNCHANGED <<tasks, asked, dropped>>

Ask(i) ==
  /\ i \in Started \ asked
  /\ tasks[i] \in Droppable
  /\ asked' = asked \cup {i}
  /\ UNCHANGED <<tasks, status, dropped>>

Drop(i) ==
  /\ i \in asked \ dropped
  /\ dropped' = dropped \cup {i}
  /\ UNCHANGED <<tasks, status, asked>>

Settle(i) ==
  /\ i \in Started
  /\ status' = Mark(status, {i}, "settled")
  /\ UNCHANGED <<tasks, asked, dropped>>

Lose(L) ==
  /\ L \subseteq Waiting \cup Started
  /\ status' = Mark(status, L, "lost")
  /\ UNCHANGED <<tasks, asked, dropped>>

Next ==
  \/ \E t \in Task, L \in SUBSET Waiting : Submit(t, L)
  \/ \E i \in 1 .. Len(status) : Begin(i) \/ Ask(i) \/ Drop(i) \/ Settle(i)
  \/ \E L \in SUBSET (Waiting \cup Started) : Lose(L)

Spec == Init /\ [][Next]_vars
=============================================================================
