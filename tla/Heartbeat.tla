------------------------------ MODULE Heartbeat ------------------------------
(***************************************************************************)
(* The watchdog of the FIM watcher: the heartbeat that watcher.py writes   *)
(* to Redis (write_heartbeat of cases.py), heartbeat_check.py, which a     *)
(* systemd timer starts and which mails when the heartbeat is stale, and   *)
(* the traffic light of the dashboard (get_watcher_heartbeat), on one      *)
(* clock.  Times are kept as ticks since something happened, or ticks      *)
(* left, and stop counting where nothing tells them apart any more.        *)
(***************************************************************************)
EXTENDS Naturals

CONSTANTS
  Threshold,      \* STALE_THRESHOLD_HOURS (1 h), in ticks
  Cooldown,       \* ALERT_COOLDOWN_HOURS (6 h)
  Period,         \* OnUnitActiveSec of the timer (15 min)
  GreenMax,       \* HEARTBEAT_GREEN_MAX_MINUTES (15)
  YellowMax,      \* HEARTBEAT_YELLOW_MAX_MINUTES (60)
  MaxFailures     \* bound: failing calls

(* The defaults: a check comes, and ends, well within the threshold.       *)
ASSUME HeartbeatConstants ==
  /\ Period \in Nat \ {0} /\ Cooldown \in Nat \ {0}
  /\ Threshold \in Nat /\ Period + 1 <= Threshold
  /\ GreenMax \in Nat /\ YellowMax \in GreenMax .. Threshold
  /\ MaxFailures \in Nat

VARIABLES
  up,             \* does the loop of tail_alerts go round?
  due,            \* has it yet to write a heartbeat in this tick?
  known,          \* does soc:watcher:heartbeat exist?
  age,            \* ticks since it was written
  flag,           \* ticks soc:watcher:heartbeat_alert_sent has left, 0 when absent
  checkPc,        \* the call heartbeat_check is about to make
  since,          \* ticks since the timer last started it
  late,           \* has a tick passed during the check?
  \* history
  beatAfterGet,   \* was a heartbeat written after the one this check read?
  told,           \* was the present silence mailed?
  waited,         \* ticks since the last mail about it
  troubled,       \* did a check fail during the present silence?
  early,          \* mails that came within the cooldown of another one
  failures

checkVars == <<checkPc, since, late>>
mailVars  == <<beatAfterGet, told, waited, troubled, early, failures>>
watchdog  == <<up, due, known, age, flag, checkVars, mailVars>>

(* How late a mail may be: a check that starts just too early to see the   *)
(* silence, one period, and the time a check takes.                        *)
Slack  == Period + 1
Longest == IF Threshold > Cooldown THEN Threshold ELSE Cooldown
AgeMax  == Longest + Slack + Period * MaxFailures + 1
WaitMax == Cooldown + Slack + 1

Least(m, n) == IF m <= n THEN m ELSE n

TypesOK ==
  /\ up \in BOOLEAN /\ due \in BOOLEAN /\ known \in BOOLEAN /\ late \in BOOLEAN
  /\ age \in 0 .. AgeMax /\ flag \in 0 .. Cooldown /\ since \in 0 .. Period
  /\ checkPc \in {"idle", "get", "reset", "exists", "mail", "flag"}
  /\ beatAfterGet \in BOOLEAN /\ told \in BOOLEAN /\ troubled \in BOOLEAN
  /\ waited \in 0 .. WaitMax /\ early \in Nat /\ failures \in 0 .. MaxFailures

WatchdogInit ==
  /\ up \in BOOLEAN /\ due = up
  /\ known = FALSE /\ age = 0 /\ flag = 0
  /\ checkPc = "idle" /\ since \in 0 .. Period /\ late = FALSE
  /\ beatAfterGet = FALSE /\ told = FALSE /\ waited = 0 /\ troubled = FALSE
  /\ early = 0 /\ failures = 0

Failure == failures < MaxFailures /\ failures' = failures + 1

-----------------------------------------------------------------------------
(* The watcher: up, or dead, stopped or held up in handle_alert.           *)

Toggle ==
  /\ up' = ~up /\ due' = ~up
  /\ UNCHANGED <<known, age, flag, checkVars, mailVars>>

(* write_heartbeat, every HEARTBEAT_INTERVAL_SECONDS: a silence ends.      *)
Beat ==
  /\ up
  /\ known' = TRUE /\ age' = 0 /\ due' = FALSE
  /\ beatAfterGet' = TRUE
  /\ told' = FALSE /\ waited' = 0 /\ troubled' = FALSE
  /\ UNCHANGED <<up, flag, checkVars, early, failures>>

(* Redis does not answer: logged, and not tried again before the interval. *)
BeatFails ==
  /\ due
  /\ Failure
  /\ due' = FALSE
  /\ UNCHANGED <<up, known, age, flag, checkVars, beatAfterGet, told, waited, troubled, early>>

(* A watcher that is up has written its heartbeat, the timer has fired     *)
(* when its period is over, and a check lasts at most a tick.              *)
ClockTick ==
  /\ ~due
  /\ IF checkPc = "idle" THEN since < Period ELSE ~late
  /\ age' = Least(age + 1, AgeMax)
  /\ flag' = IF flag > 0 THEN flag - 1 ELSE 0
  /\ since' = Least(since + 1, Period)
  /\ late' = (checkPc # "idle")
  /\ waited' = IF told THEN Least(waited + 1, WaitMax) ELSE 0
  /\ due' = up
  /\ UNCHANGED <<up, known, checkPc, beatAfterGet, told, troubled, early, failures>>

-----------------------------------------------------------------------------
(* heartbeat_check.check.                                                  *)

StartCheck ==
  /\ checkPc = "idle" /\ since = Period
  /\ checkPc' = "get" /\ since' = 0 /\ late' = FALSE
  /\ UNCHANGED <<up, due, known, age, flag, mailVars>>

Stale == known => age > Threshold

Get ==
  /\ checkPc = "get"
  /\ checkPc' = IF Stale THEN "exists" ELSE "reset"
  /\ beatAfterGet' = FALSE
  /\ UNCHANGED <<up, due, known, age, flag, since, late, told, waited, troubled, early,
                 failures>>

End == checkPc' = "idle" /\ late' = FALSE /\ UNCHANGED since

(* Faulty: the flag is left to expire.                                     *)
Reset_Keeps ==
  /\ checkPc = "reset"
  /\ End
  /\ UNCHANGED <<up, due, known, age, flag, mailVars>>

(* Recovered: the flag is deleted.                                         *)
Reset ==
  /\ checkPc = "reset"
  /\ flag' = 0
  /\ End
  /\ UNCHANGED <<up, due, known, age, mailVars>>

Exists ==
  /\ checkPc = "exists"
  /\ IF flag > 0 THEN End ELSE checkPc' = "mail" /\ UNCHANGED <<since, late>>
  /\ UNCHANGED <<up, due, known, age, flag, mailVars>>

(* A mail reaches the operator; it is about the silence that was read.     *)
Delivered ==
  /\ told' = (told \/ ~beatAfterGet)
  /\ waited' = IF beatAfterGet THEN waited ELSE 0
  /\ early' = IF told /\ ~beatAfterGet /\ waited < Cooldown THEN early + 1 ELSE early

Mail ==
  /\ checkPc = "mail"
  /\ Delivered
  /\ checkPc' = "flag"
  /\ UNCHANGED <<up, due, known, age, flag, since, late, beatAfterGet, troubled, failures>>

(* send_case_email returns False, for a mail that left or one that did not. *)
AlertMailFails ==
  /\ checkPc = "mail"
  /\ Failure
  /\ Delivered \/ UNCHANGED <<told, waited, early>>
  /\ troubled' = TRUE
  /\ End
  /\ UNCHANGED <<up, due, known, age, flag, beatAfterGet>>

(* Faulty: hours are taken for half hours.                                 *)
SetFlag_Twice ==
  /\ checkPc = "flag"
  /\ flag' = 2 * Cooldown
  /\ End
  /\ UNCHANGED <<up, due, known, age, mailVars>>

(* Faulty: the flag lives for one tick.                                    *)
SetFlag_Short ==
  /\ checkPc = "flag"
  /\ flag' = 1
  /\ End
  /\ UNCHANGED <<up, due, known, age, mailVars>>

SetFlag ==
  /\ checkPc = "flag"
  /\ flag' = Cooldown
  /\ End
  /\ UNCHANGED <<up, due, known, age, mailVars>>

(* Redis fails, or the process is killed: the check ends where it stands;  *)
(* the DEL or the SET may have reached Redis.                              *)
CheckFails ==
  /\ checkPc # "idle"
  /\ Failure
  /\ flag' \in {flag} \cup (IF checkPc = "reset" THEN {0}
                            ELSE IF checkPc = "flag" THEN {Cooldown} ELSE {})
  /\ troubled' = TRUE
  /\ End
  /\ UNCHANGED <<up, due, known, age, beatAfterGet, told, waited, early>>

WatchdogNext ==
  \/ Toggle \/ Beat \/ BeatFails \/ ClockTick
  \/ StartCheck \/ Get \/ Reset \/ Exists \/ Mail \/ AlertMailFails \/ SetFlag \/ CheckFails

Watchdog == WatchdogInit /\ [][WatchdogNext]_watchdog

-----------------------------------------------------------------------------
(* get_watcher_heartbeat.                                                  *)

Light ==
  CASE ~known                          -> "red"
    [] known /\ age < GreenMax         -> "green"
    [] known /\ GreenMax <= age /\ age < YellowMax -> "yellow"
    [] OTHER                           -> "red"

-----------------------------------------------------------------------------
(* Properties.                                                             *)

(* A silence is mailed one period and one check after the threshold at the *)
(* latest, whatever flag an earlier outage left and however the watcher    *)
(* comes and goes, and again when the cooldown is over, as long as no      *)
(* check failed meanwhile; one that failed delays the mail by a period, or *)
(* by the cooldown of a flag it did not delete. The board shows red for    *)
(* what was mailed.                                                        *)
OutageIsMailed ==
  /\ age > Threshold + Slack /\ ~troubled => told /\ waited <= Cooldown + Slack
  /\ age > Longest + Slack + Period * failures => told
  /\ told => Light = "red"

(* "No se repetira este aviso por 6h mientras la caida persista": a second *)
(* mail about one silence within the cooldown takes a failing call, and    *)
(* each failing call repeats one at most.                                  *)
MailsAreSpaced == early <= failures
=============================================================================
