--------------------------- MODULE FimWatcher_proofs ---------------------------
(***************************************************************************)
(* Proofs about the FIM watcher.                                           *)
(*                                                                         *)
(* Heartbeat: its types, that mails about one silence are a cooldown apart *)
(* unless a call fails, and that every silence is mailed in time, for      *)
(* every threshold, cooldown and period and any number of failures.        *)
(*                                                                         *)
(* FimResponse: its types, what the quarantine keeps and the cases the     *)
(* watcher opens, for any files, uploads, restorations, seconds and        *)
(* failures.                                                               *)
(***************************************************************************)
EXTENDS Heartbeat, FimResponse, SequenceTheorems, FiniteSetTheorems, TLAPS

-----------------------------------------------------------------------------
(* The watchdog.                                                           *)

(* Is there a mail without a flag that lasts as long as its cooldown, and  *)
(* no check about to set one?                                              *)
Owed == told /\ waited + flag < Cooldown /\ ~(checkPc = "flag" /\ ~beatAfterGet)

Debt == IF Owed THEN 1 ELSE 0

(* What was mailed is still a silence; a check that found one is right     *)
(* about it until a heartbeat comes; one that found none deletes the flag  *)
(* of no mailed silence; a check that mails does so without a flag.        *)
SilenceInv ==
  /\ told => Stale
  /\ checkPc \in {"exists", "mail", "flag"} /\ ~beatAfterGet => Stale
  /\ checkPc = "reset" => ~told
  /\ checkPc \in {"mail", "flag"} => flag = 0

(* A failing call pays for a mail that is early, or for one that is owed.  *)
DebtInv == early + Debt <= failures

WatchdogInv == TypesOK /\ SilenceInv /\ DebtInv

(* The bounds of the counters are above what they are compared with.       *)
LEMMA Bounds ==
  /\ Slack \in Nat /\ Longest \in Nat /\ AgeMax \in Nat /\ WaitMax \in Nat
  /\ AgeMax > Threshold /\ WaitMax > Cooldown
<1>1. Period * MaxFailures \in Nat  BY HeartbeatConstants
<1>2. Longest \in Nat /\ Longest >= Threshold  BY HeartbeatConstants DEF Longest
<1>. QED  BY <1>1, <1>2, HeartbeatConstants DEF Slack, AgeMax, WaitMax

(* The types, the truth values apart from the rest.                        *)
Flags ==
  /\ up \in BOOLEAN /\ due \in BOOLEAN /\ known \in BOOLEAN /\ late \in BOOLEAN
  /\ beatAfterGet \in BOOLEAN /\ told \in BOOLEAN /\ troubled \in BOOLEAN

Counts ==
  /\ age \in 0 .. AgeMax /\ flag \in 0 .. Cooldown /\ since \in 0 .. Period
  /\ checkPc \in {"idle", "get", "reset", "exists", "mail", "flag"}
  /\ waited \in 0 .. WaitMax /\ early \in Nat /\ failures \in 0 .. MaxFailures

LEMMA TypeParts == TypesOK <=> Flags /\ Counts
BY DEF TypesOK, Flags, Counts

LEMMA FlagsStep == Flags /\ [WatchdogNext]_watchdog => Flags'
<1>. SUFFICES ASSUME Flags, [WatchdogNext]_watchdog PROVE Flags'  OBVIOUS
<1>. USE DEF Flags
<1>1. CASE Toggle      BY <1>1, Zenon DEF Toggle, checkVars, mailVars
<1>2. CASE Beat        BY <1>2, Zenon DEF Beat, checkVars
<1>3. CASE BeatFails   BY <1>3, Zenon DEF BeatFails, checkVars
<1>4. CASE ClockTick        BY <1>4, Zenon DEF ClockTick
<1>5. CASE StartCheck  BY <1>5, Zenon DEF StartCheck, mailVars
<1>6. CASE Get         BY <1>6, Zenon DEF Get
<1>7. CASE Reset       BY <1>7, Zenon DEF Reset, End, mailVars
<1>8. CASE Exists
  <2>1. late' \in BOOLEAN  BY <1>8, Zenon DEF Exists, End
  <2>. QED  BY <1>8, <2>1, Zenon DEF Exists, mailVars
<1>9. CASE Mail        BY <1>9, Zenon DEF Mail, Delivered
<1>10. CASE AlertMailFails
  <2>1. told' \in BOOLEAN  BY <1>10, Zenon DEF AlertMailFails, Delivered
  <2>. QED  BY <1>10, <2>1, Zenon DEF AlertMailFails, End
<1>11. CASE SetFlag    BY <1>11, Zenon DEF SetFlag, End, mailVars
<1>12. CASE CheckFails BY <1>12, Zenon DEF CheckFails, End
<1>13. CASE UNCHANGED watchdog  BY <1>13, Zenon DEF watchdog, checkVars, mailVars
<1>. QED  BY <1>1, <1>2, <1>3, <1>4, <1>5, <1>6, <1>7, <1>8, <1>9, <1>10, <1>11,
             <1>12, <1>13 DEF WatchdogNext

LEMMA CountsStep == Counts /\ [WatchdogNext]_watchdog => Counts'
<1>. SUFFICES ASSUME Counts, [WatchdogNext]_watchdog PROVE Counts'  OBVIOUS
<1>. USE Bounds, HeartbeatConstants DEF Counts
<1>1. CASE Toggle      BY <1>1 DEF Toggle, checkVars, mailVars
<1>2. CASE Beat        BY <1>2 DEF Beat, checkVars
<1>3. CASE BeatFails   BY <1>3 DEF BeatFails, Failure, checkVars
<1>4. CASE ClockTick
  <2>1. age' \in 0 .. AgeMax  BY <1>4 DEF ClockTick, Least
  <2>2. since' \in 0 .. Period  BY <1>4 DEF ClockTick, Least
  <2>3. waited' \in 0 .. WaitMax  BY <1>4 DEF ClockTick, Least
  <2>4. flag' \in 0 .. Cooldown  BY <1>4 DEF ClockTick
  <2>. QED  BY <1>4, <2>1, <2>2, <2>3, <2>4 DEF ClockTick
<1>5. CASE StartCheck  BY <1>5 DEF StartCheck, mailVars
<1>6. CASE Get         BY <1>6 DEF Get
<1>7. CASE Reset       BY <1>7 DEF Reset, End, mailVars
<1>8. CASE Exists      BY <1>8 DEF Exists, End, mailVars
<1>9. CASE Mail
  <2>1. waited' \in 0 .. WaitMax /\ early' \in Nat  BY <1>9 DEF Mail, Delivered
  <2>. QED  BY <1>9, <2>1 DEF Mail
<1>10. CASE AlertMailFails
  <2>1. waited' \in 0 .. WaitMax /\ early' \in Nat  BY <1>10 DEF AlertMailFails, Delivered
  <2>. QED  BY <1>10, <2>1 DEF AlertMailFails, Failure, End
<1>11. CASE SetFlag    BY <1>11 DEF SetFlag, End, mailVars
<1>12. CASE CheckFails
  <2>1. flag' \in 0 .. Cooldown  BY <1>12 DEF CheckFails
  <2>. QED  BY <1>12, <2>1 DEF CheckFails, Failure, End
<1>13. CASE UNCHANGED watchdog  BY <1>13 DEF watchdog, checkVars, mailVars
<1>. QED  BY <1>1, <1>2, <1>3, <1>4, <1>5, <1>6, <1>7, <1>8, <1>9, <1>10, <1>11,
             <1>12, <1>13 DEF WatchdogNext

(* The variables have their types, the counters stay within their bounds.  *)
LEMMA TypesInit == WatchdogInit => TypesOK
<1>. SUFFICES ASSUME WatchdogInit PROVE TypesOK  OBVIOUS
<1>1. Flags  BY Zenon DEF WatchdogInit, Flags
<1>2. Counts  BY Bounds, HeartbeatConstants DEF WatchdogInit, Counts
<1>. QED  BY <1>1, <1>2, TypeParts

LEMMA TypesStep == TypesOK /\ [WatchdogNext]_watchdog => TypesOK'
<1>1. (TypesOK <=> Flags /\ Counts)'  BY DEF TypesOK, Flags, Counts
<1>. QED  BY <1>1, TypeParts, FlagsStep, CountsStep

-----------------------------------------------------------------------------

LEMMA SilenceStep == TypesOK /\ SilenceInv /\ [WatchdogNext]_watchdog => SilenceInv'
<1>. SUFFICES ASSUME TypesOK, SilenceInv, [WatchdogNext]_watchdog PROVE SilenceInv'  OBVIOUS
<1>. USE DEF TypesOK, SilenceInv, Stale
<1>1. CASE Toggle      BY <1>1 DEF Toggle, checkVars, mailVars
<1>2. CASE Beat        BY <1>2 DEF Beat, checkVars
<1>3. CASE BeatFails   BY <1>3 DEF BeatFails, checkVars
<1>4. CASE ClockTick
  <2>1. Stale => Stale'
    BY <1>4, Bounds, HeartbeatConstants DEF ClockTick, Least
  <2>. QED  BY <1>4, <2>1 DEF ClockTick
<1>5. CASE StartCheck  BY <1>5 DEF StartCheck, mailVars
<1>6. CASE Get         BY <1>6 DEF Get
<1>7. CASE Reset       BY <1>7 DEF Reset, End, mailVars
<1>8. CASE Exists      BY <1>8 DEF Exists, End, mailVars
<1>9. CASE Mail        BY <1>9 DEF Mail, Delivered
<1>10. CASE AlertMailFails  BY <1>10 DEF AlertMailFails, Delivered, End
<1>11. CASE SetFlag    BY <1>11 DEF SetFlag, End, mailVars
<1>12. CASE CheckFails BY <1>12 DEF CheckFails, End
<1>13. CASE UNCHANGED watchdog  BY <1>13 DEF watchdog, checkVars, mailVars
<1>. QED  BY <1>1, <1>2, <1>3, <1>4, <1>5, <1>6, <1>7, <1>8, <1>9, <1>10, <1>11,
             <1>12, <1>13 DEF WatchdogNext

(* Where no mail leaves and no call fails, nothing new is owed.            *)
LEMMA NoNewDebt ==
  ASSUME TypesOK, DebtInv, early' = early, failures' = failures, Owed' => Owed
  PROVE  DebtInv'
BY DEF TypesOK, DebtInv, Debt

(* A failing call pays for one more.                                       *)
LEMMA FaultPays ==
  ASSUME failures \in Nat, early' \in Nat, early' <= failures, failures' = failures + 1
  PROVE  DebtInv'
<1>1. early' + 1 <= failures + 1 /\ early' + 0 <= failures + 1
  <2>1. \A e \in Nat, f \in Nat : e <= f => e + 1 <= f + 1 /\ e + 0 <= f + 1  OBVIOUS
  <2>. QED  BY <2>1
<1>2. early' + 1 <= failures' /\ early' + 0 <= failures'  BY <1>1
<1>3. Debt' = 0 \/ Debt' = 1  BY DEF Debt
<1>4. early' + Debt' <= failures'  BY <1>2, <1>3
<1>. QED  BY <1>4 DEF DebtInv

LEMMA EarlyBound == TypesOK /\ DebtInv
     => failures \in Nat /\ early \in Nat /\ early <= failures
BY HeartbeatConstants DEF TypesOK, DebtInv, Debt

(* A mail that leaves is early only if the one before it was owed.         *)
LEMMA DeliveredIsPaid ==
  ASSUME TypesOK, SilenceInv, DebtInv, Delivered, checkPc = "mail"
  PROVE  early' <= failures /\ early' \in Nat
BY DEF TypesOK, SilenceInv, DebtInv, Debt, Owed, Delivered

LEMMA DebtStep == TypesOK /\ SilenceInv /\ DebtInv /\ [WatchdogNext]_watchdog => DebtInv'
<1>. SUFFICES ASSUME TypesOK, SilenceInv, DebtInv, [WatchdogNext]_watchdog
     PROVE DebtInv'  OBVIOUS
<1>1. CASE Toggle
  <2>1. Owed' => Owed  BY <1>1 DEF Owed, Toggle, checkVars, mailVars
  <2>. QED  BY <1>1, <2>1, NoNewDebt DEF Toggle, mailVars
<1>2. CASE Beat
  <2>1. ~Owed'  BY <1>2 DEF Owed, Beat
  <2>. QED  BY <1>2, <2>1, NoNewDebt DEF Beat
<1>3. CASE BeatFails
  BY <1>3, FaultPays, EarlyBound DEF BeatFails, Failure
<1>4. CASE ClockTick
  <2>1. told => waited' + flag' >= Cooldown \/ waited' + flag' >= waited + flag
    BY <1>4, Bounds, HeartbeatConstants DEF ClockTick, Least, TypesOK
  <2>2. waited' + flag' \in Nat /\ waited + flag \in Nat
    BY <1>4, Bounds, HeartbeatConstants DEF ClockTick, Least, TypesOK
  <2>3. Owed' => Owed
    BY <1>4, <2>1, <2>2, HeartbeatConstants DEF Owed, ClockTick
  <2>. QED  BY <1>4, <2>3, NoNewDebt DEF ClockTick
<1>5. CASE StartCheck
  <2>1. Owed' => Owed  BY <1>5 DEF Owed, StartCheck, mailVars
  <2>. QED  BY <1>5, <2>1, NoNewDebt DEF StartCheck, mailVars
<1>6. CASE Get
  <2>1. Owed' => Owed  BY <1>6 DEF Owed, Get
  <2>. QED  BY <1>6, <2>1, NoNewDebt DEF Get
<1>7. CASE Reset
  <2>1. ~Owed'  BY <1>7 DEF Owed, Reset, SilenceInv, mailVars
  <2>. QED  BY <1>7, <2>1, NoNewDebt DEF Reset, mailVars
<1>8. CASE Exists
  <2>1. Owed' => Owed  BY <1>8 DEF Owed, Exists, End, mailVars
  <2>. QED  BY <1>8, <2>1, NoNewDebt DEF Exists, mailVars
<1>9. CASE Mail
  <2>1. CASE beatAfterGet
    <3>1. Owed' => Owed  BY <1>9, <2>1 DEF Owed, Mail, Delivered, TypesOK
    <3>2. early' = early  BY <1>9, <2>1 DEF Mail, Delivered
    <3>. QED  BY <1>9, <3>1, <3>2, NoNewDebt DEF Mail
  <2>2. CASE ~beatAfterGet
    <3>1. ~Owed'  BY <1>9, <2>2 DEF Owed, Mail
    <3>2. early' <= failures /\ early' \in Nat  BY <1>9, DeliveredIsPaid DEF Mail
    <3>. QED  BY <1>9, <3>1, <3>2 DEF Mail, DebtInv, Debt
  <2>. QED  BY <2>1, <2>2
<1>10. CASE AlertMailFails
  <2>1. CASE Delivered
    <3>1. early' <= failures /\ early' \in Nat
      BY <1>10, <2>1, DeliveredIsPaid DEF AlertMailFails
    <3>2. failures' = failures + 1 /\ failures \in Nat
      BY <1>10 DEF AlertMailFails, Failure, TypesOK
    <3>. QED  BY <3>1, <3>2, FaultPays
  <2>2. CASE UNCHANGED <<told, waited, early>>
    BY <1>10, <2>2, FaultPays, EarlyBound DEF AlertMailFails, Failure
  <2>. QED  BY <1>10, <2>1, <2>2 DEF AlertMailFails
<1>11. CASE SetFlag
  <2>1. ~Owed'
    BY <1>11, HeartbeatConstants DEF Owed, SetFlag, mailVars, TypesOK
  <2>. QED  BY <1>11, <2>1, NoNewDebt DEF SetFlag, mailVars
<1>12. CASE CheckFails
  BY <1>12, FaultPays, EarlyBound DEF CheckFails, Failure
<1>13. CASE UNCHANGED watchdog
  <2>1. Owed' => Owed  BY <1>13 DEF Owed, watchdog, checkVars, mailVars
  <2>. QED  BY <1>13, <2>1, NoNewDebt DEF watchdog, mailVars
<1>. QED  BY <1>1, <1>2, <1>3, <1>4, <1>5, <1>6, <1>7, <1>8, <1>9, <1>10, <1>11,
             <1>12, <1>13 DEF WatchdogNext

-----------------------------------------------------------------------------

LEMMA WatchdogInductive == Watchdog => []WatchdogInv
<1>1. WatchdogInit => WatchdogInv
  <2>1. WatchdogInit => TypesOK  BY TypesInit
  <2>2. WatchdogInit => SilenceInv  BY DEF WatchdogInit, SilenceInv, Stale
  <2>3. WatchdogInit => DebtInv  BY DEF WatchdogInit, DebtInv, Debt, Owed
  <2>. QED  BY <2>1, <2>2, <2>3 DEF WatchdogInv
<1>2. WatchdogInv /\ [WatchdogNext]_watchdog => WatchdogInv'
  BY TypesStep, SilenceStep, DebtStep DEF WatchdogInv
<1>. QED  BY <1>1, <1>2, PTL DEF Watchdog

(* The types of heartbeat_check's state and of the watcher's, and that no  *)
(* flag outlives the cooldown it was set for.                              *)
THEOREM TypeIsKept == Watchdog => []TypesOK
<1>1. WatchdogInv => TypesOK  BY DEF WatchdogInv
<1>. QED  BY <1>1, WatchdogInductive, PTL

(* check mails one silence again within the cooldown at most once for each *)
(* call that failed: a heartbeat, a DEL or a SET that comes between its    *)
(* GET and its mail gives no further mail.                                 *)
THEOREM MailsKeepTheCooldown == Watchdog => []MailsAreSpaced
<1>1. WatchdogInv => MailsAreSpaced
  BY EarlyBound DEF WatchdogInv, MailsAreSpaced
<1>. QED  BY <1>1, WatchdogInductive, PTL

-----------------------------------------------------------------------------
(* A silence is mailed in time.                                            *)

(* A check takes a tick at most.                                           *)
ClockInv == checkPc # "idle" => since <= 1 /\ (~late => since = 0)

(* Until a check has read the heartbeat of this silence, no more than its  *)
(* period and a tick have passed, unless one failed.                       *)
BeatInv ==
  /\ beatAfterGet => known /\ ~told
  /\ checkPc = "flag" => told \/ beatAfterGet
  /\ beatAfterGet /\ checkPc \notin {"idle", "get"} => age <= since
  /\ beatAfterGet /\ ~troubled => age <= since \/ (checkPc = "get" /\ age <= Period + since)

(* A flag an earlier outage left is deleted by the first check, or, when   *)
(* that one failed, is gone a cooldown after the heartbeat.                *)
FlagInv ==
  /\ ~beatAfterGet /\ ~troubled /\ ~told /\ checkPc # "reset" => flag = 0
  /\ ~told /\ flag > 0 => age + flag <= Cooldown + 1

(* What a check in progress may add.                                       *)
Grace == IF checkPc \in {"get", "exists", "mail"} THEN Period + since ELSE since

(* What failing calls may add: a period each.                              *)
Delays == Period * failures

(* A silence nobody was told of is short; the last mail about one that was *)
(* told is not long ago.                                                   *)
SoonInv  == ~told /\ ~troubled => age <= Threshold + Grace
LaterInv == ~told => age <= Longest + Delays + Grace
AgainInv ==
  told /\ ~troubled =>
    /\ waited <= Cooldown + Grace
    /\ checkPc = "flag" => waited <= since
    /\ flag > 0 => waited + flag <= Cooldown + 1

MailInv == BeatInv /\ FlagInv /\ SoonInv /\ LaterInv /\ AgainInv

(* A failing mail ends the check, for better or worse.                     *)
LEMMA MailFailsEnds ==
  ASSUME TypesOK, AlertMailFails
  PROVE  /\ checkPc' = "idle" /\ troubled' /\ UNCHANGED <<known, age, flag, since, beatAfterGet>>
         /\ told => told'
         /\ beatAfterGet /\ told' => told
         /\ failures' = failures + 1
<1>1. /\ checkPc' = "idle" /\ troubled' /\ UNCHANGED <<known, age, flag, since, beatAfterGet>>
      /\ failures' = failures + 1
  BY DEF AlertMailFails, End, Failure
<1>2. told \in BOOLEAN /\ beatAfterGet \in BOOLEAN
  BY DEF TypesOK
<1>3. (told => told') /\ (beatAfterGet /\ told' => told)
  <2>1. CASE UNCHANGED told
    BY <2>1
  <2>2. CASE told' = (told \/ ~beatAfterGet)
    <3>1. CASE told
      <4>1. (told \/ ~beatAfterGet) = TRUE
        BY <3>1
      <4>. QED  BY <2>2, <3>1, <4>1
    <3>2. CASE ~told /\ beatAfterGet
      <4>1. (told \/ ~beatAfterGet) = FALSE
        BY <3>2
      <4>. QED  BY <2>2, <3>2, <4>1
    <3>. QED  BY <3>1, <3>2
  <2>. QED  BY <2>1, <2>2 DEF AlertMailFails, Delivered
<1>. QED  BY <1>1, <1>3

LEMMA ClockStep == TypesOK /\ ClockInv /\ [WatchdogNext]_watchdog => ClockInv'
<1>. SUFFICES ASSUME TypesOK, ClockInv, [WatchdogNext]_watchdog PROVE ClockInv'  OBVIOUS
<1>. USE DEF ClockInv
<1>1. CASE ClockTick
  <2>1. /\ checkPc' = checkPc
        /\ checkPc # "idle" => ~late /\ late' /\ since' = Least(since + 1, Period)
    BY <1>1, Zenon DEF ClockTick
  <2>2. Least(1, Period) = 1 /\ 0 + 1 = 1
    BY HeartbeatConstants DEF Least
  <2>3. checkPc # "idle" => since' = 1
    BY <2>1, <2>2
  <2>. QED  BY <2>1, <2>3
<1>2. CASE StartCheck
  BY <1>2 DEF StartCheck
<1>3. CASE Reset \/ Exists \/ AlertMailFails \/ SetFlag \/ CheckFails
  BY <1>3 DEF Reset, Exists, AlertMailFails, SetFlag, CheckFails, End
<1>4. CASE Toggle \/ Beat \/ BeatFails \/ Get \/ Mail \/ UNCHANGED watchdog
  BY <1>4 DEF Toggle, Beat, BeatFails, Get, Mail, watchdog, checkVars
<1>. QED  BY <1>1, <1>2, <1>3, <1>4 DEF WatchdogNext

LEMMA BeatStep == TypesOK /\ ClockInv /\ BeatInv /\ [WatchdogNext]_watchdog => BeatInv'
<1>. SUFFICES ASSUME TypesOK, ClockInv, BeatInv, [WatchdogNext]_watchdog
     PROVE BeatInv'  OBVIOUS
<1>. USE DEF BeatInv
<1>1. /\ age \in Nat /\ since \in Nat /\ since <= Period /\ Period \in Nat \ {0}
      /\ checkPc \in {"idle", "get", "reset", "exists", "mail", "flag"}
  BY HeartbeatConstants, Bounds DEF TypesOK
<1>2. CASE Toggle \/ BeatFails \/ UNCHANGED watchdog
  BY <1>2 DEF Toggle, BeatFails, watchdog, checkVars, mailVars
<1>3. CASE Beat
  <2>1. age' = 0 /\ since' = since /\ known' = TRUE /\ told' = FALSE /\ beatAfterGet' = TRUE
      /\ checkPc' = checkPc
    BY <1>3 DEF Beat, checkVars
  <2>. QED  BY <1>1, <2>1
<1>4. CASE ClockTick
  <2>1. age' <= age + 1 /\ age' \in Nat
    BY <1>1, <1>4, Bounds DEF ClockTick, Least
  <2>2. since' = since + 1
    BY <1>1, <1>4 DEF ClockTick, Least, ClockInv
  <2>3. UNCHANGED <<known, told, beatAfterGet, troubled, checkPc>>
    BY <1>4 DEF ClockTick
  <2>. QED  BY <1>1, <2>1, <2>2, <2>3
<1>5. CASE StartCheck
  BY <1>1, <1>5 DEF StartCheck, mailVars
<1>6. CASE Get
  BY <1>6 DEF Get
<1>7. CASE Reset \/ Exists \/ SetFlag
  BY <1>7 DEF Reset, Exists, SetFlag, End, mailVars
<1>8. CASE Mail
  BY <1>8 DEF Mail, Delivered
<1>9. CASE AlertMailFails
  BY <1>9, MailFailsEnds DEF AlertMailFails
<1>10. CASE CheckFails
  BY <1>10 DEF CheckFails, End
<1>. QED  BY <1>2, <1>3, <1>4, <1>5, <1>6, <1>7, <1>8, <1>9, <1>10 DEF WatchdogNext

(* A check that reads a heartbeat no check has read finds it fresh, unless *)
(* one failed.                                                             *)
LEMMA FirstReadIsFresh ==
  TypesOK /\ ClockInv /\ BeatInv /\ checkPc = "get" /\ beatAfterGet /\ ~troubled => ~Stale
BY HeartbeatConstants, Bounds DEF TypesOK, ClockInv, BeatInv, Stale

LEMMA FlagStep == TypesOK /\ ClockInv /\ SilenceInv /\ BeatInv /\ FlagInv /\ [WatchdogNext]_watchdog
     => FlagInv'
<1>. SUFFICES ASSUME TypesOK, ClockInv, SilenceInv, BeatInv, FlagInv,
                    [WatchdogNext]_watchdog
     PROVE FlagInv'
  OBVIOUS
<1>. USE DEF FlagInv
<1>1. /\ age \in Nat /\ since \in Nat /\ since <= Period /\ Period \in Nat \ {0}
      /\ flag \in Nat /\ Cooldown \in Nat \ {0} /\ flag <= Cooldown
      /\ checkPc \in {"idle", "get", "reset", "exists", "mail", "flag"}
  BY HeartbeatConstants, Bounds DEF TypesOK
<1>2. CASE Toggle \/ BeatFails \/ UNCHANGED watchdog
  BY <1>2 DEF Toggle, BeatFails, watchdog, checkVars, mailVars
<1>3. CASE Beat
  BY <1>1, <1>3 DEF Beat
<1>4. CASE ClockTick
  <2>1. age' <= age + 1 /\ age' \in Nat /\ flag' = IF flag > 0 THEN flag - 1 ELSE 0
    BY <1>1, <1>4, Bounds DEF ClockTick, Least
  <2>2. UNCHANGED <<told, beatAfterGet, troubled, checkPc>>
    BY <1>4 DEF ClockTick
  <2>3. PICK a, f, b, g \in Nat : a = age /\ f = flag /\ b = age' /\ g = flag'
    BY <1>1, <2>1
  <2>4. (f > 0 => b <= a + 1 /\ g = f - 1) /\ (f = 0 => g = 0)
    BY <2>1, <2>3
  <2>5. g > 0 => f > 0 /\ (a + f <= Cooldown + 1 => b + g <= Cooldown + 1)
    BY <1>1, <2>4
  <2>6. flag = 0 => flag' = 0
    BY <2>1
  <2>7. age + flag = a + f /\ age' + flag' = b + g
    BY <2>3
  <2>. QED  BY <2>2, <2>3, <2>5, <2>6, <2>7
<1>5. CASE StartCheck
  BY <1>5 DEF StartCheck, mailVars
<1>6. CASE Get
  <2>1. beatAfterGet /\ ~troubled => checkPc' = "reset"
    BY <1>6, FirstReadIsFresh DEF Get
  <2>. QED  BY <1>6, <2>1 DEF Get
<1>7. CASE Reset
  BY <1>7 DEF Reset, mailVars
<1>8. CASE Exists
  BY <1>8 DEF Exists, mailVars
<1>9. CASE Mail
  BY <1>9 DEF Mail, Delivered
<1>10. CASE AlertMailFails
  BY <1>10, MailFailsEnds
<1>11. CASE SetFlag
  <2>1. ~told => age <= 1 /\ beatAfterGet
    BY <1>1, <1>11 DEF SetFlag, BeatInv, ClockInv
  <2>. QED  BY <1>1, <1>11, <2>1 DEF SetFlag, mailVars
<1>12. CASE CheckFails
  <2>1. checkPc = "flag" /\ ~told => age <= 1
    BY <1>1, <1>12 DEF BeatInv, ClockInv
  <2>2. /\ flag' \in {flag, 0} \/ (checkPc = "flag" /\ flag' = Cooldown)
        /\ told' = told /\ age' = age /\ troubled'
    BY <1>12 DEF CheckFails
  <2>. QED  BY <1>1, <2>1, <2>2
<1>. QED
  BY <1>2, <1>3, <1>4, <1>5, <1>6, <1>7, <1>8, <1>9, <1>10, <1>11, <1>12 DEF WatchdogNext

LEMMA SoonStep ==
  TypesOK /\ ClockInv /\ SilenceInv /\ BeatInv /\ FlagInv /\ SoonInv /\ [WatchdogNext]_watchdog
     => SoonInv'
<1>. SUFFICES ASSUME TypesOK, ClockInv, SilenceInv, BeatInv, FlagInv, SoonInv,
                    [WatchdogNext]_watchdog
     PROVE SoonInv'
  OBVIOUS
<1>. USE DEF SoonInv, Grace
<1>1. /\ age \in Nat /\ since \in Nat /\ since <= Period
      /\ Period \in Nat \ {0} /\ Threshold \in Nat
      /\ checkPc \in {"idle", "get", "reset", "exists", "mail", "flag"}
  BY HeartbeatConstants, Bounds DEF TypesOK
<1>2. CASE Toggle \/ BeatFails \/ UNCHANGED watchdog
  BY <1>2 DEF Toggle, BeatFails, watchdog, checkVars, mailVars
<1>3. CASE Beat
  BY <1>1, <1>3 DEF Beat, checkVars
<1>4. CASE ClockTick
  <2>1. age' <= age + 1 /\ age' \in Nat
    BY <1>1, <1>4, Bounds DEF ClockTick, Least
  <2>2. since' = since + 1
    BY <1>1, <1>4 DEF ClockTick, Least, ClockInv
  <2>3. UNCHANGED <<told, troubled, checkPc>>
    BY <1>4 DEF ClockTick
  <2>. QED  BY <1>1, <2>1, <2>2, <2>3
<1>5. CASE StartCheck
  BY <1>1, <1>5 DEF StartCheck, mailVars
<1>6. CASE Get
  <2>1. checkPc' = "reset" => age <= Threshold
    BY <1>1, <1>6 DEF Get, Stale
  <2>. QED  BY <1>1, <1>6, <2>1 DEF Get
<1>7. CASE Reset
  BY <1>1, <1>7 DEF Reset, End, mailVars
<1>8. CASE Exists
  <2>1. ~told /\ ~troubled /\ flag > 0 => age <= since
    BY <1>1, <1>8 DEF Exists, FlagInv, BeatInv
  <2>. QED  BY <1>1, <1>8, <2>1 DEF Exists, End, mailVars
<1>9. CASE Mail
  <2>1. ~told' => beatAfterGet
    BY <1>9 DEF Mail, Delivered
  <2>2. beatAfterGet => age <= since
    BY <1>9 DEF Mail, BeatInv
  <2>. QED  BY <1>1, <1>9, <2>1, <2>2 DEF Mail
<1>10. CASE AlertMailFails \/ CheckFails
  BY <1>10 DEF AlertMailFails, CheckFails
<1>11. CASE SetFlag
  BY <1>1, <1>11 DEF SetFlag, End, mailVars
<1>. QED  BY <1>2, <1>3, <1>4, <1>5, <1>6, <1>7, <1>8, <1>9, <1>10, <1>11 DEF WatchdogNext

LEMMA DelaysGrow ==
  ASSUME TypesOK
  PROVE  /\ Delays \in Nat
         /\ failures' = failures => Delays' = Delays
         /\ failures' = failures + 1 => Delays' = Delays + Period
<1>1. \A p, f \in Nat : p * f \in Nat /\ p * (f + 1) = p * f + p
  OBVIOUS
<1>2. Period \in Nat /\ failures \in Nat
  BY HeartbeatConstants DEF TypesOK
<1>. QED  BY <1>1, <1>2 DEF Delays

LEMMA LaterStep ==
  TypesOK /\ ClockInv /\ SilenceInv /\ BeatInv /\ FlagInv /\ LaterInv /\ [WatchdogNext]_watchdog
     => LaterInv'
<1>. SUFFICES ASSUME TypesOK, ClockInv, SilenceInv, BeatInv, FlagInv, LaterInv,
                    [WatchdogNext]_watchdog
              PROVE  LaterInv'
  OBVIOUS
<1>1. /\ age \in Nat /\ since \in Nat /\ since <= Period
      /\ Period \in Nat \ {0} /\ Threshold \in Nat
      /\ flag \in Nat /\ Cooldown \in Nat
      /\ checkPc \in {"idle", "get", "reset", "exists", "mail", "flag"}
  BY HeartbeatConstants, Bounds DEF TypesOK
<1>2. Longest \in Nat /\ Threshold <= Longest /\ Cooldown <= Longest
  BY HeartbeatConstants DEF Longest
<1>3. /\ Delays \in Nat
      /\ failures' = failures => Delays' = Delays
      /\ failures' = failures + 1 => Delays' = Delays + Period
  BY DelaysGrow
<1>4. LaterInv' <=> (~told' => age' <= Longest + Delays' + Grace')
  BY DEF LaterInv
<1>5. PICK d \in Nat : d = Delays
  BY <1>3
<1>6. ~told => age <= Longest + d + Grace
  BY <1>5 DEF LaterInv
<1>7. CASE Toggle \/ UNCHANGED watchdog
  BY <1>7, <1>3, <1>4 DEF Toggle, watchdog, checkVars, mailVars, LaterInv, Grace
<1>8. CASE BeatFails
  <2>1. Delays' = d + Period /\ UNCHANGED <<told, age, checkPc, since>>
    BY <1>3, <1>5, <1>8 DEF BeatFails, Failure, checkVars
  <2>2. Grace' = Grace /\ Grace \in Nat
    BY <1>1, <2>1 DEF Grace
  <2>. QED  BY <1>1, <1>2, <1>4, <1>6, <2>1, <2>2
<1>9. CASE Beat
  <2>1. age' = 0 /\ Delays' = d /\ Grace' \in Nat
    BY <1>1, <1>3, <1>5, <1>9 DEF Beat, checkVars, Grace
  <2>2. PICK g \in Nat : g = Grace'
    BY <2>1
  <2>3. 0 <= Longest + d + g
    BY <1>2
  <2>. QED  BY <1>4, <2>1, <2>2, <2>3
<1>10. CASE ClockTick
  <2>1. age' <= age + 1 /\ age' \in Nat
    BY <1>1, <1>10, Bounds DEF ClockTick, Least
  <2>2. since' = since + 1
    BY <1>1, <1>10 DEF ClockTick, Least, ClockInv
  <2>3. UNCHANGED <<told, checkPc>> /\ Delays' = d
    BY <1>3, <1>5, <1>10 DEF ClockTick
  <2>4. Grace' = Grace + 1 /\ Grace \in Nat
    BY <1>1, <2>2, <2>3 DEF Grace
  <2>5. PICK g \in Nat : g = Grace
    BY <2>4
  <2>6. ~told => age + 1 <= Longest + d + (g + 1)
    BY <1>1, <1>2, <1>6, <2>5
  <2>7. ~told => age' <= Longest + d + (g + 1)
    BY <1>1, <1>2, <2>1, <2>6
  <2>. QED  BY <1>4, <2>3, <2>4, <2>5, <2>7
<1>11. CASE StartCheck
  <2>1. Grace' = Grace /\ UNCHANGED <<told, age>> /\ Delays' = d
    BY <1>1, <1>3, <1>5, <1>11 DEF StartCheck, mailVars, Grace
  <2>. QED  BY <1>4, <1>6, <2>1
<1>12. CASE Get
  <2>1. UNCHANGED <<told, age, since>> /\ Delays' = d
    BY <1>3, <1>5, <1>12 DEF Get
  <2>2. CASE Stale
    <3>1. Grace' = Grace
      BY <1>12, <2>2 DEF Get, Grace
    <3>. QED  BY <1>4, <1>6, <2>1, <3>1
  <2>3. CASE ~Stale
    <3>1. age <= Threshold /\ Grace' = since
      BY <1>1, <1>12, <2>3 DEF Get, Grace, Stale
    <3>. QED  BY <1>1, <1>2, <1>4, <2>1, <3>1
  <2>. QED  BY <2>2, <2>3
<1>13. CASE Reset \/ SetFlag
  <2>1. UNCHANGED <<told, age>> /\ Delays' = d
    BY <1>3, <1>5, <1>13 DEF Reset, SetFlag, mailVars
  <2>2. Grace' = Grace
    BY <1>13 DEF Reset, SetFlag, End, Grace
  <2>. QED  BY <1>4, <1>6, <2>1, <2>2
<1>14. CASE Exists
  <2>1. UNCHANGED <<told, age>> /\ Delays' = d
    BY <1>3, <1>5, <1>14 DEF Exists, mailVars
  <2>2. CASE flag > 0
    <3>1. Grace' = since /\ (~told => age <= Cooldown)
      BY <1>1, <1>14, <2>2 DEF Exists, End, Grace, FlagInv
    <3>. QED  BY <1>1, <1>2, <1>4, <2>1, <3>1
  <2>3. CASE ~(flag > 0)
    <3>1. Grace' = Grace
      BY <1>14, <2>3 DEF Exists, Grace
    <3>. QED  BY <1>4, <1>6, <2>1, <3>1
  <2>. QED  BY <2>2, <2>3
<1>15. CASE Mail
  <2>1. ~told' => beatAfterGet
    BY <1>15 DEF Mail, Delivered
  <2>2. beatAfterGet => age <= since
    BY <1>15 DEF Mail, BeatInv
  <2>3. age' = age /\ Delays' = d /\ Grace' = since
    BY <1>3, <1>5, <1>15 DEF Mail, Grace
  <2>. QED  BY <1>1, <1>2, <1>4, <2>1, <2>2, <2>3
<1>16. CASE AlertMailFails \/ CheckFails
  <2>1. /\ checkPc' = "idle" /\ age' = age /\ since' = since /\ failures' = failures + 1
        /\ ~told' => ~told
    BY <1>16, MailFailsEnds DEF CheckFails, End, Failure
  <2>2. Delays' = d + Period /\ Grace' = since /\ Grace <= Period + since /\ Grace \in Nat
    BY <1>1, <1>3, <1>5, <2>1 DEF Grace
  <2>3. ~told => age <= Longest + (d + Period) + since
    BY <1>1, <1>2, <1>6, <2>2
  <2>. QED  BY <1>4, <2>1, <2>2, <2>3
<1>. QED
  BY <1>7, <1>8, <1>9, <1>10, <1>11, <1>12, <1>13, <1>14, <1>15, <1>16 DEF WatchdogNext

LEMMA AgainStep ==
  TypesOK /\ ClockInv /\ SilenceInv /\ BeatInv /\ AgainInv /\ [WatchdogNext]_watchdog
     => AgainInv'
<1>. SUFFICES ASSUME TypesOK, ClockInv, SilenceInv, BeatInv, AgainInv,
                    [WatchdogNext]_watchdog,
                     told', ~troubled'
              PROVE  /\ waited' <= Cooldown + Grace'
                     /\ checkPc' = "flag" => waited' <= since'
                     /\ flag' > 0 => waited' + flag' <= Cooldown + 1
  BY DEF AgainInv
<1>1. /\ since \in Nat /\ since <= Period /\ Period \in Nat \ {0}
      /\ flag \in Nat /\ Cooldown \in Nat /\ flag <= Cooldown /\ waited \in Nat
      /\ checkPc \in {"idle", "get", "reset", "exists", "mail", "flag"}
  BY HeartbeatConstants, Bounds DEF TypesOK
<1>2. told /\ ~troubled =>
        /\ waited <= Cooldown + Grace
        /\ checkPc = "flag" => waited <= since
        /\ flag > 0 => waited + flag <= Cooldown + 1
  BY DEF AgainInv
<1>3. CASE Toggle \/ BeatFails \/ UNCHANGED watchdog
  <2>1. UNCHANGED <<told, troubled, waited, flag, since, checkPc>>
    BY <1>3 DEF Toggle, BeatFails, watchdog, checkVars, mailVars
  <2>. QED  BY <1>2, <2>1 DEF Grace
<1>4. CASE Beat
  BY <1>4 DEF Beat
<1>5. CASE ClockTick
  <2>1. UNCHANGED <<told, troubled, checkPc>> /\ waited' <= waited + 1 /\ waited' \in Nat
    <3>1. UNCHANGED <<told, troubled, checkPc>>
      BY <1>5 DEF ClockTick
    <3>2. waited' = Least(waited + 1, WaitMax)
      <4>1. waited' = IF told THEN Least(waited + 1, WaitMax) ELSE 0
        BY <1>5 DEF ClockTick
      <4>2. told
        BY <3>1
      <4>. QED  BY <4>1, <4>2
    <3>3. Least(waited + 1, WaitMax) \in Nat /\ Least(waited + 1, WaitMax) <= waited + 1
      BY <1>1, Bounds DEF Least
    <3>. QED  BY <3>1, <3>2, <3>3
  <2>2. since' = since + 1
    BY <1>1, <1>5 DEF ClockTick, Least, ClockInv
  <2>3. flag' = IF flag > 0 THEN flag - 1 ELSE 0
    BY <1>5 DEF ClockTick
  <2>4. PICK u, v, f, g \in Nat : u = waited /\ v = waited' /\ f = flag /\ g = flag'
    BY <1>1, <2>1, <2>3
  <2>5. v <= u + 1 /\ (f > 0 => g = f - 1) /\ (f = 0 => g = 0)
    BY <2>1, <2>3, <2>4
  <2>6. g > 0 => f > 0 /\ (u + f <= Cooldown + 1 => v + g <= Cooldown + 1)
    BY <1>1, <2>5
  <2>7. f > 0 => u + f <= Cooldown + 1
    BY <1>2, <2>1, <2>4
  <2>8. Grace' = Grace + 1 /\ Grace \in Nat
    BY <1>1, <2>1, <2>2 DEF Grace
  <2>9. v <= Cooldown + (Grace + 1) /\ (checkPc = "flag" => v <= since + 1)
    BY <1>1, <1>2, <2>1, <2>4, <2>5, <2>8
  <2>10. waited' <= Cooldown + Grace' /\ (checkPc' = "flag" => waited' <= since')
    <3>1. waited' = v /\ Grace' = Grace + 1 /\ checkPc' = checkPc /\ since' = since + 1
      BY <2>1, <2>2, <2>4, <2>8
    <3>2. v <= Cooldown + Grace'
      BY <2>9, <3>1
    <3>3. checkPc' = "flag" => v <= since'
      BY <2>9, <3>1
    <3>. QED  BY <3>1, <3>2, <3>3
  <2>11. flag' > 0 => waited' + flag' <= Cooldown + 1
    <3>1. g > 0 => v + g <= Cooldown + 1
      BY <2>6, <2>7
    <3>. QED  BY <2>4, <3>1
  <2>. QED  BY <2>10, <2>11
<1>6. CASE StartCheck
  <2>1. Grace' = Grace /\ checkPc' = "get" /\ UNCHANGED <<told, troubled, waited, flag>>
    <3>1. checkPc = "idle" /\ since = Period /\ checkPc' = "get" /\ since' = 0
      BY <1>6 DEF StartCheck
    <3>2. Grace' = Grace
      BY <1>1, <3>1 DEF Grace
    <3>3. UNCHANGED <<told, troubled, waited, flag>>
      BY <1>6 DEF StartCheck, mailVars
    <3>. QED  BY <3>1, <3>2, <3>3
  <2>. QED  BY <1>2, <2>1
<1>7. CASE Get
  <2>1. UNCHANGED <<told, troubled, waited, flag, since>> /\ checkPc' = "exists"
    BY <1>7 DEF Get, SilenceInv
  <2>2. Grace' = Grace
    BY <1>7, <2>1 DEF Get, Grace
  <2>. QED  BY <1>2, <2>1, <2>2
<1>8. CASE Reset
  BY <1>8 DEF Reset, SilenceInv, mailVars
<1>9. CASE Exists
  <2>1. UNCHANGED <<told, troubled, waited, flag, since>>
    BY <1>9 DEF Exists, End, mailVars
  <2>2. CASE flag > 0
    <3>1. checkPc' = "idle" /\ Grace' = since
      BY <1>9, <2>1, <2>2 DEF Exists, End, Grace
    <3>2. waited <= Cooldown
      BY <1>1, <1>2, <2>1, <2>2
    <3>. QED  BY <1>1, <1>2, <2>1, <3>1, <3>2
  <2>3. CASE ~(flag > 0)
    <3>1. checkPc' = "mail" /\ Grace' = Grace
      BY <1>9, <2>3 DEF Exists, Grace
    <3>. QED  BY <1>2, <2>1, <3>1
  <2>. QED  BY <2>2, <2>3
<1>10. CASE Mail
  <2>1. ~beatAfterGet
    BY <1>10 DEF Mail, Delivered, BeatInv
  <2>2. waited' = 0 /\ flag' = 0 /\ since' = since /\ checkPc' = "flag" /\ Grace' = since
    BY <1>10, <2>1 DEF Mail, Delivered, SilenceInv, Grace
  <2>. QED  BY <1>1, <2>2
<1>11. CASE AlertMailFails \/ CheckFails
  BY <1>11 DEF AlertMailFails, CheckFails
<1>12. CASE SetFlag
  <2>1. UNCHANGED <<told, troubled, waited, since>> /\ flag' = Cooldown /\ checkPc' = "idle"
      /\ Grace' = since
    BY <1>12 DEF SetFlag, End, Grace, mailVars
  <2>2. waited <= since /\ since <= 1
    BY <1>2, <1>12, <2>1 DEF SetFlag, ClockInv
  <2>. QED  BY <1>1, <2>1, <2>2
<1>. QED
  BY <1>3, <1>4, <1>5, <1>6, <1>7, <1>8, <1>9, <1>10, <1>11, <1>12 DEF WatchdogNext

LEMMA MailInvariant == Watchdog => [](ClockInv /\ MailInv)
<1>1. WatchdogInit => ClockInv /\ MailInv
  <2>. SUFFICES ASSUME WatchdogInit PROVE ClockInv /\ MailInv
    OBVIOUS
  <2>1. ClockInv /\ BeatInv /\ FlagInv /\ AgainInv
    BY DEF WatchdogInit, ClockInv, BeatInv, FlagInv, AgainInv
  <2>2. age = 0 /\ Grace \in Nat /\ Threshold \in Nat /\ Longest \in Nat /\ Delays \in Nat
    BY HeartbeatConstants, Bounds, TypesInit, DelaysGrow DEF WatchdogInit, Grace
  <2>3. SoonInv /\ LaterInv
    BY <2>2 DEF SoonInv, LaterInv
  <2>. QED  BY <2>1, <2>3 DEF MailInv
<1>2. WatchdogInv /\ ClockInv /\ MailInv /\ [WatchdogNext]_watchdog => ClockInv' /\ MailInv'
  BY ClockStep, BeatStep, FlagStep, SoonStep, LaterStep, AgainStep DEF WatchdogInv, MailInv
<1>. QED  BY <1>1, <1>2, WatchdogInductive, PTL DEF Watchdog

(* Whatever flag an earlier outage left and whenever the watcher comes and *)
(* goes, a silence without failing checks is mailed within a period and a  *)
(* check of the threshold, and again within those of the cooldown; with    *)
(* failing calls it is mailed a period later for each of them at most.     *)
THEOREM OutagesAreMailed == Watchdog => []OutageIsMailed
<1>1. WatchdogInv /\ ClockInv /\ MailInv => OutageIsMailed
  <2>. SUFFICES ASSUME WatchdogInv, ClockInv, MailInv PROVE OutageIsMailed
    OBVIOUS
  <2>1. /\ age \in Nat /\ since \in Nat /\ since <= Period
        /\ Period \in Nat \ {0} /\ Threshold \in Nat
        /\ Cooldown \in Nat /\ waited \in Nat /\ Longest \in Nat /\ Delays \in Nat
        /\ YellowMax \in Nat /\ GreenMax \in Nat /\ GreenMax <= YellowMax
            /\ YellowMax <= Threshold
    BY HeartbeatConstants, Bounds, DelaysGrow DEF WatchdogInv, TypesOK
  <2>2. Grace \in Nat /\ Grace <= Slack /\ Slack \in Nat
    BY <2>1 DEF Grace, Slack, ClockInv
  <2>3. age > Threshold + Slack /\ ~troubled => told /\ waited <= Cooldown + Slack
    BY <2>1, <2>2 DEF MailInv, SoonInv, AgainInv
  <2>4. age > Longest + Slack + Period * failures => told
    <3>1. ~told => age <= Longest + Delays + Grace
      BY DEF MailInv, LaterInv
    <3>2. ~told => age <= Longest + Slack + Delays
      BY <2>1, <2>2, <3>1
    <3>. QED  BY <2>1, <2>2, <3>2 DEF Delays
  <2>5. told => Light = "red"
    <3>1. told => ~known \/ age > Threshold
      BY DEF WatchdogInv, SilenceInv, Stale
    <3>2. ~known => Light = "red"
      BY DEF Light
    <3>3. age > Threshold => Light = "red"
      BY <2>1 DEF Light
    <3>. QED  BY <3>1, <3>2, <3>3
  <2>. QED  BY <2>3, <2>4, <2>5 DEF OutageIsMailed
<1>. QED  BY <1>1, WatchdogInductive, MailInvariant, PTL

-----------------------------------------------------------------------------
(* The watcher, the scripts of the agent and the cases.                    *)

USE FimConstants

(* safe_name tells the paths apart.                                        *)
NamesDiffer == \A p, q \in Paths : Flat(p) = Flat(q) => p = q

ScriptPcs == {"begin", "origin", "move", "remove", "ok", "failed", "killed"}

ScriptRecords == [command : {"add", "delete"}, path : Paths, pc : ScriptPcs,
                  name : Names \cup {NoName}]

Ids == 1 .. Len(scripts)

IsAdd(s) == scripts[s].command = "add"

(* The watcher has a path in hand, and the case it is about to index or    *)
(* mail.                                                                   *)
WatcherOK ==
  /\ pc \in {"trigger", "save", "index", "mail"} => path \in seen
  /\ pc = "index" => Len(cases) \in Nat \ {0}
  /\ pc = "mail" => Len(cases) \in index

(* What is in the webroot was uploaded there; what is in the vault, and    *)
(* its .origin, goes with the name it has.                                 *)
FilesOK ==
  /\ \A p \in Paths : webroot[p] # 0 =>
       webroot[p] \in 1 .. Len(content) /\ content[webroot[p]] = p
  /\ \A n \in Names : vault[n] # 0 =>
       vault[n] \in taken /\ Flat(content[vault[n]]) = n.flat
  /\ \A n \in Names : origin[n] # NoPath => Flat(origin[n]) = n.flat

(* A script that is past its first step works on a name of its path.       *)
ScriptsOK ==
  \A s \in Ids : scripts[s].pc \in {"origin", "move", "remove"} =>
    scripts[s].name \in Names /\ scripts[s].name.flat = Flat(scripts[s].path)

(* In one life the watcher asks for a path once.                           *)
AskedOnce ==
  OneLife =>
    /\ \A s \in Ids : IsAdd(s) =>
         /\ pc # "down" /\ scripts[s].path \in seen
         /\ pc = "trigger" => scripts[s].path # path
    /\ \A s, t \in Ids : IsAdd(s) /\ IsAdd(t) /\ scripts[s].path = scripts[t].path => s = t

(* A script took a file to a name like n.                                  *)
Used(n) == \E s \in Ids : IsAdd(s) /\ scripts[s].pc # "begin" /\ Flat(scripts[s].path) = n.flat

(* So names in use are not filled again, and the file that a restoration   *)
(* moved back stays away.                                                  *)
UsedOK ==
  OneLife =>
    /\ \A n \in Names : vault[n] # 0 \/ origin[n] # NoPath => Used(n)
    /\ \A s \in Ids : scripts[s].pc \in {"move", "remove"} => Used(scripts[s].name)
    /\ \A s \in Ids : scripts[s].pc = "remove" => vault[scripts[s].name] = 0

IInv ==
  /\ NamesDiffer /\ TypeOK /\ WatcherOK
  /\ FilesOK /\ ScriptsOK /\ AskedOnce /\ UsedOK
  /\ EvidenceRecoverable

-----------------------------------------------------------------------------
(* What a step does to the scripts.                                        *)

(* Script s gets a new place and name; nothing else changes.               *)
Became(s, where, name) ==
  /\ scripts' \in Seq(ScriptRecords) /\ Len(scripts') = Len(scripts)
  /\ \A t \in Ids :
       /\ scripts'[t].command = scripts[t].command /\ scripts'[t].path = scripts[t].path
       /\ scripts'[t].pc = (IF t = s THEN where ELSE scripts[t].pc)
       /\ scripts'[t].name = (IF t = s THEN name ELSE scripts[t].name)

(* A script is asked for.                                                  *)
Asked(command, p) ==
  /\ scripts' \in Seq(ScriptRecords) /\ Len(scripts') = Len(scripts) + 1
  /\ \A t \in Ids : scripts'[t] = scripts[t]
  /\ scripts'[Len(scripts) + 1].command = command
  /\ scripts'[Len(scripts) + 1].path = p
  /\ scripts'[Len(scripts) + 1].pc = "begin"

LEMMA OneScript ==
  ASSUME TypeOK, NEW s \in Ids, NEW where \in ScriptPcs, NEW name \in Names \cup {NoName},
         Become(s, where, name)
  PROVE  Became(s, where, name)
<1>. DEFINE n == [scripts[s] EXCEPT !.pc = where, !.name = name]
<1>0. scripts \in Seq(ScriptRecords) /\ s \in 1 .. Len(scripts)
  BY DEF TypeOK, ScriptRecords, ScriptPcs, Ids
<1>1. scripts[s] \in ScriptRecords  BY <1>0, ElementOfSeq
<1>2. n \in ScriptRecords /\ n.command = scripts[s].command /\ n.path = scripts[s].path
      /\ n.pc = where /\ n.name = name
  BY <1>1 DEF ScriptRecords
<1>3. scripts' = [scripts EXCEPT ![s] = n]
  BY <1>0, <1>1 DEF ScriptRecords, Become
<1>. HIDE DEF n
<1>4. /\ [scripts EXCEPT ![s] = n] \in Seq(ScriptRecords)
      /\ Len([scripts EXCEPT ![s] = n]) = Len(scripts)
      /\ \A i \in 1 .. Len(scripts) :
           [scripts EXCEPT ![s] = n][i] = IF i = s THEN n ELSE scripts[i]
  BY <1>2, <1>0, ExceptSeq
<1>5. /\ scripts' \in Seq(ScriptRecords) /\ Len(scripts') = Len(scripts)
      /\ \A i \in Ids : scripts'[i] = IF i = s THEN n ELSE scripts[i]
  BY <1>3, <1>4, Zenon DEF Ids
<1>6. ASSUME NEW t \in Ids
      PROVE  /\ scripts'[t].command = scripts[t].command /\ scripts'[t].path = scripts[t].path
             /\ scripts'[t].pc = (IF t = s THEN where ELSE scripts[t].pc)
             /\ scripts'[t].name = (IF t = s THEN name ELSE scripts[t].name)
  <2>1. CASE t = s
    <3>1. scripts'[t] = n  BY <1>5, <2>1
    <3>. QED  BY <3>1, <1>2, <2>1
  <2>2. CASE t # s
    <3>1. scripts'[t] = scripts[t]  BY <1>5, <2>2
    <3>. QED  BY <3>1, <2>2
  <2>. QED  BY <2>1, <2>2
<1>. QED  BY <1>5, <1>6 DEF Became

LEMMA OneMore ==
  ASSUME TypeOK, NEW command \in {"add", "delete"}, NEW p \in Paths, Dispatch(command, p)
  PROVE  Asked(command, p)
<1>. DEFINE n == [command |-> command, path |-> p, pc |-> "begin", name |-> NoName]
<1>1. scripts \in Seq(ScriptRecords)
  BY DEF TypeOK, ScriptRecords, ScriptPcs
<1>2. n \in ScriptRecords /\ n.command = command /\ n.path = p /\ n.pc = "begin"
  BY DEF ScriptRecords, ScriptPcs
<1>3. scripts' = Append(scripts, n)  BY DEF Dispatch
<1>. HIDE DEF n
<1>4. /\ scripts' \in Seq(ScriptRecords) /\ Len(scripts') = Len(scripts) + 1
      /\ scripts'[Len(scripts) + 1] = n
      /\ \A t \in 1 .. Len(scripts) : scripts'[t] = scripts[t]
  BY <1>1, <1>2, <1>3, AppendProperties
<1>. QED  BY <1>2, <1>4 DEF Asked, Ids

LEMMA ScriptsLength ==
  ASSUME TypeOK
  PROVE  Len(scripts) \in Nat
<1>1. scripts \in Seq(ScriptRecords)  BY Zenon DEF TypeOK, ScriptRecords, ScriptPcs
<1>. QED  BY <1>1, LenProperties

LEMMA ScriptType ==
  ASSUME TypeOK, NEW s \in Ids
  PROVE  scripts[s] \in ScriptRecords
<1>1. scripts \in Seq(ScriptRecords) /\ s \in 1 .. Len(scripts)
  BY DEF TypeOK, ScriptRecords, ScriptPcs, Ids
<1>. QED  BY <1>1, ElementOfSeq

(* Names are made of paths and seconds.                                    *)
LEMMA NameType ==
  ASSUME TypeOK, NEW p \in Paths
  PROVE  NameFor(p) \in Names /\ NameFor(p).flat = Flat(p)
BY DEF TypeOK, Names, NameFor

-----------------------------------------------------------------------------
(* Steps that leave the agent's files alone.                               *)

Files == <<webroot, vault, origin, content, taken, given>>

LEMMA FilesStay ==
  ASSUME IInv, UNCHANGED Files
  PROVE  FilesOK'
BY DEF IInv, FilesOK, Files

(* The scripts are what they were, too, and no new life begins.            *)
LEMMA AgentStays ==
  ASSUME IInv, UNCHANGED <<Files, scripts>>, OneLife' => OneLife
  PROVE  FilesOK' /\ ScriptsOK' /\ UsedOK' /\ EvidenceRecoverable'
<1>1. FilesOK'  BY FilesStay
<1>2. ScriptsOK'  BY DEF IInv, ScriptsOK, Ids
<1>3. UsedOK'  BY DEF IInv, UsedOK, Used, IsAdd, Ids, Files
<1>4. EvidenceRecoverable'
  BY DEF IInv, EvidenceRecoverable, EvidenceKept, OriginMatches, Files
<1>. QED  BY <1>1, <1>2, <1>3, <1>4

(* A script is asked for.                                                  *)
LEMMA AgentAsked ==
  ASSUME IInv, UNCHANGED <<Files, crashes>>,
         NEW command \in {"add", "delete"}, NEW p \in Paths, Dispatch(command, p)
  PROVE  FilesOK' /\ ScriptsOK' /\ UsedOK' /\ EvidenceRecoverable'
<1>1. FilesOK'  BY FilesStay
<1>2. Asked(command, p) /\ Len(scripts) \in Nat /\ (OneLife' <=> OneLife)
  <2>1. TypeOK  BY DEF IInv
  <2>2. OneLife' <=> OneLife  BY DEF OneLife
  <2>. QED  BY <2>1, <2>2, OneMore, ScriptsLength
<1>3. /\ Ids' = Ids \cup {Len(scripts) + 1}
      /\ \A t \in Ids : t \in Ids' /\ scripts'[t] = scripts[t]
      /\ \A t \in Ids' : t \in Ids \/ scripts'[t].pc = "begin"
  BY <1>2 DEF Asked, Ids
<1>4. ScriptsOK'  BY <1>3 DEF IInv, ScriptsOK
<1>5. \A n : Used(n) => Used(n)'  BY <1>3 DEF Used, IsAdd
<1>6. UsedOK'  BY <1>2, <1>3, <1>5 DEF IInv, UsedOK, Files
<1>7. EvidenceRecoverable'
  BY <1>2, <1>3 DEF IInv, EvidenceRecoverable, EvidenceKept, OriginMatches, Files, Ids
<1>. QED  BY <1>1, <1>4, <1>6, <1>7

-----------------------------------------------------------------------------
(* Steps of the scripts.                                                   *)

(* What any of them keeps.                                                 *)
LEMMA ScriptMoves ==
  ASSUME IInv, NEW s \in Ids, NEW where \in ScriptPcs \ {"begin"}, NEW name,
         Became(s, where, name), UNCHANGED <<watcherVars, caseVars, crashes>>
  PROVE  /\ Ids' = Ids /\ (OneLife' <=> OneLife)
         /\ AskedOnce'
         /\ \A n : Used(n) => Used(n)'
<1>1. Ids' = Ids /\ (OneLife' <=> OneLife)  BY DEF Ids, Became, OneLife
<1>2. \A t \in Ids : (IsAdd(t)' <=> IsAdd(t)) /\ scripts'[t].path = scripts[t].path
  BY DEF Became, IsAdd
<1>3. AskedOnce'  BY <1>1, <1>2 DEF IInv, AskedOnce, watcherVars
<1>4. ASSUME NEW n, Used(n) PROVE Used(n)'
  <2>1. PICK t \in Ids : IsAdd(t) /\ scripts[t].pc # "begin" /\ Flat(scripts[t].path) = n.flat
    BY <1>4 DEF Used
  <2>2. scripts'[t].pc # "begin"  BY <2>1 DEF Became
  <2>. QED  BY <1>1, <1>2, <2>1, <2>2 DEF Used
<1>. QED  BY <1>1, <1>3, <1>4

(* UsedOK after a step, said of the names themselves.                      *)
LEMMA UsedNext ==
  ASSUME Ids' = Ids, OneLife' => OneLife,
         OneLife =>
           /\ \A n \in Names : vault'[n] # 0 \/ origin'[n] # NoPath => Used(n)'
           /\ \A t \in Ids : scripts'[t].pc \in {"move", "remove"} =>
                \A n : n = scripts'[t].name => Used(n)'
           /\ \A t \in Ids : scripts'[t].pc = "remove" => vault'[scripts'[t].name] = 0
  PROVE  UsedOK'
<1>1. ASSUME NEW t \in Ids, \A n : n = scripts'[t].name => Used(n)'
      PROVE  \E s \in Ids' : /\ IsAdd(s)' /\ scripts'[s].pc # "begin"
                              /\ Flat(scripts'[s].path) = scripts'[t].name.flat
  BY <1>1 DEF Used
<1>. QED  BY <1>1 DEF UsedOK, Used

(* A script that ends, or takes a name, without touching a file.           *)
LEMMA ScriptOnly ==
  ASSUME IInv, NEW s \in Ids, NEW where \in ScriptPcs \ {"begin", "origin", "remove"},
         NEW name \in Names \cup {NoName},
         Become(s, where, name), UNCHANGED <<Files, watcherVars, caseVars, crashes>>,
         scripts[s].pc \notin {"origin", "killed"} \/ (where = "killed" /\ name = scripts[s].name),
         where = "move" => /\ name \in Names /\ name.flat = Flat(scripts[s].path)
                           /\ origin[name] # NoPath
  PROVE  FilesOK' /\ ScriptsOK' /\ UsedOK' /\ EvidenceRecoverable' /\ AskedOnce'
<1>1. FilesOK'  BY FilesStay
<1>2. Became(s, where, name)  BY OneScript DEF IInv
<1>3. /\ Ids' = Ids /\ (OneLife' <=> OneLife)
      /\ AskedOnce'
      /\ \A n : Used(n) => Used(n)'
  BY <1>2, ScriptMoves
<1>4. ScriptsOK'  BY <1>2, <1>3 DEF IInv, ScriptsOK, Became
<1>5. ASSUME OneLife
      PROVE  /\ \A n \in Names : vault[n] # 0 \/ origin[n] # NoPath => Used(n)'
             /\ \A t \in Ids : scripts'[t].pc \in {"move", "remove"} =>
                  \A n : n = scripts'[t].name => Used(n)'
             /\ \A t \in Ids : scripts'[t].pc = "remove" => vault[scripts'[t].name] = 0
  <2>1. \A n \in Names : vault[n] # 0 \/ origin[n] # NoPath => Used(n)
    BY <1>5 DEF IInv, UsedOK
  <2>2. \A t \in Ids : scripts[t].pc \in {"move", "remove"} => Used(scripts[t].name)
    BY <1>5 DEF IInv, UsedOK
  <2>3. \A t \in Ids : scripts[t].pc = "remove" => vault[scripts[t].name] = 0
    BY <1>5 DEF IInv, UsedOK
  <2>4. ASSUME NEW t \in Ids, scripts'[t].pc \in {"move", "remove"},
               NEW n, n = scripts'[t].name
        PROVE  Used(n)'
    <3>1. CASE t = s
      <4>1. n = name /\ where = "move"  BY <3>1, <1>2, <2>4 DEF Became
      <4>2. Used(n)  BY <4>1, <2>1
      <4>. QED  BY <4>2, <1>3
    <3>2. CASE t # s
      <4>1. n = scripts[t].name /\ scripts'[t].pc = scripts[t].pc
        BY <3>2, <1>2, <2>4 DEF Became
      <4>2. Used(n)  BY <4>1, <2>2, <2>4
      <4>. QED  BY <4>2, <1>3
    <3>. QED  BY <3>1, <3>2
  <2>5. ASSUME NEW t \in Ids, scripts'[t].pc = "remove"
        PROVE  vault[scripts'[t].name] = 0
    BY <1>2, <2>3, <2>5 DEF Became
  <2>6. \A n \in Names : vault[n] # 0 \/ origin[n] # NoPath => Used(n)'
    BY <1>3, <2>1
  <2>. QED  BY <2>4, <2>5, <2>6, Zenon
<1>6. UsedOK'
  BY <1>3, <1>5, UsedNext DEF Files
<1>7. EvidenceRecoverable'
  <2>1. EvidenceKept'  BY <1>3 DEF IInv, EvidenceRecoverable, EvidenceKept, Files
  <2>2. \A t \in Ids : scripts[t].pc \in {"origin", "killed"} /\ scripts[t].name \in Names =>
          scripts'[t].name = scripts[t].name /\ scripts'[t].pc \in {"origin", "killed"}
    BY <1>2 DEF Became
  <2>3. OriginMatches'
    BY <1>3, <2>2 DEF IInv, EvidenceRecoverable, OriginMatches, Files, Ids
  <2>. QED  BY <2>1, <2>3 DEF EvidenceRecoverable
<1>. QED  BY <1>1, <1>3, <1>4, <1>6, <1>7

LEMMA AddMoveStep ==
  ASSUME IInv, NEW s \in Ids, AddMove(s)
  PROVE  FilesOK' /\ ScriptsOK' /\ UsedOK' /\ EvidenceRecoverable' /\ AskedOnce'
<1>0. PICK p, n, x : p = scripts[s].path /\ n = NameFor(p) /\ x = webroot[p]  OBVIOUS
<1>1. p \in Paths /\ scripts[s].pc = "begin" /\ IsAdd(s)
  BY <1>0, ScriptType DEF IInv, ScriptRecords, AddMove, AtPc, IsAdd
<1>2. UNCHANGED <<origin, watcherVars, caseVars, crashes, content, given>>
  BY DEF AddMove
<1>3. CASE ~(p \in Allowed /\ x # 0)
  <2>1. Become(s, "failed", NoName) /\ UNCHANGED <<vault, webroot, taken>>
    BY <1>0, <1>3 DEF AddMove
  <2>. QED  BY <1>1, <1>2, <2>1, ScriptOnly DEF ScriptPcs, Files
<1>4. CASE p \in Allowed /\ x # 0
  <2>1. /\ vault' = [vault EXCEPT ![n] = x]
        /\ webroot' = [webroot EXCEPT ![p] = 0]
        /\ taken' = taken \cup {x}
        /\ Become(s, "origin", n)
    BY <1>0, <1>4 DEF AddMove
  <2>2. n \in Names /\ n.flat = Flat(p)  BY <1>0, <1>1, NameType DEF IInv
  <2>3. x \in 1 .. Len(content) /\ content[x] = p
    BY <1>0, <1>1, <1>4 DEF IInv, FilesOK
  <2>4. /\ \A m \in Names : vault'[m] = IF m = n THEN x ELSE vault[m]
        /\ \A q \in Paths : webroot'[q] = IF q = p THEN 0 ELSE webroot[q]
    BY <2>1, <2>2, <1>1 DEF IInv, TypeOK
  <2>5. Became(s, "origin", n)  BY <2>1, <2>2, OneScript DEF IInv, ScriptPcs
  <2>6. /\ Ids' = Ids /\ (OneLife' <=> OneLife)
        /\ AskedOnce'
        /\ \A m : Used(m) => Used(m)'
    BY <2>5, <1>2, ScriptMoves DEF ScriptPcs
  <2>7. FilesOK'
    BY <1>1, <1>2, <2>1, <2>2, <2>3, <2>4 DEF IInv, FilesOK
  <2>8. ScriptsOK'
    BY <1>0, <2>2, <2>5, <2>6 DEF IInv, ScriptsOK, Became
  <2>9. OneLife => ~ Used(n)
    <3>1. SUFFICES ASSUME OneLife, Used(n) PROVE FALSE  OBVIOUS
    <3>2. PICK t \in Ids : IsAdd(t) /\ scripts[t].pc # "begin" /\ Flat(scripts[t].path) = n.flat
      BY <3>1 DEF Used
    <3>3. scripts[t].path \in Paths  BY ScriptType DEF IInv, ScriptRecords
    <3>4. scripts[t].path = p  BY <1>1, <2>2, <3>2, <3>3 DEF IInv, NamesDiffer
    <3>. QED  BY <1>0, <1>1, <3>1, <3>2, <3>4 DEF IInv, AskedOnce
  <2>10. Used(n)'
    BY <1>0, <1>1, <2>2, <2>5, <2>6 DEF Used, Became, IsAdd
  <2>11. OneLife => vault[n] = 0 /\ origin[n] = NoPath
    BY <2>2, <2>9 DEF IInv, UsedOK
  <2>12. UsedOK'
    <3>1. ASSUME OneLife, NEW m \in Names, vault'[m] # 0 \/ origin'[m] # NoPath PROVE Used(m)'
      BY <1>2, <2>4, <2>6, <2>10, <3>1 DEF IInv, UsedOK
    <3>2. ASSUME OneLife, NEW t \in Ids, scripts'[t].pc \in {"move", "remove"},
                 NEW m, m = scripts'[t].name
          PROVE  Used(m)'
      <4>1. scripts[t].pc \in {"move", "remove"} /\ m = scripts[t].name
        BY <2>5, <3>2 DEF Became
      <4>2. Used(m)  BY <4>1, <3>2 DEF IInv, UsedOK
      <4>. QED  BY <4>2, <2>6
    <3>3. ASSUME OneLife, NEW t \in Ids, scripts'[t].pc = "remove"
          PROVE  vault'[scripts'[t].name] = 0
      <4>1. scripts[t].pc = "remove" /\ scripts'[t].name = scripts[t].name
        BY <2>5, <3>3 DEF Became
      <4>2. Used(scripts[t].name) /\ vault[scripts[t].name] = 0 /\ scripts[t].name \in Names
        BY <4>1, <3>3 DEF IInv, UsedOK, ScriptsOK
      <4>3. scripts[t].name # n  BY <4>2, <3>3, <2>9
      <4>. QED  BY <4>1, <4>2, <4>3, <2>4
    <3>. QED  BY <2>6, <3>1, <3>2, <3>3, UsedNext
  <2>13. EvidenceKept'
    <3>1. SUFFICES ASSUME OneLife, NEW y \in taken' \ given' PROVE \E m \in Names : y = vault'[m]
      BY <2>6 DEF EvidenceKept
    <3>2. CASE y = x  BY <3>2, <2>2, <2>4
    <3>3. CASE y # x
      <4>1. y \in taken \ given  BY <3>1, <3>3, <1>2, <2>1
      <4>2. PICK m \in Names : y = vault[m]
        BY <4>1, <3>1 DEF IInv, EvidenceRecoverable, EvidenceKept
      <4>3. y # 0  BY <4>1 DEF IInv, TypeOK
      <4>. QED  BY <4>2, <4>3, <2>4, <2>11, <3>1
    <3>. QED  BY <3>2, <3>3
  <2>14. OriginMatches'
    <3>1. SUFFICES ASSUME OneLife, NEW m \in Names, vault'[m] # 0
                   PROVE  \/ origin'[m] = content'[vault'[m]]
                          \/ \E t \in Ids : scripts'[t].name = m
                                            /\ scripts'[t].pc \in {"origin", "killed"}
      BY <2>6 DEF OriginMatches, Ids
    <3>2. CASE m = n  BY <3>2, <2>5 DEF Became
    <3>3. CASE m # n
      <4>1. vault'[m] = vault[m] /\ vault[m] # 0  BY <3>1, <3>3, <2>4
      <4>2. \/ origin[m] = content[vault[m]]
            \/ \E t \in Ids : scripts[t].name = m /\ scripts[t].pc \in {"origin", "killed"}
        BY <4>1, <3>1 DEF IInv, EvidenceRecoverable, OriginMatches, Ids
      <4>3. ASSUME NEW t \in Ids, scripts[t].name = m, scripts[t].pc \in {"origin", "killed"}
            PROVE  scripts'[t].name = m /\ scripts'[t].pc \in {"origin", "killed"}
        BY <4>3, <1>1, <2>5 DEF Became
      <4>. QED  BY <4>1, <4>2, <4>3, <1>2
    <3>. QED  BY <3>2, <3>3
  <2>. QED  BY <2>6, <2>7, <2>8, <2>12, <2>13, <2>14 DEF EvidenceRecoverable
<1>. QED  BY <1>3, <1>4

LEMMA AddOriginStep ==
  ASSUME IInv, NEW s \in Ids, AddOrigin(s)
  PROVE  FilesOK' /\ ScriptsOK' /\ UsedOK' /\ EvidenceRecoverable' /\ AskedOnce'
<1>0. PICK p, n : p = scripts[s].path /\ n = scripts[s].name  OBVIOUS
<1>1. /\ p \in Paths /\ scripts[s].pc = "origin" /\ IsAdd(s)
      /\ n \in Names /\ n.flat = Flat(p)
  BY <1>0, ScriptType DEF IInv, ScriptRecords, AddOrigin, AtPc, IsAdd, ScriptsOK
<1>2. /\ UNCHANGED <<webroot, vault, content, taken, given, watcherVars, caseVars, crashes>>
      /\ origin' = [origin EXCEPT ![n] = p]
      /\ Become(s, "ok", n)
  BY <1>0 DEF AddOrigin, historyVars
<1>3. \A m \in Names : origin'[m] = IF m = n THEN p ELSE origin[m]
  BY <1>1, <1>2 DEF IInv, TypeOK
<1>4. Became(s, "ok", n)  BY <1>1, <1>2, OneScript DEF IInv, ScriptPcs
<1>5. /\ Ids' = Ids /\ (OneLife' <=> OneLife)
      /\ AskedOnce'
      /\ \A m : Used(m) => Used(m)'
  BY <1>2, <1>4, ScriptMoves DEF ScriptPcs
<1>6. FilesOK'  BY <1>1, <1>2, <1>3 DEF IInv, FilesOK
<1>7. ScriptsOK'  BY <1>4, <1>5 DEF IInv, ScriptsOK, Became
<1>8. UsedOK'
  <2>1. ASSUME OneLife, NEW m \in Names, vault'[m] # 0 \/ origin'[m] # NoPath PROVE Used(m)'
    <3>1. Used(n)  BY <1>0, <1>1 DEF Used
    <3>2. CASE m = n  BY <3>1, <3>2, <1>5
    <3>3. CASE m # n  BY <3>3, <2>1, <1>2, <1>3, <1>5 DEF IInv, UsedOK
    <3>. QED  BY <3>2, <3>3
  <2>2. ASSUME OneLife, NEW t \in Ids, scripts'[t].pc \in {"move", "remove"},
               NEW m, m = scripts'[t].name
        PROVE  Used(m)'
    <3>1. scripts[t].pc \in {"move", "remove"} /\ m = scripts[t].name
      BY <1>4, <2>2 DEF Became
    <3>2. Used(m)  BY <3>1, <2>2 DEF IInv, UsedOK
    <3>. QED  BY <3>2, <1>5
  <2>3. ASSUME OneLife, NEW t \in Ids, scripts'[t].pc = "remove"
        PROVE  vault'[scripts'[t].name] = 0
    BY <1>2, <1>4, <2>3 DEF IInv, UsedOK, Became
  <2>. QED  BY <1>5, <2>1, <2>2, <2>3, UsedNext
<1>9. EvidenceKept'
  BY <1>2, <1>5 DEF IInv, EvidenceRecoverable, EvidenceKept
<1>10. OriginMatches'
  <2>1. SUFFICES ASSUME OneLife, NEW m \in Names, vault'[m] # 0
                 PROVE  \/ origin'[m] = content'[vault'[m]]
                        \/ \E t \in Ids : scripts'[t].name = m
                                          /\ scripts'[t].pc \in {"origin", "killed"}
    BY <1>5 DEF OriginMatches, Ids
  <2>2. vault[m] \in taken /\ Flat(content[vault[m]]) = m.flat
    BY <2>1, <1>2 DEF IInv, FilesOK
  <2>3. content[vault[m]] \in Paths
    BY <2>2, ElementOfSeq DEF IInv, TypeOK
  <2>4. CASE m = n
    <3>1. content[vault[m]] = p  BY <1>1, <2>2, <2>3, <2>4 DEF IInv, NamesDiffer
    <3>. QED  BY <1>2, <1>3, <2>4, <3>1
  <2>5. CASE m # n
    <3>1. \/ origin[m] = content[vault[m]]
          \/ \E t \in Ids : scripts[t].name = m /\ scripts[t].pc \in {"origin", "killed"}
      BY <1>2, <2>1 DEF IInv, EvidenceRecoverable, OriginMatches, Ids
    <3>2. ASSUME NEW t \in Ids, scripts[t].name = m, scripts[t].pc \in {"origin", "killed"}
          PROVE  scripts'[t].name = m /\ scripts'[t].pc \in {"origin", "killed"}
      BY <3>2, <1>0, <1>4, <2>5 DEF Became
    <3>. QED  BY <3>1, <3>2, <1>2, <1>3, <2>5
  <2>. QED  BY <2>4, <2>5
<1>. QED  BY <1>5, <1>6, <1>7, <1>8, <1>9, <1>10 DEF EvidenceRecoverable

LEMMA FindOriginStep ==
  ASSUME IInv, NEW s \in Ids, FindOrigin(s)
  PROVE  FilesOK' /\ ScriptsOK' /\ UsedOK' /\ EvidenceRecoverable' /\ AskedOnce'
<1>1. scripts[s].path \in Paths /\ scripts[s].pc = "begin"
  BY ScriptType DEF IInv, ScriptRecords, FindOrigin, AtPc
<1>2. UNCHANGED <<Files, watcherVars, caseVars, crashes>>
  BY DEF FindOrigin, Files, historyVars
<1>3. \/ Become(s, "failed", NoName)
      \/ \E n \in Names : origin[n] = scripts[s].path /\ Become(s, "move", n)
  BY DEF FindOrigin
<1>4. CASE Become(s, "failed", NoName)
  BY <1>1, <1>2, <1>4, ScriptOnly DEF ScriptPcs
<1>5. ASSUME NEW n \in Names, origin[n] = scripts[s].path, Become(s, "move", n)
      PROVE  FilesOK' /\ ScriptsOK' /\ UsedOK' /\ EvidenceRecoverable' /\ AskedOnce'
  <2>1. origin[n] # NoPath /\ n.flat = Flat(scripts[s].path)
    BY <1>1, <1>5 DEF IInv, FilesOK
  <2>. QED  BY <1>1, <1>2, <1>5, <2>1, ScriptOnly DEF ScriptPcs
<1>. QED  BY <1>3, <1>4, <1>5

LEMMA KillScriptStep ==
  ASSUME IInv, NEW s \in Ids, KillScript(s)
  PROVE  FilesOK' /\ ScriptsOK' /\ UsedOK' /\ EvidenceRecoverable' /\ AskedOnce'
<1>1. scripts[s].name \in Names \cup {NoName} /\ scripts[s].pc # "killed"
  BY ScriptType DEF IInv, ScriptRecords, KillScript, Ended
<1>2. UNCHANGED <<Files, watcherVars, caseVars, crashes>>
  BY DEF KillScript, Files
<1>3. PICK n : n = scripts[s].name  OBVIOUS
<1>4. Become(s, "killed", n)  BY <1>3 DEF KillScript
<1>. QED  BY <1>1, <1>2, <1>3, <1>4, ScriptOnly DEF ScriptPcs

LEMMA RestoreMoveStep ==
  ASSUME IInv, NEW s \in Ids, RestoreMove(s)
  PROVE  FilesOK' /\ ScriptsOK' /\ UsedOK' /\ EvidenceRecoverable' /\ AskedOnce'
<1>0. PICK p, n, x : p = scripts[s].path /\ n = scripts[s].name /\ x = vault[n]  OBVIOUS
<1>1. /\ p \in Paths /\ scripts[s].pc = "move"
      /\ n \in Names /\ n.flat = Flat(p)
  BY <1>0, ScriptType DEF IInv, ScriptRecords, RestoreMove, AtPc, ScriptsOK
<1>2. UNCHANGED <<origin, watcherVars, caseVars, crashes, content, taken>>
  BY DEF RestoreMove
<1>3. CASE x = 0
  <2>1. Become(s, "failed", n) /\ UNCHANGED <<webroot, vault, given>>
    BY <1>0, <1>3 DEF RestoreMove
  <2>. QED  BY <1>1, <1>2, <2>1, ScriptOnly DEF ScriptPcs, Files
<1>4. CASE x # 0
  <2>1. /\ webroot' = [webroot EXCEPT ![p] = x]
        /\ vault' = [vault EXCEPT ![n] = 0]
        /\ given' = given \cup {x}
        /\ Become(s, "remove", n)
    BY <1>0, <1>4 DEF RestoreMove
  <2>2. x \in taken /\ x \in 1 .. Len(content) /\ Flat(content[x]) = Flat(p)
    BY <1>0, <1>1, <1>4 DEF IInv, FilesOK, TypeOK
  <2>3. content[x] \in Paths  BY <2>2, ElementOfSeq DEF IInv, TypeOK
  <2>4. content[x] = p  BY <1>1, <2>2, <2>3 DEF IInv, NamesDiffer
  <2>5. /\ \A m \in Names : vault'[m] = IF m = n THEN 0 ELSE vault[m]
        /\ \A q \in Paths : webroot'[q] = IF q = p THEN x ELSE webroot[q]
    BY <2>1, <1>1 DEF IInv, TypeOK
  <2>6. Became(s, "remove", n)  BY <2>1, <1>1, OneScript DEF IInv, ScriptPcs
  <2>7. /\ Ids' = Ids /\ (OneLife' <=> OneLife)
        /\ AskedOnce'
        /\ \A m : Used(m) => Used(m)'
    BY <2>6, <1>2, ScriptMoves DEF ScriptPcs
  <2>8. FilesOK'
    BY <1>1, <1>2, <2>2, <2>4, <2>5 DEF IInv, FilesOK
  <2>9. ScriptsOK'
    BY <1>0, <1>1, <2>6, <2>7 DEF IInv, ScriptsOK, Became
  <2>10. UsedOK'
    <3>1. ASSUME OneLife, NEW m \in Names, vault'[m] # 0 \/ origin'[m] # NoPath PROVE Used(m)'
      BY <1>2, <2>5, <2>7, <3>1 DEF IInv, UsedOK
    <3>2. ASSUME OneLife, NEW t \in Ids, scripts'[t].pc \in {"move", "remove"},
                 NEW m, m = scripts'[t].name
          PROVE  Used(m)'
      <4>1. scripts[t].pc \in {"move", "remove"} /\ m = scripts[t].name
        BY <1>0, <1>1, <2>6, <3>2 DEF Became
      <4>2. Used(m)  BY <4>1, <3>2 DEF IInv, UsedOK
      <4>. QED  BY <4>2, <2>7
    <3>3. ASSUME OneLife, NEW t \in Ids, scripts'[t].pc = "remove"
          PROVE  vault'[scripts'[t].name] = 0
      <4>1. CASE t = s  BY <4>1, <1>1, <2>5, <2>6 DEF Became
      <4>2. CASE t # s
        <5>1. scripts[t].pc = "remove" /\ scripts'[t].name = scripts[t].name
          BY <2>6, <3>3, <4>2 DEF Became
        <5>2. vault[scripts[t].name] = 0 /\ scripts[t].name \in Names
          BY <5>1, <3>3 DEF IInv, UsedOK, ScriptsOK
        <5>. QED  BY <5>1, <5>2, <2>5
      <4>. QED  BY <4>1, <4>2
    <3>. QED  BY <2>7, <3>1, <3>2, <3>3, UsedNext
  <2>11. EvidenceKept'
    <3>1. SUFFICES ASSUME OneLife, NEW y \in taken' \ given' PROVE \E m \in Names : y = vault'[m]
      BY <2>7 DEF EvidenceKept
    <3>2. y \in taken \ given /\ y # x  BY <3>1, <1>2, <2>1
    <3>3. PICK m \in Names : y = vault[m]
      BY <3>1, <3>2 DEF IInv, EvidenceRecoverable, EvidenceKept
    <3>. QED  BY <1>0, <2>5, <3>2, <3>3
  <2>12. OriginMatches'
    <3>1. SUFFICES ASSUME OneLife, NEW m \in Names, vault'[m] # 0
                   PROVE  \/ origin'[m] = content'[vault'[m]]
                          \/ \E t \in Ids : scripts'[t].name = m
                                            /\ scripts'[t].pc \in {"origin", "killed"}
      BY <2>7 DEF OriginMatches, Ids
    <3>2. vault'[m] = vault[m] /\ vault[m] # 0  BY <3>1, <2>5
    <3>3. \/ origin[m] = content[vault[m]]
          \/ \E t \in Ids : scripts[t].name = m /\ scripts[t].pc \in {"origin", "killed"}
      BY <3>1, <3>2 DEF IInv, EvidenceRecoverable, OriginMatches, Ids
    <3>4. ASSUME NEW t \in Ids, scripts[t].name = m, scripts[t].pc \in {"origin", "killed"}
          PROVE  scripts'[t].name = m /\ scripts'[t].pc \in {"origin", "killed"}
      BY <3>4, <1>1, <2>6 DEF Became
    <3>. QED  BY <1>2, <3>2, <3>3, <3>4
  <2>. QED  BY <2>7, <2>8, <2>9, <2>10, <2>11, <2>12 DEF EvidenceRecoverable
<1>. QED  BY <1>3, <1>4

LEMMA RestoreRemoveStep ==
  ASSUME IInv, NEW s \in Ids, RestoreRemove(s)
  PROVE  FilesOK' /\ ScriptsOK' /\ UsedOK' /\ EvidenceRecoverable' /\ AskedOnce'
<1>0. PICK n : n = scripts[s].name  OBVIOUS
<1>1. scripts[s].pc = "remove" /\ n \in Names
  BY <1>0 DEF IInv, RestoreRemove, AtPc, ScriptsOK
<1>2. /\ UNCHANGED <<webroot, vault, content, taken, given, watcherVars, caseVars, crashes>>
      /\ origin' = [origin EXCEPT ![n] = NoPath]
      /\ Become(s, "ok", n)
  BY <1>0 DEF RestoreRemove, historyVars
<1>3. \A m \in Names : origin'[m] = IF m = n THEN NoPath ELSE origin[m]
  BY <1>1, <1>2 DEF IInv, TypeOK
<1>4. Became(s, "ok", n)  BY <1>1, <1>2, OneScript DEF IInv, ScriptPcs
<1>5. /\ Ids' = Ids /\ (OneLife' <=> OneLife)
      /\ AskedOnce'
      /\ \A m : Used(m) => Used(m)'
  BY <1>2, <1>4, ScriptMoves DEF ScriptPcs
<1>6. FilesOK'  BY <1>2, <1>3 DEF IInv, FilesOK
<1>7. ScriptsOK'  BY <1>4, <1>5 DEF IInv, ScriptsOK, Became
<1>8. UsedOK'
  <2>1. ASSUME OneLife, NEW m \in Names, vault'[m] # 0 \/ origin'[m] # NoPath PROVE Used(m)'
    BY <2>1, <1>2, <1>3, <1>5 DEF IInv, UsedOK
  <2>2. ASSUME OneLife, NEW t \in Ids, scripts'[t].pc \in {"move", "remove"},
               NEW m, m = scripts'[t].name
        PROVE  Used(m)'
    <3>1. scripts[t].pc \in {"move", "remove"} /\ m = scripts[t].name
      BY <1>4, <2>2 DEF Became
    <3>2. Used(m)  BY <3>1, <2>2 DEF IInv, UsedOK
    <3>. QED  BY <3>2, <1>5
  <2>3. ASSUME OneLife, NEW t \in Ids, scripts'[t].pc = "remove"
        PROVE  vault'[scripts'[t].name] = 0
    BY <1>2, <1>4, <2>3 DEF IInv, UsedOK, Became
  <2>. QED  BY <1>5, <2>1, <2>2, <2>3, UsedNext
<1>9. EvidenceKept'
  BY <1>2, <1>5 DEF IInv, EvidenceRecoverable, EvidenceKept
<1>10. OriginMatches'
  <2>1. SUFFICES ASSUME OneLife, NEW m \in Names, vault'[m] # 0
                 PROVE  \/ origin'[m] = content'[vault'[m]]
                        \/ \E t \in Ids : scripts'[t].name = m
                                          /\ scripts'[t].pc \in {"origin", "killed"}
    BY <1>5 DEF OriginMatches, Ids
  <2>2. vault[n] = 0  BY <2>1, <1>0, <1>1 DEF IInv, UsedOK
  <2>3. m # n  BY <2>1, <2>2, <1>2
  <2>4. \/ origin[m] = content[vault[m]]
        \/ \E t \in Ids : scripts[t].name = m /\ scripts[t].pc \in {"origin", "killed"}
    BY <1>2, <2>1 DEF IInv, EvidenceRecoverable, OriginMatches, Ids
  <2>5. ASSUME NEW t \in Ids, scripts[t].name = m, scripts[t].pc \in {"origin", "killed"}
        PROVE  scripts'[t].name = m /\ scripts'[t].pc \in {"origin", "killed"}
    BY <2>5, <1>1, <1>4 DEF Became
  <2>. QED  BY <1>2, <1>3, <2>3, <2>4, <2>5
<1>. QED  BY <1>5, <1>6, <1>7, <1>8, <1>9, <1>10 DEF EvidenceRecoverable

LEMMA ScriptStep ==
  ASSUME IInv, NEW s \in Ids, Script(s) \/ KillScript(s)
  PROVE  FilesOK' /\ ScriptsOK' /\ UsedOK' /\ EvidenceRecoverable' /\ AskedOnce'
BY AddMoveStep, AddOriginStep, FindOriginStep, RestoreMoveStep, RestoreRemoveStep,
   KillScriptStep DEF Script

-----------------------------------------------------------------------------
(* Outside, and the watcher.                                               *)

Agent == FilesOK /\ ScriptsOK /\ UsedOK /\ EvidenceRecoverable

LEMMA UploadStep ==
  ASSUME IInv, NEW p \in Paths, Upload(p)
  PROVE  Agent' /\ AskedOnce'
<1>1. /\ UNCHANGED <<vault, origin, scripts, watcherVars, caseVars, taken, given, crashes>>
      /\ content' = Append(content, p)
      /\ webroot' = [webroot EXCEPT ![p] = Len(content')]
  BY DEF Upload
<1>2. /\ content \in Seq(Paths) /\ Len(content) \in Nat
      /\ webroot \in [Paths -> 0 .. MaxUploads] /\ taken \subseteq 1 .. Len(content)
  BY DEF IInv, TypeOK
<1>3. /\ Len(content') = Len(content) + 1 /\ content'[Len(content) + 1] = p
      /\ \A x \in 1 .. Len(content) : content'[x] = content[x]
  BY <1>1, <1>2, AppendProperties
<1>4. \A q \in Paths : webroot'[q] = IF q = p THEN Len(content) + 1 ELSE webroot[q]
  BY <1>1, <1>2, <1>3
<1>5. \A n \in Names : vault[n] # 0 => content'[vault[n]] = content[vault[n]]
  BY <1>2, <1>3 DEF IInv, FilesOK
<1>6. FilesOK'
  <2>1. ASSUME NEW q \in Paths, webroot'[q] # 0
        PROVE  webroot'[q] \in 1 .. Len(content') /\ content'[webroot'[q]] = q
    BY <1>2, <1>3, <1>4, <2>1 DEF IInv, FilesOK
  <2>. QED  BY <1>1, <1>5, <2>1 DEF IInv, FilesOK
<1>7. ScriptsOK' /\ AskedOnce'
  BY <1>1 DEF IInv, ScriptsOK, AskedOnce, Ids, IsAdd, OneLife, watcherVars, caseVars
<1>8. UsedOK'  BY <1>1 DEF IInv, UsedOK, Used, Ids, IsAdd, OneLife
<1>9. EvidenceKept'  BY <1>1 DEF IInv, EvidenceRecoverable, EvidenceKept, OneLife
<1>10. OriginMatches'
  BY <1>1, <1>5 DEF IInv, EvidenceRecoverable, OriginMatches, OneLife
<1>. QED  BY <1>6, <1>7, <1>8, <1>9, <1>10 DEF Agent, EvidenceRecoverable

(* Asking for a script when no life of the watcher asked for that path.    *)
LEMMA AddAsked ==
  ASSUME IInv, pc = "trigger", pc' = "save", UNCHANGED <<path, seen, crashes>>,
         Dispatch("add", path)
  PROVE  AskedOnce'
<1>0. TypeOK /\ WatcherOK  BY DEF IInv
<1>1. path \in Paths /\ path \in seen
  <2>1. path \in seen /\ seen \subseteq Suspicious  BY <1>0, Zenon DEF TypeOK, WatcherOK
  <2>. QED  BY <2>1, FimConstants
<1>2. Asked("add", path) /\ Len(scripts) \in Nat  BY <1>0, <1>1, OneMore, ScriptsLength
<1>3. /\ Ids' = Ids \cup {Len(scripts) + 1}
      /\ \A t \in Ids : scripts'[t] = scripts[t]
  BY <1>2 DEF Asked, Ids
<1>4. ASSUME OneLife, NEW s \in Ids', IsAdd(s)'
      PROVE  pc' # "down" /\ scripts'[s].path \in seen'
  BY <1>1, <1>2, <1>3, <1>4 DEF IInv, AskedOnce, IsAdd, Asked
<1>5. ASSUME OneLife, NEW s \in Ids', NEW t \in Ids', IsAdd(s)', IsAdd(t)',
             scripts'[s].path = scripts'[t].path
      PROVE  s = t
  BY <1>2, <1>3, <1>5 DEF IInv, AskedOnce, IsAdd, Asked
<1>. QED  BY <1>4, <1>5 DEF AskedOnce, OneLife

LEMMA AskRestoreStep ==
  ASSUME IInv, NEW p \in Paths, AskRestore(p)
  PROVE  Agent' /\ AskedOnce'
<1>1. UNCHANGED <<Files, crashes, watcherVars, caseVars>> /\ Dispatch("delete", p)
  BY DEF AskRestore, Files
<1>2. Agent'  BY <1>1, AgentAsked DEF Agent
<1>3. Asked("delete", p) /\ Len(scripts) \in Nat
  <2>1. TypeOK  BY DEF IInv
  <2>. QED  BY <1>1, <2>1, OneMore, ScriptsLength
<1>4. /\ Ids' = Ids \cup {Len(scripts) + 1}
      /\ \A t \in Ids : scripts'[t] = scripts[t]
      /\ \A t \in Ids' : IsAdd(t)' => t \in Ids /\ IsAdd(t)
  BY <1>3 DEF Asked, Ids, IsAdd
<1>5. AskedOnce'  BY <1>1, <1>4 DEF IInv, AskedOnce, OneLife, watcherVars
<1>. QED  BY <1>2, <1>5

LEMMA TickStep ==
  ASSUME IInv, Tick
  PROVE  Agent' /\ AskedOnce'
<1>1. UNCHANGED <<Files, scripts, watcherVars, caseVars, crashes>>
  BY DEF Tick, Files, historyVars
<1>2. Agent'  BY <1>1, AgentStays DEF Agent, OneLife
<1>. QED  BY <1>1, <1>2 DEF IInv, AskedOnce, Ids, IsAdd, OneLife, watcherVars

(* The watcher's steps but for the request.                                *)
LEMMA QuietStep ==
  ASSUME IInv, Start \/ HandleAlert \/ LineTorn \/ SaveCase \/ IndexCase \/ OpenCaseFails
               \/ SendMail \/ MailFails \/ Crash \/ IdlePoll
  PROVE  Agent' /\ AskedOnce'
<1>. USE DEF agentVars, watcherVars, caseVars, historyVars
<1>1. UNCHANGED <<Files, scripts>> /\ (OneLife' => OneLife)
  BY DEF Files, OneLife, IInv, TypeOK, vars,
         Start, HandleAlert, LineTorn, SaveCase, IndexCase, OpenCaseFails, SendMail,
         MailFails, Crash, IdlePoll
<1>2. Agent'  BY <1>1, AgentStays DEF Agent
<1>3. Ids' = Ids /\ \A t \in Ids : (IsAdd(t)' <=> IsAdd(t)) /\ scripts'[t] = scripts[t]
  BY <1>1 DEF Ids, IsAdd
<1>4. AskedOnce'
  <2>1. CASE Start
    BY <1>1, <1>3, <2>1 DEF IInv, AskedOnce, Start
  <2>2. CASE HandleAlert
    BY <1>1, <1>3, <2>2 DEF IInv, AskedOnce, HandleAlert, NextLine
  <2>3. CASE LineTorn \/ SaveCase \/ IndexCase \/ OpenCaseFails \/ SendMail \/ MailFails \/ IdlePoll
    <3>1. pc' \notin {"down", "trigger"} /\ UNCHANGED <<path, seen>>
      BY <2>3 DEF LineTorn, NextLine, SaveCase, IndexCase, OpenCaseFails, SendMail, MailFails,
                  IdlePoll, vars
    <3>. QED  BY <1>1, <1>3, <3>1 DEF IInv, AskedOnce
  <2>4. CASE Crash
    BY <2>4 DEF Crash, AskedOnce, OneLife, IInv, TypeOK
  <2>. QED  BY <2>1, <2>2, <2>3, <2>4
<1>. QED  BY <1>2, <1>4

LEMMA TriggerStep ==
  ASSUME IInv, TriggerQuarantine \/ TriggerFails
  PROVE  Agent' /\ AskedOnce'
<1>1. /\ UNCHANGED <<Files, path, seen, crashes, caseVars>>
      /\ pc = "trigger" /\ pc' = "save"
      /\ Dispatch("add", path) \/ UNCHANGED scripts
  BY DEF TriggerQuarantine, TriggerFails, Triggered, Files
<1>2. path \in Paths  BY <1>1 DEF IInv, WatcherOK, TypeOK
<1>3. CASE Dispatch("add", path)
  <2>1. PICK p \in Paths : p = path  BY <1>2
  <2>2. Agent'  BY <1>1, <1>3, <2>1, AgentAsked DEF Agent
  <2>. QED  BY <1>1, <1>3, <2>2, AddAsked
<1>4. CASE UNCHANGED scripts
  <2>1. Agent'  BY <1>1, <1>4, AgentStays DEF Agent, OneLife
  <2>2. AskedOnce'  BY <1>1, <1>4 DEF IInv, AskedOnce, Ids, IsAdd, OneLife
  <2>. QED  BY <2>1, <2>2
<1>. QED  BY <1>1, <1>3, <1>4

-----------------------------------------------------------------------------
(* Types.                                                                  *)

(* What is in the webroot was uploaded, what is in the vault was taken.    *)
FilesIn ==
  /\ \A p \in Paths : webroot[p] <= Len(content)
  /\ \A n \in Names : vault[n] # 0 => vault[n] \in taken

NamesIn ==
  \A s \in Ids : scripts[s].pc \in {"origin", "move", "remove"} => scripts[s].name \in Names

TInv == TypeOK /\ WatcherOK /\ FilesIn /\ NamesIn

(* The parts of it.                                                        *)
AgentTyped ==
  /\ webroot \in [Paths -> 0 .. MaxUploads] /\ vault \in [Names -> 0 .. MaxUploads]
  /\ origin \in [Names -> Paths \cup {NoPath}]
  /\ second \in 0 .. MaxSeconds
  /\ scripts \in Seq(ScriptRecords)
  /\ content \in Seq(Paths) /\ taken \subseteq 1 .. Len(content) /\ given \subseteq taken
  /\ FilesIn /\ NamesIn

WatcherTyped ==
  /\ alerts \in Seq(Paths) /\ pos \in 0 .. Len(alerts)
  /\ pc \in {"down", "tail", "trigger", "save", "index", "mail"}
  /\ seen \subseteq Suspicious /\ path \in Paths \cup {NoPath} /\ triggered \in BOOLEAN
  /\ cases \in Seq([path : Paths, triggered : BOOLEAN])
  /\ index \subseteq 1 .. Len(cases) /\ mailed \subseteq index
  /\ answered \subseteq Paths
  /\ WatcherOK

Counted == restores \in 0 .. MaxRestores /\ faults \in 0 .. MaxFaults /\ crashes \in 0 .. MaxCrashes

Sides == AgentTyped /\ WatcherTyped /\ Counted

(* The alerts no process takes up and the paths a failure hit.             *)
LossTyped ==
  /\ torn \subseteq 1 .. Len(alerts) /\ skipped \subseteq 1 .. Len(alerts)
  /\ failed \subseteq Paths

LEMMA TwoSides == TInv <=> Sides /\ LossTyped
BY DEF TInv, TypeOK, Sides, LossTyped, AgentTyped, WatcherTyped, Counted, ScriptRecords, ScriptPcs

LEMMA BothSides == Sides' /\ LossTyped' => TInv'
BY DEF TInv, TypeOK, Sides, LossTyped, AgentTyped, WatcherTyped, Counted, ScriptRecords, ScriptPcs

LEMMA AgentUnchanged ==
  ASSUME AgentTyped, UNCHANGED <<webroot, vault, origin, second, scripts, content, taken, given>>
  PROVE  AgentTyped'
BY DEF AgentTyped, FilesIn, NamesIn, Ids

LEMMA AgentAskedTyped ==
  ASSUME TInv, UNCHANGED <<webroot, vault, origin, second, content, taken, given>>,
         NEW command \in {"add", "delete"}, NEW p \in Paths, Dispatch(command, p)
  PROVE  AgentTyped'
<1>1. Asked(command, p) /\ Len(scripts) \in Nat
  <2>1. TypeOK  BY DEF TInv
  <2>. QED  BY <2>1, OneMore, ScriptsLength
<1>2. NamesIn'  BY <1>1 DEF TInv, NamesIn, Ids, Asked
<1>3. FilesIn'  BY DEF TInv, FilesIn
<1>. QED  BY <1>1, <1>2, <1>3, TwoSides DEF Sides, AgentTyped, Asked

LEMMA UploadTyped ==
  ASSUME TInv, NEW p \in Paths, Upload(p)
  PROVE  Sides'
<1>1. AgentTyped /\ WatcherTyped /\ Counted  BY TwoSides DEF Sides
<1>2. /\ content \in Seq(Paths) /\ alerts \in Seq(Paths)
      /\ Len(content) \in Nat /\ Len(alerts) \in Nat
  BY <1>1 DEF AgentTyped, WatcherTyped
<1>3. /\ content' \in Seq(Paths) /\ Len(content') = Len(content) + 1
      /\ alerts' \in Seq(Paths) /\ Len(alerts') = Len(alerts) + 1
  BY <1>2, AppendProperties DEF Upload
<1>4. AgentTyped'
  <2>1. Len(content') \in 0 .. MaxUploads  BY <1>2, <1>3 DEF Upload
  <2>2. webroot' \in [Paths -> 0 .. MaxUploads]
        /\ \A q \in Paths : webroot'[q] = IF q = p THEN Len(content') ELSE webroot[q]
    BY <1>1, <2>1 DEF Upload, AgentTyped
  <2>3. FilesIn'
    BY <1>1, <1>2, <1>3, <2>2 DEF Upload, AgentTyped, FilesIn
  <2>4. NamesIn'  BY <1>1 DEF Upload, AgentTyped, NamesIn, Ids
  <2>. QED  BY <1>1, <1>2, <1>3, <2>2, <2>3, <2>4 DEF Upload, AgentTyped
<1>5. WatcherTyped'
  BY <1>1, <1>2, <1>3 DEF Upload, WatcherTyped, WatcherOK, watcherVars, caseVars
<1>6. Counted'  BY <1>1 DEF Upload, Counted
<1>. QED  BY <1>4, <1>5, <1>6 DEF Sides

LEMMA ScriptTyped ==
  ASSUME TInv, NEW s \in Ids, Script(s) \/ KillScript(s)
  PROVE  Sides'
<1>1. AgentTyped /\ WatcherTyped /\ Counted  BY TwoSides DEF Sides
<1>2. /\ UNCHANGED <<alerts, watcherVars, caseVars, answered, restores, crashes, second, content>>
      /\ UNCHANGED faults \/ Fault
  BY DEF Script, AddMove, AddOrigin, FindOrigin, RestoreMove, RestoreRemove, KillScript, historyVars
<1>3. WatcherTyped'
  BY <1>1, <1>2 DEF WatcherTyped, WatcherOK, watcherVars, caseVars
<1>4. Counted'  BY <1>1, <1>2 DEF Counted, Fault
<1>5. PICK p, n : p = scripts[s].path /\ n = scripts[s].name  OBVIOUS
<1>6. p \in Paths /\ n \in Names \cup {NoName}
      /\ (scripts[s].pc \in {"origin", "move", "remove"} => n \in Names)
  BY <1>5, ScriptType DEF TInv, ScriptRecords, NamesIn
<1>7. ASSUME NEW where \in ScriptPcs, NEW m \in Names \cup {NoName}, Become(s, where, m),
             where \in {"origin", "move", "remove"} => m \in Names
      PROVE  scripts' \in Seq(ScriptRecords) /\ NamesIn'
  <2>1. Became(s, where, m)  BY <1>7, OneScript DEF TInv
  <2>. QED  BY <1>7, <2>1 DEF TInv, NamesIn, Ids, Became
<1>8. AgentTyped'
  <2>1. CASE AddMove(s)
    <3>1. CASE p \in Allowed /\ webroot[p] # 0
      <4>1. PICK m : m = NameFor(p)  OBVIOUS
      <4>2. m \in Names  BY <1>6, <4>1, NameType DEF TInv
      <4>3. /\ vault' = [vault EXCEPT ![m] = webroot[p]]
            /\ webroot' = [webroot EXCEPT ![p] = 0]
            /\ taken' = taken \cup {webroot[p]}
            /\ Become(s, "origin", m) /\ UNCHANGED <<origin, second, content, given>>
        BY <1>5, <2>1, <3>1, <4>1 DEF AddMove
      <4>4. scripts' \in Seq(ScriptRecords) /\ NamesIn'  BY <1>7, <4>2, <4>3 DEF ScriptPcs
      <4>5. webroot[p] \in 1 .. Len(content) /\ webroot[p] \in 0 .. MaxUploads
        BY <1>1, <1>6, <3>1 DEF AgentTyped, FilesIn
      <4>6. /\ vault' \in [Names -> 0 .. MaxUploads]
            /\ \A k \in Names : vault'[k] = IF k = m THEN webroot[p] ELSE vault[k]
            /\ webroot' \in [Paths -> 0 .. MaxUploads]
            /\ \A q \in Paths : webroot'[q] = IF q = p THEN 0 ELSE webroot[q]
        BY <1>1, <1>6, <4>2, <4>3, <4>5 DEF AgentTyped
      <4>7. FilesIn'  BY <1>1, <4>3, <4>5, <4>6 DEF AgentTyped, FilesIn
      <4>. QED  BY <1>1, <4>3, <4>4, <4>5, <4>6, <4>7 DEF AgentTyped
    <3>2. CASE ~(p \in Allowed /\ webroot[p] # 0)
      <4>1. /\ UNCHANGED <<webroot, vault, origin, second, content, taken, given>>
            /\ Become(s, "failed", NoName)
        BY <1>5, <2>1, <3>2 DEF AddMove
      <4>2. scripts' \in Seq(ScriptRecords) /\ NamesIn'  BY <1>7, <4>1 DEF ScriptPcs
      <4>. QED  BY <1>1, <4>1, <4>2 DEF AgentTyped, FilesIn
    <3>. QED  BY <3>1, <3>2
  <2>2. CASE AddOrigin(s) \/ RestoreRemove(s)
    <3>1. /\ UNCHANGED <<webroot, vault, second, content, taken, given>>
          /\ Become(s, "ok", n) /\ n \in Names
          /\ \E q \in Paths \cup {NoPath} : origin' = [origin EXCEPT ![n] = q]
      BY <1>5, <1>6, <2>2 DEF AddOrigin, RestoreRemove, AtPc, historyVars
    <3>2. scripts' \in Seq(ScriptRecords) /\ NamesIn'  BY <1>7, <3>1 DEF ScriptPcs
    <3>. QED  BY <1>1, <3>1, <3>2 DEF AgentTyped, FilesIn
  <2>3. CASE FindOrigin(s)
    <3>1. /\ UNCHANGED <<webroot, vault, origin, second, content, taken, given>>
          /\ Become(s, "failed", NoName) \/ \E m \in Names : Become(s, "move", m)
      BY <2>3 DEF FindOrigin, historyVars
    <3>2. scripts' \in Seq(ScriptRecords) /\ NamesIn'  BY <1>7, <3>1 DEF ScriptPcs
    <3>. QED  BY <1>1, <3>1, <3>2 DEF AgentTyped, FilesIn
  <2>4. CASE RestoreMove(s)
    <3>0. n \in Names  BY <1>6, <2>4 DEF RestoreMove, AtPc
    <3>1. CASE vault[n] # 0
      <4>1. /\ webroot' = [webroot EXCEPT ![p] = vault[n]]
            /\ vault' = [vault EXCEPT ![n] = 0]
            /\ given' = given \cup {vault[n]}
            /\ Become(s, "remove", n) /\ UNCHANGED <<origin, second, content, taken>>
        BY <1>5, <2>4, <3>1 DEF RestoreMove
      <4>2. scripts' \in Seq(ScriptRecords) /\ NamesIn'  BY <1>7, <3>0, <4>1 DEF ScriptPcs
      <4>3. vault[n] \in taken /\ vault[n] <= Len(content) /\ vault[n] \in 0 .. MaxUploads
        BY <1>1, <3>0, <3>1 DEF AgentTyped, FilesIn
      <4>4. /\ vault' \in [Names -> 0 .. MaxUploads]
            /\ \A k \in Names : vault'[k] = IF k = n THEN 0 ELSE vault[k]
            /\ webroot' \in [Paths -> 0 .. MaxUploads]
            /\ \A q \in Paths : webroot'[q] = IF q = p THEN vault[n] ELSE webroot[q]
        BY <1>1, <1>6, <3>0, <4>1, <4>3 DEF AgentTyped
      <4>5. FilesIn'  BY <1>1, <4>1, <4>3, <4>4 DEF AgentTyped, FilesIn
      <4>. QED  BY <1>1, <4>1, <4>2, <4>3, <4>4, <4>5 DEF AgentTyped
    <3>2. CASE vault[n] = 0
      <4>1. /\ UNCHANGED <<webroot, vault, origin, second, content, taken, given>>
            /\ Become(s, "failed", n)
        BY <1>5, <2>4, <3>2 DEF RestoreMove
      <4>2. scripts' \in Seq(ScriptRecords) /\ NamesIn'  BY <1>7, <3>0, <4>1 DEF ScriptPcs
      <4>. QED  BY <1>1, <4>1, <4>2 DEF AgentTyped, FilesIn
    <3>. QED  BY <3>1, <3>2
  <2>5. CASE KillScript(s)
    <3>1. /\ UNCHANGED <<webroot, vault, origin, second, content, taken, given>>
          /\ Become(s, "killed", n)
      BY <1>5, <2>5 DEF KillScript
    <3>2. scripts' \in Seq(ScriptRecords) /\ NamesIn'  BY <1>6, <1>7, <3>1 DEF ScriptPcs
    <3>. QED  BY <1>1, <3>1, <3>2 DEF AgentTyped, FilesIn
  <2>. QED  BY <2>1, <2>2, <2>3, <2>4, <2>5 DEF Script
<1>. QED  BY <1>3, <1>4, <1>8 DEF Sides

LEMMA WatchTyped ==
  ASSUME TInv, Watch \/ Crash \/ IdlePoll
  PROVE  Sides'
<1>. USE DEF watcherVars, caseVars, historyVars
<1>1. AgentTyped /\ WatcherTyped /\ Counted  BY TwoSides DEF Sides
<1>2. /\ UNCHANGED <<webroot, vault, origin, second, content, taken, given, alerts, restores>>
      /\ UNCHANGED scripts \/ (pc = "trigger" /\ Dispatch("add", path))
  BY DEF Watch, Crash, IdlePoll, vars, agentVars, Start, HandleAlert, LineTorn,
         TriggerQuarantine, TriggerFails, Triggered, SaveCase, IndexCase, OpenCaseFails,
         SendMail, MailFails
<1>3. AgentTyped'
  <2>1. CASE UNCHANGED scripts  BY <1>1, <1>2, <2>1, AgentUnchanged
  <2>2. CASE pc = "trigger" /\ Dispatch("add", path)
    <3>1. PICK p \in Paths : p = path  BY <2>2 DEF TInv, WatcherOK, TypeOK
    <3>. QED  BY <1>2, <2>2, <3>1, AgentAskedTyped
  <2>. QED  BY <1>2, <2>1, <2>2
<1>4. Counted'
  <2>1. UNCHANGED <<faults, crashes>> \/ (Fault /\ UNCHANGED crashes)
        \/ (crashes < MaxCrashes /\ crashes' = crashes + 1 /\ UNCHANGED faults)
    BY DEF Watch, Crash, IdlePoll, vars, Start, HandleAlert, LineTorn,
           TriggerQuarantine, TriggerFails, Triggered, SaveCase, IndexCase, OpenCaseFails,
           SendMail, MailFails
  <2>. QED  BY <1>1, <1>2, <2>1 DEF Counted, Fault
<1>5. WatcherTyped'
  <2>. USE <1>1, <1>2 DEF WatcherTyped, WatcherOK
  <2>0. Len(alerts) \in Nat /\ Len(cases) \in Nat  OBVIOUS
  <2>1. CASE Start \/ Crash \/ IdlePoll
    <3>1. CASE Start  BY <2>0, <3>1 DEF Start
    <3>2. CASE Crash  BY <3>2 DEF Crash
    <3>3. CASE IdlePoll  BY <3>3 DEF IdlePoll, vars
    <3>. QED  BY <2>1, <3>1, <3>2, <3>3
  <2>2. CASE LineTorn  BY <2>2 DEF LineTorn, NextLine
  <2>3. CASE HandleAlert
    <3>1. pos' \in 1 .. Len(alerts)  BY <2>3 DEF HandleAlert, NextLine
    <3>2. alerts[pos'] \in Paths  BY <3>1, ElementOfSeq
    <3>. QED  BY <2>3, <3>1, <3>2 DEF HandleAlert, NextLine
  <2>4. CASE TriggerQuarantine \/ TriggerFails
    <3>1. /\ pc = "trigger" /\ pc' = "save" /\ triggered' \in BOOLEAN
          /\ answered' = answered \cup {path}
          /\ UNCHANGED <<pos, seen, path, caseVars>>
      BY <2>4 DEF TriggerQuarantine, TriggerFails, Triggered
    <3>2. path \in Paths  BY <3>1
    <3>. QED  BY <3>1, <3>2
  <2>5. ASSUME pc = "save", cases' = Append(cases, [path |-> path, triggered |-> triggered])
        PROVE  /\ cases' \in Seq([path : Paths, triggered : BOOLEAN])
               /\ Len(cases') = Len(cases) + 1 /\ Len(cases) \in Nat
    <3>1. path \in Paths  BY <2>5
    <3>2. [path |-> path, triggered |-> triggered] \in [path : Paths, triggered : BOOLEAN]
      BY <3>1
    <3>. QED  BY <2>5, <3>2, AppendProperties
  <2>6. CASE SaveCase
    <3>1. /\ pc = "save" /\ pc' = "index"
          /\ cases' = Append(cases, [path |-> path, triggered |-> triggered])
          /\ UNCHANGED <<pos, seen, path, triggered, index, mailed, answered>>
      BY <2>6 DEF SaveCase
    <3>. QED  BY <2>5, <3>1
  <2>7. CASE IndexCase
    <3>1. /\ pc' = "mail" /\ index' = index \cup {Len(cases)} /\ Len(cases) \in 1 .. Len(cases)
          /\ UNCHANGED <<pos, seen, path, triggered, cases, mailed, answered>>
      BY <2>7 DEF IndexCase
    <3>2. path \in seen  BY <2>7 DEF IndexCase
    <3>. QED  BY <3>1, <3>2
  <2>8. CASE OpenCaseFails
    <3>1. /\ pc' = "tail"
          /\ UNCHANGED <<pos, seen, path, triggered, mailed, answered>>
          /\ \/ pc = "save" /\ index' = index
                /\ \/ cases' = cases
                   \/ cases' = Append(cases, [path |-> path, triggered |-> triggered])
             \/ pc = "index" /\ index' \in {index, index \cup {Len(cases)}} /\ cases' = cases
      BY <2>8 DEF OpenCaseFails
    <3>2. /\ cases' \in Seq([path : Paths, triggered : BOOLEAN])
          /\ index' \subseteq 1 .. Len(cases') /\ index \subseteq index'
      <4>1. CASE pc = "index"
        <5>1. Len(cases) \in 1 .. Len(cases) /\ cases' = cases
              /\ index' \in {index, index \cup {Len(cases)}}
          BY <3>1, <4>1
        <5>. QED  BY <5>1
      <4>2. CASE pc = "save" /\ cases' = cases  BY <3>1, <4>2
      <4>3. CASE /\ pc = "save"
                 /\ cases' = Append(cases, [path |-> path, triggered |-> triggered])
        <5>1. /\ cases' \in Seq([path : Paths, triggered : BOOLEAN])
              /\ Len(cases') = Len(cases) + 1 /\ Len(cases) \in Nat
          BY <2>5, <4>3
        <5>2. index' = index  BY <3>1, <4>3
        <5>. QED  BY <5>1, <5>2
      <4>. QED  BY <3>1, <4>1, <4>2, <4>3
    <3>. QED  BY <3>1, <3>2
  <2>9. CASE SendMail \/ MailFails  BY <2>9 DEF SendMail, MailFails
  <2>. QED  BY <2>1, <2>2, <2>3, <2>4, <2>6, <2>7, <2>8, <2>9 DEF Watch
<1>. QED  BY <1>3, <1>4, <1>5 DEF Sides

LEMMA LossStep ==
  ASSUME TInv, [Next]_vars
  PROVE  LossTyped'
<1>. USE DEF watcherVars, caseVars, historyVars
<1>1. /\ LossTyped /\ Len(alerts) \in Nat /\ pos \in 0 .. Len(alerts)
      /\ pc \in {"trigger", "save", "index"} => path \in Paths
  <2>1. LossTyped  BY TwoSides
  <2>2. alerts \in Seq(Paths) /\ pos \in 0 .. Len(alerts) /\ path \in Paths \cup {NoPath}
    BY DEF TInv, TypeOK
  <2>3. pc \in {"trigger", "save", "index"} => path \in Paths
    BY FimConstants DEF TInv, TypeOK, WatcherOK
  <2>. QED  BY <2>1, <2>2, <2>3
<1>2. CASE UNCHANGED <<alerts, torn, skipped>> /\ failed' \subseteq Paths
  BY <1>1, <1>2 DEF LossTyped
<1>3. ASSUME NEW p \in Paths, Upload(p)
      PROVE  LossTyped'
  <2>1. alerts \in Seq(Paths)  BY DEF TInv, TypeOK
  <2>2. Len(alerts') = Len(alerts) + 1  BY <1>3, <2>1 DEF Upload
  <2>3. UNCHANGED <<torn, skipped, failed>>  BY <1>3 DEF Upload
  <2>. QED  BY <1>1, <2>2, <2>3 DEF LossTyped
<1>4. CASE Start
  <2>1. /\ UNCHANGED <<alerts, torn, failed>>
        /\ skipped' = skipped \cup (pos + 1 .. Len(alerts))
    BY <1>4 DEF Start
  <2>2. pos + 1 .. Len(alerts) \subseteq 1 .. Len(alerts)  BY <1>1
  <2>. QED  BY <1>1, <2>1, <2>2 DEF LossTyped
<1>5. CASE LineTorn
  <2>1. /\ UNCHANGED <<alerts, skipped, failed>>
        /\ torn' = torn \cup {pos + 1} /\ pos < Len(alerts)
    BY <1>5 DEF LineTorn, NextLine
  <2>2. pos + 1 \in 1 .. Len(alerts)  BY <1>1, <2>1
  <2>. QED  BY <1>1, <2>1, <2>2 DEF LossTyped
<1>6. ASSUME NEW s \in Ids, Script(s) \/ KillScript(s)
      PROVE  LossTyped'
  <2>1. scripts[s].path \in Paths  BY ScriptType DEF TInv, ScriptRecords
  <2>2. UNCHANGED <<alerts, torn, skipped>> /\ failed' \in {failed, failed \cup {scripts[s].path}}
    BY <1>6 DEF Script, AddMove, AddOrigin, FindOrigin, RestoreMove, RestoreRemove, KillScript
  <2>. QED  BY <1>1, <1>2, <2>1, <2>2 DEF LossTyped
<1>7. CASE TriggerFails \/ OpenCaseFails \/ Crash
  <2>1. /\ UNCHANGED <<alerts, torn, skipped>>
        /\ \/ failed' = failed
           \/ pc \in {"trigger", "save", "index"} /\ failed' = failed \cup {path}
    BY <1>7 DEF TriggerFails, Triggered, OpenCaseFails, Crash
  <2>. QED  BY <1>1, <1>2, <2>1 DEF LossTyped
<1>8. CASE \/ HandleAlert \/ TriggerQuarantine \/ SaveCase \/ IndexCase \/ SendMail \/ MailFails
  <2>1. UNCHANGED <<alerts, torn, skipped, failed>>
    BY <1>8 DEF HandleAlert, TriggerQuarantine, Triggered, SaveCase, IndexCase, SendMail, MailFails
  <2>. QED  BY <1>1, <1>2, <2>1 DEF LossTyped
<1>9. CASE Tick \/ IdlePoll \/ UNCHANGED vars
  <2>1. UNCHANGED <<alerts, torn, skipped, failed>>  BY <1>9 DEF Tick, IdlePoll, vars
  <2>. QED  BY <1>1, <1>2, <2>1 DEF LossTyped
<1>10. ASSUME NEW p \in Paths, AskRestore(p)
       PROVE  LossTyped'
  <2>1. UNCHANGED <<alerts, torn, skipped, failed>>  BY <1>10 DEF AskRestore
  <2>. QED  BY <1>1, <1>2, <2>1 DEF LossTyped
<1>. QED  BY <1>3, <1>4, <1>5, <1>6, <1>7, <1>8, <1>9, <1>10 DEF Next, Watch, Ids

LEMMA TypeStep ==
  ASSUME TInv, [Next]_vars
  PROVE  TInv'
<1>1. AgentTyped /\ WatcherTyped /\ Counted  BY TwoSides DEF Sides
<1>2. ASSUME NEW p \in Paths, AskRestore(p)
      PROVE  Sides'
  <2>1. AgentTyped'  BY <1>2, AgentAskedTyped DEF AskRestore
  <2>2. WatcherTyped' /\ Counted'
    BY <1>1, <1>2 DEF AskRestore, WatcherTyped, WatcherOK, Counted, watcherVars, caseVars
  <2>. QED  BY <2>1, <2>2 DEF Sides
<1>3. ASSUME Tick PROVE Sides'
  <2>1. AgentTyped'
    BY <1>1, <1>3 DEF Tick, AgentTyped, FilesIn, NamesIn, Ids, historyVars
  <2>2. WatcherTyped' /\ Counted'
    BY <1>1, <1>3 DEF Tick, WatcherTyped, WatcherOK, Counted, watcherVars, caseVars, historyVars
  <2>. QED  BY <2>1, <2>2 DEF Sides
<1>4. ASSUME UNCHANGED vars PROVE Sides'
  <2>1. AgentTyped'  BY <1>1, <1>4, AgentUnchanged DEF vars, agentVars, historyVars
  <2>2. WatcherTyped' /\ Counted'
    BY <1>1, <1>4 DEF vars, agentVars, watcherVars, caseVars, historyVars,
                      WatcherTyped, WatcherOK, Counted
  <2>. QED  BY <2>1, <2>2 DEF Sides
<1>5. Sides'
  BY <1>2, <1>3, <1>4, UploadTyped, ScriptTyped, WatchTyped DEF Next, Ids
<1>. QED  BY <1>5, LossStep, BothSides

LEMMA TypeInit == Init => TInv
<1>. SUFFICES ASSUME Init PROVE TInv  OBVIOUS
<1>1. AgentTyped  BY DEF Init, AgentTyped, FilesIn, NamesIn, Ids
<1>2. /\ alerts = <<>> /\ cases = <<>> /\ pos = 0 /\ pc = "down" /\ path = NoPath
      /\ seen = {} /\ index = {} /\ mailed = {} /\ answered = {}
      /\ triggered = FALSE
  BY DEF Init
<1>3. WatcherTyped
  <2>1. alerts \in Seq(Paths) /\ Len(alerts) = 0  BY <1>2
  <2>2. cases \in Seq([path : Paths, triggered : BOOLEAN]) /\ Len(cases) = 0  BY <1>2
  <2>3. pos \in 0 .. Len(alerts)  BY <1>2, <2>1
  <2>4. /\ seen \subseteq Suspicious /\ path \in Paths \cup {NoPath} /\ triggered \in BOOLEAN
        /\ index \subseteq 1 .. Len(cases) /\ mailed \subseteq index
        /\ answered \subseteq Paths
    BY <1>2
  <2>5. WatcherOK  BY <1>2 DEF WatcherOK
  <2>. QED  BY <1>2, <2>1, <2>2, <2>3, <2>4, <2>5 DEF WatcherTyped
<1>4. Counted  BY DEF Init, Counted
<1>5. LossTyped  BY <1>2 DEF Init, LossTyped
<1>. QED  BY <1>1, <1>3, <1>4, <1>5, TwoSides DEF Sides

(* The types of the response to a file alert: what is in quarantine was    *)
(* taken, what was moved back had been taken, an indexed case is stored,   *)
(* a mailed one is in the index, and the watcher reads inside alerts.json. *)
THEOREM FimTypeCorrect == Spec => []TypeOK
<1>1. TInv /\ [Next]_vars => TInv'  BY TypeStep
<1>2. TInv => TypeOK  BY DEF TInv
<1>. QED  BY TypeInit, <1>1, <1>2, PTL DEF Spec

-----------------------------------------------------------------------------
(* Evidence.                                                               *)

LEMMA EvidenceInit == NamesDiffer /\ Init => IInv
<1>. SUFFICES ASSUME NamesDiffer, Init PROVE IInv  OBVIOUS
<1>1. TypeOK /\ WatcherOK  BY TypeInit DEF TInv
<1>2. FilesOK /\ ScriptsOK /\ AskedOnce /\ UsedOK
  BY DEF Init, FilesOK, ScriptsOK, AskedOnce, UsedOK, Ids
<1>3. EvidenceRecoverable
  BY DEF Init, EvidenceRecoverable, EvidenceKept, OriginMatches
<1>. QED  BY <1>1, <1>2, <1>3 DEF IInv

LEMMA EvidenceStep ==
  ASSUME IInv, [Next]_vars
  PROVE  IInv'
<1>1. TInv
  <2>1. FilesIn
    <3>1. webroot \in [Paths -> 0 .. MaxUploads] /\ Len(content) \in Nat
      BY DEF IInv, TypeOK
    <3>. QED  BY <3>1 DEF IInv, FilesOK, FilesIn
  <2>2. NamesIn  BY DEF IInv, ScriptsOK, NamesIn
  <2>. QED  BY <2>1, <2>2 DEF IInv, TInv
<1>2. TypeOK' /\ WatcherOK'  BY <1>1, TypeStep DEF TInv
<1>3. NamesDiffer'  BY DEF IInv, NamesDiffer
<1>4. Agent' /\ AskedOnce'
  <2>1. CASE UNCHANGED vars
    <3>1. UNCHANGED <<Files, scripts, path, seen, pc, crashes>>
      BY <2>1 DEF vars, agentVars, watcherVars, historyVars, Files
    <3>2. Agent'  BY <3>1, AgentStays DEF Agent, OneLife
    <3>3. AskedOnce'  BY <3>1 DEF IInv, AskedOnce, Ids, IsAdd, OneLife
    <3>. QED  BY <3>2, <3>3
  <2>2. CASE Next
    BY <2>2, UploadStep, AskRestoreStep, ScriptStep, TickStep, QuietStep, TriggerStep
       DEF Next, Watch, Agent, Ids
  <2>. QED  BY <2>1, <2>2
<1>. QED  BY <1>2, <1>3, <1>4 DEF IInv, Agent

(* While the watcher is not restarted, and when safe_name tells the paths  *)
(* apart, quarantine keeps every file it took until the file is moved back *)
(* and its .origin says where it belongs: for any number of uploads,       *)
(* restorations by hand, scripts that run beside one another and scripts   *)
(* that die.                                                               *)
THEOREM EvidenceIsRecoverable == NamesDiffer /\ Spec => []EvidenceRecoverable
<1>1. IInv /\ [Next]_vars => IInv'  BY EvidenceStep
<1>2. IInv => EvidenceRecoverable  BY DEF IInv
<1>. QED  BY EvidenceInit, <1>1, <1>2, PTL DEF Spec

-----------------------------------------------------------------------------
(* How many paths go without a case, and how many cases a path gets.       *)

(* The path the watcher still owes a case to.                              *)
InProgress == IF pc \in {"trigger", "save", "index"} THEN {path} ELSE {}

Unlisted == {p \in answered : ~Listed(p)} \ InProgress

CasesOf(p) == {c \in 1 .. Len(cases) : cases[c].path = p}

(* What the life of the watcher that is running may have opened for p.     *)
ThisLife(p) ==
  IF pc # "down" /\ p \in seen /\ ~(pc \in {"trigger", "save"} /\ p = path) THEN 1 ELSE 0

CountInv ==
  /\ pc = "index" => cases[Len(cases)].path = path
  /\ IsFiniteSet(answered) /\ Cardinality(Unlisted) <= faults + crashes
  /\ \A p \in Paths : Cardinality(CasesOf(p)) <= crashes + ThisLife(p)

(* Steps the count does not see: outside, on the agent, a line that tells  *)
(* nothing.                                                                *)
Aside == UNCHANGED <<pc, path, seen, cases, index, answered,
                     crashes>> /\ faults \in Nat /\ faults' >= faults

LEMMA WatcherOrAside ==
  ASSUME TInv, [Next]_vars
  PROVE  \/ Aside
         \/ Start \/ HandleAlert \/ TriggerQuarantine \/ TriggerFails
         \/ SaveCase \/ IndexCase \/ OpenCaseFails \/ SendMail \/ MailFails \/ Crash
<1>0. faults \in Nat
  BY DEF TInv, TypeOK
<1>1. CASE \E p \in Paths : Upload(p) \/ AskRestore(p)
  BY <1>0, <1>1 DEF Upload, AskRestore, Aside, watcherVars, caseVars
<1>2. CASE \E s \in 1 .. Len(scripts) : Script(s) \/ KillScript(s)
  <2>1. PICK s \in 1 .. Len(scripts) : Script(s) \/ KillScript(s)
    BY <1>2
  <2>2. CASE Script(s)
    BY <1>0, <2>2 DEF Script, AddMove, AddOrigin, FindOrigin, RestoreMove, RestoreRemove, Aside,
                      watcherVars, caseVars, historyVars
  <2>3. CASE KillScript(s)
    BY <1>0, <2>3 DEF KillScript, Fault, Aside, watcherVars, caseVars
  <2> QED BY <2>1, <2>2, <2>3
<1>3. CASE Tick \/ LineTorn \/ IdlePoll \/ UNCHANGED vars
  BY <1>0, <1>3 DEF Tick, LineTorn, Fault, IdlePoll, Aside, vars, watcherVars, caseVars, historyVars
<1> QED BY <1>1, <1>2, <1>3 DEF Next, Watch

(* Cases and their index only grow.                                        *)
LEMMA CasesGrow ==
  ASSUME TInv, [Next]_vars
  PROVE  /\ Len(cases) \in Nat /\ Len(cases') \in Nat /\ Len(cases) <= Len(cases')
         /\ \A c \in 1 .. Len(cases) : cases'[c] = cases[c]
         /\ index \subseteq index' /\ index \subseteq 1 .. Len(cases)
<1>1. Len(cases) \in Nat /\ index \subseteq 1 .. Len(cases)
  BY DEF TInv, TypeOK
<1>2. ASSUME UNCHANGED cases, index \subseteq index'
      PROVE  /\ Len(cases') \in Nat /\ Len(cases) <= Len(cases')
             /\ \A c \in 1 .. Len(cases) : cases'[c] = cases[c]
  BY <1>1, <1>2
<1>3. ASSUME UNCHANGED index, cases' = Append(cases, [path |-> path, triggered |-> triggered])
      PROVE  /\ Len(cases') \in Nat /\ Len(cases) <= Len(cases')
             /\ \A c \in 1 .. Len(cases) : cases'[c] = cases[c]
  BY <1>1, <1>3 DEF TInv, TypeOK
<1>4. CASE Aside \/ Start \/ HandleAlert \/ TriggerQuarantine \/ TriggerFails \/ IndexCase
           \/ SendMail \/ MailFails \/ Crash
  BY <1>1, <1>2, <1>4 DEF Aside, Start, HandleAlert, TriggerQuarantine, TriggerFails, Triggered,
                          IndexCase, SendMail, MailFails, Crash, caseVars
<1>5. CASE SaveCase \/ OpenCaseFails
  BY <1>1, <1>2, <1>3, <1>5 DEF SaveCase, OpenCaseFails
<1> QED BY <1>1, <1>4, <1>5, WatcherOrAside

LEMMA ListedStays ==
  ASSUME TInv, [Next]_vars, NEW p, Listed(p)
  PROVE  Listed(p)'
<1>1. PICK c \in index : cases[c].path = p
  BY DEF Listed
<1>2. c \in index' /\ cases'[c].path = p
  BY <1>1, CasesGrow
<1> QED BY <1>2 DEF Listed

(* Bounds that go up with a failing call or a crash.                       *)
LEMMA CountCarries ==
  ASSUME NEW A, IsFiniteSet(A), NEW x, NEW B, B \subseteq A \cup {x},
         NEW f \in Nat, NEW c \in Nat, NEW g \in Nat, NEW d \in Nat,
         Cardinality(A) <= f + c,
         \/ B \subseteq A /\ f <= g /\ c <= d
         \/ g = f + 1 /\ c = d
         \/ g = f /\ d = c + 1
  PROVE  Cardinality(B) <= g + d
<1>1. /\ Cardinality(A) \in Nat /\ IsFiniteSet(A \cup {x}) /\ Cardinality(A \cup {x}) \in Nat
      /\ Cardinality(A \cup {x}) <= Cardinality(A) + 1
  <2>1. /\ IsFiniteSet(A \cup {x})
        /\ Cardinality(A \cup {x}) = IF x \in A THEN Cardinality(A) ELSE Cardinality(A) + 1
    BY FS_AddElement
  <2>2. Cardinality(A) \in Nat
    BY FS_CardinalityType
  <2> QED BY <2>1, <2>2
<1>2. /\ Cardinality(B) <= Cardinality(A \cup {x}) /\ Cardinality(B) \in Nat
      /\ B \subseteq A => Cardinality(B) <= Cardinality(A)
  BY <1>1, FS_Subset, FS_CardinalityType
<1>3. CASE B \subseteq A /\ f <= g /\ c <= d
  BY <1>1, <1>2, <1>3
<1>4. CASE (g = f + 1 /\ c = d) \/ (g = f /\ d = c + 1)
  BY <1>1, <1>2, <1>4
<1> QED BY <1>3, <1>4

LEMMA UnlistedStep ==
  ASSUME TInv, CountInv, [Next]_vars
  PROVE  IsFiniteSet(answered') /\ Cardinality(Unlisted') <= faults' + crashes'
<1>0. PICK f \in Nat, c \in Nat, g \in Nat, d \in Nat :
        f = faults /\ c = crashes /\ g = faults' /\ d = crashes'
  <2>1. TInv'
    BY TypeStep
  <2>2. faults \in Nat /\ crashes \in Nat /\ faults' \in Nat /\ crashes' \in Nat
    BY <2>1 DEF TInv, TypeOK
  <2> QED BY <2>2
<1>1. IsFiniteSet(answered')
  <2>1. answered' = answered \/ answered' = answered \cup {path}
    BY WatcherOrAside DEF Aside, Start, HandleAlert, TriggerQuarantine, TriggerFails, Triggered,
                          SaveCase, IndexCase, OpenCaseFails, SendMail, MailFails, Crash,
                              historyVars
  <2> QED BY <2>1, FS_AddElement DEF CountInv
<1>2. \A p : Listed(p) => Listed(p)'
  BY ListedStays
<1>3. IsFiniteSet(Unlisted) /\ Cardinality(Unlisted) <= f + c
  BY <1>0, FS_Subset DEF CountInv, Unlisted
<1>4. /\ Unlisted' \subseteq Unlisted \cup {path}
      /\ \/ Unlisted' \subseteq Unlisted /\ f <= g /\ c <= d
         \/ g = f + 1 /\ c = d
         \/ g = f /\ d = c + 1
  <2>1. CASE Aside
    BY <1>0, <1>2, <2>1 DEF Aside, Unlisted, InProgress, Listed
  <2>2. CASE Start \/ HandleAlert
    BY <1>0, <1>2, <2>2 DEF Start, HandleAlert, NextLine, historyVars, caseVars, Unlisted,
                            InProgress, Listed
  <2>3. CASE TriggerQuarantine \/ TriggerFails
    <3>1. /\ pc = "trigger" /\ pc' = "save" /\ UNCHANGED <<path, crashes>>
          /\ answered' = answered \cup {path}
          /\ faults' = faults \/ faults' = faults + 1
      BY <2>3 DEF TriggerQuarantine, TriggerFails, Triggered, Fault
    <3>2. Unlisted' \subseteq Unlisted
      BY <1>2, <3>1 DEF Unlisted, InProgress
    <3>3. f <= g /\ c <= d
      BY <1>0, <3>1
    <3> QED BY <3>2, <3>3
  <2>4. CASE SaveCase
    <3>1. /\ pc = "save" /\ pc' = "index" /\ UNCHANGED <<path, answered, faults, crashes>>
      BY <2>4 DEF SaveCase, historyVars
    <3> QED BY <1>0, <1>2, <3>1 DEF Unlisted, InProgress
  <2>5. CASE IndexCase
    <3>1. /\ pc = "index" /\ pc' = "mail" /\ UNCHANGED <<path, cases, answered, faults, crashes>>
          /\ index' = index \cup {Len(cases)} /\ cases[Len(cases)].path = path
      BY <2>5 DEF IndexCase, historyVars, CountInv
    <3>2. Listed(path)'
      BY <3>1 DEF Listed
    <3>3. Unlisted' \subseteq Unlisted
      BY <1>2, <3>1, <3>2 DEF Unlisted, InProgress
    <3> QED BY <1>0, <3>1, <3>3
  <2>6. CASE OpenCaseFails
    <3>1. /\ pc \in {"save", "index"} /\ pc' = "tail" /\ UNCHANGED <<answered, crashes>>
          /\ faults' = faults + 1
      BY <2>6 DEF OpenCaseFails, Fault
    <3>2. Unlisted' \subseteq Unlisted \cup {path}
      BY <1>2, <3>1 DEF Unlisted, InProgress
    <3> QED BY <1>0, <3>1, <3>2
  <2>7. CASE SendMail \/ MailFails
    <3>1. /\ pc = "mail" /\ pc' = "tail" /\ UNCHANGED <<answered, crashes>>
          /\ faults' = faults \/ faults' = faults + 1
      BY <2>7 DEF SendMail, MailFails, Fault, historyVars
    <3>2. Unlisted' \subseteq Unlisted
      BY <1>2, <3>1 DEF Unlisted, InProgress
    <3>3. f <= g /\ c <= d
      BY <1>0, <3>1
    <3> QED BY <3>2, <3>3
  <2>8. CASE Crash
    <3>1. pc' = "down" /\ UNCHANGED <<answered, faults>> /\ crashes' = crashes + 1
      BY <2>8 DEF Crash
    <3>2. Unlisted' \subseteq Unlisted \cup {path}
      BY <1>2, <3>1 DEF Unlisted, InProgress
    <3> QED BY <1>0, <3>1, <3>2
  <2> QED BY <2>1, <2>2, <2>3, <2>4, <2>5, <2>6, <2>7, <2>8, WatcherOrAside
<1>5. Cardinality(Unlisted') <= g + d
  BY <1>3, <1>4, CountCarries
<1> QED BY <1>0, <1>1, <1>5

(* The cases of a path: one more when its case is saved.                   *)
LEMMA CasesOfStep ==
  ASSUME TInv, [Next]_vars, NEW p
  PROVE  /\ IsFiniteSet(CasesOf(p))
         /\ \/ CasesOf(p)' = CasesOf(p)
            \/ /\ p = path /\ pc = "save"
               /\ CasesOf(p)' = CasesOf(p) \cup {Len(cases) + 1}
<1>1. Len(cases) \in Nat /\ IsFiniteSet(1 .. Len(cases))
  BY FS_Interval DEF TInv, TypeOK
<1>2. IsFiniteSet(CasesOf(p))
  BY <1>1, FS_Subset DEF CasesOf
<1>3. CASE UNCHANGED cases
  BY <1>2, <1>3 DEF CasesOf
<1>4. CASE pc = "save" /\ cases' = Append(cases, [path |-> path, triggered |-> triggered])
  <2>1. /\ Len(cases') = Len(cases) + 1
        /\ \A c \in 1 .. Len(cases) : cases'[c] = cases[c]
        /\ cases'[Len(cases) + 1].path = path
    BY <1>1, <1>4 DEF TInv, TypeOK
  <2>2. CASE p = path
    <3>1. \A c \in 1 .. Len(cases') : c \in 1 .. Len(cases) \/ c = Len(cases) + 1
      BY <1>1, <2>1
    <3>2. Len(cases) + 1 \in 1 .. Len(cases') /\ 1 .. Len(cases) \subseteq 1 .. Len(cases')
      BY <1>1, <2>1
    <3>3. CasesOf(p)' = CasesOf(p) \cup {Len(cases) + 1}
      BY <2>1, <2>2, <3>1, <3>2 DEF CasesOf
    <3> QED BY <1>2, <1>4, <2>2, <3>3
  <2>3. CASE p # path
    <3>1. \A c \in 1 .. Len(cases') : c \in 1 .. Len(cases) \/ c = Len(cases) + 1
      BY <1>1, <2>1
    <3>2. 1 .. Len(cases) \subseteq 1 .. Len(cases')
      BY <1>1, <2>1
    <3>3. CasesOf(p)' = CasesOf(p)
      BY <2>1, <2>3, <3>1, <3>2 DEF CasesOf
    <3> QED BY <1>2, <3>3
  <2> QED BY <2>2, <2>3
<1> QED BY <1>3, <1>4, WatcherOrAside
        DEF Aside, Start, HandleAlert, TriggerQuarantine, TriggerFails, Triggered, SaveCase,
            IndexCase, OpenCaseFails, SendMail, MailFails, Crash, caseVars

LEMMA ThisLifeStep ==
  ASSUME TInv, CountInv, [Next]_vars, NEW p \in Paths
  PROVE  Cardinality(CasesOf(p)') <= crashes' + ThisLife(p)'
<1>0. path \in seen \/ pc \notin {"trigger", "save", "index", "mail"}
  BY DEF TInv, WatcherOK
<1>1. PICK c \in Nat : c = crashes
  BY DEF TInv, TypeOK
<1>2. Cardinality(CasesOf(p)) <= c + ThisLife(p) /\ ThisLife(p) \in {0, 1}
  BY <1>1 DEF CountInv, ThisLife
<1>3. IsFiniteSet(CasesOf(p)) /\ Cardinality(CasesOf(p)) \in Nat
  BY CasesOfStep, FS_CardinalityType
<1>4. CASE CasesOf(p)' = CasesOf(p)
  <2>1. \/ crashes' = crashes /\ (ThisLife(p)' = ThisLife(p) \/ ThisLife(p)' = 1)
        \/ crashes' = crashes + 1 /\ ThisLife(p)' = 0
        \/ crashes' = crashes /\ ThisLife(p) = 0 /\ ThisLife(p)' = 0
    <3>1. CASE Aside
      BY <3>1 DEF Aside, ThisLife
    <3>2. CASE Start
      BY <3>2 DEF Start, ThisLife, historyVars
    <3>3. CASE HandleAlert
      BY <3>3 DEF HandleAlert, NextLine, ThisLife, historyVars
    <3>4. CASE TriggerQuarantine \/ TriggerFails
      BY <3>4 DEF TriggerQuarantine, TriggerFails, Triggered, ThisLife
    <3>5. CASE SaveCase \/ IndexCase \/ OpenCaseFails
      BY <3>5 DEF SaveCase, IndexCase, OpenCaseFails, ThisLife, historyVars
    <3>6. CASE SendMail \/ MailFails
      BY <3>6 DEF SendMail, MailFails, ThisLife, historyVars
    <3>7. CASE Crash
      BY <3>7 DEF Crash, ThisLife
    <3> QED BY <3>1, <3>2, <3>3, <3>4, <3>5, <3>6, <3>7, WatcherOrAside
  <2>2. ThisLife(p)' \in {0, 1}
    BY DEF ThisLife
  <2> QED BY <1>1, <1>2, <1>3, <1>4, <2>1, <2>2
<1>5. CASE p = path /\ pc = "save" /\ CasesOf(p)' = CasesOf(p) \cup {Len(cases) + 1}
  <2>1. ThisLife(p) = 0
    BY <1>5 DEF ThisLife
  <2>2. CASE SaveCase \/ OpenCaseFails
    <3>1. /\ pc' \in {"index", "tail"} /\ UNCHANGED <<path, seen, crashes>>
      BY <2>2 DEF SaveCase, OpenCaseFails, historyVars
    <3>2. ThisLife(p)' = 1
      BY <1>0, <1>5, <3>1 DEF ThisLife
    <3>3. Cardinality(CasesOf(p)') <= Cardinality(CasesOf(p)) + 1 /\ Cardinality(CasesOf(p)') \in Nat
      <4>1. IsFiniteSet(CasesOf(p)')
            /\ Cardinality(CasesOf(p)') = IF Len(cases) + 1 \in CasesOf(p) THEN Cardinality(CasesOf(p))
                                          ELSE Cardinality(CasesOf(p)) + 1
        <5>1. /\ IsFiniteSet(CasesOf(p) \cup {Len(cases) + 1})
              /\ Cardinality(CasesOf(p) \cup {Len(cases) + 1})
                   = IF Len(cases) + 1 \in CasesOf(p) THEN Cardinality(CasesOf(p))
                     ELSE Cardinality(CasesOf(p)) + 1
          BY <1>3, FS_AddElement, Zenon
        <5> QED BY <1>5, <5>1, Zenon
      <4> QED BY <1>3, <4>1
    <3> QED BY <1>1, <1>2, <1>3, <2>1, <3>1, <3>2, <3>3
  <2>3. CASE ~(SaveCase \/ OpenCaseFails)
    <3>1. UNCHANGED cases
      BY <2>3, WatcherOrAside
         DEF Aside, Start, HandleAlert, TriggerQuarantine, TriggerFails, Triggered, IndexCase,
             SendMail, MailFails, Crash, caseVars
    <3> QED BY <1>4, <3>1 DEF CasesOf
  <2> QED BY <2>2, <2>3
<1> QED BY <1>4, <1>5, CasesOfStep

LEMMA CountStep == TInv /\ CountInv /\ [Next]_vars => CountInv'
<1> SUFFICES ASSUME TInv, CountInv, [Next]_vars PROVE CountInv'
  OBVIOUS
<1>1. ASSUME pc' = "index" PROVE cases'[Len(cases')].path = path'
  <2>1. CASE SaveCase
    BY <2>1 DEF SaveCase, TInv, TypeOK
  <2>2. CASE ~SaveCase
    <3>1. pc = "index" /\ UNCHANGED <<cases, path>>
      BY <1>1, <2>2, WatcherOrAside
         DEF Aside, Start, HandleAlert, TriggerQuarantine, TriggerFails, Triggered, IndexCase,
             OpenCaseFails, SendMail, MailFails, Crash, caseVars
    <3> QED BY <3>1 DEF CountInv
  <2> QED BY <2>1, <2>2
<1> QED BY <1>1, UnlistedStep, ThisLifeStep DEF CountInv

LEMMA CountInvariant == Spec => []CountInv
<1>1. Init => CountInv
  <2> SUFFICES ASSUME Init PROVE CountInv
    OBVIOUS
  <2>1. /\ cases = <<>> /\ answered = {} /\ seen = {} /\ pc = "down"
        /\ faults = 0 /\ crashes = 0
    BY DEF Init
  <2>2. Len(cases) = 0 /\ \A p \in Paths : CasesOf(p) = {}
    BY <2>1, EmptySeq DEF CasesOf
  <2>3. Unlisted = {}
    BY <2>1 DEF Unlisted
  <2>4. /\ IsFiniteSet(answered) /\ Cardinality(Unlisted) = 0
        /\ \A p \in Paths : Cardinality(CasesOf(p)) = 0
    BY <2>1, <2>2, <2>3, FS_EmptySet
  <2>5. \A p \in Paths : ThisLife(p) \in {0, 1}
    BY DEF ThisLife
  <2> QED BY <2>1, <2>4, <2>5 DEF CountInv
<1> QED BY <1>1, CountStep, TypeInit, TypeStep, PTL DEF Spec

(* A path the watcher acted on gets its case once it is done, but for one  *)
(* per failing call or crash, and no more than one case in each life of    *)
(* the watcher.                                                            *)
THEOREM CasesAreBounded == Spec => []CasesBounded
<1>1. TInv /\ CountInv => CasesBounded
  <2> SUFFICES ASSUME TInv, CountInv PROVE CasesBounded
    OBVIOUS
  <2>1. PICK f \in Nat, c \in Nat : f = faults /\ c = crashes
    BY DEF TInv, TypeOK
  <2>2. IsFiniteSet(Unlisted) /\ Cardinality(Unlisted) <= f + c
    BY <2>1, FS_Subset DEF CountInv, Unlisted
  <2>3. {p \in answered \ {path} : ~Listed(p)} \subseteq Unlisted
    BY DEF Unlisted, InProgress
  <2>4. Cardinality({p \in answered \ {path} : ~Listed(p)}) <= f + c
    <3>1. /\ IsFiniteSet({p \in answered \ {path} : ~Listed(p)})
          /\ Cardinality({p \in answered \ {path} : ~Listed(p)}) <= Cardinality(Unlisted)
      BY <2>2, <2>3, FS_Subset
    <3>2. /\ Cardinality(Unlisted) \in Nat
          /\ Cardinality({p \in answered \ {path} : ~Listed(p)}) \in Nat
      BY <2>2, <3>1, FS_CardinalityType
    <3> QED BY <2>2, <3>1, <3>2
  <2>5. ASSUME NEW p \in Paths PROVE Cardinality(CasesOf(p)) <= 1 + c
    <3>1. Cardinality(CasesOf(p)) <= c + ThisLife(p) /\ ThisLife(p) \in {0, 1}
      BY <2>1 DEF CountInv, ThisLife
    <3>2. Cardinality(CasesOf(p)) \in Nat
      <4>1. Len(cases) \in Nat /\ IsFiniteSet(1 .. Len(cases))
        BY FS_Interval DEF TInv, TypeOK
      <4> QED BY <4>1, FS_Subset, FS_CardinalityType DEF CasesOf
    <3> QED BY <3>1, <3>2
  <2> QED BY <2>1, <2>4, <2>5 DEF CasesBounded, CasesOf
<1> QED BY <1>1, CountInvariant, TypeInit, TypeStep, PTL DEF Spec
=============================================================================
