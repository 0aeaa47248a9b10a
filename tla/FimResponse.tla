----------------------------- MODULE FimResponse -----------------------------
(***************************************************************************)
(* From a file-integrity alert to a quarantined file and a case: the       *)
(* watcher (vigilante/watcher.py, with open_case of cases.py and the mail  *)
(* of notify.py) and the active-response script it makes Wazuh run on the  *)
(* agent (infra/quarantine-file).                                          *)
(*                                                                         *)
(* The API only takes the request: the script runs later, beside the       *)
(* watcher and beside other runs of itself.  A file's content is a         *)
(* number, new for every upload.                                           *)
(***************************************************************************)
EXTENDS Naturals, Sequences, FiniteSets

CONSTANTS
  Paths,          \* files whose alerts the watcher reads
  NoPath,
  Suspicious,     \* those is_suspicious_fim_event accepts
  Allowed,        \* those under ALLOWED_PREFIXES of the script
  Flat(_),        \* safe_name: the path with "/" replaced by "_"
  MaxUploads,     \* bound: files written to the webroot
  MaxRestores,    \* bound: restorations asked for by hand
  MaxSeconds,     \* bound: the clock of quarantine_path_for
  MaxFaults,      \* bound: failing calls, scripts that die or are never run
  MaxCrashes,     \* bound: times the watcher dies
  MaxTorn         \* bound: lines read while Wazuh writes them

ASSUME FimConstants ==
  /\ NoPath \notin Paths
  /\ Suspicious \subseteq Paths /\ Allowed \subseteq Paths
  /\ MaxUploads \in Nat /\ MaxRestores \in Nat /\ MaxSeconds \in Nat
  /\ MaxFaults \in Nat /\ MaxCrashes \in Nat /\ MaxTorn \in Nat

VARIABLES
  \* the agent
  webroot,        \* content of each path, 0 when there is no file
  vault,          \* content of each file in QUARANTINE_DIR, 0 for none
  origin,         \* what its .origin says, NoPath when missing
  second,
  scripts,        \* runs of quarantine-file, in the order they were asked for
  \* Wazuh
  alerts,         \* alerts.json, by path
  \* the watcher
  pc, pos, seen,  \* next step, lines read, _seen_paths
  path,           \* path in hand
  triggered,      \* did trigger_quarantine return True?
  \* Redis and the mailbox
  cases,          \* soc:cases:<id>, in the order they were opened
  index,          \* soc:cases:index
  mailed,         \* cases a mail was sent for
  \* history
  content,        \* path each content was uploaded to
  taken,          \* contents moved into quarantine
  given,          \* contents moved back
  answered,       \* paths whose handling reached trigger_quarantine
  torn, skipped,  \* alerts read in two parts, alerts a restart passed over
  failed,         \* paths a call, a script or the watcher failed while it handled them
  restores, faults, crashes

agentVars   == <<webroot, vault, origin, second, scripts>>
watcherVars == <<pc, pos, seen, path, triggered>>
caseVars    == <<cases, index, mailed>>
historyVars == <<content, taken, given, answered, torn, skipped, failed, restores, faults, crashes>>
vars == <<agentVars, alerts, watcherVars, caseVars, historyVars>>

Names == [second : 0 .. MaxSeconds, flat : {Flat(p) : p \in Paths}]

(* quarantine_path_for                                                     *)
NameFor(p) == [second |-> second, flat |-> Flat(p)]

NoName == [second |-> 0, flat |-> NoPath]

TypeOK ==
  /\ webroot \in [Paths -> 0 .. MaxUploads] /\ vault \in [Names -> 0 .. MaxUploads]
  /\ origin \in [Names -> Paths \cup {NoPath}]
  /\ second \in 0 .. MaxSeconds
  /\ scripts \in Seq([command : {"add", "delete"}, path : Paths,
                      pc : {"begin", "origin", "move", "remove", "ok", "failed", "killed"},
                      name : Names \cup {NoName}])
  /\ alerts \in Seq(Paths) /\ pos \in 0 .. Len(alerts)
  /\ pc \in {"down", "tail", "trigger", "save", "index", "mail"}
  /\ seen \subseteq Suspicious /\ path \in Paths \cup {NoPath} /\ triggered \in BOOLEAN
  /\ cases \in Seq([path : Paths, triggered : BOOLEAN])
  /\ index \subseteq 1 .. Len(cases) /\ mailed \subseteq index
  /\ content \in Seq(Paths) /\ taken \subseteq 1 .. Len(content) /\ given \subseteq taken
  /\ answered \subseteq Paths /\ failed \subseteq Paths
  /\ torn \subseteq 1 .. Len(alerts) /\ skipped \subseteq 1 .. Len(alerts)
  /\ restores \in 0 .. MaxRestores
  /\ faults \in 0 .. MaxFaults /\ crashes \in 0 .. MaxCrashes

Init ==
  /\ webroot = [p \in Paths |-> 0] /\ vault = [n \in Names |-> 0]
  /\ origin = [n \in Names |-> NoPath]
  /\ second = 0 /\ scripts = <<>> /\ alerts = <<>>
  /\ pc = "down" /\ pos = 0 /\ seen = {} /\ path = NoPath /\ triggered = FALSE
  /\ cases = <<>> /\ index = {} /\ mailed = {}
  /\ content = <<>> /\ taken = {} /\ given = {} /\ answered = {}
  /\ torn = {} /\ skipped = {} /\ failed = {}
  /\ restores = 0 /\ faults = 0 /\ crashes = 0

Fault == faults < MaxFaults /\ faults' = faults + 1

-----------------------------------------------------------------------------
(* Outside.                                                                *)

(* A file is written or overwritten, and syscheck reports it.              *)
Upload(p) ==
  /\ Len(content) < MaxUploads
  /\ content' = Append(content, p)
  /\ webroot' = [webroot EXCEPT ![p] = Len(content')]
  /\ alerts' = Append(alerts, p)
  /\ UNCHANGED <<vault, origin, second, scripts, watcherVars, caseVars, taken, given,
                 answered, torn, skipped, failed, restores, faults, crashes>>

Tick ==
  /\ second < MaxSeconds
  /\ second' = second + 1
  /\ UNCHANGED <<webroot, vault, origin, scripts, alerts, watcherVars, caseVars, historyVars>>

Dispatch(command, p) ==
  scripts' = Append(scripts, [command |-> command, path |-> p, pc |-> "begin", name |-> NoName])

(* An operator has Wazuh restore a file.                                   *)
AskRestore(p) ==
  /\ restores < MaxRestores /\ restores' = restores + 1
  /\ Dispatch("delete", p)
  /\ UNCHANGED <<webroot, vault, origin, second, alerts, watcherVars, caseVars, content, taken,
                 given, answered, torn, skipped, failed, faults, crashes>>

-----------------------------------------------------------------------------
(* quarantine-file.                                                        *)

AtPc(s, command, where) == scripts[s].command = command /\ scripts[s].pc = where

Become(s, where, name) == scripts' = [scripts EXCEPT ![s].pc = where, ![s].name = name]

(* do_add up to shutil.move, which replaces a file that has the name.      *)
AddMove(s) ==
  /\ AtPc(s, "add", "begin")
  /\ LET p == scripts[s].path IN
       IF p \in Allowed /\ webroot[p] # 0
         THEN /\ vault' = [vault EXCEPT ![NameFor(p)] = webroot[p]]
              /\ webroot' = [webroot EXCEPT ![p] = 0]
              /\ taken' = taken \cup {webroot[p]}
              /\ Become(s, "origin", NameFor(p))
         ELSE Become(s, "failed", NoName) /\ UNCHANGED <<vault, webroot, taken>>
  /\ UNCHANGED <<origin, second, alerts, watcherVars, caseVars, content, given, answered, torn,
                 skipped, failed, restores, faults, crashes>>

(* Faulty: .origin gets the name that was computed from the path.          *)
AddOrigin_Now(s) ==
  /\ AtPc(s, "add", "origin")
  /\ origin' = [origin EXCEPT ![NameFor(scripts[s].path)] = scripts[s].path]
  /\ Become(s, "ok", scripts[s].name)
  /\ UNCHANGED <<webroot, vault, second, alerts, watcherVars, caseVars, historyVars>>

AddOrigin(s) ==
  /\ AtPc(s, "add", "origin")
  /\ origin' = [origin EXCEPT ![scripts[s].name] = scripts[s].path]
  /\ Become(s, "ok", scripts[s].name)
  /\ UNCHANGED <<webroot, vault, second, alerts, watcherVars, caseVars, historyVars>>

(* do_delete: the first .origin, in directory order, that names the path.  *)
FindOrigin(s) ==
  /\ AtPc(s, "delete", "begin")
  /\ LET p == scripts[s].path
         found == {n \in Names : origin[n] = p}
     IN IF p \in Allowed /\ found # {}
          THEN \E n \in found : Become(s, "move", n)
          ELSE Become(s, "failed", NoName)
  /\ UNCHANGED <<webroot, vault, origin, second, alerts, watcherVars, caseVars, historyVars>>

(* chmod and move; without the file they raise and the script ends.        *)
RestoreMove(s) ==
  /\ AtPc(s, "delete", "move")
  /\ LET n == scripts[s].name IN
       IF vault[n] # 0
         THEN /\ webroot' = [webroot EXCEPT ![scripts[s].path] = vault[n]]
              /\ vault' = [vault EXCEPT ![n] = 0]
              /\ given' = given \cup {vault[n]}
              /\ Become(s, "remove", n)
         ELSE Become(s, "failed", n) /\ UNCHANGED <<webroot, vault, given>>
  /\ UNCHANGED <<origin, second, alerts, watcherVars, caseVars, content, taken, answered, torn,
                 skipped, failed, restores, faults, crashes>>

RestoreRemove(s) ==
  /\ AtPc(s, "delete", "remove")
  /\ origin' = [origin EXCEPT ![scripts[s].name] = NoPath]
  /\ Become(s, "ok", scripts[s].name)
  /\ UNCHANGED <<webroot, vault, second, alerts, watcherVars, caseVars, historyVars>>

Ended == {"ok", "failed", "killed"}

(* The script dies, the disk refuses the .origin file, or no agent ever    *)
(* runs what the API took (agent away, execd hung).                        *)
KillScript(s) ==
  /\ scripts[s].pc \notin Ended
  /\ Fault
  /\ Become(s, "killed", scripts[s].name)
  /\ failed' = IF AtPc(s, "add", "begin") THEN failed \cup {scripts[s].path} ELSE failed
  /\ UNCHANGED <<webroot, vault, origin, second, alerts, watcherVars, caseVars, content, taken,
                 given, answered, torn, skipped, restores, crashes>>

Script(s) ==
  AddMove(s) \/ AddOrigin(s) \/ FindOrigin(s) \/ RestoreMove(s) \/ RestoreRemove(s)

-----------------------------------------------------------------------------
(* The watcher.                                                            *)

(* tail_alerts opens the file at its end.                                  *)
Start ==
  /\ pc = "down"
  /\ pc' = "tail"
  /\ pos' = Len(alerts) /\ seen' = {} /\ path' = NoPath
  /\ skipped' = skipped \cup (pos + 1 .. Len(alerts))
  /\ UNCHANGED <<agentVars, alerts, triggered, caseVars, content, taken, given, answered, torn,
                 failed, restores, faults, crashes>>

(* Faulty: a line is read when the next one is there.                      *)
NextLine_Late == pc = "tail" /\ pos + 1 < Len(alerts) /\ pos' = pos + 1

NextLine == pc = "tail" /\ pos < Len(alerts) /\ pos' = pos + 1

(* Faulty: the path is remembered once its case is open.                   *)
HandleAlert_Forgets ==
  /\ NextLine
  /\ LET p == alerts[pos'] IN
       IF p \in Suspicious \ seen
         THEN path' = p /\ pc' = "trigger" /\ UNCHANGED seen
         ELSE UNCHANGED <<path, pc, seen>>
  /\ UNCHANGED <<agentVars, alerts, triggered, caseVars, historyVars>>

(* handle_alert up to the request.                                         *)
HandleAlert ==
  /\ NextLine
  /\ LET p == alerts[pos'] IN
       IF p \in Suspicious \ seen
         THEN path' = p /\ seen' = seen \cup {p} /\ pc' = "trigger"
         ELSE UNCHANGED <<path, pc, seen>>
  /\ UNCHANGED <<agentVars, alerts, triggered, caseVars, historyVars>>

(* readline returns a line Wazuh is still writing: neither part parses.    *)
(* No call fails; it is a matter of when the file is looked at.            *)
LineTorn ==
  /\ NextLine
  /\ Cardinality(torn) < MaxTorn /\ torn' = torn \cup {pos'}
  /\ UNCHANGED <<agentVars, alerts, pc, seen, path, triggered, caseVars, content, taken, given,
                 answered, skipped, failed, restores, faults, crashes>>

Triggered(result) ==
  /\ pc = "trigger"
  /\ triggered' = result
  /\ answered' = answered \cup {path}
  /\ pc' = "save"
  /\ UNCHANGED <<webroot, vault, origin, second, alerts, pos, seen, path, caseVars, content,
                 taken, given, torn, skipped, restores, crashes>>

TriggerQuarantine ==
  /\ Triggered(TRUE)
  /\ Dispatch("add", path)
  /\ UNCHANGED <<failed, faults>>

(* No token, an error, or an answer that came too late.                    *)
TriggerFails ==
  /\ Triggered(FALSE)
  /\ Fault
  /\ \/ Dispatch("add", path) /\ UNCHANGED failed
     \/ UNCHANGED scripts /\ failed' = failed \cup {path}

(* Faulty: the case is not added to the index.                             *)
SaveCase_NoIndex ==
  /\ pc = "save"
  /\ cases' = Append(cases, [path |-> path, triggered |-> triggered])
  /\ pc' = "mail"
  /\ UNCHANGED <<agentVars, alerts, pos, seen, path, triggered, index, mailed, historyVars>>

(* open_case: SET ...                                                      *)
SaveCase ==
  /\ pc = "save"
  /\ cases' = Append(cases, [path |-> path, triggered |-> triggered])
  /\ pc' = "index"
  /\ UNCHANGED <<agentVars, alerts, pos, seen, path, triggered, index, mailed, historyVars>>

(* ... and SADD.                                                           *)
IndexCase ==
  /\ pc = "index"
  /\ index' = index \cup {Len(cases)}
  /\ pc' = "mail"
  /\ UNCHANGED <<agentVars, alerts, pos, seen, path, triggered, cases, mailed, historyVars>>

(* RedisError: caught in tail_alerts, and the next line is read.           *)
OpenCaseFails ==
  /\ pc \in {"save", "index"}
  /\ Fault
  /\ \/ pc = "save" /\ cases' \in {cases, Append(cases, [path |-> path, triggered |-> triggered])}
                    /\ UNCHANGED index
     \/ pc = "index" /\ index' \in {index, index \cup {Len(cases)}} /\ UNCHANGED cases
  /\ pc' = "tail"
  /\ failed' = failed \cup {path}
  /\ UNCHANGED <<agentVars, alerts, pos, seen, path, triggered, mailed, content, taken, given,
                 answered, torn, skipped, restores, crashes>>

SendMail ==
  /\ pc = "mail"
  /\ mailed' = mailed \cup {Len(cases)}
  /\ pc' = "tail"
  /\ UNCHANGED <<agentVars, alerts, pos, seen, path, triggered, cases, index, historyVars>>

MailFails ==
  /\ pc = "mail"
  /\ Fault
  /\ pc' = "tail"
  /\ UNCHANGED <<agentVars, alerts, pos, seen, path, triggered, caseVars, content, taken, given,
                 answered, torn, skipped, failed, restores, crashes>>

Crash ==
  /\ pc # "down"
  /\ crashes < MaxCrashes /\ crashes' = crashes + 1
  /\ pc' = "down"
  /\ failed' = IF pc \in {"trigger", "save", "index"} THEN failed \cup {path} ELSE failed
  /\ UNCHANGED <<agentVars, alerts, pos, seen, path, triggered, caseVars, content, taken, given,
                 answered, torn, skipped, restores, faults>>

Watch ==
  \/ Start \/ HandleAlert \/ LineTorn
  \/ TriggerQuarantine \/ TriggerFails
  \/ SaveCase \/ IndexCase \/ OpenCaseFails
  \/ SendMail \/ MailFails

(* readline returns nothing: sleep and look again.                         *)
IdlePoll ==
  /\ pc = "tail"
  /\ UNCHANGED vars

Next ==
  \/ \E p \in Paths : Upload(p) \/ AskRestore(p)
  \/ \E s \in 1 .. Len(scripts) : Script(s) \/ KillScript(s)
  \/ Tick \/ Watch \/ IdlePoll \/ Crash

Spec == Init /\ [][Next]_vars

(* systemd restarts the watcher (Restart=always), its calls time out, and  *)
(* the agent runs what it was sent.                                        *)
FairSpec ==
  /\ Spec /\ WF_vars(Watch)
  /\ \A s \in 1 .. MaxUploads + MaxRestores :
       WF_vars(s <= Len(scripts) /\ Script(s))

-----------------------------------------------------------------------------
(* Properties.                                                             *)

(* The watcher asks for a path once in its life; one that was restarted    *)
(* may ask for the same name in the same second.                           *)
OneLife == crashes = 0

(* "preservando evidencia (no lo borra)": what was moved into quarantine   *)
(* is there until it is moved back.                                        *)
EvidenceKept == OneLife => taken \ given \subseteq {vault[n] : n \in Names}

(* A file in quarantine can be restored: its .origin names the path it was *)
(* uploaded to, unless the script that moved it is still running or died.  *)
OriginMatches ==
  OneLife => \A n \in Names : vault[n] # 0 =>
    \/ origin[n] = content[vault[n]]
    \/ \E s \in 1 .. Len(scripts) :
         scripts[s].name = n /\ scripts[s].pc \in {"origin", "killed"}

(* Quarantine keeps what it was given, and keeps it restorable.            *)
EvidenceRecoverable == EvidenceKept /\ OriginMatches

(* Cases with the path that the dashboard can list.                        *)
Listed(p) == \E c \in index : cases[c].path = p

(* A path the watcher acted on has a case on the dashboard once it is      *)
(* done, and each failing call or crash costs at most one; it has no more  *)
(* than one per life of the watcher, however often the file is written,    *)
(* quarantined and restored.                                               *)
CasesBounded ==
  /\ Cardinality({p \in answered \ {path} : ~Listed(p)}) <= faults + crashes
  /\ \A p \in Paths : Cardinality({c \in 1 .. Len(cases) : cases[c].path = p}) <= 1 + crashes

(* The file of the i-th alert is in its place no longer.                   *)
Gone(i) == i \in taken \/ webroot[alerts[i]] # i

Written(i) == i <= Len(alerts)

Unread(i) == pc # "down" /\ pos < i /\ Written(i)

(* The first alert of a path in the watcher's life leads to a case on the  *)
(* dashboard, and its file, when the script may touch it, out of the       *)
(* webroot: the script that Wazuh only promised to run does run.  The      *)
(* exceptions are the alerts no process takes up (read while Wazuh was     *)
(* writing the line, or passed over by a restart) and the paths whose      *)
(* handling met a failure.  Later alerts of the path are ignored, also     *)
(* when they are about a new file, which stays where it is.                *)
AlertsAreAnswered ==
  \A i \in 1 .. MaxUploads :
    Unread(i) /\ alerts[i] \in Suspicious \ seen
      ~> /\ Written(i)
         /\ \/ Listed(alerts[i]) /\ (alerts[i] \in Allowed => Gone(i))
            \/ i \in torn \cup skipped
            \/ alerts[i] \in failed
=============================================================================
