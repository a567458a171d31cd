------------------------------ MODULE HookTools ------------------------------
(***************************************************************************)
(* The two short lived uses of the Windows executable and the files they   *)
(* share (windows-native/src/bin/codex_quota_windows.rs, hook.rs):         *)
(*                                                                         *)
(* - an editor of hooks.json: the tray's "install/repair" command, and     *)
(*   `--install-hooks` and `--remove-hooks` in processes of their own. It  *)
(*   reads the file, merges, truncates it and writes it, with no lock;     *)
(* - the process ChatGPT starts for every hook event (`--hook-event`): it  *)
(*   records that it was invoked, enqueues the event and records that it   *)
(*   accepted it, in one diagnostics file all of them write.               *)
(*                                                                         *)
(* Any of them can be killed between two steps: ChatGPT gives a hook three *)
(* seconds, and the installer kills every process of that name. The other  *)
(* owners of hooks.json are here by the handlers they put in it.           *)
(***************************************************************************)
EXTENDS Naturals, FiniteSets

CONSTANTS
  Editors,     \* processes that can edit hooks.json
  Tray,        \* the editor that is the tray's user interface thread
  Others,      \* the handlers of other products
  Calls,       \* invocations of the hook, numbered as they start
  MaxOps       \* bound on what users, products and ChatGPT start

ASSUME HookToolsAssumption ==
  /\ IsFiniteSet(Editors) /\ Tray \in Editors
  /\ IsFiniteSet(Others) /\ IsFiniteSet(Calls) /\ Calls \subseteq Nat
  /\ MaxOps \in Nat

VARIABLES
  hooksFile,   \* hooks.json
  edit,        \* what each editor is doing
  status,      \* hook-status-v1.json
  call,        \* where each invocation of the hook is
  spooled,     \* the events in hook-events-v1
  ops,         \* what was started so far
  owed,        \* history: the handlers other products put in the file
  disturbed    \* history: an edit was overlapped or cut short

fileVars == <<hooksFile, edit, owed, disturbed>>
callVars == <<status, call, spooled>>
hookVars == <<fileVars, callVars, ops>>

Idle    == [at |-> "idle"]
Missing == [at |-> "missing"]
Blank   == [at |-> "blank"]
Torn    == [at |-> "torn"]
Config(mine, others) == [at |-> "config", mine |-> mine, others |-> others]
(* A file its owner keeps in a form that is not JSON, comments say.        *)
Unparsable(others) == [at |-> "unparsable", others |-> others]
Record(c, outcome) == [at |-> "record", call |-> c, outcome |-> outcome]

Holds(f) == IF f.at \in {"config", "unparsable"} THEN f.others ELSE {}

Operation == ops < MaxOps /\ ops' = ops + 1

HookToolsTypeOK ==
  /\ \/ hooksFile \in {Missing, Blank, Torn}
     \/ hooksFile.at \in {"config", "unparsable"} /\ hooksFile.others \subseteq Others
  /\ \A e \in Editors : edit[e].at \in {"idle", "read", "open", "write"}
  /\ status \in {Missing, Blank, Torn}
                  \cup [at : {"record"}, call : Calls, outcome : {"invoked", "accepted"}]
  /\ call \in [Calls -> {"none", "open invoked", "write invoked", "enqueue",
                         "open accepted", "write accepted", "done", "failed"}]
  /\ spooled \subseteq Calls /\ owed \subseteq Others
  /\ ops \in 0..MaxOps /\ disturbed \in BOOLEAN

(* The user may have hooks of other products, in JSON or not, or none.     *)
HookToolsInit ==
  /\ hooksFile \in {Missing, Config(FALSE, Others), Unparsable(Others)}
  /\ edit = [e \in Editors |-> Idle]
  /\ status = Missing /\ call = [c \in Calls |-> "none"] /\ spooled = {}
  /\ ops = 0 /\ owed = Holds(hooksFile) /\ disturbed = FALSE

-----------------------------------------------------------------------------
(* Editing hooks.json.                                                     *)

Editing == {e \in Editors : edit[e] # Idle}

EditorDone(e) == edit' = [edit EXCEPT ![e] = Idle]

(* What merging or removing makes of a configuration: HostMessages says    *)
(* how, here it is who has a handler in the result.                        *)
Edited(want, f) == Config(want = "install", Holds(f))

(* What is in a file after text is written from its start.                 *)
Over(old, text) ==
  IF old.at = "config"
     /\ ~ (old.others \subseteq text.others /\ (old.mine => text.mine))
    THEN Torn ELSE text

BeginEdit(e, want) ==
  /\ edit[e] = Idle
  /\ edit' = [edit EXCEPT ![e] = [at |-> "read", want |-> want]]
  /\ disturbed' = (disturbed \/ Editing # {})
  /\ UNCHANGED <<hooksFile, owed, callVars>>

ProcessEdits(e, want) == Operation /\ e # Tray /\ BeginEdit(e, want)

(* Mutant: a file that does not parse is replaced like a missing one.      *)
ReadHooksLoosely(e) ==
  /\ edit[e].at = "read"
  /\ edit' = [edit EXCEPT ![e] =
                [at |-> "open", text |-> Config(edit[e].want = "install",
                   IF hooksFile.at = "config" THEN hooksFile.others ELSE {})]]
  /\ UNCHANGED <<hooksFile, owed, disturbed, callVars, ops>>

(* A missing file is as good as an empty one for an install and nothing to *)
(* do for a removal; one that does not parse ends the edit.                *)
ReadHooks(e) ==
  /\ edit[e].at = "read"
  /\ IF \/ hooksFile.at \in {"torn", "unparsable"}
        \/ hooksFile = Missing /\ edit[e].want = "remove"
       THEN EditorDone(e)
       ELSE edit' = [edit EXCEPT ![e] =
                       [at |-> "open", text |-> Edited(edit[e].want, hooksFile)]]
  /\ UNCHANGED <<hooksFile, owed, disturbed, callVars, ops>>

(* The file cannot be read or opened for writing: it stays as it is.       *)
EditFails(e) ==
  /\ edit[e].at \in {"read", "open"}
  /\ EditorDone(e)
  /\ UNCHANGED <<hooksFile, owed, disturbed, callVars, ops>>

(* fs::write truncates, then writes.                                       *)
OpenHooks(e) ==
  /\ edit[e].at = "open"
  /\ hooksFile' = Blank
  /\ edit' = [edit EXCEPT ![e].at = "write"]
  /\ UNCHANGED <<owed, disturbed, callVars, ops>>

WriteHooks(e) ==
  /\ edit[e].at = "write"
  /\ hooksFile' = Over(hooksFile, edit[e].text)
  /\ EditorDone(e)
  /\ UNCHANGED <<owed, disturbed, callVars, ops>>

WriteHooksFails(e) ==
  /\ edit[e].at = "write"
  /\ EditorDone(e)
  /\ disturbed' = TRUE
  /\ UNCHANGED <<hooksFile, owed, callVars, ops>>

(* Another product adds its handler.                                       *)
OtherEdits(o) ==
  /\ Operation
  /\ hooksFile.at \in {"missing", "blank", "config"} /\ o \notin Holds(hooksFile)
  /\ hooksFile' = Config(hooksFile.at = "config" /\ hooksFile.mine,
                         Holds(hooksFile) \cup {o})
  /\ owed' = owed \cup {o}
  /\ disturbed' = (disturbed \/ Editing # {})
  /\ UNCHANGED <<edit, callVars>>

EditorStep(e) ==
  ReadHooks(e) \/ EditFails(e) \/ OpenHooks(e) \/ WriteHooks(e) \/ WriteHooksFails(e)

-----------------------------------------------------------------------------
(* One event of ChatGPT: `--hook-event`.                                   *)

CallAt(c, from, to) == call[c] = from /\ call' = [call EXCEPT ![c] = to]

HookStart(c) ==
  /\ Operation /\ CallAt(c, "none", "open invoked")
  /\ \A earlier \in Calls : earlier < c => call[earlier] # "none"
  /\ UNCHANGED <<fileVars, status, spooled>>

(* HookDiagnosticStore::record: the file is truncated, then written.       *)
OpenStatus(c) ==
  /\ \/ CallAt(c, "open invoked", "write invoked")
     \/ CallAt(c, "open accepted", "write accepted")
  /\ status' = Blank
  /\ UNCHANGED <<fileVars, spooled, ops>>

(* "accepted" is a letter longer than "invoked": written over one another, *)
(* the shorter record leaves the end of the longer behind.                 *)
WriteInvoked(c) ==
  /\ CallAt(c, "write invoked", "enqueue")
  /\ status' = IF status.at = "torn" \/ (status.at = "record" /\ status.outcome = "accepted")
                 THEN Torn ELSE Record(c, "invoked")
  /\ UNCHANGED <<fileVars, spooled, ops>>

WriteAccepted(c) ==
  /\ CallAt(c, "write accepted", "done")
  /\ status' = Record(c, "accepted")
  /\ UNCHANGED <<fileVars, spooled, ops>>

(* Mutant: an event that is refused is recorded as accepted all the same.  *)
EnqueueAnyway(c) ==
  /\ CallAt(c, "enqueue", "open accepted")
  /\ \/ spooled' = spooled \cup {c}
     \/ UNCHANGED spooled
  /\ UNCHANGED <<fileVars, status, ops>>

Enqueue(c) ==
  /\ CallAt(c, "enqueue", "open accepted")
  /\ spooled' = spooled \cup {c}
  /\ UNCHANGED <<fileVars, status, ops>>

(* A record that cannot be written ends the process, an event that is too  *)
(* large, not UTF-8, not valid or not stored does too.                     *)
CallFails(c) ==
  /\ call[c] \notin {"none", "done", "failed"}
  /\ call' = [call EXCEPT ![c] = "failed"]
  /\ UNCHANGED <<fileVars, status, spooled, ops>>

(* ChatGPT's timeout, or the installer's taskkill.                         *)
KillEditor(e) ==
  /\ Operation /\ e \in Editing \ {Tray}
  /\ EditorDone(e)
  /\ disturbed' = (disturbed \/ edit[e].at = "write")
  /\ UNCHANGED <<hooksFile, owed, callVars>>

CallStep(c) ==
  \/ HookStart(c) \/ OpenStatus(c) \/ WriteInvoked(c) \/ WriteAccepted(c)
  \/ Enqueue(c) \/ CallFails(c)

HookToolsNext ==
  \/ \E e \in Editors :
       EditorStep(e) \/ KillEditor(e) \/ \E want \in {"install", "remove"} : ProcessEdits(e, want)
  \/ \E o \in Others : OtherEdits(o)
  \/ \E c \in Calls : CallStep(c)

-----------------------------------------------------------------------------
(* Installing, repairing and removing our hooks leaves every handler of    *)
(* another product in hooks.json, in the file or in the text about to be   *)
(* written into it, unless an edit was cut short after the file was        *)
(* truncated or overlapped with another edit (CodexQuota.nsi:70: the       *)
(* installation preserves other products' hooks).                          *)
OthersKept ==
  ~ disturbed =>
    \/ owed \subseteq Holds(hooksFile)
    \/ \E e \in Editors : edit[e].at = "write" /\ owed \subseteq edit[e].text.others

(* The diagnostics say "accepted", and a hook process ends well, only for  *)
(* an event that is in the spool, whichever invocations overlap or die.    *)
AcceptedIsQueued ==
  /\ \A c \in Calls : status = Record(c, "accepted") => c \in spooled
  /\ \A c \in Calls : call[c] = "done" => c \in spooled
=============================================================================
