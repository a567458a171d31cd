---------------------------- MODULE TrayApp_proofs ----------------------------
(* Theorems about TrayApp and HookTools, for any number of instances,      *)
(* editors, invocations, window handles, nested modal loops and operations.*)
EXTENDS TrayApp, SequenceTheorems, TLAPS

USE TrayAssumption, HookToolsAssumption DEF TrayAssumption, HookToolsAssumption

-----------------------------------------------------------------------------
(* Frames: which actions touch a group of variables at all.                *)

(* The tray touches the hook events never, and hooks.json only to begin a  *)
(* repair or when its process is killed in the middle of one.              *)
CutShort ==
  /\ edit' = [edit EXCEPT ![Tray] = Idle]
  /\ disturbed' = (disturbed \/ edit[Tray].at = "write")
  /\ UNCHANGED <<hooksFile, owed>>

LEMMA TrayAndHooks ==
  ASSUME TrayNext
  PROVE  /\ UNCHANGED callVars
         /\ UNCHANGED fileVars \/ BeginEdit(Tray, "install") \/ CutShort
<1>1. ASSUME NEW p \in Instances, Launch(p) \/ Acknowledge(p) \/ InstanceStep(p)
      PROVE  UNCHANGED <<callVars, fileVars>>
  BY <1>1 DEF Launch, Acknowledge, InstanceStep, Leave, EnsureDefaultStartupEnabled,
     DefaultTried, StartHost, StartFails, AddTrayIcon, Shutdown, CloseMutex, ByUser,
     Apart, hookVars
<1>2. ASSUME NEW p \in Instances, Kill(p)
      PROVE  /\ UNCHANGED callVars
             /\ UNCHANGED fileVars \/ CutShort
  BY <1>2 DEF Kill, CutShort, EditorDone, fileVars
<1>3. CASE SettingStep \/ LookStep \/ StartupSet \/ HookRepaired
  BY <1>3 DEF SettingStep, SetRunValue, MarkStartupPreferenceConfigured, SettingFails,
     LookStep, ActiveConnections, PhonePaired, LookAtFreshness, LookAtConfirmation,
     StartupSet, HookRepaired, Apart, hookVars
<1>4. CASE OpenMenu \/ ClickRefresh \/ DiagnosticsTimer \/ PaintDiagnostics
             \/ CloseDiagnostics \/ \E h \in Handles : ClosePairing(h)
  BY <1>4 DEF OpenMenu, ClickRefresh, DiagnosticsTimer, PaintDiagnostics, CloseDiagnostics,
     ClosePairing, ByUser, Apart, hookVars
<1>5. CASE WorkerPublishes \/ WorkerEnds \/ PhoneMoves
  BY <1>5 DEF WorkerPublishes, WorkerEnds, PhoneMoves, ByUser, Apart, hookVars
<1>6. CASE ChooseRepairHook
  BY <1>6 DEF ChooseRepairHook, BeginEdit
<1>7. CASE Dismiss \/ ChoosePair \/ ChooseRevoke \/ Revoke \/ ChooseStartup
             \/ ChooseRefreshStatus \/ ChooseDiagnostics \/ ChooseExit
  BY <1>7 DEF Dismiss, ChoosePair, ChooseRevoke, Revoke, ChooseStartup,
     ChooseRefreshStatus, ChooseDiagnostics, ChooseExit, Apart, hookVars
<1> QED BY <1>1, <1>2, <1>3, <1>4, <1>5, <1>6, <1>7 DEF TrayNext, MenuStep

-----------------------------------------------------------------------------
(* Hook events.                                                            *)

QueuedInv ==
  /\ AcceptedIsQueued
  /\ \A c \in Calls : call[c] \in {"open accepted", "write accepted"} => c \in spooled

CallTypeOK ==
  /\ call \in [Calls -> {"none", "open invoked", "write invoked", "enqueue",
                         "open accepted", "write accepted", "done", "failed"}]
  /\ spooled \subseteq Calls

LEMMA QueuedInit == Init => QueuedInv /\ CallTypeOK
  BY DEF Init, HookToolsInit, QueuedInv, AcceptedIsQueued, CallTypeOK, Missing, Record

LEMMA QueuedStep ==
  ASSUME QueuedInv, CallTypeOK, [Next]_vars
  PROVE  QueuedInv' /\ CallTypeOK'
<1> USE DEF QueuedInv, AcceptedIsQueued, CallTypeOK
<1>1. ASSUME UNCHANGED callVars
      PROVE  QueuedInv' /\ CallTypeOK'
  BY <1>1 DEF callVars
<1>2. ASSUME NEW c \in Calls, CallStep(c)
      PROVE  QueuedInv' /\ CallTypeOK'
  <2>1. CASE HookStart(c) \/ CallFails(c)
    BY <2>1 DEF HookStart, CallFails, CallAt
  <2>2. CASE OpenStatus(c)
    BY <2>2 DEF OpenStatus, CallAt, Blank, Record
  <2>3. CASE WriteInvoked(c)
    BY <2>3 DEF WriteInvoked, CallAt, Torn, Record
  <2>4. CASE WriteAccepted(c)
    BY <2>4 DEF WriteAccepted, CallAt, Record
  <2>5. CASE Enqueue(c)
    BY <2>5 DEF Enqueue, CallAt
  <2> QED BY <1>2, <2>1, <2>2, <2>3, <2>4, <2>5 DEF CallStep
<1>3. ASSUME NEW e \in Editors,
             EditorStep(e) \/ KillEditor(e) \/ \E want \in {"install", "remove"} : ProcessEdits(e, want)
      PROVE  UNCHANGED callVars
  BY <1>3 DEF EditorStep, ReadHooks, EditFails, OpenHooks, WriteHooks, WriteHooksFails,
     KillEditor, ProcessEdits, BeginEdit
<1>4. ASSUME NEW o \in Others, OtherEdits(o)
      PROVE  UNCHANGED callVars
  BY <1>4 DEF OtherEdits
<1>5. CASE TrayNext
  BY <1>5, <1>1, TrayAndHooks
<1>6. CASE UNCHANGED vars
  BY <1>6, <1>1 DEF vars, hookVars
<1> QED BY <1>1, <1>2, <1>3, <1>4, <1>5, <1>6 DEF Next, HookToolsNext

(* "Accepted" is said, to the diagnostics file and to ChatGPT, only of an  *)
(* event in the spool, for any number of overlapping invocations.          *)
THEOREM AcceptedIsQueuedHolds == Spec => []AcceptedIsQueued
<1>1. Init => QueuedInv /\ CallTypeOK
  BY QueuedInit
<1>2. QueuedInv /\ CallTypeOK /\ [Next]_vars => QueuedInv' /\ CallTypeOK'
  BY QueuedStep
<1>3. QueuedInv => AcceptedIsQueued
  BY DEF QueuedInv
<1> QED BY <1>1, <1>2, <1>3, PTL DEF Spec

-----------------------------------------------------------------------------
(* hooks.json.                                                             *)

(* While nothing disturbs it: one editor at a time, whose text holds what  *)
(* the others put in the file, which is empty only while that text is to   *)
(* be written.                                                             *)
OneEditor  == \A e, f \in Editors : e # f => edit[e] = Idle \/ edit[f] = Idle
TextsKeep  == \A e \in Editors : edit[e].at \in {"open", "write"} => owed \subseteq edit[e].text.others
BlankOwned == \/ owed \subseteq Holds(hooksFile)
              \/ \E e \in Editors : edit[e].at = "write"
WriteBlank == \A e \in Editors : edit[e].at = "write" => hooksFile = Blank
KeptInv == ~ disturbed => OneEditor /\ TextsKeep /\ BlankOwned /\ WriteBlank

ConfigSet == [at : {"config"}, mine : BOOLEAN, others : SUBSET Others]
FileTypeOK ==
  /\ hooksFile \in {Missing, Blank, Torn} \cup ConfigSet
                     \cup [at : {"unparsable"}, others : SUBSET Others]
  /\ edit \in [Editors -> [at : {"idle"}] \cup [at : {"read"}, want : {"install", "remove"}]
                            \cup [at : {"open", "write"}, text : ConfigSet]]
  /\ disturbed \in BOOLEAN /\ owed \subseteq Others

FileInv == FileTypeOK /\ KeptInv

LEMMA ConfigType ==
  ASSUME NEW mine \in BOOLEAN, NEW others \in SUBSET Others
  PROVE  Config(mine, others) \in ConfigSet /\ Holds(Config(mine, others)) = others
<1>1. CASE mine = TRUE
  BY <1>1 DEF Config, ConfigSet, Holds
<1>2. CASE mine = FALSE
  BY <1>2 DEF Config, ConfigSet, Holds
<1> QED BY <1>1, <1>2

LEMMA HoldsType == FileTypeOK => Holds(hooksFile) \in SUBSET Others
<1> SUFFICES ASSUME FileTypeOK PROVE Holds(hooksFile) \subseteq Others
  OBVIOUS
<1>1. CASE hooksFile \in {Missing, Blank, Torn}
  BY <1>1 DEF Holds, Missing, Blank, Torn
<1>2. CASE hooksFile \in ConfigSet \cup [at : {"unparsable"}, others : SUBSET Others]
  BY <1>2 DEF Holds, ConfigSet
<1> QED BY <1>1, <1>2 DEF FileTypeOK

LEMMA FileInit == Init => FileInv
<1> SUFFICES ASSUME Init PROVE FileInv
  OBVIOUS
<1>1. FileTypeOK
  <2>1. hooksFile \in {Missing, Config(FALSE, Others), Unparsable(Others)}
    BY DEF Init, HookToolsInit
  <2>2. Config(FALSE, Others) \in ConfigSet
    BY ConfigType
  <2>3. Unparsable(Others) \in [at : {"unparsable"}, others : SUBSET Others]
    BY DEF Unparsable
  <2>4. Holds(hooksFile) \subseteq Others
    BY <2>1 DEF Holds, Missing, Config, Unparsable
  <2>5. edit \in [Editors -> [at : {"idle"}]] /\ disturbed = FALSE /\ owed = Holds(hooksFile)
    BY DEF Init, HookToolsInit, Idle
  <2> QED BY <2>1, <2>2, <2>3, <2>4, <2>5 DEF FileTypeOK
<1>2. OneEditor /\ TextsKeep /\ BlankOwned /\ WriteBlank
  BY DEF Init, HookToolsInit, Idle, OneEditor, TextsKeep, BlankOwned, WriteBlank
<1> QED BY <1>1, <1>2 DEF FileInv, KeptInv

LEMMA BeginKeeps ==
  ASSUME FileInv, NEW e \in Editors, NEW want \in {"install", "remove"}, BeginEdit(e, want)
  PROVE  FileInv'
<1> USE DEF FileInv, Idle
<1>1. FileTypeOK'
  BY DEF FileTypeOK, BeginEdit
<1>2. ~ disturbed' => ~ disturbed /\ Editing = {}
  BY DEF FileTypeOK, BeginEdit
<1>3. \A f \in Editors : f # e => edit'[f] = edit[f]
  BY DEF FileTypeOK, BeginEdit
<1>4. edit'[e].at = "read"
  BY DEF FileTypeOK, BeginEdit
<1>5. ASSUME ~ disturbed'
      PROVE  (OneEditor /\ TextsKeep /\ BlankOwned /\ WriteBlank)'
  BY <1>2, <1>3, <1>4, <1>5 DEF KeptInv, OneEditor, TextsKeep, BlankOwned, WriteBlank,
     Editing, BeginEdit
<1> QED BY <1>1, <1>5 DEF KeptInv

LEMMA EditorKeeps ==
  ASSUME FileInv, NEW e \in Editors, EditorStep(e)
  PROVE  FileInv'
<1> USE DEF FileInv, Idle
<1>1. CASE ReadHooks(e) /\ edit'[e] # [at |-> "idle"]
  <2>1. /\ edit[e].at = "read"
        /\ hooksFile.at \notin {"torn", "unparsable"}
        /\ edit' = [edit EXCEPT ![e] = [at |-> "open", text |-> Edited(edit[e].want, hooksFile)]]
        /\ UNCHANGED <<hooksFile, owed, disturbed>>
    BY <1>1 DEF ReadHooks, EditorDone, FileTypeOK
  <2>2. Edited(edit[e].want, hooksFile) \in ConfigSet
    <3>1. Holds(hooksFile) \in SUBSET Others
      BY HoldsType
    <3>2. (edit[e].want = "install") \in BOOLEAN
      BY Zenon
    <3> QED BY <3>1, <3>2, ConfigType DEF Edited
  <2>3. FileTypeOK'
    BY <2>1, <2>2 DEF FileTypeOK
  <2>4. Edited(edit[e].want, hooksFile).others = Holds(hooksFile)
    BY DEF Edited, Config
  <2>5. ASSUME ~ disturbed, OneEditor /\ TextsKeep /\ BlankOwned /\ WriteBlank
        PROVE  (OneEditor /\ TextsKeep /\ BlankOwned /\ WriteBlank)'
    <3>1. \A f \in Editors : f # e => edit[f] = [at |-> "idle"]
      BY <2>1, <2>5 DEF OneEditor, FileTypeOK
    <3>2. \A f \in Editors : f # e => edit'[f] = [at |-> "idle"]
      BY <2>1, <3>1 DEF FileTypeOK
    <3>3. edit'[e] = [at |-> "open", text |-> Edited(edit[e].want, hooksFile)]
      BY <2>1 DEF FileTypeOK
    <3>4. owed \subseteq Holds(hooksFile)
      BY <2>1, <2>5, <3>1 DEF BlankOwned
    <3>5. OneEditor' /\ WriteBlank'
      BY <3>2, <3>3 DEF OneEditor, WriteBlank
    <3>6. TextsKeep'
      BY <3>2, <3>3, <3>4, <2>1, <2>4 DEF TextsKeep
    <3>7. BlankOwned'
      BY <3>4, <2>1 DEF BlankOwned, Holds
    <3> QED BY <3>5, <3>6, <3>7
  <2> QED BY <2>1, <2>3, <2>5 DEF KeptInv
<1>2. CASE edit' = [edit EXCEPT ![e] = [at |-> "idle"]] /\ edit[e].at # "write"
             /\ UNCHANGED <<hooksFile, owed, disturbed>>
  <2>1. FileTypeOK'
    BY <1>2 DEF FileTypeOK
  <2>2. \A f \in Editors : edit'[f] = IF f = e THEN [at |-> "idle"] ELSE edit[f]
    BY <1>2 DEF FileTypeOK
  <2>3. ASSUME ~ disturbed, OneEditor /\ TextsKeep /\ BlankOwned /\ WriteBlank
        PROVE  (OneEditor /\ TextsKeep /\ BlankOwned /\ WriteBlank)'
    <3>1. OneEditor' /\ TextsKeep' /\ WriteBlank'
      BY <1>2, <2>2, <2>3 DEF OneEditor, TextsKeep, WriteBlank
    <3>2. BlankOwned'
      BY <1>2, <2>2, <2>3 DEF BlankOwned, Holds
    <3> QED BY <3>1, <3>2
  <2> QED BY <1>2, <2>1, <2>3 DEF KeptInv
<1>3. CASE OpenHooks(e)
  <2>1. FileTypeOK'
    BY <1>3 DEF OpenHooks, FileTypeOK
  <2>2. \A f \in Editors : f # e => edit'[f] = edit[f]
    BY <1>3 DEF OpenHooks, FileTypeOK
  <2>3. edit'[e].at = "write" /\ edit'[e].text = edit[e].text /\ edit[e].at = "open"
    BY <1>3 DEF OpenHooks, FileTypeOK
  <2>4. hooksFile' = Blank /\ owed' = owed /\ disturbed' = disturbed
    BY <1>3 DEF OpenHooks
  <2>5. ASSUME ~ disturbed, OneEditor /\ TextsKeep /\ BlankOwned /\ WriteBlank
        PROVE  (OneEditor /\ TextsKeep /\ BlankOwned /\ WriteBlank)'
    BY <2>2, <2>3, <2>4, <2>5 DEF OneEditor, TextsKeep, BlankOwned, WriteBlank
  <2> QED BY <2>1, <2>4, <2>5 DEF KeptInv
<1>4. CASE WriteHooks(e)
  <2>1. edit[e].at = "write" /\ edit[e].text \in ConfigSet
    BY <1>4 DEF WriteHooks, FileTypeOK
  <2>2. hooksFile' \in {Torn, edit[e].text}
    BY <1>4 DEF WriteHooks, Over
  <2>3. FileTypeOK'
    BY <1>4, <2>1, <2>2 DEF WriteHooks, EditorDone, FileTypeOK
  <2>4. \A f \in Editors : edit'[f] = IF f = e THEN [at |-> "idle"] ELSE edit[f]
    BY <1>4 DEF WriteHooks, EditorDone, FileTypeOK
  <2>5. owed' = owed /\ disturbed' = disturbed
    BY <1>4 DEF WriteHooks
  <2>6. ASSUME ~ disturbed, OneEditor /\ TextsKeep /\ BlankOwned /\ WriteBlank
        PROVE  (OneEditor /\ TextsKeep /\ BlankOwned /\ WriteBlank)'
    <3>1. hooksFile' = edit[e].text
      BY <1>4, <2>1, <2>6 DEF WriteHooks, Over, WriteBlank, Blank
    <3>2. owed \subseteq edit[e].text.others
      BY <2>1, <2>6 DEF TextsKeep
    <3>3. Holds(edit[e].text) = edit[e].text.others
      BY <2>1 DEF Holds, ConfigSet
    <3>4. Holds(hooksFile)' = Holds(edit[e].text)
      BY <3>1 DEF Holds
    <3>5. BlankOwned'
      BY <2>5, <3>2, <3>3, <3>4 DEF BlankOwned
    <3>6. \A f \in Editors : edit'[f] = [at |-> "idle"]
      BY <2>1, <2>4, <2>6 DEF OneEditor
    <3>7. OneEditor' /\ TextsKeep' /\ WriteBlank'
      BY <3>6 DEF OneEditor, TextsKeep, WriteBlank
    <3> QED BY <3>5, <3>7
  <2> QED BY <2>3, <2>5, <2>6 DEF KeptInv
<1>5. CASE WriteHooksFails(e)
  BY <1>5 DEF WriteHooksFails, EditorDone, FileTypeOK, KeptInv
<1>6. CASE EditFails(e)
  BY <1>6, <1>2 DEF EditFails, EditorDone
<1>7. CASE ReadHooks(e)
  <2>1. CASE edit' = [edit EXCEPT ![e] = [at |-> "idle"]]
    BY <1>7, <1>2, <2>1 DEF ReadHooks
  <2>2. CASE edit'[e] # [at |-> "idle"]
    BY <1>7, <1>1, <2>2
  <2>3. edit' = [edit EXCEPT ![e] = [at |-> "idle"]] \/ edit'[e] # [at |-> "idle"]
    BY <1>7 DEF ReadHooks, EditorDone, FileTypeOK
  <2> QED BY <2>1, <2>2, <2>3
<1> QED BY <1>3, <1>4, <1>5, <1>6, <1>7 DEF EditorStep

(* An editor that dies: after the truncation that is a disturbance.        *)
LEMMA CutKeeps ==
  ASSUME FileInv, NEW e \in Editors, edit' = [edit EXCEPT ![e] = Idle],
         disturbed' = (disturbed \/ edit[e].at = "write"), UNCHANGED <<hooksFile, owed>>
  PROVE  FileInv'
<1> USE DEF FileInv, Idle
<1>1. FileTypeOK'
  BY DEF FileTypeOK
<1>2. \A f \in Editors : edit'[f] = IF f = e THEN [at |-> "idle"] ELSE edit[f]
  BY DEF FileTypeOK
<1>3. ASSUME ~ disturbed', OneEditor /\ TextsKeep /\ BlankOwned /\ WriteBlank
      PROVE  (OneEditor /\ TextsKeep /\ BlankOwned /\ WriteBlank)'
  <2>1. edit[e].at # "write"
    BY <1>3
  <2>2. OneEditor' /\ TextsKeep' /\ WriteBlank'
    BY <1>2, <1>3 DEF OneEditor, TextsKeep, WriteBlank
  <2>3. BlankOwned'
    BY <1>2, <1>3, <2>1 DEF BlankOwned, Holds
  <2> QED BY <2>2, <2>3
<1> QED BY <1>1, <1>3 DEF KeptInv

LEMMA OthersKeep ==
  ASSUME FileInv, NEW o \in Others, OtherEdits(o)
  PROVE  FileInv'
<1> USE DEF FileInv, Idle
<1>1. hooksFile' \in ConfigSet /\ Holds(hooksFile)' = Holds(hooksFile) \cup {o}
  <2> DEFINE mine == hooksFile.at = "config" /\ hooksFile.mine
  <2>1. hooksFile' = Config(mine, Holds(hooksFile) \cup {o})
    BY DEF OtherEdits
  <2>2. mine \in BOOLEAN
    <3>1. CASE mine
      BY <3>1
    <3>2. CASE ~ mine
      BY <3>2
    <3> QED BY <3>1, <3>2
  <2>3. Holds(hooksFile) \cup {o} \in SUBSET Others
    BY HoldsType
  <2>4. hooksFile' \in ConfigSet /\ Holds(Config(mine, Holds(hooksFile) \cup {o})) = Holds(hooksFile) \cup {o}
    BY <2>1, <2>2, <2>3, ConfigType
  <2> QED BY <2>1, <2>4 DEF Holds
<1>2. FileTypeOK'
  BY <1>1 DEF OtherEdits, FileTypeOK
<1>3. ASSUME ~ disturbed'
      PROVE  (OneEditor /\ TextsKeep /\ BlankOwned /\ WriteBlank)'
  <2>1. ~ disturbed /\ \A e \in Editors : edit[e] = [at |-> "idle"]
    BY <1>3 DEF OtherEdits, Editing, FileTypeOK
  <2>2. edit' = edit /\ owed' = owed \cup {o}
    BY DEF OtherEdits
  <2>3. owed \subseteq Holds(hooksFile)
    BY <2>1 DEF KeptInv, BlankOwned
  <2>4. BlankOwned'
    BY <1>1, <2>2, <2>3 DEF BlankOwned
  <2>5. OneEditor' /\ TextsKeep' /\ WriteBlank'
    BY <2>1, <2>2 DEF OneEditor, TextsKeep, WriteBlank
  <2> QED BY <2>4, <2>5
<1> QED BY <1>2, <1>3 DEF KeptInv

LEMMA FileStep ==
  ASSUME FileInv, [Next]_vars
  PROVE  FileInv'
<1>1. ASSUME UNCHANGED fileVars
      PROVE  FileInv'
  BY <1>1 DEF fileVars, FileInv, FileTypeOK, KeptInv, OneEditor, TextsKeep, BlankOwned,
     WriteBlank, Holds
<1>2. CASE TrayNext
  BY <1>1, <1>2, TrayAndHooks, BeginKeeps, CutKeeps DEF CutShort
<1>3. ASSUME NEW e \in Editors, EditorStep(e)
      PROVE  FileInv'
  BY <1>3, EditorKeeps
<1>4. ASSUME NEW e \in Editors, KillEditor(e)
      PROVE  FileInv'
  BY <1>4, CutKeeps DEF KillEditor, EditorDone
<1>5. ASSUME NEW e \in Editors, NEW want \in {"install", "remove"}, ProcessEdits(e, want)
      PROVE  FileInv'
  BY <1>5, BeginKeeps DEF ProcessEdits
<1>6. ASSUME NEW o \in Others, OtherEdits(o)
      PROVE  FileInv'
  BY <1>6, OthersKeep
<1>7. ASSUME NEW c \in Calls, CallStep(c)
      PROVE  UNCHANGED fileVars
  BY <1>7 DEF CallStep, HookStart, OpenStatus, WriteInvoked, WriteAccepted, Enqueue, CallFails
<1>8. CASE UNCHANGED vars
  BY <1>1, <1>8 DEF vars, hookVars
<1> QED BY <1>1, <1>2, <1>3, <1>4, <1>5, <1>6, <1>7, <1>8 DEF Next, HookToolsNext

LEMMA KeptEnough == FileInv => OthersKept
  BY DEF FileInv, KeptInv, BlankOwned, TextsKeep, OthersKept

(* Whatever other products, the installer and the tray do to hooks.json,   *)
(* other products' handlers are only ever lost to an edit that overlapped  *)
(* another or was cut short between truncating and writing.                *)
THEOREM OthersKeptHolds == Spec => []OthersKept
<1>1. FileInv /\ [Next]_vars => FileInv'
  BY FileStep
<1> QED BY FileInit, <1>1, KeptEnough, PTL DEF Spec

-----------------------------------------------------------------------------
(* One instance.                                                           *)

Alive(p) == proc[p] \in Active \cup {"failed"}

(* Whoever is past the mutex holds it, a failed start behind its message   *)
(* box included.                                                           *)
InstanceInv ==
  /\ proc \in [Instances -> {"off", "failed"} \cup Starting \cup Active]
  /\ mutex \subseteq Instances
  /\ \A p \in Instances : Alive(p) => p \in mutex
  /\ \A p, q \in Instances : p # q => ~ (Alive(p) /\ Alive(q))

(* A step of one instance past the mutex that keeps it there.              *)
Moves(p) ==
  /\ Alive(p) /\ UNCHANGED mutex
  /\ \E to \in Active \cup {"failed"} : proc' = [proc EXCEPT ![p] = to]

LEMMA ProcFrame ==
  ASSUME [Next]_vars
  PROVE  \/ UNCHANGED <<proc, mutex>>
         \/ \E p \in Instances : Launch(p) \/ Leave(p) \/ ProcessEnds(p) \/ Moves(p)
         \/ ChooseExit
<1>1. CASE HookToolsNext /\ UNCHANGED trayVars
  BY <1>1 DEF trayVars
<1>2. ASSUME NEW p \in Instances, Acknowledge(p) \/ Kill(p) \/ CloseMutex(p)
      PROVE  ProcessEnds(p)
  BY <1>2 DEF Acknowledge, Kill, CloseMutex
<1>3. ASSUME NEW p \in Instances, EnsureDefaultStartupEnabled(p)
      PROVE  Moves(p)
  BY <1>3 DEF EnsureDefaultStartupEnabled, Moves, Alive, Active
<1>4. ASSUME NEW p \in Instances, DefaultTried(p) \/ StartHost(p) \/ AddTrayIcon(p) \/ Shutdown(p)
      PROVE  Moves(p)
  BY <1>4 DEF DefaultTried, StartHost, AddTrayIcon, Shutdown, Step, Moves, Alive, Active
<1>5. ASSUME NEW p \in Instances, StartFails(p)
      PROVE  Moves(p)
  BY <1>5 DEF StartFails, Moves, Alive, Active
<1>6. CASE SettingStep \/ LookStep \/ StartupSet \/ HookRepaired
  BY <1>6 DEF SettingStep, SetRunValue, MarkStartupPreferenceConfigured, SettingFails,
     LookStep, ActiveConnections, PhonePaired, LookAtFreshness, LookAtConfirmation,
     StartupSet, HookRepaired, Process
<1>7. CASE OpenMenu \/ ClickRefresh \/ DiagnosticsTimer \/ PaintDiagnostics
             \/ CloseDiagnostics \/ \E h \in Handles : ClosePairing(h)
  BY <1>7 DEF OpenMenu, ClickRefresh, DiagnosticsTimer, PaintDiagnostics, CloseDiagnostics,
     ClosePairing, Process
<1>8. CASE WorkerPublishes \/ WorkerEnds \/ PhoneMoves
  BY <1>8 DEF WorkerPublishes, WorkerEnds, PhoneMoves, Process
<1>9. CASE Dismiss \/ ChoosePair \/ ChooseRevoke \/ Revoke \/ ChooseStartup
             \/ ChooseRepairHook \/ ChooseRefreshStatus \/ ChooseDiagnostics
  BY <1>9 DEF Dismiss, ChoosePair, ChooseRevoke, Revoke, ChooseStartup, ChooseRepairHook,
     ChooseRefreshStatus, ChooseDiagnostics, Process
<1>10. CASE UNCHANGED vars
  BY <1>10 DEF vars, trayVars
<1> QED BY <1>1, <1>2, <1>3, <1>4, <1>5, <1>6, <1>7, <1>8, <1>9, <1>10
        DEF Next, TrayNext, InstanceStep, MenuStep

LEMMA InstanceStepInv ==
  ASSUME InstanceInv, [Next]_vars
  PROVE  InstanceInv'
<1> USE DEF InstanceInv, Alive
<1>1. CASE UNCHANGED <<proc, mutex>>
  BY <1>1
<1>2. ASSUME NEW p \in Instances, Launch(p)
      PROVE  InstanceInv'
  <2>1. /\ proc' = [proc EXCEPT ![p] = IF mutex = {} THEN "preference" ELSE "second"]
        /\ mutex' = mutex \cup {p}
    BY <1>2 DEF Launch, Step
  <2>2. CASE mutex = {}
    BY <2>1, <2>2 DEF Active, Starting
  <2>3. CASE mutex # {}
    BY <2>1, <2>3 DEF Active, Starting
  <2> QED BY <2>2, <2>3
<1>3. ASSUME NEW p \in Instances, Leave(p) \/ ProcessEnds(p)
      PROVE  InstanceInv'
  <2>1. proc' = [proc EXCEPT ![p] = "off"] /\ mutex' = mutex \ {p}
    BY <1>3 DEF Leave, Step, ProcessEnds
  <2> QED BY <2>1 DEF Active
<1>4. ASSUME NEW p \in Instances, Moves(p)
      PROVE  InstanceInv'
  BY <1>4 DEF Moves
<1>5. CASE ChooseExit
  <2>1. /\ proc' = [p \in Instances |-> IF p \in Running THEN "closing" ELSE proc[p]]
        /\ mutex' = mutex
    BY <1>5 DEF ChooseExit
  <2>2. \A p \in Instances : proc'[p] = "closing" \/ proc'[p] = proc[p]
    BY <2>1
  <2>3. \A p \in Running : p \in Instances /\ Alive(p)
    BY DEF Running, Active
  <2>4. \A p \in Instances : Alive(p)' => Alive(p)
    BY <2>1, <2>3
  <2>5. proc' \in [Instances -> {"off", "failed"} \cup Starting \cup Active]
    BY <2>1, <2>2 DEF Active
  <2> QED BY <2>1, <2>4, <2>5
<1> QED BY <1>1, <1>2, <1>3, <1>4, <1>5, ProcFrame

(* At most one instance at a time is between its start and the end of its  *)
(* shutdown, however many are launched, killed or stuck at a message box.  *)
THEOREM OneInstanceHolds == Spec => []OneInstance
<1>1. Init => InstanceInv
  BY DEF Init, InstanceInv, Alive, Active
<1>2. InstanceInv /\ [Next]_vars => InstanceInv'
  BY InstanceStepInv
<1>3. InstanceInv => OneInstance
  BY DEF InstanceInv, Alive, OneInstance
<1> QED BY <1>1, <1>2, <1>3, PTL DEF Spec

-----------------------------------------------------------------------------
(* The choice to start with Windows.                                       *)

SettingType ==
  \/ setting \in [at : {"idle"}]
  \/ setting \in [at : {"run", "mark"}, by : {Ui} \cup Instances, want : BOOLEAN]
  \/ setting \in [at : {"told"}, by : {Ui} \cup Instances, ok : BOOLEAN]

(* While a setting is in progress no choice counts as made; a choice that  *)
(* counts is recorded, and so never replaced by the default.               *)
ChoiceInv ==
  /\ ChoiceHolds
  /\ wish # "unknown" => configured = TRUE
  /\ setting.at \in {"run", "mark"} => wish = "unknown"
  /\ setting.at = "mark" => (runKey <=> setting.want)

LEMMA RegistryFrame ==
  ASSUME [Next]_vars
  PROVE  \/ UNCHANGED registry
         \/ SetRunValue \/ MarkStartupPreferenceConfigured \/ SettingFails
         \/ \E p \in Instances : ~ configured /\ BeginSetting(p, TRUE)
         \/ \E want \in BOOLEAN : BeginSetting(Ui, want)
         \/ setting' = Idle /\ UNCHANGED <<runKey, configured, wish>>
<1>1. CASE HookToolsNext /\ UNCHANGED trayVars
  BY <1>1 DEF trayVars
<1>2. ASSUME NEW p \in Instances, Acknowledge(p) \/ Kill(p) \/ CloseMutex(p)
      PROVE  /\ UNCHANGED <<runKey, configured, wish>>
             /\ setting' = Idle \/ UNCHANGED setting
  BY <1>2 DEF Acknowledge, Kill, CloseMutex, ProcessEnds
<1>3. ASSUME NEW p \in Instances, EnsureDefaultStartupEnabled(p)
      PROVE  UNCHANGED registry \/ (~ configured /\ BeginSetting(p, TRUE))
  BY <1>3 DEF EnsureDefaultStartupEnabled
<1>4. ASSUME NEW p \in Instances, DefaultTried(p)
      PROVE  setting' = Idle /\ UNCHANGED <<runKey, configured, wish>>
  BY <1>4 DEF DefaultTried
<1>5. ASSUME NEW p \in Instances,
             Launch(p) \/ Leave(p) \/ StartHost(p) \/ StartFails(p) \/ AddTrayIcon(p) \/ Shutdown(p)
      PROVE  UNCHANGED registry
  BY <1>5 DEF Launch, Leave, StartHost, StartFails, AddTrayIcon, Shutdown
<1>6. CASE LookStep \/ HookRepaired
  BY <1>6 DEF LookStep, ActiveConnections, PhonePaired, LookAtFreshness,
     LookAtConfirmation, HookRepaired
<1>7. CASE StartupSet
  BY <1>7 DEF StartupSet
<1>8. CASE OpenMenu \/ ClickRefresh \/ DiagnosticsTimer \/ PaintDiagnostics
             \/ CloseDiagnostics \/ \E h \in Handles : ClosePairing(h)
  BY <1>8 DEF OpenMenu, ClickRefresh, DiagnosticsTimer, PaintDiagnostics, CloseDiagnostics,
     ClosePairing
<1>9. CASE WorkerPublishes \/ WorkerEnds \/ PhoneMoves
  BY <1>9 DEF WorkerPublishes, WorkerEnds, PhoneMoves
<1>10. CASE Dismiss \/ ChoosePair \/ ChooseRevoke \/ Revoke \/ ChooseExit
              \/ ChooseRepairHook \/ ChooseRefreshStatus \/ ChooseDiagnostics
  BY <1>10 DEF Dismiss, ChoosePair, ChooseRevoke, Revoke, ChooseExit, ChooseRepairHook,
     ChooseRefreshStatus, ChooseDiagnostics
<1>11. CASE ChooseStartup
  <2>1. BeginSetting(Ui, ~ runKey)
    BY <1>11 DEF ChooseStartup
  <2>2. CASE runKey
    BY <2>1, <2>2 DEF BeginSetting
  <2>3. CASE ~ runKey
    BY <2>1, <2>3 DEF BeginSetting
  <2> QED BY <2>2, <2>3
<1>12. CASE UNCHANGED vars
  BY <1>12 DEF vars, trayVars
<1> QED BY <1>1, <1>2, <1>3, <1>4, <1>5, <1>6, <1>7, <1>8, <1>9, <1>10, <1>11, <1>12
        DEF Next, TrayNext, InstanceStep, MenuStep, SettingStep, registry

LEMMA BeginChoice ==
  ASSUME SettingType, ChoiceInv, NEW by \in {Ui} \cup Instances, NEW want \in BOOLEAN,
         BeginSetting(by, want), by # Ui => ~ configured
  PROVE  SettingType' /\ ChoiceInv'
<1>1. setting' = [at |-> "run", by |-> by, want |-> want]
  BY DEF BeginSetting
<1>2. SettingType'
  <2>1. CASE want
    BY <1>1, <2>1 DEF SettingType
  <2>2. CASE ~ want
    BY <1>1, <2>2 DEF SettingType
  <2> QED BY <2>1, <2>2
<1>3. wish' = "unknown"
  BY DEF BeginSetting, ChoiceInv
<1>4. ChoiceInv'
  BY <1>1, <1>3 DEF ChoiceInv, ChoiceHolds
<1> QED BY <1>2, <1>4

LEMMA ChoiceStep ==
  ASSUME SettingType, ChoiceInv, [Next]_vars
  PROVE  SettingType' /\ ChoiceInv'
<1>1. CASE UNCHANGED registry
  BY <1>1 DEF registry, SettingType, ChoiceInv, ChoiceHolds
<1>2. CASE SetRunValue
  <2>1. setting \in [at : {"run", "mark"}, by : {Ui} \cup Instances, want : BOOLEAN]
    BY <1>2 DEF SetRunValue, SettingType
  <2>2. /\ setting'.at = "mark" /\ setting'.want = setting.want
        /\ setting' \in [at : {"run", "mark"}, by : {Ui} \cup Instances, want : BOOLEAN]
    BY <1>2, <2>1 DEF SetRunValue
  <2>3. wish = "unknown" /\ wish' = wish /\ runKey' = setting.want
    BY <1>2 DEF SetRunValue, ChoiceInv
  <2>4. SettingType'
    BY <2>2 DEF SettingType
  <2>5. ChoiceInv'
    BY <2>2, <2>3 DEF ChoiceInv, ChoiceHolds
  <2> QED BY <2>4, <2>5
<1>3. CASE MarkStartupPreferenceConfigured
  <2>1. setting.at = "mark" /\ configured' = TRUE /\ UNCHANGED runKey
    BY <1>3 DEF MarkStartupPreferenceConfigured
  <2>2. setting \in [at : {"run", "mark"}, by : {Ui} \cup Instances, want : BOOLEAN]
    BY <2>1 DEF SettingType
  <2>3. setting' = [at |-> "told", by |-> setting.by, ok |-> TRUE]
    BY <1>3 DEF MarkStartupPreferenceConfigured
  <2>4. SettingType'
    BY <2>2, <2>3 DEF SettingType
  <2>5. wish' = "unknown" \/ (wish' = "yes" /\ setting.want) \/ (wish' = "no" /\ ~ setting.want)
    BY <1>3, <2>1, <2>2 DEF MarkStartupPreferenceConfigured, ChoiceInv
  <2>6. ChoiceInv'
    BY <2>1, <2>3, <2>5 DEF ChoiceInv, ChoiceHolds
  <2> QED BY <2>4, <2>6
<1>4. CASE SettingFails
  <2>1. setting \in [at : {"run", "mark"}, by : {Ui} \cup Instances, want : BOOLEAN]
    BY <1>4 DEF SettingFails, SettingType
  <2>2. setting' = [at |-> "told", by |-> setting.by, ok |-> FALSE]
    BY <1>4 DEF SettingFails
  <2>3. SettingType'
    BY <2>1, <2>2 DEF SettingType
  <2>4. ChoiceInv'
    BY <1>4, <2>2 DEF SettingFails, ChoiceInv, ChoiceHolds
  <2> QED BY <2>3, <2>4
<1>5. ASSUME NEW p \in Instances, ~ configured, BeginSetting(p, TRUE)
      PROVE  SettingType' /\ ChoiceInv'
  BY <1>5, BeginChoice
<1>6. ASSUME NEW want \in BOOLEAN, BeginSetting(Ui, want)
      PROVE  SettingType' /\ ChoiceInv'
  BY <1>6, BeginChoice
<1>7. CASE setting' = Idle /\ UNCHANGED <<runKey, configured, wish>>
  BY <1>7 DEF Idle, SettingType, ChoiceInv, ChoiceHolds
<1> QED BY <1>1, <1>2, <1>3, <1>4, <1>5, <1>6, <1>7, RegistryFrame

(* A choice to start with Windows that was made without an error message   *)
(* outlives every later start, failed start and crash.                     *)
THEOREM ChoiceHoldsHolds == Spec => []ChoiceHolds
<1>1. Init => SettingType /\ ChoiceInv
  BY DEF Init, Idle, SettingType, ChoiceInv, ChoiceHolds
<1>2. SettingType /\ ChoiceInv /\ [Next]_vars => SettingType' /\ ChoiceInv'
  BY ChoiceStep
<1>3. ChoiceInv => ChoiceHolds
  BY DEF ChoiceInv
<1> QED BY <1>1, <1>2, <1>3, PTL DEF Spec

-----------------------------------------------------------------------------
(* The pairing windows.                                                    *)

LEMMA QrStep == ASSUME qrData = qrs, [Next]_vars PROVE qrData' = qrs'
<1>1. CASE HookToolsNext /\ UNCHANGED trayVars
  BY <1>1 DEF trayVars, screen
<1>2. ASSUME NEW below, ShowPairing(below)
      PROVE  qrData' = qrs'
  BY <1>2 DEF ShowPairing
<1>3. CASE NoScreen
  BY <1>3 DEF NoScreen
<1>4. ASSUME NEW p \in Instances, Acknowledge(p) \/ Kill(p) \/ CloseMutex(p)
      PROVE  qrData' = qrs'
  BY <1>3, <1>4 DEF Acknowledge, Kill, CloseMutex, ProcessEnds, screen
<1>5. ASSUME NEW p \in Instances,
             Launch(p) \/ Leave(p) \/ EnsureDefaultStartupEnabled(p) \/ DefaultTried(p)
               \/ StartHost(p) \/ StartFails(p) \/ Shutdown(p)
      PROVE  qrData' = qrs'
  BY <1>5 DEF Launch, Leave, EnsureDefaultStartupEnabled, DefaultTried, StartHost,
     StartFails, Shutdown, screen
<1>6. ASSUME NEW p \in Instances, AddTrayIcon(p)
      PROVE  qrData' = qrs'
  BY <1>2, <1>6 DEF AddTrayIcon, screen
<1>7. CASE SettingStep \/ LookStep \/ StartupSet \/ HookRepaired
  BY <1>7 DEF SettingStep, SetRunValue, MarkStartupPreferenceConfigured, SettingFails,
     LookStep, ActiveConnections, PhonePaired, LookAtFreshness, LookAtConfirmation,
     StartupSet, HookRepaired, screen
<1>8. CASE OpenMenu \/ ClickRefresh \/ DiagnosticsTimer \/ PaintDiagnostics \/ CloseDiagnostics
  BY <1>8 DEF OpenMenu, ClickRefresh, DiagnosticsTimer, PaintDiagnostics, CloseDiagnostics
<1>9. ASSUME NEW h \in Handles, ClosePairing(h)
      PROVE  qrData' = qrs'
  BY <1>9 DEF ClosePairing
<1>10. CASE WorkerPublishes \/ WorkerEnds \/ PhoneMoves
  BY <1>10 DEF WorkerPublishes, WorkerEnds, PhoneMoves, screen
<1>11. CASE Dismiss \/ ChooseRevoke \/ Revoke \/ ChooseStartup \/ ChooseRepairHook
              \/ ChooseRefreshStatus \/ ChooseDiagnostics
  BY <1>11 DEF Dismiss, ChooseRevoke, Revoke, ChooseStartup, ChooseRepairHook,
     ChooseRefreshStatus, ChooseDiagnostics
<1>12. CASE ChoosePair
  BY <1>2, <1>12 DEF ChoosePair
<1>13. CASE ChooseExit
  BY <1>3, <1>13 DEF ChooseExit
<1>14. CASE UNCHANGED vars
  BY <1>14 DEF vars, trayVars, screen
<1> QED BY <1>1, <1>4, <1>5, <1>6, <1>7, <1>8, <1>9, <1>10, <1>11, <1>12, <1>13, <1>14
        DEF Next, TrayNext, InstanceStep, MenuStep

(* Every pairing window has its own QR code in the map, and no other is.   *)
THEOREM QrCodesMatch == Spec => []QrCodesMatchWindows
<1>1. Init => QrCodesMatchWindows
  BY DEF Init, QrCodesMatchWindows
<1>2. QrCodesMatchWindows /\ [Next]_vars => QrCodesMatchWindows'
  BY QrStep DEF QrCodesMatchWindows
<1> QED BY <1>1, <1>2, PTL DEF Spec

-----------------------------------------------------------------------------
(* The pictures.                                                           *)

Pictures == [online : BOOLEAN, paired : BOOLEAN, fresh : Nat, confirming : BOOLEAN, since : Nat]
CurrentPictures == {pic \in Pictures : pic.fresh >= pic.since}
Layers == [at : {"menu"}, pic : CurrentPictures] \cup [at : {"revoke?", "box"}]
Looks  == [at : {"online", "paired", "fresh", "confirming"},
           for : {"menu", "diagnostics"}, pic : Pictures]
Phones == [paired : BOOLEAN, online : BOOLEAN]
Works  == [at : {"idle", "toggle", "repair"}]

(* What was over when a look began is over still, and a result is out      *)
(* before the confirmation that learnt it is over: what the look reads     *)
(* later is at least as new.                                               *)
ResultsInv ==
  /\ fresh \in Nat /\ finished \in Nat /\ finished <= fresh
  /\ confirming \in BOOLEAN /\ phone \in Phones

LookInv ==
  /\ ui \in Looks \cup Works
  /\ ui \in Looks => ui.pic.since <= finished
  /\ ui.at = "confirming" => ui.pic.fresh >= ui.pic.since

ShownInv ==
  /\ modal \in Seq(Layers)
  /\ diag.pic \in CurrentPictures \cup {Idle}
  /\ diag = [open |-> diag.open, dirty |-> diag.dirty, pic |-> diag.pic]

PictureInv == ResultsInv /\ LookInv /\ ShownInv

LEMMA PhoneFields ==
  /\ [paired |-> FALSE, online |-> FALSE] \in Phones
  /\ \A x \in Phones :
       /\ x.online \in BOOLEAN /\ x.paired \in BOOLEAN
       /\ [x EXCEPT !.online = FALSE] \in Phones
       /\ [x EXCEPT !.online = ~ x.online] \in Phones
       /\ [x EXCEPT !.paired = TRUE] \in Phones
       /\ [x EXCEPT !.paired = FALSE] \in Phones
<1>1. FALSE \in BOOLEAN /\ TRUE \in BOOLEAN /\ \A b \in BOOLEAN : (~ b) \in BOOLEAN
  BY Zenon
<1>2. \A a, b \in BOOLEAN : [paired |-> a, online |-> b] \in Phones
  BY DEF Phones
<1>3. ASSUME NEW x \in Phones
      PROVE  /\ x.online \in BOOLEAN /\ x.paired \in BOOLEAN
             /\ \A b : [x EXCEPT !.online = b] = [paired |-> x.paired, online |-> b]
             /\ \A b : [x EXCEPT !.paired = b] = [paired |-> b, online |-> x.online]
  BY DEF Phones
<1>4. ASSUME NEW x \in Phones
      PROVE  /\ [x EXCEPT !.online = FALSE] \in Phones
             /\ [x EXCEPT !.online = ~ x.online] \in Phones
             /\ [x EXCEPT !.paired = TRUE] \in Phones
             /\ [x EXCEPT !.paired = FALSE] \in Phones
  <2>1. x.online \in BOOLEAN /\ x.paired \in BOOLEAN /\ (~ x.online) \in BOOLEAN
    BY <1>1, <1>3, Zenon
  <2>2. [paired |-> x.paired, online |-> FALSE] \in Phones
    BY <1>1, <1>2, <2>1, Zenon
  <2>3. [paired |-> x.paired, online |-> ~ x.online] \in Phones
    BY <1>2, <2>1, Zenon
  <2>4. [paired |-> TRUE, online |-> x.online] \in Phones
    BY <1>1, <1>2, <2>1, Zenon
  <2>5. [paired |-> FALSE, online |-> x.online] \in Phones
    BY <1>1, <1>2, <2>1, Zenon
  <2>6. /\ [x EXCEPT !.online = FALSE] = [paired |-> x.paired, online |-> FALSE]
        /\ [x EXCEPT !.online = ~ x.online] = [paired |-> x.paired, online |-> ~ x.online]
        /\ [x EXCEPT !.paired = TRUE] = [paired |-> TRUE, online |-> x.online]
        /\ [x EXCEPT !.paired = FALSE] = [paired |-> FALSE, online |-> x.online]
    BY <1>3, Zenon
  <2> QED BY <2>2, <2>3, <2>4, <2>5, <2>6, Zenon
<1>5. [paired |-> FALSE, online |-> FALSE] \in Phones
  BY <1>1, <1>2, Zenon
<1> QED BY <1>3, <1>4, <1>5, Zenon

LEMMA PictureInit == Init => PictureInv
<1> SUFFICES ASSUME Init PROVE PictureInv
  OBVIOUS
<1>1. ResultsInv
  <2>1. fresh = 0 /\ finished = 0 /\ confirming = FALSE
    BY DEF Init
  <2>2. phone \in Phones
    BY PhoneFields DEF Init
  <2>3. confirming \in BOOLEAN
    BY <2>1, Zenon
  <2> QED BY <2>1, <2>2, <2>3 DEF ResultsInv
<1>2. LookInv
  BY DEF Init, LookInv, Idle, Looks, Works
<1>3. ShownInv
  BY DEF Init, ShownInv, NoDiag, Idle
<1> QED BY <1>1, <1>2, <1>3 DEF PictureInv

(* Results only get newer.                                                 *)
LEMMA ResultsStep ==
  ASSUME ResultsInv, [Next]_vars
  PROVE  ResultsInv' /\ finished' >= finished
<1> USE DEF ResultsInv
<1>1. CASE UNCHANGED <<phone, confirming, fresh, finished>>
  BY <1>1
<1>2. CASE HookToolsNext /\ UNCHANGED trayVars
  BY <1>1, <1>2 DEF trayVars, service
<1>0. FALSE \in BOOLEAN /\ TRUE \in BOOLEAN
  BY Zenon
<1>3. ASSUME NEW p \in Instances, ProcessEnds(p)
      PROVE  ResultsInv' /\ finished' >= finished
  <2>1. CASE UNCHANGED service
    BY <1>1, <2>1 DEF service
  <2>2. CASE ~ UNCHANGED service
    <3>1. /\ phone' = [phone EXCEPT !.online = FALSE] /\ confirming' = FALSE
          /\ fresh' = fresh /\ finished' = fresh
      BY <1>3, <2>2 DEF ProcessEnds
    <3>2. phone' \in Phones
      BY <3>1, PhoneFields
    <3>3. confirming' \in BOOLEAN
      BY <1>0, <3>1, Zenon
    <3> QED BY <3>1, <3>2, <3>3
  <2> QED BY <2>1, <2>2
<1>4. ASSUME NEW p \in Instances, Acknowledge(p) \/ Kill(p) \/ CloseMutex(p)
      PROVE  ResultsInv' /\ finished' >= finished
  BY <1>3, <1>4 DEF Acknowledge, Kill, CloseMutex
<1>5. ASSUME NEW p \in Instances,
             Launch(p) \/ Leave(p) \/ EnsureDefaultStartupEnabled(p) \/ DefaultTried(p)
               \/ StartHost(p) \/ StartFails(p) \/ AddTrayIcon(p)
      PROVE  UNCHANGED <<phone, confirming, fresh, finished>>
  BY <1>5 DEF Launch, Leave, EnsureDefaultStartupEnabled, DefaultTried, StartHost,
     StartFails, AddTrayIcon, service
<1>6. ASSUME NEW p \in Instances, Shutdown(p)
      PROVE  ResultsInv' /\ finished' >= finished
  <2>1. phone' \in Phones /\ UNCHANGED <<confirming, fresh, finished>>
    BY <1>6, PhoneFields DEF Shutdown
  <2> QED BY <2>1
<1>7. CASE SettingStep \/ LookStep \/ StartupSet \/ HookRepaired
  BY <1>1, <1>7 DEF SettingStep, SetRunValue, MarkStartupPreferenceConfigured, SettingFails,
     LookStep, ActiveConnections, PhonePaired, LookAtFreshness, LookAtConfirmation,
     StartupSet, HookRepaired, service
<1>8. CASE OpenMenu \/ DiagnosticsTimer \/ PaintDiagnostics \/ CloseDiagnostics
             \/ \E h \in Handles : ClosePairing(h)
  BY <1>1, <1>8 DEF OpenMenu, DiagnosticsTimer, PaintDiagnostics, CloseDiagnostics,
     ClosePairing, service
<1>9. CASE ConfirmUpstreamNow
  <2>1. confirming' = TRUE /\ UNCHANGED <<phone, fresh, finished>>
    BY <1>9 DEF ConfirmUpstreamNow
  <2>2. confirming' \in BOOLEAN
    BY <1>0, <2>1, Zenon
  <2> QED BY <2>1, <2>2
<1>10. CASE ClickRefresh \/ ChooseRefreshStatus
  BY <1>9, <1>10 DEF ClickRefresh, ChooseRefreshStatus
<1>11. CASE WorkerPublishes
  <2>1. fresh' \in {fresh, fresh + 1} /\ UNCHANGED <<phone, confirming, finished>>
    BY <1>11 DEF WorkerPublishes
  <2> QED BY <2>1
<1>12. CASE WorkerEnds
  <2>1. confirming' = FALSE /\ finished' = fresh /\ UNCHANGED <<phone, fresh>>
    BY <1>12 DEF WorkerEnds
  <2>2. confirming' \in BOOLEAN
    BY <1>0, <2>1, Zenon
  <2> QED BY <2>1, <2>2
<1>13. CASE PhoneMoves
  <2>1. phone' \in Phones /\ UNCHANGED <<confirming, fresh, finished>>
    BY <1>13, PhoneFields DEF PhoneMoves
  <2> QED BY <2>1
<1>14. CASE Revoke
  <2>1. phone' \in Phones /\ UNCHANGED <<confirming, fresh, finished>>
    BY <1>14, PhoneFields DEF Revoke
  <2> QED BY <2>1
<1>15. CASE Dismiss \/ ChoosePair \/ ChooseRevoke \/ ChooseStartup \/ ChooseRepairHook
              \/ ChooseDiagnostics \/ ChooseExit
  BY <1>1, <1>15 DEF Dismiss, ChoosePair, ChooseRevoke, ChooseStartup, ChooseRepairHook,
     ChooseDiagnostics, ChooseExit, service
<1>16. CASE UNCHANGED vars
  BY <1>1, <1>16 DEF vars, trayVars, service
<1> QED BY <1>2, <1>4, <1>5, <1>1, <1>6, <1>7, <1>8, <1>10, <1>11, <1>12, <1>13, <1>14, <1>15,
           <1>16 DEF Next, TrayNext, InstanceStep, MenuStep

LEMMA LayersKept ==
  ASSUME modal \in Seq(Layers)
  PROVE  /\ modal # <<>> => Inner \in Seq(Layers)
         /\ \A s \in Seq(Layers) : Append(s, Box) \in Seq(Layers)
         /\ \A s \in Seq(Layers) : Append(s, [at |-> "revoke?"]) \in Seq(Layers)
<1>1. Box \in Layers /\ [at |-> "revoke?"] \in Layers
  BY DEF Box, Layers
<1>2. ASSUME modal # <<>>
      PROVE  Inner \in Seq(Layers)
  <2>1. Len(modal) \in Nat /\ Len(modal) >= 1
    BY <1>2
  <2> QED BY <2>1 DEF Inner
<1> QED BY <1>1, <1>2

LEMMA LookBegins ==
  ASSUME ResultsInv, NEW for \in {"menu", "diagnostics"}, Look(for), finished' >= finished,
         finished' \in Nat
  PROVE  LookInv'
<1>1. ui' \in Looks /\ ui'.at = "online" /\ ui'.pic.since = finished
  BY DEF Look, Looks, Pictures, ResultsInv
<1> QED BY <1>1 DEF LookInv, ResultsInv

LEMMA PictureStep ==
  ASSUME PictureInv, [Next]_vars
  PROVE  PictureInv'
<1>1. /\ ResultsInv /\ LookInv /\ ShownInv
      /\ ResultsInv' /\ finished' >= finished /\ finished \in Nat /\ finished' \in Nat
  BY ResultsStep DEF PictureInv, ResultsInv
<1>2. SUFFICES LookInv' /\ ShownInv'
  BY <1>1 DEF PictureInv
<1>3. UNCHANGED ui => LookInv'
  BY <1>1 DEF LookInv, Looks, Pictures
<1>4. ui' \in Works => LookInv'
  BY DEF LookInv, Looks, Works
<1>5. \A for \in {"menu", "diagnostics"} : Look(for) => LookInv'
  BY <1>1, LookBegins
<1>6. /\ modal \in Seq(Layers)
      /\ modal' \in Seq(Layers) /\ UNCHANGED diag => ShownInv'
  BY <1>1 DEF ShownInv
<1>7. CASE UNCHANGED <<modal, ui, diag>>
  BY <1>3, <1>6, <1>7
<1>8. CASE NoScreen
  <2>1. ui' \in Works
    BY <1>8 DEF NoScreen, Idle, Works
  <2>2. ShownInv'
    BY <1>8 DEF NoScreen, NoDiag, ShownInv
  <2> QED BY <1>4, <2>1, <2>2
<1>9. CASE HookToolsNext /\ UNCHANGED trayVars
  BY <1>7, <1>9 DEF trayVars, screen
<1>10. ASSUME NEW p \in Instances, Acknowledge(p) \/ Kill(p) \/ CloseMutex(p)
       PROVE  NoScreen \/ UNCHANGED <<modal, ui, diag>>
  BY <1>10 DEF Acknowledge, Kill, CloseMutex, ProcessEnds, screen
<1>11. ASSUME NEW p \in Instances,
              Launch(p) \/ Leave(p) \/ EnsureDefaultStartupEnabled(p) \/ DefaultTried(p)
                \/ StartHost(p) \/ StartFails(p) \/ Shutdown(p)
       PROVE  UNCHANGED <<modal, ui, diag>>
  BY <1>11 DEF Launch, Leave, EnsureDefaultStartupEnabled, DefaultTried, StartHost,
     StartFails, Shutdown, screen
<1>12. ASSUME ShowDiagnostics, UNCHANGED modal \/ (modal # <<>> /\ modal' = Inner)
       PROVE  LookInv' /\ ShownInv'
  <2>1. modal' \in Seq(Layers)
    BY <1>6, <1>12, LayersKept
  <2>2. CASE UNCHANGED <<diag, ui>>
    BY <1>3, <1>6, <2>1, <2>2
  <2>3. CASE diag' = [NoDiag EXCEPT !.open = TRUE] /\ Look("diagnostics")
    BY <1>5, <2>1, <2>3 DEF NoDiag, ShownInv
  <2> QED BY <1>12, <2>2, <2>3 DEF ShowDiagnostics
<1>13. ASSUME NEW below \in Seq(Layers), ShowPairing(below), UNCHANGED <<ui, diag>>
       PROVE  LookInv' /\ ShownInv'
  <2>1. modal' \in Seq(Layers)
    BY <1>6, <1>13, LayersKept DEF ShowPairing
  <2> QED BY <1>3, <1>6, <1>13, <2>1
<1>14. ASSUME NEW p \in Instances, AddTrayIcon(p)
       PROVE  LookInv' /\ ShownInv'
  <2>1. CASE UNCHANGED screen
    BY <1>7, <2>1 DEF screen
  <2>2. CASE ShowPairing(<<>>) /\ UNCHANGED <<ui, diag>>
    <3>1. <<>> \in Seq(Layers)
      OBVIOUS
    <3> QED BY <1>13, <2>2, <3>1
  <2>3. CASE ShowDiagnostics /\ UNCHANGED modal
    BY <1>12, <2>3
  <2> QED BY <1>14, <2>1, <2>2, <2>3 DEF AddTrayIcon
<1>15. CASE SettingStep \/ DiagnosticsTimer \/ ClickRefresh \/ WorkerPublishes
              \/ WorkerEnds \/ PhoneMoves \/ \E h \in Handles : ClosePairing(h)
  <2>1. CASE SettingStep
    BY <1>7, <2>1 DEF SettingStep, SetRunValue, MarkStartupPreferenceConfigured,
       SettingFails, screen
  <2>2. CASE WorkerPublishes \/ WorkerEnds \/ PhoneMoves \/ \E h \in Handles : ClosePairing(h)
    BY <1>7, <2>2 DEF WorkerPublishes, WorkerEnds, PhoneMoves, ClosePairing, screen
  <2>3. CASE DiagnosticsTimer \/ ClickRefresh
    <3>1. diag' = [diag EXCEPT !.dirty = TRUE] /\ UNCHANGED <<modal, ui>>
      BY <2>3 DEF DiagnosticsTimer, ClickRefresh
    <3>2. ShownInv'
      BY <1>1, <3>1 DEF ShownInv
    <3> QED BY <1>3, <3>1, <3>2
  <2> QED BY <1>15, <2>1, <2>2, <2>3
<1>16. CASE ActiveConnections \/ PhonePaired \/ LookAtFreshness
  <2>1. ui \in Looks /\ phone.online \in BOOLEAN /\ phone.paired \in BOOLEAN /\ fresh \in Nat
        /\ finished <= fresh
    BY <1>1, <1>16, PhoneFields
       DEF ActiveConnections, PhonePaired, LookAtFreshness, LookInv, Works, ResultsInv
  <2>2. ui.pic \in Pictures /\ ui.pic.since <= finished /\ ui.pic.since \in Nat
    BY <1>1, <2>1 DEF LookInv, Looks, Pictures
  <2>3. /\ ui' \in Looks /\ ui'.pic.since = ui.pic.since
        /\ ui'.at = "confirming" => ui'.pic.fresh = fresh
    <3>1. CASE ActiveConnections
      BY <2>1, <3>1 DEF ActiveConnections, Looks, Pictures
    <3>2. CASE PhonePaired
      BY <2>1, <3>2 DEF PhonePaired, Looks, Pictures
    <3>3. CASE LookAtFreshness
      BY <2>1, <3>3 DEF LookAtFreshness, Looks, Pictures
    <3> QED BY <1>16, <3>1, <3>2, <3>3
  <2>4. LookInv'
    BY <1>1, <2>1, <2>2, <2>3 DEF LookInv
  <2>5. UNCHANGED <<modal, diag>>
    BY <1>16 DEF ActiveConnections, PhonePaired, LookAtFreshness
  <2> QED BY <1>6, <2>4, <2>5
<1>17. CASE LookAtConfirmation
  <2> DEFINE pic == [ui.pic EXCEPT !.confirming = confirming]
  <2>1. ui \in Looks /\ ui.pic.fresh >= ui.pic.since /\ confirming \in BOOLEAN
    BY <1>1, <1>17 DEF LookAtConfirmation, LookInv, Works, ResultsInv
  <2>2. pic \in CurrentPictures
    BY <2>1 DEF Looks, Pictures, CurrentPictures
  <2>3. ui' \in Works
    BY <1>17 DEF LookAtConfirmation, Idle, Works
  <2>4. CASE modal' = Append(modal, [at |-> "menu", pic |-> pic]) /\ UNCHANGED diag
    <3>1. [at |-> "menu", pic |-> pic] \in Layers
      BY <2>2 DEF Layers
    <3>2. modal' \in Seq(Layers)
      BY <1>6, <2>4, <3>1
    <3> QED BY <1>4, <1>6, <2>3, <2>4, <3>2
  <2>5. CASE diag' = [open |-> TRUE, dirty |-> diag.dirty, pic |-> pic] /\ UNCHANGED modal
    <3>1. ShownInv'
      BY <1>6, <2>2, <2>5 DEF ShownInv
    <3> QED BY <1>4, <2>3, <3>1
  <2> QED BY <1>17, <2>4, <2>5 DEF LookAtConfirmation
<1>18. CASE StartupSet \/ HookRepaired
  <2>1. ui' = Idle /\ modal' \in {modal, Append(modal, Box)} /\ UNCHANGED diag
    BY <1>18 DEF StartupSet, HookRepaired
  <2>2. modal' \in Seq(Layers)
    BY <1>6, <2>1, LayersKept
  <2> QED BY <1>4, <1>6, <2>1, <2>2 DEF Idle, Works
<1>19. CASE OpenMenu
  BY <1>5, <1>6, <1>19 DEF OpenMenu
<1>20. CASE PaintDiagnostics
  <2>1. diag' = [diag EXCEPT !.dirty = FALSE] /\ Look("diagnostics") /\ UNCHANGED modal
    BY <1>20 DEF PaintDiagnostics
  <2>2. ShownInv'
    BY <1>1, <2>1 DEF ShownInv
  <2> QED BY <1>5, <2>1, <2>2
<1>21. CASE CloseDiagnostics
  <2>1. ShownInv'
    BY <1>6, <1>21 DEF CloseDiagnostics, NoDiag, ShownInv
  <2> QED BY <1>3, <1>21, <2>1 DEF CloseDiagnostics
<1>22. CASE Dismiss \/ ChooseRevoke \/ Revoke \/ ChooseRefreshStatus
  <2>1. modal # <<>> /\ UNCHANGED <<ui, diag>>
    BY <1>22 DEF Dismiss, ChooseRevoke, Revoke, ChooseRefreshStatus, Choose, InMenu
  <2>2. modal' \in {Inner, Append(Inner, Box), Append(Inner, [at |-> "revoke?"])}
    BY <1>22 DEF Dismiss, ChooseRevoke, Revoke, ChooseRefreshStatus
  <2>3. modal' \in Seq(Layers)
    BY <1>6, <2>1, <2>2, LayersKept
  <2> QED BY <1>3, <1>6, <2>1, <2>3
<1>23. CASE ChoosePair
  <2>1. modal # <<>> /\ ShowPairing(Inner) /\ UNCHANGED <<ui, diag>>
    BY <1>23 DEF ChoosePair, Choose, InMenu
  <2> QED BY <1>6, <1>13, <2>1, LayersKept
<1>24. CASE ChooseStartup \/ ChooseRepairHook
  <2>1. modal # <<>> /\ modal' = Inner /\ ui' \in Works /\ UNCHANGED diag
    BY <1>24 DEF ChooseStartup, ChooseRepairHook, Choose, InMenu, Works
  <2> QED BY <1>4, <1>6, <2>1, LayersKept
<1>25. CASE ChooseDiagnostics
  BY <1>12, <1>25 DEF ChooseDiagnostics, Choose, InMenu
<1>26. CASE ChooseExit
  BY <1>8, <1>26 DEF ChooseExit
<1>27. CASE UNCHANGED vars
  BY <1>7, <1>27 DEF vars, trayVars, screen
<1> QED BY <1>7, <1>8, <1>9, <1>10, <1>11, <1>14, <1>15, <1>16, <1>17, <1>18, <1>19, <1>20,
           <1>21, <1>22, <1>23, <1>24, <1>25, <1>26, <1>27
        DEF Next, TrayNext, InstanceStep, LookStep, MenuStep

LEMMA PicturesCurrent == PictureInv => IdleShowsLatest
<1> SUFFICES ASSUME PictureInv PROVE IdleShowsLatest
  OBVIOUS
<1>1. diag.pic # Idle => diag.pic.fresh >= diag.pic.since
  BY DEF PictureInv, ShownInv, CurrentPictures
<1>2. ASSUME NEW i \in 1..Len(modal), modal[i].at = "menu"
      PROVE  modal[i].pic.fresh >= modal[i].pic.since
  <2>1. modal[i] \in Layers
    BY DEF PictureInv, ShownInv
  <2> QED BY <1>2, <2>1 DEF Layers, CurrentPictures
<1> QED BY <1>1, <1>2 DEF IdleShowsLatest

(* However looks, menus and confirmations interleave, a window that does   *)
(* not say a confirmation is running shows a result at least as new as the *)
(* last one that was over when it began to look.                           *)
THEOREM IdleShowsLatestHolds == Spec => []IdleShowsLatest
<1>1. PictureInv /\ [Next]_vars => PictureInv'
  BY PictureStep
<1> QED BY PictureInit, PicturesCurrent, <1>1, PTL DEF Spec

-----------------------------------------------------------------------------
(* Types.                                                                  *)

LEMMA Truths == FALSE \in BOOLEAN /\ TRUE \in BOOLEAN
  BY Zenon

(* A step of another product, a hook or the tray that starts nothing new   *)
(* leaves the count of operations alone.                                   *)
Records == [at : {"record"}, call : Calls, outcome : {"invoked", "accepted"}]

CountInv ==
  /\ ops \in 0..MaxOps
  /\ status \in {Missing, Blank, Torn} \cup Records

LEMMA CountStep ==
  ASSUME CountInv, [Next]_vars
  PROVE  CountInv'
<1>2. UNCHANGED ops \/ Operation => ops' \in 0..MaxOps
  <2>1. CASE Operation
    <3>1. ops \in Nat /\ ops < MaxOps /\ ops' = ops + 1
      BY <2>1 DEF Operation, CountInv
    <3> QED BY <3>1
  <2> QED BY <2>1 DEF CountInv
<1>3. ASSUME UNCHANGED status, UNCHANGED ops \/ Operation
      PROVE  CountInv'
  BY <1>2, <1>3 DEF CountInv
<1>4. ASSUME NEW p \in Instances,
             Launch(p) \/ Kill(p) \/ Acknowledge(p) \/ InstanceStep(p)
      PROVE  UNCHANGED status /\ (UNCHANGED ops \/ Operation)
  BY <1>4 DEF Launch, Kill, Acknowledge, InstanceStep, Leave, EnsureDefaultStartupEnabled,
     DefaultTried, StartHost, StartFails, AddTrayIcon, Shutdown, CloseMutex, ByUser,
     Apart, hookVars, callVars
<1>5. CASE SettingStep \/ LookStep \/ StartupSet \/ HookRepaired
  BY <1>3, <1>5 DEF SettingStep, SetRunValue, MarkStartupPreferenceConfigured, SettingFails,
     LookStep, ActiveConnections, PhonePaired, LookAtFreshness, LookAtConfirmation,
     StartupSet, HookRepaired, Apart, hookVars, callVars
<1>6. CASE OpenMenu \/ ClickRefresh \/ DiagnosticsTimer \/ PaintDiagnostics
             \/ CloseDiagnostics \/ \E h \in Handles : ClosePairing(h)
  BY <1>3, <1>6 DEF OpenMenu, ClickRefresh, DiagnosticsTimer, PaintDiagnostics,
     CloseDiagnostics, ClosePairing, ByUser, Apart, hookVars, callVars
<1>7. CASE WorkerPublishes \/ WorkerEnds \/ PhoneMoves
  BY <1>3, <1>7 DEF WorkerPublishes, WorkerEnds, PhoneMoves, ByUser, Apart, hookVars, callVars
<1>8. CASE Dismiss \/ ChoosePair \/ ChooseRevoke \/ Revoke \/ ChooseStartup \/ ChooseRepairHook
             \/ ChooseRefreshStatus \/ ChooseDiagnostics \/ ChooseExit
  BY <1>3, <1>8 DEF Dismiss, ChoosePair, ChooseRevoke, Revoke, ChooseStartup, ChooseRepairHook,
     ChooseRefreshStatus, ChooseDiagnostics, ChooseExit, BeginEdit, Apart, hookVars, callVars
<1>9. ASSUME NEW e \in Editors,
             EditorStep(e) \/ KillEditor(e) \/ \E want \in {"install", "remove"} : ProcessEdits(e, want)
      PROVE  UNCHANGED status /\ (UNCHANGED ops \/ Operation)
  BY <1>9 DEF EditorStep, ReadHooks, EditFails, OpenHooks, WriteHooks, WriteHooksFails,
     KillEditor, ProcessEdits, BeginEdit, callVars
<1>10. ASSUME NEW o \in Others, OtherEdits(o)
       PROVE  UNCHANGED status /\ Operation
  BY <1>10 DEF OtherEdits, callVars
<1>11. ASSUME NEW c \in Calls, CallStep(c)
       PROVE  CountInv'
  <2>1. CASE HookStart(c) \/ Enqueue(c) \/ CallFails(c)
    BY <1>3, <2>1 DEF HookStart, Enqueue, CallFails
  <2>2. CASE OpenStatus(c) \/ WriteInvoked(c) \/ WriteAccepted(c)
    <3>1. status' \in {Blank, Torn, Record(c, "invoked"), Record(c, "accepted")} /\ UNCHANGED ops
      BY <2>2 DEF OpenStatus, WriteInvoked, WriteAccepted
    <3>2. Record(c, "invoked") \in Records /\ Record(c, "accepted") \in Records
      BY DEF Record, Records
    <3> QED BY <3>1, <3>2 DEF CountInv
  <2> QED BY <1>11, <2>1, <2>2 DEF CallStep
<1>12. CASE UNCHANGED vars
  BY <1>3, <1>12 DEF vars, hookVars, callVars
<1> QED BY <1>3, <1>4, <1>5, <1>6, <1>7, <1>8, <1>9, <1>10, <1>11, <1>12
        DEF Next, TrayNext, MenuStep, HookToolsNext

RegistryType ==
  /\ runKey \in BOOLEAN /\ configured \in BOOLEAN
  /\ wish \in {"unknown", "yes", "no"} /\ SettingType

LEMMA RegistryStep ==
  ASSUME RegistryType, ChoiceInv, [Next]_vars
  PROVE  RegistryType'
<1>0. SettingType'
  BY ChoiceStep DEF RegistryType
<1>1. CASE UNCHANGED registry
  BY <1>0, <1>1 DEF RegistryType, registry
<1>2. CASE SetRunValue
  <2>1. setting \in [at : {"run", "mark"}, by : {Ui} \cup Instances, want : BOOLEAN]
    BY <1>2 DEF SetRunValue, RegistryType, SettingType
  <2>2. runKey' \in BOOLEAN
    BY <1>2, <2>1 DEF SetRunValue
  <2> QED BY <1>0, <1>2, <2>2 DEF SetRunValue, RegistryType
<1>3. CASE MarkStartupPreferenceConfigured
  <2>1. configured' = TRUE /\ UNCHANGED runKey /\ wish' \in {"yes", "no", wish}
    BY <1>3 DEF MarkStartupPreferenceConfigured
  <2>2. configured' \in BOOLEAN
    BY <2>1, Truths, Zenon
  <2> QED BY <1>0, <2>1, <2>2 DEF RegistryType
<1>4. CASE SettingFails
  BY <1>0, <1>4 DEF SettingFails, RegistryType
<1>5. ASSUME NEW by, NEW want, BeginSetting(by, want)
      PROVE  RegistryType'
  BY <1>0, <1>5 DEF BeginSetting, RegistryType
<1>6. CASE UNCHANGED <<runKey, configured, wish>>
  BY <1>0, <1>6 DEF RegistryType
<1> QED BY <1>1, <1>2, <1>3, <1>4, <1>5, <1>6, RegistryFrame

(* The rest of what the windows show, and what serves them.                *)
Offers == [id : Nat, open : BOOLEAN]

WindowsType ==
  /\ port \in Instances \cup {Nobody}
  /\ diag.open \in BOOLEAN /\ diag.dirty \in BOOLEAN
  /\ DOMAIN qrs \subseteq Handles
  /\ offer \in Offers
  /\ worker \in {"idle", "collect", "end"}
  /\ confirming <=> worker # "idle"

LEMMA OfferFields ==
  /\ [id |-> 0, open |-> FALSE] \in Offers
  /\ \A o \in Offers : /\ [o EXCEPT !.open = FALSE] \in Offers
                       /\ [id |-> o.id + 1, open |-> TRUE] \in Offers
<1>1. \A n \in Nat : \A b \in BOOLEAN : [id |-> n, open |-> b] \in Offers
  BY DEF Offers
<1>2. ASSUME NEW o \in Offers
      PROVE  /\ o.id \in Nat /\ o.id + 1 \in Nat
             /\ [o EXCEPT !.open = FALSE] = [id |-> o.id, open |-> FALSE]
  <2>1. o.id \in Nat /\ o.id + 1 \in Nat
    BY DEF Offers
  <2>2. \A b : [o EXCEPT !.open = b] = [id |-> o.id, open |-> b]
    BY DEF Offers
  <2> QED BY <2>1, <2>2, Zenon
<1>3. 0 \in Nat
  OBVIOUS
<1>4. ASSUME NEW o \in Offers
      PROVE  [o EXCEPT !.open = FALSE] \in Offers /\ [id |-> o.id + 1, open |-> TRUE] \in Offers
  <2>1. [id |-> o.id, open |-> FALSE] \in Offers /\ [id |-> o.id + 1, open |-> TRUE] \in Offers
    BY <1>1, <1>2, Truths, Zenon
  <2> QED BY <1>2, <2>1, Zenon
<1>5. [id |-> 0, open |-> FALSE] \in Offers
  BY <1>1, <1>3, Truths, Zenon
<1> QED BY <1>4, <1>5, Zenon

DiagType == diag.open \in BOOLEAN /\ diag.dirty \in BOOLEAN

LEMMA DiagStep ==
  ASSUME DiagType, diag = [open |-> diag.open, dirty |-> diag.dirty, pic |-> diag.pic],
         \/ diag' = diag
         \/ diag' = NoDiag
         \/ diag' = [NoDiag EXCEPT !.open = TRUE]
         \/ diag' = [diag EXCEPT !.dirty = TRUE]
         \/ diag' = [diag EXCEPT !.dirty = FALSE]
         \/ \E pic : diag' = [open |-> TRUE, dirty |-> diag.dirty, pic |-> pic]
  PROVE  DiagType'
<1> DEFINE d == diag'
<1>1. /\ d.open = FALSE \/ d.open = TRUE \/ d.open = diag.open
      /\ d.dirty = FALSE \/ d.dirty = TRUE \/ d.dirty = diag.dirty
  <2>1. CASE d = diag
    BY <2>1
  <2>2. CASE d = NoDiag
    BY <2>2 DEF NoDiag
  <2>3. CASE d = [NoDiag EXCEPT !.open = TRUE]
    BY <2>3 DEF NoDiag
  <2>4. CASE d = [diag EXCEPT !.dirty = TRUE]
    BY <2>4
  <2>5. CASE d = [diag EXCEPT !.dirty = FALSE]
    BY <2>5
  <2>6. CASE \E pic : d = [open |-> TRUE, dirty |-> diag.dirty, pic |-> pic]
    BY <2>6
  <2> QED BY <2>1, <2>2, <2>3, <2>4, <2>5, <2>6
<1>2. d.open \in BOOLEAN
  <2>1. CASE d.open = FALSE
    BY <2>1, Truths, Zenon
  <2>2. CASE d.open = TRUE
    BY <2>2, Truths, Zenon
  <2>3. CASE d.open = diag.open
    BY <2>3 DEF DiagType
  <2> QED BY <1>1, <2>1, <2>2, <2>3
<1>3. d.dirty \in BOOLEAN
  <2>1. CASE d.dirty = FALSE
    BY <2>1, Truths, Zenon
  <2>2. CASE d.dirty = TRUE
    BY <2>2, Truths, Zenon
  <2>3. CASE d.dirty = diag.dirty
    BY <2>3 DEF DiagType
  <2> QED BY <1>1, <2>1, <2>2, <2>3
<1> QED BY <1>2, <1>3 DEF DiagType

LEMMA WindowsStep ==
  ASSUME WindowsType, ShownInv, qrData = qrs, [Next]_vars
  PROVE  WindowsType'
<1> DEFINE served == <<port, offer, confirming, worker>>
<1>0. /\ DiagType /\ diag = [open |-> diag.open, dirty |-> diag.dirty, pic |-> diag.pic]
      /\ port \in Instances \cup {Nobody} /\ offer \in Offers /\ DOMAIN qrs \subseteq Handles
      /\ worker \in {"idle", "collect", "end"} /\ (confirming <=> worker # "idle")
  BY DEF WindowsType, DiagType, ShownInv
<1>1. CASE UNCHANGED <<diag, qrs, served>>
  BY <1>1 DEF WindowsType
<1>2. ASSUME DiagType', UNCHANGED <<qrs, served>>
      PROVE  WindowsType'
  BY <1>0, <1>2 DEF WindowsType, DiagType
<1>3. ASSUME UNCHANGED <<diag, qrs>>, port' \in Instances \cup {Nobody}, offer' \in Offers,
             worker' \in {"idle", "collect", "end"}, confirming' <=> worker' # "idle"
      PROVE  WindowsType'
  BY <1>3 DEF WindowsType
<1>4. CASE HookToolsNext /\ UNCHANGED trayVars
  BY <1>1, <1>4 DEF trayVars, screen, service
<1>5. NoScreen => DiagType' /\ DOMAIN qrs' = {}
  <2> SUFFICES ASSUME NoScreen PROVE DiagType' /\ DOMAIN qrs' = {}
    OBVIOUS
  <2>1. DiagType'
    BY <1>0, DiagStep DEF NoScreen
  <2> QED BY <2>1 DEF NoScreen
<1>6. ASSUME NEW p \in Instances, Acknowledge(p) \/ Kill(p) \/ CloseMutex(p)
      PROVE  WindowsType'
  <2>1. ProcessEnds(p)
    BY <1>6 DEF Acknowledge, Kill, CloseMutex
  <2>2. port' \in Instances \cup {Nobody}
    BY <1>0, <2>1 DEF ProcessEnds
  <2>3. CASE UNCHANGED <<screen, service>>
    <3>1. UNCHANGED <<diag, qrs, offer, confirming, worker>>
      BY <2>3 DEF screen, service
    <3> QED BY <1>0, <1>3, <2>2, <3>1
  <2>4. CASE ~ UNCHANGED <<screen, service>>
    <3>1. /\ NoScreen /\ offer' = [offer EXCEPT !.open = FALSE]
          /\ confirming' = FALSE /\ worker' = "idle"
      BY <2>1, <2>4 DEF ProcessEnds
    <3>2. offer' \in Offers
      BY <1>0, <3>1, OfferFields
    <3> QED BY <1>5, <2>2, <3>1, <3>2 DEF WindowsType, DiagType
  <2> QED BY <2>3, <2>4
<1>7. ASSUME NEW p \in Instances,
             Launch(p) \/ Leave(p) \/ EnsureDefaultStartupEnabled(p) \/ DefaultTried(p) \/ StartFails(p)
      PROVE  UNCHANGED <<diag, qrs, served>>
  BY <1>7 DEF Launch, Leave, EnsureDefaultStartupEnabled, DefaultTried, StartFails, screen, service
<1>8. ASSUME NEW p \in Instances, StartHost(p)
      PROVE  WindowsType'
  BY <1>0, <1>3, <1>8 DEF StartHost, screen, service
<1>9. ASSUME NEW p \in Instances, Shutdown(p)
      PROVE  WindowsType'
  <2>1. /\ port' = Nobody /\ offer' = [offer EXCEPT !.open = FALSE]
        /\ UNCHANGED <<diag, qrs, confirming, worker>>
    BY <1>9 DEF Shutdown, screen
  <2>2. offer' \in Offers
    BY <1>0, <2>1, OfferFields
  <2> QED BY <1>0, <1>3, <2>1, <2>2
<1>10. ASSUME NEW below, ShowPairing(below), UNCHANGED <<diag, port, confirming, worker>>
       PROVE  WindowsType'
  <2>1. offer' \in Offers
    BY <1>0, <1>10, OfferFields DEF ShowPairing, NewOffer
  <2>2. DOMAIN qrs' \subseteq Handles
    BY <1>0, <1>10 DEF ShowPairing, With
  <2> QED BY <1>0, <1>10, <2>1, <2>2 DEF WindowsType, DiagType
<1>11. ASSUME ShowDiagnostics, UNCHANGED <<qrs, served>>
       PROVE  WindowsType'
  <2>1. DiagType'
    BY <1>0, <1>11, DiagStep DEF ShowDiagnostics
  <2> QED BY <1>2, <1>11, <2>1
<1>12. ASSUME NEW p \in Instances, AddTrayIcon(p)
       PROVE  WindowsType'
  <2>1. UNCHANGED <<port, confirming, worker>>
    BY <1>12 DEF AddTrayIcon
  <2>2. CASE UNCHANGED <<screen, offer>>
    BY <1>1, <2>1, <2>2 DEF screen
  <2>3. CASE ShowPairing(<<>>) /\ UNCHANGED <<ui, diag>>
    BY <1>10, <2>1, <2>3
  <2>4. CASE ShowDiagnostics /\ UNCHANGED <<modal, qrs, qrData, offer>>
    BY <1>11, <2>1, <2>4
  <2> QED BY <1>12, <2>2, <2>3, <2>4 DEF AddTrayIcon
<1>13. CASE SettingStep \/ StartupSet \/ HookRepaired \/ OpenMenu
              \/ ActiveConnections \/ PhonePaired \/ LookAtFreshness
              \/ Dismiss \/ ChooseRevoke \/ ChooseStartup \/ ChooseRepairHook
  BY <1>1, <1>13 DEF SettingStep, SetRunValue, MarkStartupPreferenceConfigured, SettingFails,
     StartupSet, HookRepaired, OpenMenu, ActiveConnections, PhonePaired, LookAtFreshness,
     Dismiss, ChooseRevoke, ChooseStartup, ChooseRepairHook, screen, service, Process
<1>14. CASE Revoke
  BY <1>1, <1>14 DEF Revoke, Process
<1>15. CASE LookAtConfirmation
  <2>1. UNCHANGED <<qrs, served>>
    BY <1>15 DEF LookAtConfirmation, Process, service
  <2>2. diag' = diag \/ \E pic : diag' = [open |-> TRUE, dirty |-> diag.dirty, pic |-> pic]
    BY <1>15 DEF LookAtConfirmation
  <2>3. DiagType'
    BY <1>0, <2>2, DiagStep
  <2> QED BY <1>2, <2>1, <2>3
<1>16. CASE DiagnosticsTimer \/ PaintDiagnostics \/ CloseDiagnostics
  <2>1. UNCHANGED <<qrs, served>>
    BY <1>16 DEF DiagnosticsTimer, PaintDiagnostics, CloseDiagnostics, Process, service
  <2>2. \/ diag' = NoDiag \/ diag' = [diag EXCEPT !.dirty = TRUE]
        \/ diag' = [diag EXCEPT !.dirty = FALSE]
    BY <1>16 DEF DiagnosticsTimer, PaintDiagnostics, CloseDiagnostics
  <2>3. DiagType'
    BY <1>0, <2>2, DiagStep
  <2> QED BY <1>2, <2>1, <2>3
<1>17. ASSUME ConfirmUpstreamNow, UNCHANGED <<qrs, port>>, DiagType'
       PROVE  WindowsType'
  <2>1. confirming' = TRUE /\ worker' = (IF confirming THEN worker ELSE "collect") /\ UNCHANGED offer
    BY <1>17 DEF ConfirmUpstreamNow
  <2>2. worker' \in {"idle", "collect", "end"} /\ worker' # "idle"
    BY <1>0, <2>1
  <2> QED BY <1>0, <1>17, <2>1, <2>2 DEF WindowsType, DiagType
<1>18. CASE ClickRefresh
  <2>1. DiagType'
    BY <1>0, <1>18, DiagStep DEF ClickRefresh
  <2> QED BY <1>17, <1>18, <2>1 DEF ClickRefresh, Process
<1>19. CASE ChooseRefreshStatus
  <2>1. DiagType'
    BY <1>0, <1>19, DiagStep DEF ChooseRefreshStatus
  <2> QED BY <1>17, <1>19, <2>1 DEF ChooseRefreshStatus, Process
<1>20. CASE ChoosePair
  BY <1>10, <1>20 DEF ChoosePair, Process
<1>21. CASE ChooseDiagnostics
  BY <1>11, <1>21 DEF ChooseDiagnostics, Process, service
<1>22. CASE ChooseExit
  BY <1>0, <1>5, <1>22 DEF ChooseExit, WindowsType, DiagType, service
<1>23. ASSUME NEW h \in Handles, ClosePairing(h)
       PROVE  WindowsType'
  <2>1. UNCHANGED <<diag, served>>
    BY <1>23 DEF ClosePairing, Process, service
  <2>2. DOMAIN qrs' \subseteq Handles
    BY <1>0, <1>23 DEF ClosePairing
  <2> QED BY <1>0, <2>1, <2>2 DEF WindowsType, DiagType
<1>24. CASE WorkerPublishes \/ WorkerEnds
  <2>1. UNCHANGED <<diag, qrs, port, offer>>
    BY <1>24 DEF WorkerPublishes, WorkerEnds, Process, screen
  <2>2. worker' \in {"idle", "collect", "end"} /\ (confirming' <=> worker' # "idle")
    BY <1>0, <1>24 DEF WorkerPublishes, WorkerEnds
  <2> QED BY <1>0, <1>3, <2>1, <2>2
<1>25. CASE PhoneMoves
  <2>1. UNCHANGED <<diag, qrs, port, confirming, worker>>
    BY <1>25 DEF PhoneMoves, Process, screen
  <2>2. offer' \in Offers
    BY <1>0, <1>25, OfferFields DEF PhoneMoves
  <2> QED BY <1>0, <1>3, <2>1, <2>2
<1>26. CASE UNCHANGED vars
  BY <1>1, <1>26 DEF vars, trayVars, screen, service
<1> QED BY <1>1, <1>4, <1>6, <1>7, <1>8, <1>9, <1>12, <1>13, <1>14, <1>15, <1>16, <1>18, <1>19,
           <1>20, <1>21, <1>22, <1>23, <1>24, <1>25, <1>26
        DEF Next, TrayNext, InstanceStep, LookStep, MenuStep

(* Without an instance that runs the screen is empty, and whatever is      *)
(* going to open a layer leaves room for it.                               *)
Waits == ui \in Looks /\ ui.for = "menu"
Room  == Len(modal) < MaxDepth

DepthInv ==
  /\ Running = {} => modal = <<>> /\ ui = Idle
  /\ Len(modal) <= MaxDepth
  /\ Waits \/ ui.at \in {"toggle", "repair"} => Room

LEMMA DepthStep ==
  ASSUME DepthInv, InstanceInv, LookInv, ShownInv, [Next]_vars
  PROVE  DepthInv'
<1>0. /\ Len(modal) \in Nat /\ MaxDepth \in Nat \ {0}
      /\ modal # <<>> => Inner \in Seq(Layers) /\ Len(Inner) = Len(modal) - 1
      /\ \A x : Len(Append(modal, x)) = Len(modal) + 1
      /\ \A x : modal # <<>> => Len(Append(Inner, x)) = Len(modal)
      /\ proc \in [Instances -> {"off", "failed"} \cup Starting \cup Active]
  <2>1. modal \in Seq(Layers)
    BY DEF ShownInv
  <2>2. ASSUME modal # <<>>
        PROVE  /\ Inner \in Seq(Layers) /\ Len(Inner) = Len(modal) - 1
               /\ \A x : Len(Append(Inner, x)) = Len(modal)
    <3>1. Inner \in Seq(Layers)
      BY <2>1, <2>2, LayersKept
    <3>2. Len(modal) \in Nat /\ Len(modal) >= 1
      BY <2>1, <2>2
    <3>3. Len(Inner) = Len(modal) - 1
      <4> DEFINE n == Len(modal) - 1
      <4>1. n \in Nat /\ Inner = SubSeq(modal, 1, n)
        BY <3>2 DEF Inner
      <4>2. \A i \in 1..n : modal[i] \in Layers
        BY <2>1, <3>2
      <4> HIDE DEF n
      <4>3. Len(SubSeq(modal, 1, n)) = IF 1 <= n THEN n - 1 + 1 ELSE 0
        BY <4>1, <4>2, SubSeqProperties
      <4>4. (IF 1 <= n THEN n - 1 + 1 ELSE 0) = n
        BY <4>1
      <4>5. Len(Inner) = n
        BY <4>1, <4>3, <4>4, Zenon
      <4> QED BY <4>5 DEF n
    <3>4. \A x : Len(Append(Inner, x)) = Len(Inner) + 1
      BY <3>1
    <3> QED BY <3>1, <3>2, <3>3, <3>4
  <2> QED BY <2>1, <2>2 DEF InstanceInv
<1>1. Idle \notin Looks /\ Idle.at \notin {"toggle", "repair"}
  BY DEF Idle, Looks
<1>2. CASE NoScreen
  <2>1. modal' = <<>> /\ ui' = Idle /\ Len(<<>>) = 0
    BY <1>2 DEF NoScreen
  <2> QED BY <1>0, <1>1, <2>1 DEF DepthInv, Waits
<1>3. ASSUME UNCHANGED <<modal, ui>>, Running' = {} => Running = {}
      PROVE  DepthInv'
  BY <1>3 DEF DepthInv, Waits, Room
<1>4. ASSUME Running' # {}, Len(modal') <= MaxDepth, ui' = Idle
      PROVE  DepthInv'
  BY <1>1, <1>4 DEF DepthInv, Waits
<1>5. ASSUME UNCHANGED <<modal, ui, proc>>
      PROVE  DepthInv'
  BY <1>3, <1>5 DEF Running
<1>6. CASE HookToolsNext /\ UNCHANGED trayVars
  BY <1>5, <1>6 DEF trayVars, screen
<1>7. ASSUME NEW p \in Instances, Acknowledge(p) \/ Kill(p) \/ CloseMutex(p)
      PROVE  DepthInv'
  <2>1. ProcessEnds(p)
    BY <1>7 DEF Acknowledge, Kill, CloseMutex
  <2>2. CASE proc[p] \in Active \cup {"failed"}
    BY <1>2, <2>1, <2>2 DEF ProcessEnds
  <2>3. CASE proc[p] \notin Active \cup {"failed"}
    <3>1. UNCHANGED <<modal, ui>> /\ proc' = [proc EXCEPT ![p] = "off"]
      BY <2>1, <2>3 DEF ProcessEnds, screen
    <3>2. Running \subseteq Running'
      BY <1>0, <2>3, <3>1 DEF Running, Active
    <3> QED BY <1>3, <3>1, <3>2
  <2> QED BY <2>2, <2>3
<1>8. ASSUME NEW p \in Instances,
             Launch(p) \/ Leave(p) \/ EnsureDefaultStartupEnabled(p) \/ DefaultTried(p)
               \/ StartHost(p) \/ StartFails(p) \/ Shutdown(p)
      PROVE  DepthInv'
  <2>1. UNCHANGED <<modal, ui>>
    BY <1>8 DEF Launch, Leave, EnsureDefaultStartupEnabled, DefaultTried, StartHost,
       StartFails, Shutdown, screen
  <2>2. proc[p] # "running" /\ \E to : proc' = [proc EXCEPT ![p] = to]
    BY <1>8 DEF Launch, Leave, EnsureDefaultStartupEnabled, DefaultTried, StartHost,
       StartFails, Shutdown, Step
  <2>3. Running \subseteq Running'
    BY <1>0, <2>2 DEF Running
  <2> QED BY <1>3, <2>1, <2>3
<1>9. ASSUME NEW p \in Instances, AddTrayIcon(p)
      PROVE  DepthInv'
  <2>1. proc[p] = "windows" /\ proc' = [proc EXCEPT ![p] = "running"]
    BY <1>9 DEF AddTrayIcon, Step
  <2>2. Running = {}
    BY <1>0, <2>1 DEF InstanceInv, Alive, Active, Running
  <2>3. modal = <<>> /\ ui = Idle /\ Running' # {} /\ Len(<<>>) = 0
    BY <1>0, <2>1, <2>2 DEF DepthInv, Running
  <2>4. CASE UNCHANGED screen
    BY <1>0, <1>4, <2>3, <2>4 DEF screen
  <2>5. CASE ShowPairing(<<>>) /\ UNCHANGED <<ui, diag>>
    <3>1. modal' = modal \/ modal' = Append(modal, Box)
      BY <2>3, <2>5 DEF ShowPairing
    <3>2. Len(modal) = 0
      BY <2>3
    <3>3. Len(Append(modal, Box)) = 1
      <4>1. modal \in Seq(Layers)
        BY DEF ShownInv
      <4> QED BY <3>2, <4>1
    <3>4. Len(modal') <= MaxDepth
      <4>1. CASE modal' = modal
        BY <3>2, <4>1
      <4>2. CASE modal' = Append(modal, Box)
        BY <3>3, <4>2
      <4> QED BY <3>1, <4>1, <4>2
    <3> QED BY <1>4, <2>3, <2>5, <3>4
  <2>6. CASE ShowDiagnostics /\ UNCHANGED modal
    <3>1. CASE UNCHANGED ui
      BY <1>0, <1>4, <2>3, <2>6, <3>1
    <3>2. CASE Look("diagnostics")
      <4>1. ui'.at = "online" /\ ui'.for = "diagnostics"
        BY <3>2 DEF Look
      <4> QED BY <2>3, <2>6, <4>1 DEF DepthInv, Waits
    <3> QED BY <2>6, <3>1, <3>2 DEF ShowDiagnostics
  <2> QED BY <1>9, <2>4, <2>5, <2>6 DEF AddTrayIcon
<1>10. CASE SettingStep \/ DiagnosticsTimer \/ ClickRefresh \/ CloseDiagnostics \/ WorkerPublishes
              \/ WorkerEnds \/ PhoneMoves \/ \E h \in Handles : ClosePairing(h)
  BY <1>5, <1>10 DEF SettingStep, SetRunValue, MarkStartupPreferenceConfigured, SettingFails,
     DiagnosticsTimer, ClickRefresh, CloseDiagnostics, WorkerPublishes, WorkerEnds, PhoneMoves,
     ClosePairing, screen, Process
<1>11. CASE ActiveConnections \/ PhonePaired \/ LookAtFreshness
  <2>1. /\ ui \in Looks /\ ui'.for = ui.for /\ UNCHANGED <<modal, proc>>
        /\ ui'.at \notin {"toggle", "repair"}
    BY <1>11 DEF ActiveConnections, PhonePaired, LookAtFreshness, LookInv, Looks, Works, Process
  <2>2. Running' # {}
    BY <1>1, <2>1 DEF DepthInv, Running
  <2> QED BY <2>1, <2>2 DEF DepthInv, Waits, Room
<1>12. CASE LookAtConfirmation
  <2>1. ui \in Looks /\ ui' = Idle /\ UNCHANGED proc
    BY <1>12 DEF LookAtConfirmation, LookInv, Works, Process
  <2>2. Running' # {}
    BY <1>1, <2>1 DEF DepthInv, Running
  <2>3. UNCHANGED modal \/ (Waits /\ \E x : modal' = Append(modal, x))
    BY <1>12, <2>1 DEF LookAtConfirmation, Waits
  <2>4. Len(modal') <= MaxDepth
    BY <1>0, <2>3 DEF DepthInv, Room
  <2> QED BY <1>4, <2>1, <2>2, <2>4
<1>13. CASE StartupSet \/ HookRepaired
  <2>1. ui.at \in {"toggle", "repair"} /\ ui' = Idle /\ UNCHANGED proc
    BY <1>13 DEF StartupSet, HookRepaired, Process
  <2>2. Running' # {}
    BY <1>1, <2>1 DEF DepthInv, Running
  <2>3. modal' = modal \/ modal' = Append(modal, Box)
    BY <1>13 DEF StartupSet, HookRepaired
  <2>4. Len(modal') <= MaxDepth
    BY <1>0, <2>1, <2>3 DEF DepthInv, Room
  <2> QED BY <1>4, <2>1, <2>2, <2>4
<1>14. CASE OpenMenu
  <2>1. Running' # {} /\ UNCHANGED modal /\ Room /\ ui'.at = "online"
    BY <1>14 DEF OpenMenu, Pump, Running, Process, Room, Look
  <2> QED BY <1>0, <2>1 DEF DepthInv, Room
<1>15. CASE PaintDiagnostics
  <2>1. Running' # {} /\ UNCHANGED modal /\ ui'.at = "online" /\ ui'.for = "diagnostics"
    BY <1>15 DEF PaintDiagnostics, Pump, Running, Process, Look
  <2> QED BY <2>1 DEF DepthInv, Waits
<1>16. ASSUME Pump, UNCHANGED <<proc, ui>>, Len(modal') <= MaxDepth
       PROVE  DepthInv'
  BY <1>4, <1>16 DEF Pump, Running
<1>17. CASE Dismiss \/ ChooseRevoke \/ Revoke \/ ChooseRefreshStatus
  <2>1. Pump /\ modal # <<>> /\ UNCHANGED <<proc, ui>>
    BY <1>17 DEF Dismiss, ChooseRevoke, Revoke, ChooseRefreshStatus, Choose, InMenu, Process
  <2>2. modal' = Inner \/ \E x : modal' = Append(Inner, x)
    BY <1>17 DEF Dismiss, ChooseRevoke, Revoke, ChooseRefreshStatus
  <2>3. Len(modal') <= MaxDepth
    BY <1>0, <2>1, <2>2 DEF DepthInv
  <2> QED BY <1>16, <2>1, <2>3
<1>18. CASE ChoosePair
  <2>1. Pump /\ modal # <<>> /\ UNCHANGED <<proc, ui>>
    BY <1>18 DEF ChoosePair, Choose, InMenu, Process
  <2>2. modal' = Inner \/ modal' = Append(Inner, Box)
    BY <1>18 DEF ChoosePair, ShowPairing
  <2>3. Len(modal') <= MaxDepth
    BY <1>0, <2>1, <2>2 DEF DepthInv
  <2> QED BY <1>16, <2>1, <2>3
<1>19. CASE ChooseStartup \/ ChooseRepairHook \/ ChooseDiagnostics
  <2>1. Pump /\ modal # <<>> /\ UNCHANGED proc /\ modal' = Inner
    BY <1>19 DEF ChooseStartup, ChooseRepairHook, ChooseDiagnostics, Choose, InMenu, Process
  <2>2. Running' # {}
    BY <2>1 DEF Pump, Running
  <2>3. Len(modal') < MaxDepth
    BY <1>0, <2>1 DEF DepthInv
  <2> QED BY <1>0, <2>1, <2>2, <2>3 DEF DepthInv, Room
<1>20. CASE ChooseExit
  BY <1>2, <1>20 DEF ChooseExit
<1>21. CASE UNCHANGED vars
  BY <1>5, <1>21 DEF vars, trayVars, screen
<1> QED BY <1>6, <1>7, <1>8, <1>9, <1>10, <1>11, <1>12, <1>13, <1>14, <1>15, <1>17, <1>18,
           <1>19, <1>20, <1>21 DEF Next, TrayNext, InstanceStep, LookStep, MenuStep

TypeInv ==
  /\ FileInv /\ QueuedInv /\ CallTypeOK /\ CountInv /\ InstanceInv
  /\ RegistryType /\ ChoiceInv /\ PictureInv /\ WindowsType /\ DepthInv
  /\ qrData = qrs

LEMMA TypeInit == Init => TypeInv
<1> SUFFICES ASSUME Init PROVE TypeInv
  OBVIOUS
<1>1. FileInv /\ QueuedInv /\ CallTypeOK /\ PictureInv
  BY FileInit, QueuedInit, PictureInit
<1>2. CountInv
  BY DEF Init, HookToolsInit, CountInv
<1>3. InstanceInv
  BY DEF Init, InstanceInv, Alive, Active
<1>4. RegistryType /\ ChoiceInv
  <2>1. runKey = FALSE /\ configured = FALSE /\ wish = "unknown" /\ setting = Idle
    BY DEF Init
  <2>2. runKey \in BOOLEAN /\ configured \in BOOLEAN
    BY <2>1, Truths, Zenon
  <2> QED BY <2>1, <2>2 DEF RegistryType, SettingType, ChoiceInv, ChoiceHolds, Idle
<1>5. WindowsType
  <2>1. diag.open = FALSE /\ diag.dirty = FALSE /\ offer = [id |-> 0, open |-> FALSE]
    BY DEF Init, NoDiag
  <2>2. diag.open \in BOOLEAN /\ diag.dirty \in BOOLEAN
    BY <2>1, Truths, Zenon
  <2>3. offer \in Offers
    BY <2>1, OfferFields
  <2>4. DOMAIN qrs = {}
    BY DEF Init
  <2> QED BY <2>2, <2>3, <2>4 DEF Init, WindowsType
<1>6. DepthInv
  <2>1. modal = <<>> /\ ui = Idle /\ Len(<<>>) = 0
    BY DEF Init
  <2>2. MaxDepth \in Nat
    OBVIOUS
  <2> QED BY <2>1, <2>2 DEF DepthInv, Waits, Idle, Looks
<1>7. qrData = qrs
  BY DEF Init
<1> QED BY <1>1, <1>2, <1>3, <1>4, <1>5, <1>6, <1>7 DEF TypeInv

LEMMA TypeStep == TypeInv /\ [Next]_vars => TypeInv'
<1> SUFFICES ASSUME TypeInv, [Next]_vars PROVE TypeInv'
  OBVIOUS
<1>1. FileInv' /\ QueuedInv' /\ CallTypeOK' /\ CountInv' /\ InstanceInv'
  BY FileStep, QueuedStep, CountStep, InstanceStepInv DEF TypeInv
<1>2. RegistryType' /\ ChoiceInv'
  BY RegistryStep, ChoiceStep DEF TypeInv, RegistryType
<1>3. PictureInv' /\ WindowsType' /\ DepthInv' /\ qrData' = qrs'
  BY PictureStep, WindowsStep, DepthStep, QrStep DEF TypeInv, PictureInv
<1> QED BY <1>1, <1>2, <1>3 DEF TypeInv

LEMMA TypeEnough == TypeInv => TypeOK
<1> SUFFICES ASSUME TypeInv PROVE TypeOK
  OBVIOUS
<1>1. \/ hooksFile \in {Missing, Blank, Torn}
      \/ hooksFile.at \in {"config", "unparsable"} /\ hooksFile.others \subseteq Others
  BY DEF TypeInv, FileInv, FileTypeOK, ConfigSet
<1>2. \A e \in Editors : edit[e].at \in {"idle", "read", "open", "write"}
  BY DEF TypeInv, FileInv, FileTypeOK
<1>3. HookToolsTypeOK
  <2>1. owed \subseteq Others
    BY DEF TypeInv, FileInv, FileTypeOK
  <2>2. disturbed \in BOOLEAN
    BY DEF TypeInv, FileInv, FileTypeOK
  <2>3. spooled \subseteq Calls
    BY DEF TypeInv, CallTypeOK
  <2>4. call \in [Calls -> {"none", "open invoked", "write invoked", "enqueue",
                            "open accepted", "write accepted", "done", "failed"}]
    BY DEF TypeInv, CallTypeOK
  <2>5. ops \in 0..MaxOps
    BY DEF TypeInv, CountInv
  <2>6. status \in {Missing, Blank, Torn} \cup Records
    BY DEF TypeInv, CountInv
  <2> QED BY <1>1, <1>2, <2>1, <2>2, <2>3, <2>4, <2>5, <2>6 DEF Records, HookToolsTypeOK
<1>4. setting = Idle \/ setting.at \in {"run", "mark", "told"}
  BY DEF TypeInv, RegistryType, SettingType, Idle
<1>5. \A i \in 1..Len(modal) : modal[i].at \in {"menu", "revoke?", "box"}
  <2> SUFFICES ASSUME NEW i \in 1..Len(modal) PROVE modal[i].at \in {"menu", "revoke?", "box"}
    OBVIOUS
  <2>1. modal[i] \in Layers
    BY DEF TypeInv, PictureInv, ShownInv
  <2> QED BY <2>1 DEF Layers
<1>6. ui.at \in {"idle", "online", "paired", "fresh", "confirming", "toggle", "repair"}
  BY DEF TypeInv, PictureInv, LookInv, Looks, Works
<1>7. confirming = (worker # "idle")
  <2>1. confirming \in BOOLEAN /\ (confirming <=> worker # "idle")
    BY DEF TypeInv, PictureInv, ResultsInv, WindowsType
  <2> QED BY <2>1, Zenon
<1>8. fresh \in Nat /\ finished \in 0..fresh /\ phone \in [paired : BOOLEAN, online : BOOLEAN]
  BY DEF TypeInv, PictureInv, ResultsInv, Phones
<1>9. offer.id \in Nat /\ offer.open \in BOOLEAN
  BY DEF TypeInv, WindowsType, Offers
<1>10. /\ proc \in [Instances -> {"off", "failed"} \cup Starting \cup Active]
       /\ mutex \subseteq Instances
  BY DEF TypeInv, InstanceInv
<1>11. /\ runKey \in BOOLEAN /\ configured \in BOOLEAN
       /\ wish \in {"unknown", "yes", "no"} /\ Len(modal) <= MaxDepth
  BY DEF TypeInv, RegistryType, DepthInv
<1>12. /\ port \in Instances \cup {Nobody} /\ diag.open \in BOOLEAN /\ diag.dirty \in BOOLEAN
       /\ DOMAIN qrs \subseteq Handles /\ DOMAIN qrData \subseteq Handles
       /\ worker \in {"idle", "collect", "end"}
  BY DEF TypeInv, WindowsType
<1> QED BY <1>3, <1>4, <1>5, <1>6, <1>7, <1>8, <1>9, <1>10, <1>11, <1>12 DEF TypeOK

(* In a well typed state, always, a window shows its own code and no       *)
(* outdated result of a confirmation that is over: no nesting of menus and *)
(* boxes, failed start, exit or kill breaks it.                            *)
THEOREM WindowsTellTheTruthHolds == Spec => []WindowsTellTheTruth
<1>1. TypeInv => WindowsTellTheTruth
  BY TypeEnough, PicturesCurrent DEF TypeInv, QrCodesMatchWindows, WindowsTellTheTruth
<1> QED BY TypeInit, TypeStep, <1>1, PTL DEF Spec
=============================================================================
