------------------------------- MODULE TrayApp -------------------------------
(***************************************************************************)
(* The tray program as Windows runs it (windows-native/src/bin/            *)
(* codex_quota_windows.rs): its start behind the single instance mutex,    *)
(* the choice to start with Windows and the registry that keeps it, the    *)
(* menu, dialogs and windows of the user interface thread, the upstream    *)
(* confirmation the user can ask for, and the shutdown. The hook tools run *)
(* beside it (HookTools); "install/repair" edits hooks.json from the       *)
(* interface thread.                                                       *)
(*                                                                         *)
(* The interface thread does one thing at a time, but a menu and a message *)
(* box each pump messages: the icon, the windows and the timer stay alive  *)
(* under them, so modal loops nest. The host, the confirmation and the     *)
(* phone change what the thread shows while it reads it.                   *)
(*                                                                         *)
(* The pairing offers, the quota and the freshness are Pairing's and       *)
(* QuotaFreshness's subjects: here an offer is a number and a freshness    *)
(* the number of results published.                                        *)
(***************************************************************************)
EXTENDS HookTools, Sequences

CONSTANTS
  Instances,   \* processes of the tray program, named by the lowest free number
  Handles,     \* window handles Windows gives to pairing windows
  MaxDepth     \* bound on the nesting of modal loops

ASSUME TrayAssumption ==
  /\ IsFiniteSet(Instances) /\ IsFiniteSet(Handles)
  /\ Instances \subseteq Nat \ {0} /\ Handles \subseteq Nat \ {0}
  /\ MaxDepth \in Nat \ {0}

Nobody == 0
Ui     == 0          \* the interface thread, as the one that sets a preference

VARIABLES
  proc,        \* where each instance is
  mutex,       \* the instances holding a handle of the mutex
  port,        \* the instance listening on HOST_PORT, or Nobody
  runKey,      \* the Run value exists: Windows starts the program
  configured,  \* StartupPreferenceConfigured exists
  setting,     \* the set_startup_enabled in progress
  modal,       \* the menus and message boxes open, innermost last
  ui,          \* what the interface thread does between two messages
  diag,        \* the diagnostics window
  qrs,         \* the pairing windows: handle |-> the offer its QR code shows
  qrData,      \* PAIRING_WINDOWS
  phone,       \* the phone: paired, online
  offer,       \* the number of the last offer, and whether it is open
  confirming,  \* upstream_confirmation_in_progress
  worker,      \* the confirmation task
  fresh,       \* results published in quota_state
  wish,        \* history: the last choice about the start the user saw made
  finished     \* history: the result the last confirmation that ended left

registry == <<runKey, configured, setting, wish>>
screen   == <<modal, ui, diag, qrs, qrData>>
service  == <<phone, offer, confirming, worker, fresh, finished>>
trayVars == <<proc, mutex, port, registry, screen, service>>
vars     == <<trayVars, hookVars>>

NoDiag   == [open |-> FALSE, dirty |-> FALSE, pic |-> Idle]
Active   == {"preference", "setting", "host", "windows", "running", "closing", "closed"}
Starting == {"opened", "second", "preference", "setting", "host", "windows"}
Running  == {p \in Instances : proc[p] = "running"}

TypeOK ==
  /\ HookToolsTypeOK
  /\ proc \in [Instances -> {"off", "failed"} \cup Starting \cup Active]
  /\ mutex \subseteq Instances /\ port \in Instances \cup {Nobody}
  /\ runKey \in BOOLEAN /\ configured \in BOOLEAN
  /\ setting = Idle \/ setting.at \in {"run", "mark", "told"}
  /\ Len(modal) <= MaxDepth
  /\ \A i \in 1..Len(modal) : modal[i].at \in {"menu", "revoke?", "box"}
  /\ ui.at \in {"idle", "online", "paired", "fresh", "confirming", "toggle", "repair"}
  /\ diag.open \in BOOLEAN /\ diag.dirty \in BOOLEAN
  /\ DOMAIN qrs \subseteq Handles /\ DOMAIN qrData \subseteq Handles
  /\ phone \in [paired : BOOLEAN, online : BOOLEAN]
  /\ offer.id \in Nat /\ offer.open \in BOOLEAN
  /\ confirming = (worker # "idle") /\ worker \in {"idle", "collect", "end"}
  /\ fresh \in Nat /\ finished \in 0..fresh
  /\ wish \in {"unknown", "yes", "no"}

(* Nothing runs; the user may have made a choice about the start before.   *)
Init ==
  /\ HookToolsInit
  /\ proc = [p \in Instances |-> "off"] /\ mutex = {} /\ port = Nobody
  /\ runKey = FALSE /\ configured = FALSE /\ setting = Idle /\ wish = "unknown"
  /\ modal = <<>> /\ ui = Idle /\ diag = NoDiag /\ qrs = <<>> /\ qrData = <<>>
  /\ phone = [paired |-> FALSE, online |-> FALSE]
  /\ offer = [id |-> 0, open |-> FALSE]
  /\ confirming = FALSE /\ worker = "idle" /\ fresh = 0 /\ finished = 0

Apart == UNCHANGED hookVars
ByUser == Operation /\ UNCHANGED <<fileVars, callVars>>

Step(p, from, to) == proc[p] = from /\ proc' = [proc EXCEPT ![p] = to]

-----------------------------------------------------------------------------
(* What the interface thread does on a command and at its start alike.     *)

Box == [at |-> "box"]

(* Reading what the menu or the diagnostics show takes four locks or loads *)
(* one after another.                                                      *)
Look(for) ==
  ui' = [at |-> "online", for |-> for,
         pic |-> [online |-> FALSE, paired |-> FALSE, fresh |-> 0,
                  confirming |-> FALSE, since |-> finished]]

(* show_diagnostics_window: the window there is comes to the front, or one *)
(* is created and drawn.                                                   *)
ShowDiagnostics ==
  IF diag.open THEN UNCHANGED <<diag, ui>>
               ELSE diag' = [NoDiag EXCEPT !.open = TRUE] /\ Look("diagnostics")

NewOffer == offer' = [id |-> offer.id + 1, open |-> TRUE]

With(windows, h, id) == [w \in DOMAIN windows \cup {h} |-> IF w = h THEN id ELSE windows[w]]

(* pairing_presentation and show_pairing_window: an offer is begun, the    *)
(* window created, its QR code kept, and only then is it shown. With no    *)
(* address to pair at, or no window for the offer that was begun, a        *)
(* message box says so.                                                    *)
ShowPairing(below) ==
  \/ /\ NewOffer
     /\ \E h \in Handles \ DOMAIN qrs :
          /\ qrs' = With(qrs, h, offer.id + 1)
          /\ qrData' = With(qrData, h, offer.id + 1)
     /\ modal' = below
  \/ /\ NewOffer \/ UNCHANGED offer
     /\ modal' = Append(below, Box)
     /\ UNCHANGED <<qrs, qrData>>

-----------------------------------------------------------------------------
(* Starting.                                                               *)

(* CreateMutexW opens the mutex if another instance has it.                *)
Launch(p) ==
  /\ ByUser /\ \A q \in Instances : proc[q] = "off" => p <= q
  /\ Step(p, "off", IF mutex = {} THEN "preference" ELSE "second")
  /\ mutex' = mutex \cup {p}
  /\ UNCHANGED <<port, registry, screen, service>>

(* The second instance closes its handle and ends without a word.          *)
Leave(p) ==
  /\ Step(p, "second", "off")
  /\ mutex' = mutex \ {p}
  /\ UNCHANGED <<port, registry, screen, service>> /\ Apart

(* set_startup_enabled, up to its first registry write.                    *)
BeginSetting(by, want) ==
  /\ setting' = [at |-> "run", by |-> by, want |-> want]
  /\ wish' = IF by = Ui THEN "unknown" ELSE wish
  /\ UNCHANGED <<runKey, configured>>

EnsureDefaultStartupEnabled(p) ==
  /\ proc[p] = "preference"
  /\ IF configured
       THEN /\ proc' = [proc EXCEPT ![p] = "host"]
            /\ UNCHANGED registry
       ELSE /\ proc' = [proc EXCEPT ![p] = "setting"]
            /\ BeginSetting(p, TRUE)
  /\ UNCHANGED <<mutex, port, screen, service>> /\ Apart

(* The Run value is set or deleted; deleting a missing one is as good.     *)
SetRunValue ==
  /\ setting.at = "run"
  /\ runKey' = setting.want
  /\ setting' = [setting EXCEPT !.at = "mark"]
  /\ UNCHANGED <<configured, wish, proc, mutex, port, screen, service>> /\ Apart

(* Mutant: only switching the start on is recorded as a choice.            *)
MarkOnlyWhenOn ==
  /\ setting.at = "mark"
  /\ configured' = (configured \/ setting.want)
  /\ wish' = IF setting.by = Ui THEN IF setting.want THEN "yes" ELSE "no" ELSE wish
  /\ setting' = [at |-> "told", by |-> setting.by, ok |-> TRUE]
  /\ UNCHANGED <<runKey, proc, mutex, port, screen, service>> /\ Apart

MarkStartupPreferenceConfigured ==
  /\ setting.at = "mark"
  /\ configured' = TRUE
  /\ wish' = IF setting.by = Ui THEN IF setting.want THEN "yes" ELSE "no" ELSE wish
  /\ setting' = [at |-> "told", by |-> setting.by, ok |-> TRUE]
  /\ UNCHANGED <<runKey, proc, mutex, port, screen, service>> /\ Apart

SettingFails ==
  /\ setting.at \in {"run", "mark"}
  /\ setting' = [at |-> "told", by |-> setting.by, ok |-> FALSE]
  /\ UNCHANGED <<runKey, configured, wish, proc, mutex, port, screen, service>> /\ Apart

(* A start goes on whether or not the default could be set.                *)
DefaultTried(p) ==
  /\ setting.at = "told" /\ setting.by = p
  /\ Step(p, "setting", "host")
  /\ setting' = Idle
  /\ UNCHANGED <<runKey, configured, wish, mutex, port, screen, service>> /\ Apart

(* WindowsHost::start: the port is bound, the host serves.                 *)
StartHost(p) ==
  /\ port = Nobody
  /\ Step(p, "host", "windows")
  /\ port' = p
  /\ UNCHANGED <<mutex, registry, screen, service>> /\ Apart

(* Anything that run() gives up on: no data directory, no runtime, a port  *)
(* in use, credentials that do not load, no window class, no tray icon.    *)
(* The message box is up, the mutex held, and the host, if it was started, *)
(* serves on.                                                              *)
StartFails(p) ==
  /\ proc[p] \in {"host", "windows"}
  /\ proc' = [proc EXCEPT ![p] = "failed"]
  /\ UNCHANGED <<mutex, port, registry, screen, service>> /\ Apart

(* The icon is up; --show-onboarding and --show-diagnostics open a window. *)
AddTrayIcon(p) ==
  /\ Step(p, "windows", "running")
  /\ \/ UNCHANGED <<screen, offer>> /\ Apart
     \/ ByUser /\ ShowPairing(<<>>) /\ UNCHANGED <<ui, diag>>
     \/ ByUser /\ ShowDiagnostics /\ UNCHANGED <<modal, qrs, qrData, offer>>
  /\ UNCHANGED <<mutex, port, registry, phone, confirming, worker, fresh, finished>>

-----------------------------------------------------------------------------
(* Ending.                                                                 *)

NoScreen ==
  /\ modal' = <<>> /\ ui' = Idle /\ diag' = NoDiag /\ qrs' = <<>> /\ qrData' = <<>>

(* What a process leaves: the registry and the files.                      *)
ProcessEnds(p) ==
  /\ proc' = [proc EXCEPT ![p] = "off"]
  /\ mutex' = mutex \ {p}
  /\ port' = IF port = p THEN Nobody ELSE port
  /\ IF proc[p] \in Active \cup {"failed"}
       THEN /\ NoScreen
            /\ setting' = Idle
            /\ phone' = [phone EXCEPT !.online = FALSE]
            /\ offer' = [offer EXCEPT !.open = FALSE]
            /\ confirming' = FALSE /\ worker' = "idle"
            /\ fresh' = fresh /\ finished' = fresh
       ELSE UNCHANGED <<screen, setting, service>>
  /\ UNCHANGED <<runKey, configured, wish>>

(* The message box of a failed start is answered.                          *)
Acknowledge(p) == proc[p] = "failed" /\ ProcessEnds(p) /\ Apart

(* Mutant: the mutex is given up before the host is stopped.               *)
ShutdownFreesFirst(p) ==
  /\ Step(p, "closing", "closed")
  /\ mutex' = mutex \ {p}
  /\ UNCHANGED <<port, registry, screen, service>> /\ Apart

(* Mutant: the shutdown waits for the confirmation the user asked for.     *)
ShutdownAwaitsWorker(p) ==
  /\ Step(p, "closing", "closed") /\ worker = "idle"
  /\ port' = Nobody
  /\ UNCHANGED <<mutex, registry, screen, service>> /\ Apart

(* AppController::shutdown: the monitor is stopped, then the host.         *)
Shutdown(p) ==
  /\ Step(p, "closing", "closed")
  /\ port' = Nobody
  /\ phone' = [phone EXCEPT !.online = FALSE]
  /\ offer' = [offer EXCEPT !.open = FALSE]
  /\ UNCHANGED <<mutex, registry, screen, confirming, worker, fresh, finished>> /\ Apart

(* CloseHandle and the end of main.                                        *)
CloseMutex(p) == proc[p] = "closed" /\ ProcessEnds(p) /\ Apart

(* The session ends, or the installer's taskkill.                          *)
Kill(p) ==
  /\ Operation /\ proc[p] # "off"
  /\ ProcessEnds(p)
  /\ IF proc[p] = "running" /\ edit[Tray] # Idle
       THEN EditorDone(Tray) /\ disturbed' = (disturbed \/ edit[Tray].at = "write")
       ELSE UNCHANGED <<edit, disturbed>>
  /\ UNCHANGED <<hooksFile, owed, callVars>>

-----------------------------------------------------------------------------
(* The interface thread.                                                   *)

Process == <<proc, mutex, port>>
Pump == Running # {} /\ ui = Idle
Top  == modal[Len(modal)]
InMenu == modal # <<>> /\ Top.at = "menu"
Inner  == SubSeq(modal, 1, Len(modal) - 1)

(* A right click or a double click on the icon, no menu being up.          *)
OpenMenu ==
  /\ ByUser /\ Pump
  /\ ~ InMenu /\ Len(modal) < MaxDepth
  /\ Look("menu")
  /\ UNCHANGED <<Process, registry, modal, diag, qrs, qrData, service>>

ActiveConnections ==
  /\ ui.at = "online"
  /\ ui' = [ui EXCEPT !.at = "paired", !.pic.online = phone.online]
  /\ UNCHANGED <<Process, registry, modal, diag, qrs, qrData, service>> /\ Apart

PhonePaired ==
  /\ ui.at = "paired"
  /\ ui' = [ui EXCEPT !.at = "fresh", !.pic.paired = phone.paired]
  /\ UNCHANGED <<Process, registry, modal, diag, qrs, qrData, service>> /\ Apart

LookAtFreshness ==
  /\ ui.at = "fresh"
  /\ ui' = [ui EXCEPT !.at = "confirming", !.pic.fresh = fresh]
  /\ UNCHANGED <<Process, registry, modal, diag, qrs, qrData, service>> /\ Apart

LookAtConfirmation ==
  /\ ui.at = "confirming"
  /\ LET pic == [ui.pic EXCEPT !.confirming = confirming] IN
       IF ui.for = "menu"
         THEN modal' = Append(modal, [at |-> "menu", pic |-> pic]) /\ UNCHANGED diag
         ELSE diag' = [open |-> TRUE, dirty |-> diag.dirty, pic |-> pic] /\ UNCHANGED modal
  /\ ui' = Idle
  /\ UNCHANGED <<Process, registry, qrs, qrData, service>> /\ Apart

(* The command the menu returned, or none; the menu is gone before.        *)
Choose == Pump /\ InMenu

Dismiss ==
  /\ Pump /\ modal # <<>>
  /\ modal' = Inner
  /\ UNCHANGED <<Process, registry, ui, diag, qrs, qrData, service>> /\ Apart

ChoosePair ==
  /\ Choose
  /\ ShowPairing(Inner)
  /\ UNCHANGED <<Process, registry, ui, diag, phone, confirming, worker, fresh, finished>>
  /\ Apart

ChooseRevoke ==
  /\ Choose
  /\ modal' = Append(Inner, [at |-> "revoke?"])
  /\ UNCHANGED <<Process, registry, ui, diag, qrs, qrData, service>> /\ Apart

(* revoke_phone, once the user said yes.                                   *)
Revoke ==
  /\ Pump /\ modal # <<>> /\ Top.at = "revoke?"
  /\ \/ phone' = [phone EXCEPT !.paired = FALSE] /\ modal' = Inner
     \/ UNCHANGED phone /\ modal' = Append(Inner, Box)
  /\ UNCHANGED <<Process, registry, ui, diag, qrs, qrData, offer, confirming, worker,
                 fresh, finished>> /\ Apart

ChooseStartup ==
  /\ Choose
  /\ BeginSetting(Ui, ~ runKey)
  /\ modal' = Inner /\ ui' = [at |-> "toggle"]
  /\ UNCHANGED <<Process, diag, qrs, qrData, service>> /\ Apart

StartupSet ==
  /\ ui.at = "toggle" /\ setting.at = "told"
  /\ modal' = IF setting.ok THEN modal ELSE Append(modal, Box)
  /\ setting' = Idle /\ ui' = Idle
  /\ UNCHANGED <<Process, runKey, configured, wish, diag, qrs, qrData, service>> /\ Apart

ChooseRepairHook ==
  /\ Choose /\ BeginEdit(Tray, "install") /\ UNCHANGED ops
  /\ modal' = Inner /\ ui' = [at |-> "repair"]
  /\ UNCHANGED <<Process, registry, diag, qrs, qrData, service>>

(* Either way a message box tells how it went.                             *)
HookRepaired ==
  /\ ui.at = "repair" /\ edit[Tray] = Idle
  /\ modal' = Append(modal, Box) /\ ui' = Idle
  /\ UNCHANGED <<Process, registry, diag, qrs, qrData, service>> /\ Apart

(* confirm_upstream_now: one confirmation at a time.                       *)
ConfirmUpstreamNow ==
  /\ confirming' = TRUE
  /\ worker' = IF confirming THEN worker ELSE "collect"
  /\ UNCHANGED <<phone, offer, fresh, finished>>

(* The item is greyed out if the menu says a confirmation is running.      *)
ChooseRefreshStatus ==
  /\ Choose /\ ~ Top.pic.confirming
  /\ ConfirmUpstreamNow
  /\ modal' = Inner
  /\ UNCHANGED <<Process, registry, ui, diag, qrs, qrData>> /\ Apart

ChooseDiagnostics ==
  /\ Choose
  /\ modal' = Inner
  /\ ShowDiagnostics
  /\ UNCHANGED <<Process, registry, qrs, qrData, service>> /\ Apart

(* DestroyWindow, WM_DESTROY, PostQuitMessage: every modal loop unwinds    *)
(* and no window is served any more.                                       *)
ChooseExit ==
  /\ Choose
  /\ proc' = [p \in Instances |-> IF p \in Running THEN "closing" ELSE proc[p]]
  /\ NoScreen
  /\ UNCHANGED <<mutex, port, registry, service>> /\ Apart

-----------------------------------------------------------------------------
(* The windows.                                                            *)

ClickRefresh ==
  /\ ByUser /\ Pump /\ diag.open
  /\ ConfirmUpstreamNow
  /\ diag' = [diag EXCEPT !.dirty = TRUE]
  /\ UNCHANGED <<Process, registry, modal, ui, qrs, qrData>>

(* Mutant: the timer redraws the window during a confirmation only.        *)
TimerWhileConfirming ==
  /\ Pump /\ diag.open /\ confirming
  /\ diag' = [diag EXCEPT !.dirty = TRUE]
  /\ UNCHANGED <<Process, registry, modal, ui, qrs, qrData, service>> /\ Apart

(* WM_TIMER: the window is invalidated.                                    *)
DiagnosticsTimer ==
  /\ Pump /\ diag.open
  /\ diag' = [diag EXCEPT !.dirty = TRUE]
  /\ UNCHANGED <<Process, registry, modal, ui, qrs, qrData, service>> /\ Apart

(* WM_PAINT: BeginPaint validates the window.                              *)
PaintDiagnostics ==
  /\ Pump /\ diag.open /\ diag.dirty
  /\ diag' = [diag EXCEPT !.dirty = FALSE]
  /\ Look("diagnostics")
  /\ UNCHANGED <<Process, registry, modal, qrs, qrData, service>> /\ Apart

CloseDiagnostics ==
  /\ Pump /\ diag.open
  /\ diag' = NoDiag
  /\ UNCHANGED <<Process, registry, modal, ui, qrs, qrData, service>> /\ Apart

(* Mutant: the QR code of a closed window stays in the map.                *)
ClosePairingKeeps(h) ==
  /\ Pump /\ h \in DOMAIN qrs
  /\ qrs' = [w \in DOMAIN qrs \ {h} |-> qrs[w]]
  /\ UNCHANGED <<Process, registry, modal, ui, diag, qrData, service>> /\ Apart

(* WM_CLOSE, then WM_DESTROY takes the QR code out of the map.             *)
ClosePairing(h) ==
  /\ Pump /\ h \in DOMAIN qrs
  /\ qrs' = [w \in DOMAIN qrs \ {h} |-> qrs[w]]
  /\ qrData' = [w \in DOMAIN qrData \ {h} |-> qrData[w]]
  /\ UNCHANGED <<Process, registry, modal, ui, diag, service>> /\ Apart

-----------------------------------------------------------------------------
(* The other threads of the process, and the phone.                        *)

(* Mutant: the confirmation is over before its result is published.        *)
WorkerEndsFirst ==
  /\ \/ /\ worker = "collect" /\ confirming
        /\ confirming' = FALSE /\ finished' = fresh + 1
        /\ UNCHANGED <<worker, fresh>>
     \/ /\ worker = "collect" /\ ~ confirming
        /\ fresh' = fresh + 1 /\ worker' = "idle"
        /\ UNCHANGED <<confirming, finished>>
  /\ UNCHANGED <<Process, registry, screen, phone, offer>> /\ Apart

(* The confirmation publishes what it learnt, if there was a collector,    *)
(* and only then says it is over.                                          *)
WorkerPublishes ==
  /\ worker = "collect"
  /\ worker' = "end"
  /\ fresh' \in {fresh, fresh + 1}
  /\ UNCHANGED <<Process, registry, screen, phone, offer, confirming, finished>> /\ Apart

WorkerEnds ==
  /\ worker = "end"
  /\ worker' = "idle" /\ confirming' = FALSE /\ finished' = fresh
  /\ UNCHANGED <<Process, registry, screen, phone, offer, fresh>> /\ Apart

(* A phone pairs with the open offer it scanned, connects or goes away.    *)
PhoneMoves ==
  /\ ByUser /\ port # Nobody
  /\ \/ /\ offer.open
        /\ phone' = [phone EXCEPT !.paired = TRUE]
        /\ offer' = [offer EXCEPT !.open = FALSE]
     \/ /\ phone.online \/ phone.paired
        /\ phone' = [phone EXCEPT !.online = ~ phone.online]
        /\ UNCHANGED offer
  /\ UNCHANGED <<Process, registry, screen, confirming, worker, fresh, finished>>

-----------------------------------------------------------------------------
InstanceStep(p) ==
  \/ Leave(p) \/ EnsureDefaultStartupEnabled(p) \/ DefaultTried(p) \/ StartHost(p)
  \/ StartFails(p) \/ AddTrayIcon(p) \/ Shutdown(p) \/ CloseMutex(p)

SettingStep == SetRunValue \/ MarkStartupPreferenceConfigured \/ SettingFails

LookStep == ActiveConnections \/ PhonePaired \/ LookAtFreshness \/ LookAtConfirmation

MenuStep ==
  \/ Dismiss \/ ChoosePair \/ ChooseRevoke \/ Revoke
  \/ ChooseStartup \/ ChooseRepairHook \/ ChooseRefreshStatus \/ ChooseDiagnostics
  \/ ChooseExit

TrayNext ==
  \/ \E p \in Instances : Launch(p) \/ Kill(p) \/ Acknowledge(p) \/ InstanceStep(p)
  \/ SettingStep \/ LookStep \/ StartupSet \/ HookRepaired
  \/ OpenMenu \/ MenuStep
  \/ ClickRefresh \/ DiagnosticsTimer \/ PaintDiagnostics \/ CloseDiagnostics
  \/ \E h \in Handles : ClosePairing(h)
  \/ WorkerPublishes \/ WorkerEnds
  \/ PhoneMoves

Next ==
  \/ TrayNext
  \/ HookToolsNext /\ UNCHANGED trayVars

Spec == Init /\ [][Next]_vars

(* The program's own steps are taken; what users, phones, ChatGPT and      *)
(* other products do may never happen.                                     *)
Fairness ==
  /\ \A p \in Instances : WF_vars(InstanceStep(p))
  /\ WF_vars(SettingStep) /\ WF_vars(LookStep)
  /\ WF_vars(StartupSet) /\ WF_vars(HookRepaired)
  /\ WF_vars(DiagnosticsTimer /\ ~ diag.dirty) /\ WF_vars(PaintDiagnostics)
  /\ WF_vars(EditorStep(Tray) /\ UNCHANGED trayVars)

FairSpec == Spec /\ Fairness

-----------------------------------------------------------------------------
(* At most one instance is past the mutex at any time, from its first look *)
(* at the registry to the last thing its shutdown does, so that the port,  *)
(* the credentials and the quota files have one writer                     *)
(* (docs/architecture.md:68: a single instance).                           *)
OneInstance ==
  \A p, q \in Instances :
    p # q => ~ (proc[p] \in Active /\ proc[q] \in Active)

(* Once the user was not told of an error, the choice to start with        *)
(* Windows or not holds through every later start, crash and failed start  *)
(* (CONTEXT.md:219: the user's current choice is kept), until it is        *)
(* changed again.                                                          *)
ChoiceHolds ==
  /\ wish = "yes" => runKey
  /\ wish = "no" => ~ runKey

(* A menu or a diagnostics window that does not say a confirmation is      *)
(* running shows a result at least as new as the last confirmation that    *)
(* was over when it began to look.                                         *)
IdleShowsLatest ==
  LET Current(pic) == pic.confirming \/ pic.fresh >= pic.since IN
  /\ diag.pic # Idle => Current(diag.pic)
  /\ \A i \in 1..Len(modal) : modal[i].at = "menu" => Current(modal[i].pic)

(* The map of QR codes has exactly those of the windows on the screen,     *)
(* each under its own window, however handles are reused.                  *)
QrCodesMatchWindows == qrData = qrs

(* Whatever happens under nested menus and boxes, a window shows its own   *)
(* code and no outdated result of a confirmation that is over (in states   *)
(* that are well typed).                                                   *)
WindowsTellTheTruth == TypeOK /\ IdleShowsLatest /\ QrCodesMatchWindows

TransitionsEnd ==
  \A p \in Instances :
    proc[p] \in Starting \cup {"closing", "closed"} ~> proc[p] \in {"off", "running", "failed"}

DiagnosticsCatchUp ==
  []<>(diag.open => /\ diag.pic # Idle
                    /\ diag.pic.fresh = fresh
                    /\ diag.pic.paired = phone.paired
                    /\ diag.pic.confirming = confirming)

(* A start, a setting of the start and a shutdown come to an end, and the  *)
(* diagnostics window, while it is open, again and again shows what is     *)
(* true, under menus and message boxes too.                                *)
TrayComesToRest == TransitionsEnd /\ DiagnosticsCatchUp
=============================================================================
