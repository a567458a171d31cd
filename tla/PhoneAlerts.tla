----------------------------- MODULE PhoneAlerts -----------------------------
(***************************************************************************)
(* What the phone rings for: the task alerts                               *)
(* (notifications/TaskAlertCoordinator.kt) and the quota notes of the Band *)
(* 8 compatibility mode (notifications/Band8QuotaNotifications.kt), fed by *)
(* the repository's UI state (RuntimeStateRepository.kt) and wired in      *)
(* CodexQuotaApplication.kt.                                               *)
(*                                                                         *)
(* A task snapshot is ingested on the socket's thread under the            *)
(* coordinator's lock: one step. A quota note takes several: the collector *)
(* coroutine takes the latest UI state (a StateFlow skips the ones it is   *)
(* too slow for), decides under the lock and notifies outside it, while    *)
(* the main thread does the same after a change of the settings.           *)
(*                                                                         *)
(* Frames arrive in order here; which ones the session accepts, and when   *)
(* the repository refuses their tasks, is PhoneSync's subject. Time is in units of which MaxAge make the 60 s     *)
(* after which a confirmed quota counts as cached.                         *)
(***************************************************************************)
EXTENDS Integers, FiniteSets

CONSTANTS
  Convs,       \* conversations of the host
  Windows,     \* the quota windows: five-hour and weekly
  Payloads,    \* quotas the host sends: [usage, windows]
  Thresholds,  \* Band8QuotaAutoPolicy.thresholds
  Settings,    \* the notification settings the user tries
  None,        \* no quota, no signal, no note
  MaxAge,      \* CURRENT_QUOTA_MAX_AGE_MS
  MaxTime,     \* bound on the clock
  MaxEvents    \* bound on what befalls the phone: new tasks and quotas, acts of
               \* the user, broken connections and killed processes

(* What a quota window can be, and what a note can say.                    *)
WindowValues == {None} \cup UNION {{p.windows[w] : w \in Windows} : p \in Payloads}
WindowQuotas == [Windows -> WindowValues]
Notes        == [of : WindowQuotas, by : {"user", "coordinator"}]

ASSUME AlertsAssumption ==
  /\ MaxAge \in Nat /\ MaxTime \in Nat /\ MaxEvents \in Nat
  /\ Thresholds \subseteq 0..100
  /\ \A value \in WindowValues : value # None => value.percent \in Int
  /\ None \notin Notes

Rules == INSTANCE HostMessages WITH Absent <- "absent", Odd <- "odd"

VARIABLES
  now,        \* the phone's clock
  board,      \* the host's tasks, and whether they are in its snapshots
  link,       \* "down", "first" until the first snapshot of a connection, "up"
  quota,      \* RuntimeStateRepository.quotaSnapshot
  ui,         \* the value of its StateFlow
  emitted,    \* ... which the collector has not taken yet
  settings,   \* the settings, saved and in force
  foreground, \* the app is on the screen
  permitted,  \* notifications are allowed
  previousStates, \* of TaskAlertCoordinator
  previousSignal, \* of Band8QuotaAlertCoordinator
  collector, main, \* the two threads that publish quota notes
  note,       \* the last quota note published
  events,     \* how much befell the phone
  rings,      \* history: alerts of each task's present state
  silenced,   \* history: tasks whose present state was seen and not alerted
  troubled    \* history: the threads overlapped, or a note was not allowed

tasks  == <<board, previousStates, rings, silenced>>
notes  == <<previousSignal, collector, main, note, troubled>>
feed   == <<link, quota, ui, emitted>>
device == <<settings, foreground, permitted>>
vars   == <<now, tasks, notes, feed, device, events>>

TaskStates == {"Running", "NeedsAuthorization", "WaitingForReview"}
Attention  == TaskStates \ {"Running"}
Idle       == [at |-> "idle"]

Event == events < MaxEvents /\ events' = events + 1

-----------------------------------------------------------------------------
(* What the repository shows of a quota. A quota confirmed now is          *)
(* "Current" and has the time of its confirmation.                         *)

Fresh(q, t) == t - q.success <= MaxAge

SyncState(q, online, t) ==
  CASE ~online                          -> "Offline"
    [] online /\ q = None               -> "Cached"
    [] online /\ q # None ->
         CASE q.usage = "Current"     -> IF Fresh(q, t) THEN "Synced" ELSE "Cached"
           [] q.usage = "Cached"      -> "Cached"
           [] q.usage = "Unavailable" -> "AwaitingConfirmation"

(* weeklyQuota and fiveHourQuota: a window that was reset in the meantime  *)
(* is not shown.                                                           *)
WindowQuota(q, w, t) ==
  IF q # None /\ q.windows[w] # None /\ q.windows[w].resets > t
    THEN q.windows[w] ELSE None

View(q, online, t) ==
  [sync |-> SyncState(q, online, t), windows |-> [w \in Windows |-> WindowQuota(q, w, t)]]

(* publish, whose equal value a StateFlow does not emit; data that was     *)
(* received makes the value differ by its time.                            *)
Publish(q, lk, t, received) ==
  /\ ui' = View(q, lk # "down", t)
  /\ emitted' = (emitted \/ received \/ ui' # ui)

-----------------------------------------------------------------------------
(* Band8QuotaSignal and Band8QuotaAutoPolicy.                              *)

Signal(v) ==
  IF v.sync = "Synced" /\ \E w \in Windows : v.windows[w] # None THEN v.windows ELSE None

ResetCycleChanged(p, c) == p # None /\ c # None /\ p.resets # c.resets
BecameAvailable(p, c)   == p = None /\ c # None

(* Mutant: a quota that falls onto the threshold has not crossed it.       *)
CrossedStrictly(p, c) ==
  /\ p # None /\ c # None
  /\ \E t \in Thresholds : p.percent > t /\ c.percent < t

CrossedThreshold(p, c) ==
  /\ p # None /\ c # None
  /\ \E t \in Thresholds : p.percent > t /\ c.percent <= t

ShouldNotify(previous, current) ==
  \/ previous = None
  \/ \E w \in Windows :
       \/ ResetCycleChanged(previous[w], current[w])
       \/ BecameAvailable(previous[w], current[w])
       \/ CrossedThreshold(previous[w], current[w])

-----------------------------------------------------------------------------
EmptyView == View(None, FALSE, 0)

Init ==
  /\ now = 0
  /\ board = [c \in Convs |-> [state |-> "none", shown |-> FALSE]]
  /\ link = "down" /\ quota = None /\ ui = EmptyView /\ emitted = TRUE
  /\ settings \in Settings /\ foreground = FALSE /\ permitted = TRUE
  /\ previousStates = [c \in Convs |-> "none"]
  /\ previousSignal = None /\ collector = Idle /\ main = Idle /\ note = None
  /\ events = 0
  /\ rings = [c \in Convs |-> 0] /\ silenced = {} /\ troubled = FALSE

(* Time passes, and the watchdog re-assesses the state within 5 s.         *)
Tick ==
  /\ now < MaxTime
  /\ now' = now + 1
  /\ Publish(quota, link, now', FALSE)
  /\ UNCHANGED <<tasks, notes, link, quota, device, events>>

-----------------------------------------------------------------------------
(* The host: a task comes into a state, which is a new reason to alert; it *)
(* leaves the snapshots, or comes back, as other tasks come and go.        *)

TaskChanges(c, s) ==
  /\ board[c].state # s
  /\ Event
  /\ board' = [board EXCEPT ![c] = [state |-> s, shown |-> TRUE]]
  /\ rings' = [rings EXCEPT ![c] = 0] /\ silenced' = silenced \ {c}
  /\ UNCHANGED <<now, previousStates, notes, feed, device>>

TaskIsTrimmed(c) ==
  /\ board[c].state = "WaitingForReview"
  /\ Event
  /\ board' = [board EXCEPT ![c].shown = ~@]
  /\ UNCHANGED <<now, previousStates, rings, silenced, notes, feed, device>>

-----------------------------------------------------------------------------
(* The stream.                                                             *)

(* acceptHello.                                                            *)
Connect ==
  /\ link = "down"
  /\ link' = "first"
  /\ Publish(quota, link', now, FALSE)
  /\ UNCHANGED <<now, tasks, notes, quota, device, events>>

Disconnect ==
  /\ link # "down"
  /\ Event
  /\ link' = "down"
  /\ Publish(quota, link', now, FALSE)
  /\ UNCHANGED <<now, tasks, notes, quota, device>>

Listed == {c \in Convs : board[c].shown}
Moved  == {c \in Listed : previousStates[c] # board[c].state}

Context(c, focused) ==
  [focused |-> focused, foreground |-> foreground,
   reconnect |-> link = "first" /\ previousStates[c] = "none"]

Alerts(c, focused) ==
  LET d == Rules!PhonePlan(settings, board[c].state, Context(c, focused))
  IN d.phone \/ d.band \/ d.band8

Rung(focused) == {c \in Moved : Alerts(c, focused)}

Remember(focused) ==
  /\ rings' = [c \in Convs |-> IF c \in Rung(focused) THEN rings[c] + 1 ELSE rings[c]]
  /\ silenced' = silenced \cup (Moved \ Rung(focused))

(* Mutant: only the tasks of the snapshot are remembered.                  *)
IngestTasksForgets(focused) ==
  /\ previousStates' = [c \in Convs |-> IF c \in Listed THEN board[c].state ELSE "none"]
  /\ Remember(focused)

(* Mutant: a task that was not alerted is not remembered.                  *)
IngestTasksWhenAlerted(focused) ==
  /\ previousStates' = [c \in Convs |-> IF c \in Rung(focused) THEN board[c].state
                                        ELSE previousStates[c]]
  /\ Remember(focused)

(* TaskAlertCoordinator.ingest.                                            *)
IngestTasks(focused) ==
  /\ previousStates' = [c \in Convs |-> IF c \in Listed THEN board[c].state
                                        ELSE previousStates[c]]
  /\ Remember(focused)

(* The repository refuses the tasks of a snapshot older than its own: the  *)
(* coordinator is not called.                                              *)
IgnoreTasks == UNCHANGED <<previousStates, rings, silenced>>

(* Upstream's cycles only move on.                                         *)
Follows(p) ==
  quota # None =>
    \A w \in Windows :
      quota.windows[w] # None /\ p.windows[w] # None =>
        quota.windows[w].resets <= p.windows[w].resets

ReceiveSnapshot(focused, q) ==
  /\ link # "down"
  /\ link' = "up"
  /\ quota' = q
  /\ Publish(q, link', now, TRUE)
  /\ IngestTasks(focused) \/ IgnoreTasks
  /\ UNCHANGED <<now, board, notes, device>>

(* A frame with a quota that was confirmed now, or could not be.           *)
NewSnapshot(focused, p) ==
  /\ Follows(p)
  /\ Event
  /\ ReceiveSnapshot(focused, [usage |-> p.usage, windows |-> p.windows, success |-> now])

(* A frame for the sake of its tasks, with the quota as it was.            *)
SameSnapshot(focused) ==
  /\ quota # None
  /\ ReceiveSnapshot(focused, quota)
  /\ UNCHANGED events

-----------------------------------------------------------------------------
(* The threads that publish quota notes.                                   *)

InFlight(thread) == thread.at \in {"decide", "notify"}

(* collect: the latest value, if it was not taken before.                  *)
Collect ==
  /\ collector = Idle /\ emitted
  /\ emitted' = FALSE
  /\ collector' = [at |-> "decide", view |-> ui]
  /\ troubled' = (troubled \/ InFlight(main))
  /\ UNCHANGED <<now, tasks, previousSignal, main, note, link, quota, ui, device, events>>

After(thread) ==
  IF settings.band8 /\ ShouldNotify(previousSignal, Signal(thread.view))
    THEN [at |-> "notify", view |-> thread.view, by |-> "coordinator"] ELSE Idle

(* Band8QuotaAlertCoordinator.ingest, under its lock.                      *)
Decide(thread) ==
  /\ thread.at = "decide"
  /\ previousSignal' = IF Signal(thread.view) = None THEN previousSignal
                       ELSE Signal(thread.view)

Decided(thread) == IF Signal(thread.view) = None THEN Idle ELSE After(thread)

CollectorDecides ==
  /\ Decide(collector)
  /\ collector' = Decided(collector)
  /\ UNCHANGED <<now, tasks, main, note, troubled, feed, device, events>>

MainDecides ==
  /\ Decide(main)
  /\ main' = Decided(main)
  /\ UNCHANGED <<now, tasks, collector, note, troubled, feed, device, events>>

(* Band8QuotaNotificationDispatcher.notify: the new note replaces the old. *)
Dispatch(thread) ==
  /\ thread.at = "notify"
  /\ IF permitted
       THEN /\ note' = [of |-> thread.view.windows, by |-> thread.by]
            /\ UNCHANGED troubled
       ELSE /\ troubled' = TRUE
            /\ UNCHANGED note

CollectorDispatches ==
  /\ Dispatch(collector)
  /\ collector' = Idle
  /\ UNCHANGED <<now, tasks, previousSignal, main, feed, device, events>>

MainDispatches ==
  /\ Dispatch(main)
  /\ main' = Idle
  /\ UNCHANGED <<now, tasks, previousSignal, collector, feed, device, events>>

-----------------------------------------------------------------------------
(* The user.                                                               *)

(* Mutant: the mode is switched on with the signal of the last time.       *)
UpdateSettingsKeeps(s) ==
  /\ main = Idle /\ s # settings
  /\ Event
  /\ settings' = s
  /\ main' = [at |-> "read"]
  /\ UNCHANGED <<now, tasks, previousSignal, collector, note, troubled, feed, foreground,
                 permitted>>

(* updateNotificationSettings: saved, given to both coordinators (which    *)
(* share nothing, so it is one step) and then ...                          *)
UpdateSettings(s) ==
  /\ main = Idle /\ s # settings
  /\ Event
  /\ settings' = s
  /\ previousSignal' = IF s.band8 /\ ~settings.band8 THEN None ELSE previousSignal
  /\ main' = [at |-> "read"]
  /\ UNCHANGED <<now, tasks, collector, note, troubled, feed, foreground, permitted>>

(* ... the UI state is read, and ingested when the lock is free.           *)
ReadState ==
  /\ main.at = "read"
  /\ main' = [at |-> "decide", view |-> ui]
  /\ troubled' = (troubled \/ InFlight(collector))
  /\ UNCHANGED <<now, tasks, previousSignal, collector, note, feed, device, events>>

(* pushQuotaToBand8 notifies of whatever there is.                         *)
PushQuota ==
  /\ main = Idle
  /\ Event
  /\ main' = [at |-> "notify", view |-> ui, by |-> "user"]
  /\ troubled' = (troubled \/ InFlight(collector))
  /\ UNCHANGED <<now, tasks, previousSignal, collector, note, feed, device>>

(* onStart and onStop.                                                     *)
SetForeground ==
  /\ main = Idle
  /\ Event
  /\ foreground' = ~foreground
  /\ UNCHANGED <<now, tasks, notes, feed, settings, permitted>>

(* In the system's settings, where notifications are forbidden or allowed. *)
SetPermission ==
  /\ Event
  /\ permitted' = ~permitted
  /\ UNCHANGED <<now, tasks, notes, feed, settings, foreground>>

(* The process is killed and started again: notes and settings are kept.   *)
Restart ==
  /\ Event
  /\ link' = "down" /\ quota' = None /\ ui' = EmptyView /\ emitted' = TRUE
  /\ foreground' = FALSE
  /\ previousStates' = [c \in Convs |-> "none"]
  /\ previousSignal' = None /\ collector' = Idle /\ main' = Idle
  /\ rings' = [c \in Convs |-> 0] /\ silenced' = {} /\ troubled' = FALSE
  /\ UNCHANGED <<now, board, settings, permitted, note>>

-----------------------------------------------------------------------------
Host == \E c \in Convs : TaskIsTrimmed(c) \/ \E s \in TaskStates : TaskChanges(c, s)

Stream ==
  \/ Connect \/ Disconnect
  \/ \E focused \in BOOLEAN :
       SameSnapshot(focused) \/ \E p \in Payloads : NewSnapshot(focused, p)

Collecting == Collect \/ CollectorDecides \/ CollectorDispatches
Handling   == ReadState \/ MainDecides \/ MainDispatches

User ==
  \/ \E s \in Settings : UpdateSettings(s)
  \/ PushQuota \/ SetForeground \/ SetPermission

Next == Tick \/ Host \/ Stream \/ Collecting \/ Handling \/ User \/ Restart

Spec == Init /\ [][Next]_vars

(* The collector is resumed while there is a value it has not seen, and    *)
(* the main thread ends what it has begun.                                 *)
FairSpec == Spec /\ WF_vars(Collecting) /\ WF_vars(Handling)

-----------------------------------------------------------------------------
TypeOK ==
  /\ now \in 0..MaxTime
  /\ board \in [Convs -> [state : TaskStates \cup {"none"}, shown : BOOLEAN]]
  /\ previousStates \in [Convs -> TaskStates \cup {"none"}]
  /\ rings \in [Convs -> Nat] /\ silenced \subseteq Convs
  /\ link \in {"down", "first", "up"}
  /\ settings \in Settings

(* However connections break, snapshots repeat and tasks leave the board   *)
(* and come back: a task rings at most once for the state it is in.        *)
RingsOnce == \A c \in Convs : rings[c] <= 1

(* An alert that was suppressed (in the foreground, by the settings, on a  *)
(* reconnect) is not made up for later.                                    *)
SilencedStaysSilent == \A c \in silenced : rings[c] = 0

(* Each state of a task is worth one alert or none, decided when the phone *)
(* first sees it, for as long as the process lives.                        *)
OneDecisionPerState == TypeOK /\ RingsOnce /\ SilencedStaysSilent

(* The note tells of v what the mode is for: each quota that is there, its *)
(* cycle, and no threshold it has fallen to since.                         *)
Covers(windows, v) ==
  \A w \in Windows :
    v[w] # None =>
      /\ windows[w] # None /\ windows[w].resets = v[w].resets
      /\ \A t \in Thresholds : windows[w].percent > t => v[w].percent > t

Told == note # None /\ (note.by = "user" \/ Covers(note.of, ui.windows))

Wanted == settings.band8 /\ Signal(ui) # None

(* At rest, in spite of states the collector skipped, quotas that were     *)
(* away for a while and the mode being off: the last note covers the       *)
(* confirmed quota. The code takes no measures against the two threads     *)
(* overlapping, nor repeats a note that was not allowed (troubled).        *)
NoteIsCurrent ==
  collector = Idle /\ main = Idle /\ ~emitted /\ Wanted /\ ~troubled => Told

(* ... and a phone that shows a confirmed quota comes to that rest.        *)
NoteComes == Wanted ~> (Told \/ troubled \/ ~Wanted)
=============================================================================
