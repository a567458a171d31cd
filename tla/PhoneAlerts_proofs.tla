-------------------------- MODULE PhoneAlerts_proofs --------------------------
(***************************************************************************)
(* A task is decided about once for each state it comes into: the          *)
(* inductive invariant says where the decision is kept.  At rest the Band  *)
(* 8 note covers the confirmed quota: the invariant says, for every stage  *)
(* of the two threads, who is still to decide and who is still to tell.    *)
(***************************************************************************)
EXTENDS PhoneAlerts, TLAPS

(* A state that was decided about, alerted or not, is the one remembered.  *)
Undecided(c) == rings[c] = 0 /\ c \notin silenced
Remembered(c) ==
  /\ previousStates[c] = board[c].state
  /\ rings[c] <= 1
  /\ c \in silenced => rings[c] = 0

DecisionKept == \A c \in Convs : Undecided(c) \/ Remembered(c)

Inv == TypeOK /\ DecisionKept

LEMMA InitInv == Init => Inv
<1> SUFFICES ASSUME Init PROVE Inv
  OBVIOUS
<1>1. TypeOK
  BY AlertsAssumption DEF Init, TypeOK
<1>2. DecisionKept
  BY DEF Init, DecisionKept, Undecided
<1> QED BY <1>1, <1>2 DEF Inv

(* Everything but tasks and snapshots leaves the decisions alone.          *)
LEMMA TasksStay ==
  ASSUME Inv, UNCHANGED tasks, now' \in 0..MaxTime, link' \in {"down", "first", "up"},
         settings' \in Settings
  PROVE  Inv'
<1>1. TypeOK'
  BY DEF Inv, TypeOK, tasks
<1>2. DecisionKept'
  BY DEF Inv, DecisionKept, Undecided, Remembered, tasks
<1> QED BY <1>1, <1>2 DEF Inv

(* A task comes into a state, or is trimmed from the snapshots.            *)
LEMMA HostKeeps ==
  ASSUME Inv, NEW c \in Convs
  PROVE  /\ \A s \in TaskStates : TaskChanges(c, s) => Inv'
         /\ TaskIsTrimmed(c) => Inv'
<1>1. ASSUME NEW s \in TaskStates, TaskChanges(c, s)
      PROVE  Inv'
  <2>1. TypeOK'
    BY <1>1 DEF Inv, TypeOK, TaskChanges, feed, device
  <2>2. ASSUME NEW d \in Convs
        PROVE  (Undecided(d) \/ Remembered(d))'
    <3>1. CASE d = c
      BY <1>1, <3>1 DEF Inv, TypeOK, TaskChanges, Undecided
    <3>2. CASE d # c
      BY <1>1, <3>2 DEF Inv, TypeOK, DecisionKept, TaskChanges, Undecided, Remembered
    <3> QED BY <3>1, <3>2
  <2> QED BY <2>1, <2>2 DEF Inv, DecisionKept
<1>2. ASSUME TaskIsTrimmed(c)
      PROVE  Inv'
  <2>1. TypeOK'
    BY <1>2 DEF Inv, TypeOK, TaskIsTrimmed, feed, device
  <2>2. \A d \in Convs : board'[d].state = board[d].state
    BY <1>2 DEF Inv, TypeOK, TaskIsTrimmed
  <2>3. DecisionKept'
    BY <1>2, <2>2 DEF Inv, DecisionKept, TaskIsTrimmed, Undecided, Remembered
  <2> QED BY <2>1, <2>3 DEF Inv
<1> QED BY <1>1, <1>2

(* The coordinator decides about the tasks that moved, which were          *)
(* undecided.                                                              *)
LEMMA IngestKeeps ==
  ASSUME Inv, NEW focused, IngestTasks(focused), UNCHANGED <<board, now, settings>>,
         link' = "up"
  PROVE  Inv'
<1> DEFINE R == Rung(focused)
<1>1. R \subseteq Moved /\ Moved \subseteq Listed /\ Listed \subseteq Convs
  BY DEF Rung, Moved, Listed
<1>2. /\ previousStates' = [c \in Convs |-> IF c \in Listed THEN board[c].state
                                            ELSE previousStates[c]]
      /\ rings' = [c \in Convs |-> IF c \in R THEN rings[c] + 1 ELSE rings[c]]
      /\ silenced' = silenced \cup (Moved \ R)
      /\ board' = board /\ now' = now /\ settings' = settings /\ link' = "up"
  BY DEF IngestTasks, Remember
<1>3. \A c \in Moved : previousStates[c] # board[c].state
  BY DEF Moved
<1> HIDE DEF R
<1>4. TypeOK'
  BY <1>1, <1>2 DEF Inv, TypeOK
<1>5. ASSUME NEW c \in Convs
      PROVE  (Undecided(c) \/ Remembered(c))'
  <2>1. rings[c] \in Nat /\ (Undecided(c) \/ Remembered(c))
    BY DEF Inv, TypeOK, DecisionKept
  <2>2. CASE c \in Moved
    <3>1. Undecided(c)
      BY <1>3, <2>1, <2>2 DEF Remembered
    <3>2. previousStates'[c] = board'[c].state
      BY <1>1, <1>2, <2>2
    <3>3. CASE c \in R
      BY <1>2, <3>1, <3>2, <3>3 DEF Undecided, Remembered
    <3>4. CASE c \notin R
      BY <1>2, <3>1, <3>2, <3>4 DEF Undecided, Remembered
    <3> QED BY <3>3, <3>4
  <2>3. CASE c \notin Moved
    <3>1. rings'[c] = rings[c] /\ (c \in silenced' <=> c \in silenced)
      BY <1>1, <1>2, <2>3
    <3>2. previousStates[c] = board[c].state => previousStates'[c] = board'[c].state
      BY <1>2
    <3> QED BY <2>1, <3>1, <3>2 DEF Undecided, Remembered
  <2> QED BY <2>2, <2>3
<1> QED BY <1>4, <1>5 DEF Inv, DecisionKept

(* A snapshot is ingested by the coordinator, or its tasks are refused.    *)
LEMMA SnapshotKeeps ==
  ASSUME Inv, NEW focused, NEW q, ReceiveSnapshot(focused, q)
  PROVE  Inv'
<1>a. CASE IgnoreTasks
  BY <1>a, TasksStay, AlertsAssumption
  DEF IgnoreTasks, ReceiveSnapshot, tasks, device, Inv, TypeOK
<1>b. CASE IngestTasks(focused)
  BY <1>b, IngestKeeps DEF ReceiveSnapshot, device
<1> QED BY <1>a, <1>b DEF ReceiveSnapshot

LEMMA RestartKeeps == ASSUME Inv, Restart PROVE Inv'
<1>1. TypeOK'
  BY DEF Inv, TypeOK, Restart
<1>2. DecisionKept'
  BY DEF DecisionKept, Undecided, Restart
<1> QED BY <1>1, <1>2 DEF Inv

LEMMA NextInv == Inv /\ [Next]_vars => Inv'
<1> SUFFICES ASSUME Inv, [Next]_vars PROVE Inv'
  OBVIOUS
<1>1. now \in 0..MaxTime /\ link \in {"down", "first", "up"} /\ settings \in Settings
  BY DEF Inv, TypeOK
<1>2. CASE Tick
  BY <1>1, <1>2, AlertsAssumption, TasksStay DEF Tick, device
<1>3. CASE Host
  BY <1>3, HostKeeps DEF Host
<1>4. CASE Stream
  <2>1. CASE Connect
    BY <1>1, <2>1, TasksStay DEF Connect, device
  <2>2. CASE Disconnect
    BY <1>1, <2>2, TasksStay DEF Disconnect, device
  <2>3. ASSUME NEW focused \in BOOLEAN, SameSnapshot(focused)
        PROVE  Inv'
    BY <2>3, SnapshotKeeps DEF SameSnapshot
  <2>4. ASSUME NEW focused \in BOOLEAN, NEW p \in Payloads, NewSnapshot(focused, p)
        PROVE  Inv'
    BY <2>4, SnapshotKeeps DEF NewSnapshot
  <2> QED BY <1>4, <2>1, <2>2, <2>3, <2>4 DEF Stream
<1>5. CASE Collecting
  BY <1>1, <1>5, TasksStay
  DEF Collecting, Collect, CollectorDecides, CollectorDispatches, device, feed
<1>6. CASE Handling
  BY <1>1, <1>6, TasksStay
  DEF Handling, ReadState, MainDecides, MainDispatches, device, feed
<1>7. CASE User
  BY <1>1, <1>7, TasksStay
  DEF User, UpdateSettings, PushQuota, SetForeground, SetPermission, device, feed
<1>8. CASE Restart
  BY <1>8, RestartKeeps
<1>9. CASE UNCHANGED vars
  BY <1>1, <1>9, TasksStay DEF vars, device, feed
<1> QED BY <1>2, <1>3, <1>4, <1>5, <1>6, <1>7, <1>8, <1>9 DEF Next

LEMMA InvSuffices == Inv => OneDecisionPerState
  BY DEF Inv, TypeOK, DecisionKept, Undecided, Remembered, OneDecisionPerState, RingsOnce,
         SilencedStaysSilent

(* TaskAlertCoordinator alerts at most once for each state of each task,   *)
(* and never after it has passed one over, for any number of tasks,        *)
(* settings and quotas, over reconnects and absences from the board.       *)
THEOREM OneDecisionPerStateHolds == Spec => []OneDecisionPerState
<1>1. Inv => OneDecisionPerState
  BY InvSuffices
<1> QED BY <1>1, InitInv, NextInv, PTL DEF Spec

-----------------------------------------------------------------------------
(* The quota note.                                                         *)

NoteTypes ==
  /\ quota # None => \A w \in Windows : quota.windows[w] \in WindowValues
  /\ ui.windows \in WindowQuotas
  /\ previousSignal \in WindowQuotas \cup {None}
  /\ InFlight(collector) => collector.view.windows \in WindowQuotas
  /\ InFlight(main) => main.view.windows \in WindowQuotas
  /\ collector.at = "notify" => collector.by \in {"user", "coordinator"}
  /\ main.at = "notify" => main.by \in {"user", "coordinator"}
  /\ emitted \in BOOLEAN /\ troubled \in BOOLEAN

(* The note tells of a signal, or a thread is about to publish one that    *)
(* does.                                                                   *)
Tells(windows)  == note # None /\ (note.by = "user" \/ Covers(note.of, windows))
Telling(thread, windows) ==
  thread.at = "notify" /\ (thread.by = "user" \/ Covers(thread.view.windows, windows))

Alone == ~ (InFlight(collector) /\ InFlight(main))

(* A thread decides about the state of now, unless the collector is going  *)
(* to be given a newer one.                                                *)
ViewsAreNew ==
  /\ collector.at = "decide" => emitted \/ collector.view = ui
  /\ main.at = "decide" => emitted \/ main.view = ui

(* The state of now was decided about, or will be.                         *)
SignalSeen ==
  Signal(ui) # None =>
    \/ emitted
    \/ collector.at = "decide"
    \/ main.at \in {"read", "decide"}
    \/ previousSignal = Signal(ui)

(* What was decided about is told, or will be.                             *)
SignalTold ==
  settings.band8 =>
    \/ previousSignal = None
    \/ Tells(previousSignal)
    \/ Telling(collector, previousSignal)
    \/ Telling(main, previousSignal)

(* What a thread is about to publish is not outdated.                      *)
ThreadsTell ==
  /\ collector.at = "notify" =>
       previousSignal = None \/ Telling(collector, previousSignal)
  /\ main.at = "notify" =>
       previousSignal = None \/ Telling(main, previousSignal)

Kept == Alone /\ ViewsAreNew /\ SignalSeen /\ SignalTold /\ ThreadsTell

NoteInv == NoteTypes /\ (~ troubled => Kept)

LEMMA ViewType ==
  ASSUME NEW q, q # None => \A w \in Windows : q.windows[w] \in WindowValues,
         NEW online, NEW t
  PROVE  View(q, online, t).windows \in WindowQuotas
<1>1. None \in WindowValues
  BY DEF WindowValues
<1>2. \A w \in Windows : WindowQuota(q, w, t) \in WindowValues
  BY <1>1 DEF WindowQuota
<1>3. View(q, online, t).windows = [w \in Windows |-> WindowQuota(q, w, t)]
  BY DEF View
<1> QED BY <1>2, <1>3 DEF WindowQuotas

LEMMA NoteInit == Init => NoteInv
<1> SUFFICES ASSUME Init PROVE NoteInv
  OBVIOUS
<1>1. ui.windows \in WindowQuotas
  BY ViewType DEF Init, EmptyView
<1>2. emitted \in BOOLEAN /\ troubled \in BOOLEAN
  <2>1. emitted = TRUE /\ troubled = FALSE
    BY DEF Init
  <2> QED BY <2>1, Zenon
<1>3. /\ quota = None /\ previousSignal = None /\ collector.at = "idle" /\ main.at = "idle"
      /\ emitted
  BY DEF Init, Idle
<1>4. NoteTypes
  BY <1>1, <1>2, <1>3 DEF NoteTypes, InFlight
<1>5. Kept
  BY <1>3 DEF Kept, Alone, ViewsAreNew, SignalSeen, SignalTold, ThreadsTell, InFlight
<1> QED BY <1>4, <1>5 DEF NoteInv

(* A note that covers a signal covers the next one, if that is no reason   *)
(* for a note.                                                             *)
LEMMA CoversOn ==
  ASSUME NEW of, NEW old \in WindowQuotas, NEW new \in WindowQuotas,
         Covers(of, old), ~ ShouldNotify(old, new)
  PROVE  Covers(of, new)
<1> SUFFICES ASSUME NEW w \in Windows, new[w] # None
             PROVE  /\ of[w] # None /\ of[w].resets = new[w].resets
                    /\ \A t \in Thresholds : of[w].percent > t => new[w].percent > t
  BY DEF Covers
<1>1. old[w] # None /\ old[w].resets = new[w].resets
  BY DEF ShouldNotify, BecameAvailable, ResetCycleChanged
<1>2. /\ of[w] # None /\ of[w].resets = old[w].resets
      /\ \A t \in Thresholds : of[w].percent > t => old[w].percent > t
  BY <1>1 DEF Covers
<1>3. \A t \in Thresholds : ~ (old[w].percent > t /\ new[w].percent <= t)
  BY <1>1 DEF ShouldNotify, CrossedThreshold
<1>4. new[w].percent \in Int /\ \A t \in Thresholds : t \in Int
  <2>1. new[w] \in WindowValues
    BY DEF WindowQuotas
  <2> QED BY <2>1, AlertsAssumption
<1> QED BY <1>1, <1>2, <1>3, <1>4

LEMMA CoversSelf == ASSUME NEW s PROVE Covers(s, s)
  BY DEF Covers

(* The decision of either thread.                                          *)
LEMMA DecideKeeps ==
  ASSUME NEW thread, thread.view.windows \in WindowQuotas,
         previousSignal \in WindowQuotas \cup {None}, Decide(thread)
  PROVE  /\ previousSignal' \in WindowQuotas \cup {None}
         /\ Signal(thread.view) # None => previousSignal' = Signal(thread.view)
         /\ \/ Decided(thread) = Idle
            \/ Decided(thread) = [at |-> "notify", view |-> thread.view, by |-> "coordinator"]
         /\ settings.band8 /\ (previousSignal = None \/ Tells(previousSignal)) =>
              \/ previousSignal' = None
              \/ Tells(previousSignal')
              \/ Telling(Decided(thread), previousSignal')
<1> DEFINE s == Signal(thread.view)
<1>1. s = None \/ (s = thread.view.windows /\ s \in WindowQuotas)
  BY DEF Signal
<1>2. previousSignal' = IF s = None THEN previousSignal ELSE s
  BY DEF Decide
<1>3. Decided(thread) = IF s = None THEN Idle
                        ELSE IF settings.band8 /\ ShouldNotify(previousSignal, s)
                          THEN [at |-> "notify", view |-> thread.view, by |-> "coordinator"]
                          ELSE Idle
  BY DEF Decided, After
<1> HIDE DEF s
<1>4. ASSUME settings.band8, previousSignal = None \/ Tells(previousSignal)
      PROVE  \/ previousSignal' = None
             \/ Tells(previousSignal')
             \/ Telling(Decided(thread), previousSignal')
  <2>1. CASE s = None
    BY <1>2, <1>4, <2>1
  <2>2. CASE s # None /\ ShouldNotify(previousSignal, s)
    <3>1. Covers(thread.view.windows, previousSignal')
      BY <1>1, <1>2, <2>2, CoversSelf
    <3>2. Decided(thread) = [at |-> "notify", view |-> thread.view, by |-> "coordinator"]
      BY <1>3, <1>4, <2>2
    <3> QED BY <3>1, <3>2 DEF Telling
  <2>3. CASE s # None /\ ~ ShouldNotify(previousSignal, s)
    <3>1. previousSignal # None
      BY <2>3 DEF ShouldNotify
    <3>2. Tells(previousSignal) /\ previousSignal \in WindowQuotas /\ s \in WindowQuotas
      BY <1>1, <1>4, <2>3, <3>1
    <3>3. Tells(s)
      BY <2>3, <3>2, CoversOn DEF Tells
    <3> QED BY <1>2, <2>3, <3>3
  <2> QED BY <2>1, <2>2, <2>3
<1>5. previousSignal' \in WindowQuotas \cup {None}
  BY <1>1, <1>2
<1>6. s # None => previousSignal' = s
  BY <1>2
<1>7. \/ Decided(thread) = Idle
      \/ Decided(thread) = [at |-> "notify", view |-> thread.view, by |-> "coordinator"]
  BY <1>3
<1> QED BY <1>4, <1>5, <1>6, <1>7 DEF s

(* A new UI state is one for the collector to take.                        *)
LEMMA PublishKeeps ==
  ASSUME NoteInv, NEW received \in BOOLEAN, NEW lk, NEW t,
         Publish(quota', lk, t, received), UNCHANGED <<notes, settings>>,
         quota' # None => \A w \in Windows : quota'.windows[w] \in WindowValues
  PROVE  NoteInv'
<1>1. ui'.windows \in WindowQuotas
  BY ViewType DEF Publish
<1>2. emitted' = (emitted \/ received \/ ui' # ui)
  BY DEF Publish
<1>3. emitted' \in BOOLEAN /\ (emitted => emitted') /\ (ui' # ui => emitted')
  BY <1>2, Zenon
<1>4. NoteTypes'
  BY <1>1, <1>3 DEF NoteInv, NoteTypes, InFlight, notes
<1>5. ASSUME ~ troubled'
      PROVE  Kept'
  <2>1. Alone /\ ViewsAreNew /\ SignalSeen /\ SignalTold /\ ThreadsTell
    BY <1>5 DEF NoteInv, Kept, notes
  <2>2. Alone'
    BY <2>1 DEF Alone, InFlight, notes
  <2>3. ViewsAreNew'
    BY <1>3, <2>1 DEF ViewsAreNew, notes
  <2>4. SignalSeen'
    <3>1. CASE ui' = ui
      BY <1>3, <2>1, <3>1 DEF SignalSeen, Signal, notes
    <3>2. CASE ui' # ui
      BY <1>3, <3>2 DEF SignalSeen
    <3> QED BY <3>1, <3>2
  <2>5. SignalTold' /\ ThreadsTell'
    BY <2>1 DEF SignalTold, ThreadsTell, Tells, Telling, Covers, notes
  <2> QED BY <2>2, <2>3, <2>4, <2>5 DEF Kept
<1> QED BY <1>4, <1>5 DEF NoteInv

(* Tasks, the screen and the permission have no part in it.                *)
LEMMA NotesStay ==
  ASSUME NoteInv, UNCHANGED <<notes, quota, ui, emitted, settings>>
  PROVE  NoteInv'
<1>1. NoteTypes'
  BY DEF NoteInv, NoteTypes, InFlight, notes
<1>2. ASSUME ~ troubled'
      PROVE  Kept'
  BY <1>2 DEF NoteInv, Kept, Alone, InFlight, ViewsAreNew, SignalSeen, Signal, SignalTold,
     ThreadsTell, Tells, Telling, Covers, notes
<1> QED BY <1>1, <1>2 DEF NoteInv

(* A note that is allowed tells what its thread was about to tell.         *)
LEMMA DispatchTells ==
  ASSUME NEW thread, Dispatch(thread), thread.view.windows \in WindowQuotas,
         thread.by \in {"user", "coordinator"}, troubled \in BOOLEAN, UNCHANGED previousSignal
  PROVE  /\ troubled' \in BOOLEAN
         /\ ~ troubled' => ~ troubled
         /\ ~ troubled' /\ Telling(thread, previousSignal) => Tells(previousSignal)'
<1>1. CASE permitted
  <2>1. note' = [of |-> thread.view.windows, by |-> thread.by] /\ UNCHANGED troubled
    BY <1>1 DEF Dispatch
  <2>2. note' # None
    BY <2>1, AlertsAssumption DEF Notes
  <2>3. Telling(thread, previousSignal) => Tells(previousSignal)'
    BY <2>1, <2>2 DEF Telling, Tells, Covers
  <2> QED BY <2>1, <2>3
<1>2. CASE ~ permitted
  <2>1. troubled' = TRUE
    BY <1>2 DEF Dispatch
  <2>2. troubled' \in BOOLEAN /\ troubled'
    BY <2>1, Zenon
  <2> QED BY <2>2
<1> QED BY <1>1, <1>2

LEMMA CollectorKeeps ==
  ASSUME NoteInv, Collecting
  PROVE  NoteInv'
<1>0. NoteTypes
  BY DEF NoteInv
<1>1. CASE Collect
  <2>1. /\ collector = Idle /\ emitted' = FALSE /\ collector' = [at |-> "decide", view |-> ui]
        /\ troubled' = (troubled \/ InFlight(main))
        /\ UNCHANGED <<previousSignal, main, note, quota, ui, settings>>
    BY <1>1 DEF Collect, device
  <2>2. emitted' \in BOOLEAN /\ troubled' \in BOOLEAN
    BY <2>1, Zenon
  <2>3. ~ troubled' => ~ troubled /\ ~ InFlight(main)
    BY <2>1
  <2>4. NoteTypes'
    BY <1>0, <2>1, <2>2 DEF NoteTypes, InFlight
  <2>5. ASSUME ~ troubled'
        PROVE  Kept'
    <3>1. ~ InFlight(main) /\ SignalTold /\ collector.at = "idle"
      BY <2>1, <2>3, <2>5 DEF NoteInv, Kept, Idle
    <3>2. Alone' /\ ViewsAreNew' /\ SignalSeen' /\ ThreadsTell'
      BY <2>1, <3>1 DEF Alone, InFlight, ViewsAreNew, SignalSeen, ThreadsTell
    <3>3. SignalTold'
      BY <2>1, <3>1 DEF SignalTold, Tells, Telling, Covers
    <3> QED BY <3>2, <3>3 DEF Kept
  <2> QED BY <2>4, <2>5 DEF NoteInv
<1>2. CASE CollectorDecides
  <2>1. /\ Decide(collector) /\ collector.at = "decide" /\ collector' = Decided(collector)
        /\ UNCHANGED <<main, note, troubled, quota, ui, emitted, settings>>
    BY <1>2 DEF CollectorDecides, Decide, feed, device
  <2>2. collector.view.windows \in WindowQuotas /\ previousSignal \in WindowQuotas \cup {None}
    BY <1>0, <2>1 DEF NoteTypes, InFlight
  <2>3. /\ previousSignal' \in WindowQuotas \cup {None}
        /\ Signal(collector.view) # None => previousSignal' = Signal(collector.view)
        /\ \/ collector' = Idle
           \/ collector' = [at |-> "notify", view |-> collector.view, by |-> "coordinator"]
        /\ settings.band8 /\ (previousSignal = None \/ Tells(previousSignal)) =>
             \/ previousSignal' = None
             \/ Tells(previousSignal')
             \/ Telling(collector', previousSignal')
    BY <2>1, <2>2, DecideKeeps
  <2>4. NoteTypes'
    BY <1>0, <2>1, <2>2, <2>3 DEF NoteTypes, InFlight, Idle
  <2>5. ASSUME ~ troubled'
        PROVE  Kept'
    <3>1. Alone /\ ViewsAreNew /\ SignalSeen /\ SignalTold /\ ThreadsTell
      BY <2>1, <2>5 DEF NoteInv, Kept
    <3>2. main.at \notin {"decide", "notify"}
      BY <2>1, <3>1 DEF Alone, InFlight
    <3>3. Alone' /\ ViewsAreNew'
      BY <2>1, <2>3, <3>1, <3>2 DEF Alone, InFlight, ViewsAreNew, Idle
    <3>4. SignalSeen'
      <4>1. Signal(ui)' = Signal(ui)
        BY <2>1 DEF Signal
      <4>2. emitted \/ (Signal(ui) # None => previousSignal' = Signal(ui))
        BY <2>1, <2>3, <3>1 DEF ViewsAreNew
      <4> QED BY <2>1, <4>1, <4>2 DEF SignalSeen
    <3>5. settings.band8 => previousSignal = None \/ Tells(previousSignal)
      BY <2>1, <3>1, <3>2 DEF SignalTold, Telling
    <3>6. /\ Tells(previousSignal') => Tells(previousSignal)'
          /\ Telling(collector', previousSignal') => Telling(collector, previousSignal)'
      BY <2>1 DEF Tells, Telling, Covers
    <3>7. SignalTold'
      BY <2>1, <2>3, <3>5, <3>6 DEF SignalTold
    <3>8. ThreadsTell'
      <4>1. collector'.at = "notify" => Telling(collector', previousSignal')
        <5> SUFFICES ASSUME collector'.at = "notify" PROVE Telling(collector', previousSignal')
          OBVIOUS
        <5>1. /\ collector' = Decided(collector) /\ collector'.view = collector.view
              /\ collector' # Idle
          BY <2>1, <2>3 DEF Idle
        <5>2. previousSignal' = collector.view.windows
          BY <2>1, <5>1 DEF Decide, Decided, Signal
        <5> QED BY <5>1, <5>2, CoversSelf DEF Telling
      <4> QED BY <2>1, <3>2, <3>6, <4>1 DEF ThreadsTell
    <3> QED BY <3>3, <3>4, <3>7, <3>8 DEF Kept
  <2> QED BY <2>4, <2>5 DEF NoteInv
<1>3. CASE CollectorDispatches
  <2>1. /\ Dispatch(collector) /\ collector.at = "notify" /\ collector' = Idle
        /\ UNCHANGED <<previousSignal, main, quota, ui, emitted, settings>>
    BY <1>3 DEF CollectorDispatches, Dispatch, feed, device
  <2>2. /\ troubled' \in BOOLEAN
        /\ ~ troubled' => ~ troubled
        /\ ~ troubled' /\ Telling(collector, previousSignal) => Tells(previousSignal)'
    BY <1>0, <2>1, DispatchTells DEF NoteTypes, InFlight
  <2>3. NoteTypes'
    BY <1>0, <2>1, <2>2 DEF NoteTypes, InFlight, Idle
  <2>4. ASSUME ~ troubled'
        PROVE  Kept'
    <3>1. Alone /\ ViewsAreNew /\ SignalSeen /\ SignalTold /\ ThreadsTell
      BY <2>2, <2>4 DEF NoteInv, Kept
    <3>2. main.at \notin {"decide", "notify"}
      BY <2>1, <3>1 DEF Alone, InFlight
    <3>3. Alone' /\ ViewsAreNew' /\ ThreadsTell'
      BY <2>1, <3>1, <3>2 DEF Alone, InFlight, ViewsAreNew, ThreadsTell, Idle
    <3>4. SignalSeen'
      BY <2>1, <3>1 DEF SignalSeen, Signal
    <3>5. SignalTold'
      BY <2>1, <2>2, <2>4, <3>1 DEF SignalTold, ThreadsTell
    <3> QED BY <3>3, <3>4, <3>5 DEF Kept
  <2> QED BY <2>3, <2>4 DEF NoteInv
<1> QED BY <1>1, <1>2, <1>3 DEF Collecting

LEMMA MainKeeps ==
  ASSUME NoteInv, Handling
  PROVE  NoteInv'
<1>0. NoteTypes
  BY DEF NoteInv
<1>1. CASE ReadState
  <2>1. /\ main.at = "read" /\ main' = [at |-> "decide", view |-> ui]
        /\ troubled' = (troubled \/ InFlight(collector))
        /\ UNCHANGED <<previousSignal, collector, note, quota, ui, emitted, settings>>
    BY <1>1 DEF ReadState, feed, device
  <2>2. troubled' \in BOOLEAN
    BY <2>1, Zenon
  <2>3. ~ troubled' => ~ troubled /\ ~ InFlight(collector)
    BY <2>1
  <2>4. NoteTypes'
    BY <1>0, <2>1, <2>2 DEF NoteTypes, InFlight
  <2>5. ASSUME ~ troubled'
        PROVE  Kept'
    <3>1. ~ InFlight(collector) /\ SignalTold
      BY <2>3, <2>5 DEF NoteInv, Kept
    <3>2. Alone' /\ ViewsAreNew' /\ SignalSeen' /\ ThreadsTell'
      BY <2>1, <3>1 DEF Alone, InFlight, ViewsAreNew, SignalSeen, ThreadsTell
    <3>3. SignalTold'
      BY <2>1, <3>1 DEF SignalTold, Tells, Telling, Covers
    <3> QED BY <3>2, <3>3 DEF Kept
  <2> QED BY <2>4, <2>5 DEF NoteInv
<1>2. CASE MainDecides
  <2>1. /\ Decide(main) /\ main.at = "decide" /\ main' = Decided(main)
        /\ UNCHANGED <<collector, note, troubled, quota, ui, emitted, settings>>
    BY <1>2 DEF MainDecides, Decide, feed, device
  <2>2. main.view.windows \in WindowQuotas /\ previousSignal \in WindowQuotas \cup {None}
    BY <1>0, <2>1 DEF NoteTypes, InFlight
  <2>3. /\ previousSignal' \in WindowQuotas \cup {None}
        /\ Signal(main.view) # None => previousSignal' = Signal(main.view)
        /\ \/ main' = Idle
           \/ main' = [at |-> "notify", view |-> main.view, by |-> "coordinator"]
        /\ settings.band8 /\ (previousSignal = None \/ Tells(previousSignal)) =>
             \/ previousSignal' = None
             \/ Tells(previousSignal')
             \/ Telling(main', previousSignal')
    BY <2>1, <2>2, DecideKeeps
  <2>4. NoteTypes'
    BY <1>0, <2>1, <2>2, <2>3 DEF NoteTypes, InFlight, Idle
  <2>5. ASSUME ~ troubled'
        PROVE  Kept'
    <3>1. Alone /\ ViewsAreNew /\ SignalSeen /\ SignalTold /\ ThreadsTell
      BY <2>1, <2>5 DEF NoteInv, Kept
    <3>2. collector.at \notin {"decide", "notify"}
      BY <2>1, <3>1 DEF Alone, InFlight
    <3>3. Alone' /\ ViewsAreNew'
      BY <2>1, <2>3, <3>1, <3>2 DEF Alone, InFlight, ViewsAreNew, Idle
    <3>4. SignalSeen'
      <4>1. Signal(ui)' = Signal(ui)
        BY <2>1 DEF Signal
      <4>2. emitted \/ (Signal(ui) # None => previousSignal' = Signal(ui))
        BY <2>1, <2>3, <3>1 DEF ViewsAreNew
      <4> QED BY <2>1, <4>1, <4>2 DEF SignalSeen
    <3>5. settings.band8 => previousSignal = None \/ Tells(previousSignal)
      BY <2>1, <3>1, <3>2 DEF SignalTold, Telling
    <3>6. /\ Tells(previousSignal') => Tells(previousSignal)'
          /\ Telling(main', previousSignal') => Telling(main, previousSignal)'
      BY <2>1 DEF Tells, Telling, Covers
    <3>7. SignalTold'
      BY <2>1, <2>3, <3>5, <3>6 DEF SignalTold
    <3>8. ThreadsTell'
      <4>1. main'.at = "notify" => Telling(main', previousSignal')
        <5> SUFFICES ASSUME main'.at = "notify" PROVE Telling(main', previousSignal')
          OBVIOUS
        <5>1. /\ main' = Decided(main) /\ main'.view = main.view
              /\ main' # Idle
          BY <2>1, <2>3 DEF Idle
        <5>2. previousSignal' = main.view.windows
          BY <2>1, <5>1 DEF Decide, Decided, Signal
        <5> QED BY <5>1, <5>2, CoversSelf DEF Telling
      <4> QED BY <2>1, <3>2, <3>6, <4>1 DEF ThreadsTell
    <3> QED BY <3>3, <3>4, <3>7, <3>8 DEF Kept
  <2> QED BY <2>4, <2>5 DEF NoteInv
<1>3. CASE MainDispatches
  <2>1. /\ Dispatch(main) /\ main.at = "notify" /\ main' = Idle
        /\ UNCHANGED <<previousSignal, collector, quota, ui, emitted, settings>>
    BY <1>3 DEF MainDispatches, Dispatch, feed, device
  <2>2. /\ troubled' \in BOOLEAN
        /\ ~ troubled' => ~ troubled
        /\ ~ troubled' /\ Telling(main, previousSignal) => Tells(previousSignal)'
    BY <1>0, <2>1, DispatchTells DEF NoteTypes, InFlight
  <2>3. NoteTypes'
    BY <1>0, <2>1, <2>2 DEF NoteTypes, InFlight, Idle
  <2>4. ASSUME ~ troubled'
        PROVE  Kept'
    <3>1. Alone /\ ViewsAreNew /\ SignalSeen /\ SignalTold /\ ThreadsTell
      BY <2>2, <2>4 DEF NoteInv, Kept
    <3>2. collector.at \notin {"decide", "notify"}
      BY <2>1, <3>1 DEF Alone, InFlight
    <3>3. Alone' /\ ViewsAreNew' /\ ThreadsTell'
      BY <2>1, <3>1, <3>2 DEF Alone, InFlight, ViewsAreNew, ThreadsTell, Idle
    <3>4. SignalSeen'
      BY <2>1, <3>1 DEF SignalSeen, Signal
    <3>5. SignalTold'
      BY <2>1, <2>2, <2>4, <3>1 DEF SignalTold, ThreadsTell
    <3> QED BY <3>3, <3>4, <3>5 DEF Kept
  <2> QED BY <2>3, <2>4 DEF NoteInv
<1> QED BY <1>1, <1>2, <1>3 DEF Handling

LEMMA UserKeeps ==
  ASSUME NoteInv, User
  PROVE  NoteInv'
<1>0. NoteTypes
  BY DEF NoteInv
<1>1. ASSUME NEW s \in Settings, UpdateSettings(s)
      PROVE  NoteInv'
  <2>1. /\ main.at = "idle" /\ main' = [at |-> "read"] /\ settings' = s
        /\ UNCHANGED <<collector, note, troubled, quota, ui, emitted>>
    BY <1>1 DEF UpdateSettings, Idle, feed
  <2>2. previousSignal' = IF s.band8 /\ ~ settings.band8 THEN None ELSE previousSignal
    BY <1>1 DEF UpdateSettings
  <2>3. NoteTypes'
    BY <1>0, <2>1, <2>2 DEF NoteTypes, InFlight
  <2>4. ASSUME ~ troubled'
        PROVE  Kept'
    <3>1. Alone /\ ViewsAreNew /\ SignalTold /\ ThreadsTell
      BY <2>1, <2>4 DEF NoteInv, Kept
    <3>2. Alone' /\ ViewsAreNew' /\ SignalSeen'
      BY <2>1, <3>1 DEF Alone, InFlight, ViewsAreNew, SignalSeen
    <3>3. CASE s.band8 /\ ~ settings.band8
      BY <2>1, <2>2, <3>2, <3>3 DEF Kept, SignalTold, ThreadsTell
    <3>4. CASE ~ (s.band8 /\ ~ settings.band8)
      <4>1. previousSignal' = previousSignal
        BY <2>2, <3>4
      <4>2. ThreadsTell'
        BY <2>1, <3>1, <4>1 DEF ThreadsTell, Telling, Covers
      <4>3. SignalTold'
        BY <2>1, <3>1, <3>4, <4>1 DEF SignalTold, Tells, Telling, Covers
      <4> QED BY <3>2, <4>2, <4>3 DEF Kept
    <3> QED BY <3>3, <3>4
  <2> QED BY <2>3, <2>4 DEF NoteInv
<1>2. CASE PushQuota
  <2>1. /\ main.at = "idle" /\ main' = [at |-> "notify", view |-> ui, by |-> "user"]
        /\ troubled' = (troubled \/ InFlight(collector))
        /\ UNCHANGED <<previousSignal, collector, note, quota, ui, emitted, settings>>
    BY <1>2 DEF PushQuota, Idle, feed, device
  <2>2. troubled' \in BOOLEAN
    BY <2>1, Zenon
  <2>3. ~ troubled' => ~ troubled /\ ~ InFlight(collector)
    BY <2>1
  <2>4. NoteTypes'
    BY <1>0, <2>1, <2>2 DEF NoteTypes, InFlight
  <2>5. ASSUME ~ troubled'
        PROVE  Kept'
    <3>1. ~ InFlight(collector) /\ Kept
      BY <2>3, <2>5 DEF NoteInv
    <3>2. Alone' /\ ViewsAreNew' /\ ThreadsTell'
      BY <2>1, <3>1 DEF Alone, InFlight, ViewsAreNew, ThreadsTell, Telling
    <3>3. SignalSeen'
      BY <2>1, <3>1 DEF Kept, SignalSeen, Signal
    <3>4. SignalTold'
      BY <2>1, <3>1 DEF SignalTold, Telling
    <3> QED BY <3>2, <3>3, <3>4 DEF Kept
  <2> QED BY <2>4, <2>5 DEF NoteInv
<1>3. CASE SetForeground \/ SetPermission
  BY <1>3, NotesStay DEF SetForeground, SetPermission, feed
<1> QED BY <1>1, <1>2, <1>3 DEF User

LEMMA NoteStep == NoteInv /\ [Next]_vars => NoteInv'
<1> SUFFICES ASSUME NoteInv, [Next]_vars PROVE NoteInv'
  OBVIOUS
<1>0. /\ quota # None => \A w \in Windows : quota.windows[w] \in WindowValues
      /\ TRUE \in BOOLEAN /\ FALSE \in BOOLEAN
  <2>1. TRUE \in BOOLEAN /\ FALSE \in BOOLEAN
    BY Zenon
  <2> QED BY <2>1 DEF NoteInv, NoteTypes
<1>1. CASE Tick
  BY <1>0, <1>1, PublishKeeps DEF Tick, device
<1>2. CASE Connect
  BY <1>0, <1>2, PublishKeeps DEF Connect, device
<1>3. CASE Disconnect
  BY <1>0, <1>3, PublishKeeps DEF Disconnect, device
<1>4. ASSUME NEW focused \in BOOLEAN, SameSnapshot(focused)
      PROVE  NoteInv'
  BY <1>0, <1>4, PublishKeeps DEF SameSnapshot, ReceiveSnapshot, device
<1>5. ASSUME NEW focused \in BOOLEAN, NEW p \in Payloads, NewSnapshot(focused, p)
      PROVE  NoteInv'
  <2>1. quota'.windows = p.windows
    BY <1>5 DEF NewSnapshot, ReceiveSnapshot
  <2>2. \A w \in Windows : quota'.windows[w] \in WindowValues
    BY <2>1 DEF WindowValues
  <2> QED BY <1>0, <1>5, <2>2, PublishKeeps DEF NewSnapshot, ReceiveSnapshot, device
<1>6. CASE Host
  BY <1>6, NotesStay DEF Host, TaskIsTrimmed, TaskChanges, feed, device
<1>7. CASE Restart
  <2>1. ui'.windows \in WindowQuotas
    BY <1>7, ViewType DEF Restart, EmptyView
  <2>2. emitted' = TRUE /\ troubled' = FALSE
    BY <1>7 DEF Restart
  <2>3. emitted' \in BOOLEAN /\ troubled' \in BOOLEAN
    BY <2>2, Zenon
  <2>4. quota' = None /\ previousSignal' = None /\ collector'.at = "idle" /\ main'.at = "idle"
    BY <1>7 DEF Restart, Idle
  <2>5. NoteTypes'
    BY <2>1, <2>3, <2>4 DEF NoteTypes, InFlight
  <2>6. Kept'
    BY <2>2, <2>4 DEF Kept, Alone, ViewsAreNew, SignalSeen, SignalTold, ThreadsTell, InFlight
  <2> QED BY <2>5, <2>6 DEF NoteInv
<1>8. CASE UNCHANGED vars
  BY <1>8, NotesStay DEF vars, feed, device
<1> QED BY <1>1, <1>2, <1>3, <1>4, <1>5, <1>6, <1>7, <1>8, CollectorKeeps, MainKeeps, UserKeeps
        DEF Next, Stream

(* Whatever states the collector skips and however the settings change, at *)
(* rest the last note covers the confirmed quota, unless the two threads   *)
(* overlapped or a note was not allowed.                                   *)
THEOREM NoteIsCurrentHolds == Spec => []NoteIsCurrent
<1>1. NoteInv => NoteIsCurrent
  <2> SUFFICES ASSUME NoteInv, collector = Idle, main = Idle, ~ emitted, Wanted, ~ troubled
               PROVE  Told
    BY DEF NoteIsCurrent
  <2>1. SignalSeen /\ SignalTold /\ settings.band8 /\ Signal(ui) # None
    BY DEF NoteInv, Kept, Wanted
  <2>2. collector.at = "idle" /\ main.at = "idle"
    BY DEF Idle
  <2>3. previousSignal = Signal(ui) /\ Tells(Signal(ui))
    BY <2>1, <2>2 DEF SignalSeen, SignalTold, Telling
  <2>4. Signal(ui) = ui.windows
    BY <2>1 DEF Signal
  <2> QED BY <2>3, <2>4 DEF Tells, Told
<1> QED BY <1>1, NoteInit, NoteStep, PTL DEF Spec
=============================================================================
