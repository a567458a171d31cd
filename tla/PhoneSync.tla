------------------------------ MODULE PhoneSync ------------------------------
(***************************************************************************)
(* The phone's end of /sync: SyncStreamSession and RuntimeStateRepository  *)
(* of the Android app, fed by the frames handle_sync of the Windows host   *)
(* writes on each connection.                                              *)
(*                                                                         *)
(* Every connection has a session object of its own; all of them update    *)
(* one repository. Replacing a connection only cancels the old socket: its *)
(* reader may be in the middle of a frame, and its last callback and the   *)
(* coroutine that waits for it both call disconnect() later, in any order, *)
(* when the next connection may already be up. A session's lock is held    *)
(* over a frame, the repository's over each of its methods only, so a      *)
(* frame is applied in the steps between which other sessions may run.     *)
(*                                                                         *)
(* The task snapshots the host publishes are numbered by the history log;  *)
(* frames and the repository name one by its number. A quota snapshot is   *)
(* its generatedAt. A sequence number or a time that may be absent is      *)
(* represented by the smallest number that is acceptable next, 0 for null. *)
(* The call of TaskAlertCoordinator for an accepted snapshot is left out.  *)
(***************************************************************************)
EXTENDS Integers, Sequences

CONSTANTS
  Convs,          \* conversations
  MaxSessions,    \* bound on the connections the phone opens
  MaxClock,       \* bound on the host's clock
  MaxSnapshots,   \* bound on the task snapshots published
  MaxSeq,         \* frames from this sequence number on are not told apart
  MaxPipe,        \* bound on the frames in flight on a connection
  ClockStepsBack, \* the host's wall clock may be set back, once
  Republishes,    \* the quota tick, or a refresh within the cooldown, re-sends the payload
  Removes         \* the user removes tasks from the board

ASSUME PhoneAssumption ==
  /\ MaxSessions \in Nat /\ MaxClock \in Nat /\ MaxSnapshots \in Nat
  /\ MaxSeq \in Nat /\ MaxPipe \in Nat
  /\ ClockStepsBack \in BOOLEAN /\ Republishes \in BOOLEAN /\ Removes \in BOOLEAN

VARIABLES
  clock,      \* the host's wall clock
  adjusted,   \* it was set back
  log,        \* history: the task snapshots published
  quota,      \* generated_at of the quota in the host's payload
  server,     \* the host's end of each connection
  seq,        \* its `sequence`
  last,       \* the payload it last sent
  pipe,       \* the frames in flight
  opened,     \* how many connections the phone has opened
  cancelled,  \* those whose socket and job it cancelled
  refused,    \* those it closed over an invalid frame
  ended,      \* those whose onClosed or onFailure has run
  finished,   \* those whose connectOnce has run its finally block
  greeted,    \* sessions with a connectionId
  nextSeq,    \* lastSequence
  stage,      \* how far each session is with the frame in hand
  hand,       \* that frame; HelloFrame when there is none
  connected,  \* transportConnected
  phoneQuota, \* quotaSnapshot
  source,     \* sourceTaskSnapshot, by its number in log
  taskFloor,  \* taskSequenceInConnection
  hidden,     \* the TaskVisibilityStore: the version hidden of each task
  pending,    \* pendingRemoval of the task screen: the version it shows
  newest,     \* history: the newest snapshot ever shown
  removed     \* history: the newest version removed of each task

host    == <<clock, adjusted, log, quota>>
stream  == <<server, seq, last, pipe>>
socket  == <<opened, cancelled, refused, ended, finished>>
session == <<greeted, nextSeq, stage, hand>>
link    == <<connected, taskFloor>>
data    == <<phoneQuota, source, newest>>
removal == <<hidden, pending, removed>>
vars    == <<host, stream, socket, session, link, data, removal>>

Sessions == 1..MaxSessions

(* A frame; a kind that lacks a field has 0 there.                         *)
Frame == [type : {"hello", "heartbeat", "snapshot"},
          seq : Nat, at : Nat, quota : Nat, tasks : Nat]
HelloFrame == [type |-> "hello", seq |-> 0, at |-> 0, quota |-> 0, tasks |-> 0]

TaskSnapshot == [generatedAt : Nat, sequence : Nat, board : [Convs -> Nat]]

HostTypeOK ==
  /\ clock \in Nat /\ adjusted \in BOOLEAN
  /\ log \in Seq(TaskSnapshot) /\ log # <<>>
  /\ quota \in Nat

StreamTypeOK ==
  /\ server \in [Sessions -> {"none", "greeting", "streaming", "closed"}]
  /\ seq \in [Sessions -> Nat]
  /\ last \in [Sessions -> Nat \X Nat]
  /\ pipe \in [Sessions -> Seq(Frame)]

SocketTypeOK ==
  /\ opened \in 0..MaxSessions
  /\ cancelled \subseteq Sessions /\ refused \subseteq Sessions
  /\ ended \subseteq Sessions /\ finished \subseteq Sessions

SessionTypeOK ==
  /\ greeted \subseteq Sessions
  /\ nextSeq \in [Sessions -> Nat]
  /\ stage \in [Sessions -> {"idle", "hello", "quota", "tasks"}]
  /\ hand \in [Sessions -> Frame]

RepositoryTypeOK ==
  /\ connected \in BOOLEAN
  /\ taskFloor \in Nat /\ phoneQuota \in Nat
  /\ source \in 0..Len(log) /\ newest \in 0..Len(log)
  /\ hidden \in [Convs -> Nat] /\ removed \in [Convs -> Nat]
  /\ pending \in [Convs -> Nat]

TypeOK ==
  HostTypeOK /\ StreamTypeOK /\ SocketTypeOK /\ SessionTypeOK /\ RepositoryTypeOK

EmptyBoard == [c \in Convs |-> 0]

Init ==
  /\ clock = 1 /\ adjusted = FALSE
  /\ log = <<[generatedAt |-> 1, sequence |-> 0, board |-> EmptyBoard]>>
  /\ quota = 1
  /\ server = [n \in Sessions |-> "none"]
  /\ seq = [n \in Sessions |-> 0]
  /\ last = [n \in Sessions |-> <<0, 0>>]
  /\ pipe = [n \in Sessions |-> <<>>]
  /\ opened = 0
  /\ cancelled = {} /\ refused = {} /\ ended = {} /\ finished = {}
  /\ greeted = {}
  /\ nextSeq = [n \in Sessions |-> 0]
  /\ stage = [n \in Sessions |-> "idle"]
  /\ hand = [n \in Sessions |-> HelloFrame]
  /\ connected = FALSE /\ taskFloor = 0
  /\ phoneQuota = 0 /\ source = 0 /\ newest = 0
  /\ hidden = EmptyBoard /\ pending = EmptyBoard /\ removed = EmptyBoard

-----------------------------------------------------------------------------
(* The Windows host. A version of a task is the number of the snapshot     *)
(* that brought it: what tells it apart by state and updatedAt.            *)

Latest == log[Len(log)]
Payload == <<quota, Len(log)>>

PublishTasks(number, board) ==
  /\ Len(log) < MaxSnapshots /\ clock < MaxClock
  /\ clock' = clock + 1
  /\ log' = Append(log, [generatedAt |-> clock + 1, sequence |-> number, board |-> board])

TaskEvent(c) ==
  /\ PublishTasks(Latest.sequence + 1, [Latest.board EXCEPT ![c] = Len(log) + 1])
  /\ UNCHANGED <<adjusted, quota, stream, socket, session, link, data, removal>>

TitleArrives ==
  /\ Latest.board # EmptyBoard
  /\ PublishTasks(Latest.sequence + 1, Latest.board)
  /\ UNCHANGED <<adjusted, quota, stream, socket, session, link, data, removal>>

QuotaTick ==
  /\ clock < MaxClock
  /\ clock' = clock + 1 /\ quota' = clock + 1
  /\ UNCHANGED <<adjusted, log, stream, socket, session, link, data, removal>>

ClockSetBack ==
  /\ ClockStepsBack /\ ~adjusted
  /\ adjusted' = TRUE
  /\ clock' \in 1..clock - 1
  /\ UNCHANGED <<log, quota, stream, socket, session, link, data, removal>>

(* handle_sync of these connections returns: its variables are gone.       *)
ServerEnds(conns) ==
  /\ server' = [n \in Sessions |-> IF n \in conns THEN "closed" ELSE server[n]]
  /\ seq' = [n \in Sessions |-> IF n \in conns THEN 0 ELSE seq[n]]
  /\ last' = [n \in Sessions |-> IF n \in conns THEN <<0, 0>> ELSE last[n]]

(* A new process starts from initial_tasks and load_cached_snapshot.       *)
HostRestart ==
  /\ PublishTasks(0, EmptyBoard)
  /\ quota' = clock + 1
  /\ ServerEnds(1..opened)
  /\ UNCHANGED <<adjusted, pipe, socket, session, link, data, removal>>

-----------------------------------------------------------------------------
(* handle_sync on connection n, once it has admitted the phone. That its   *)
(* loop finds every payload is shown in module SyncServer.                 *)

(* What is sent after the phone cancelled its socket reaches nobody.       *)
Enqueue(n, frame) ==
  /\ n \notin cancelled
  /\ Len(pipe[n]) < MaxPipe
  /\ pipe' = [pipe EXCEPT ![n] = Append(@, frame)]

Count(n) == seq' = [seq EXCEPT ![n] = IF @ < MaxSeq THEN @ + 1 ELSE @]

ServerHello(n) ==
  /\ server[n] = "greeting"
  /\ server' = [server EXCEPT ![n] = "streaming"]
  /\ Enqueue(n, HelloFrame)
  /\ UNCHANGED <<host, seq, last, socket, session, link, data, removal>>

SendSnapshot(n) ==
  /\ server[n] = "streaming"
  /\ last[n] = Payload => Republishes
  /\ Enqueue(n, [type |-> "snapshot", seq |-> seq[n], at |-> clock,
                 quota |-> quota, tasks |-> Len(log)])
  /\ last' = [last EXCEPT ![n] = Payload]
  /\ Count(n)
  /\ UNCHANGED <<host, server, socket, session, link, data, removal>>

Heartbeat(n) ==
  /\ server[n] = "streaming" /\ last[n] # <<0, 0>>
  /\ Enqueue(n, [type |-> "heartbeat", seq |-> seq[n], at |-> 0,
                 quota |-> 0, tasks |-> 0])
  /\ Count(n)
  /\ UNCHANGED <<host, server, last, socket, session, link, data, removal>>

(* The host is done with the phone, or the network between them fails.     *)
ConnectionLost(n) ==
  /\ server[n] \in {"greeting", "streaming"}
  /\ ServerEnds({n})
  /\ UNCHANGED <<host, pipe, socket, session, link, data, removal>>

-----------------------------------------------------------------------------
(* SyncWebSocketClient, as far as sessions see it.                         *)

(* connectOnce: the loop's next attempt, or the first of a new loop.       *)
Connect ==
  LET n == opened + 1 IN
  /\ n <= MaxSessions
  /\ \A m \in 1..opened : m \in cancelled \cup finished
  /\ opened' = n
  /\ server' = [server EXCEPT ![n] = "greeting"]
  /\ UNCHANGED <<host, seq, last, pipe, cancelled, refused, ended, finished,
                 session, link, data, removal>>

(* closeActiveConnection, before a new loop connects.                      *)
Reconnect ==
  /\ opened \in 1..MaxSessions - 1 /\ opened \notin cancelled
  /\ cancelled' = cancelled \cup {opened}
  /\ connected' = FALSE /\ taskFloor' = 0
  /\ UNCHANGED <<host, stream, opened, refused, ended, finished, session, data, removal>>

(* SyncStreamSession.disconnect, which waits for the frame in hand.        *)
Disconnect(n) ==
  /\ stage[n] = "idle"
  /\ greeted' = greeted \ {n}
  /\ nextSeq' = [nextSeq EXCEPT ![n] = 0]
  /\ connected' = FALSE /\ taskFloor' = 0
  /\ UNCHANGED <<stage, hand>>

(* onClosed or onFailure; what was in flight is lost.                      *)
LastCallback(n) ==
  /\ n <= opened /\ n \notin ended
  /\ server[n] = "closed" \/ n \in cancelled
  /\ Disconnect(n)
  /\ ended' = ended \cup {n}
  /\ pipe' = [pipe EXCEPT ![n] = <<>>]
  /\ ServerEnds({n})
  /\ UNCHANGED <<host, opened, cancelled, refused, finished, data, removal>>

(* The finally block, once the coroutine was resumed or cancelled.         *)
FinallyBlock(n) ==
  /\ n \in ended \cup cancelled /\ n \notin finished
  /\ Disconnect(n)
  /\ finished' = finished \cup {n}
  /\ UNCHANGED <<host, stream, opened, cancelled, refused, ended, data, removal>>

(* Mutant: the app uses the InMemoryTaskVisibilityStore.                   *)
PhoneRestartForgetsMarkers ==
  /\ opened \in 1..MaxSessions - 1
  /\ ServerEnds(1..opened)
  /\ pipe' = [n \in Sessions |-> <<>>]
  /\ ended' = 1..opened /\ finished' = 1..opened
  /\ greeted' = {}
  /\ nextSeq' = [n \in Sessions |-> 0]
  /\ stage' = [n \in Sessions |-> "idle"]
  /\ hand' = [n \in Sessions |-> HelloFrame]
  /\ connected' = FALSE /\ taskFloor' = 0
  /\ phoneQuota' = 0 /\ source' = 0
  /\ pending' = EmptyBoard /\ hidden' = EmptyBoard
  /\ UNCHANGED <<host, opened, cancelled, refused, newest, removed>>

(* The app's process is killed and started again. Only the markers of the  *)
(* TaskVisibilityStore survive it.                                         *)
PhoneRestart ==
  /\ opened \in 1..MaxSessions - 1
  /\ ServerEnds(1..opened)
  /\ pipe' = [n \in Sessions |-> <<>>]
  /\ ended' = 1..opened /\ finished' = 1..opened
  /\ greeted' = {}
  /\ nextSeq' = [n \in Sessions |-> 0]
  /\ stage' = [n \in Sessions |-> "idle"]
  /\ hand' = [n \in Sessions |-> HelloFrame]
  /\ connected' = FALSE /\ taskFloor' = 0
  /\ phoneQuota' = 0 /\ source' = 0
  /\ pending' = EmptyBoard
  /\ UNCHANGED <<host, opened, cancelled, refused, newest, hidden, removed>>

-----------------------------------------------------------------------------
(* SyncStreamSession.ingest, on the reader thread of connection n.         *)

Take(n) ==
  /\ n \notin ended /\ stage[n] = "idle"
  /\ pipe[n] # <<>>
  /\ pipe' = [pipe EXCEPT ![n] = Tail(@)]

InHand(n, frame, next) ==
  /\ hand' = [hand EXCEPT ![n] = frame]
  /\ stage' = [stage EXCEPT ![n] = next]

(* Repository methods that forget the task sequence of a lost connection.  *)
MarkConnected ==
  /\ connected' = TRUE
  /\ taskFloor' = IF connected THEN taskFloor ELSE 0

(* acceptHello: the repository goes offline and, in a second call, online. *)
TakeHello(n) ==
  /\ Take(n) /\ Head(pipe[n]).type = "hello"
  /\ n \notin greeted
  /\ greeted' = greeted \cup {n}
  /\ nextSeq' = [nextSeq EXCEPT ![n] = 0]
  /\ connected' = FALSE /\ taskFloor' = 0
  /\ InHand(n, HelloFrame, "hello")
  /\ UNCHANGED <<host, server, seq, last, socket, data, removal>>

FinishHello(n) ==
  /\ stage[n] = "hello"
  /\ MarkConnected
  /\ InHand(n, HelloFrame, "idle")
  /\ UNCHANGED <<host, stream, socket, greeted, nextSeq, data, removal>>

(* Mutant: a frame is not matched with the session's connectionId.         *)
InOrderAnyConnection(n, frame) == frame.seq >= nextSeq[n] \/ frame.seq = MaxSeq

(* acceptSequenced.                                                        *)
InOrder(n, frame) ==
  /\ n \in greeted
  /\ frame.seq >= nextSeq[n] \/ frame.seq = MaxSeq

(* Mutant: a frame does not call markTransportDataReceived.                *)
AcceptSilently(n, frame) ==
  /\ InOrder(n, frame)
  /\ nextSeq' = [nextSeq EXCEPT ![n] = frame.seq + 1]
  /\ UNCHANGED link

Accept(n, frame) ==
  /\ InOrder(n, frame)
  /\ nextSeq' = [nextSeq EXCEPT ![n] = frame.seq + 1]
  /\ MarkConnected

TakeHeartbeat(n) ==
  LET frame == Head(pipe[n]) IN
  /\ Take(n) /\ frame.type = "heartbeat"
  /\ Accept(n, frame)
  /\ UNCHANGED <<host, server, seq, last, socket, greeted, stage, hand, data, removal>>

IgnoreHeartbeat(n) ==
  /\ Take(n) /\ Head(pipe[n]).type = "heartbeat"
  /\ ~InOrder(n, Head(pipe[n]))
  /\ UNCHANGED <<host, server, seq, last, socket, session, link, data, removal>>

(* SyncStreamWireContract.decode of a snapshot.                            *)
Decodes(n, frame) ==
  /\ n \in greeted
  /\ frame.quota <= frame.at
  /\ log[frame.tasks].generatedAt <= frame.at

TakeSnapshot(n) ==
  LET frame == Head(pipe[n]) IN
  /\ Take(n) /\ frame.type = "snapshot"
  /\ Decodes(n, frame)
  /\ Accept(n, frame)
  /\ InHand(n, frame, "quota")
  /\ UNCHANGED <<host, server, seq, last, socket, greeted, data, removal>>

(* onMessage closes the socket over it, and the host answers the close.    *)
RefuseSnapshot(n) ==
  /\ Take(n) /\ Head(pipe[n]).type = "snapshot"
  /\ ~Decodes(n, Head(pipe[n]))
  /\ refused' = refused \cup {n}
  /\ UNCHANGED <<host, server, seq, last, opened, cancelled, ended, finished,
                 session, link, data, removal>>

-----------------------------------------------------------------------------
(* RuntimeStateRepository.                                                 *)

IngestQuota(n) ==
  /\ stage[n] = "quota"
  /\ IF hand[n].quota > phoneQuota
       THEN phoneQuota' = hand[n].quota /\ MarkConnected
       ELSE UNCHANGED <<phoneQuota, link>>
  /\ InHand(n, hand[n], "tasks")
  /\ UNCHANGED <<host, stream, socket, greeted, nextSeq, source, newest, removal>>

BoardOf(i) == IF i = 0 THEN EmptyBoard ELSE log[i].board

(* taskSnapshot: the source without the hidden versions.                   *)
Board == [c \in Convs |-> IF BoardOf(source)[c] = hidden[c] THEN 0 ELSE BoardOf(source)[c]]

(* isHidden drops the marker of a task that has changed since.             *)
VisibleTasks(markers, i) ==
  hidden' = [c \in Convs |-> IF BoardOf(i)[c] \in {0, markers[c]} THEN markers[c] ELSE 0]

(* Mutants: generatedAt is not compared; a taskSequenceInConnection of     *)
(* null counts as 0.                                                       *)
NewerByNumber(i) ==
  /\ log[i].sequence >= taskFloor
  /\ source # 0 => log[i] # log[source]

NewerThanZero(i) ==
  /\ source # 0 => log[i].generatedAt >= log[source].generatedAt
  /\ log[i].sequence >= IF taskFloor = 0 THEN 1 ELSE taskFloor
  /\ source # 0 => log[i] # log[source]

Newer(i) ==
  /\ source # 0 => log[i].generatedAt >= log[source].generatedAt
  /\ log[i].sequence >= taskFloor
  /\ source # 0 => log[i] # log[source]

IngestTasks(n) ==
  LET i == hand[n].tasks IN
  /\ stage[n] = "tasks" /\ Newer(i)
  /\ connected' = TRUE /\ taskFloor' = log[i].sequence + 1
  /\ source' = i /\ newest' = i
  /\ VisibleTasks(hidden, i)
  /\ InHand(n, HelloFrame, "idle")
  /\ UNCHANGED <<host, stream, socket, greeted, nextSeq, phoneQuota, pending, removed>>

IgnoreTasks(n) ==
  /\ stage[n] = "tasks" /\ ~Newer(hand[n].tasks)
  /\ InHand(n, HelloFrame, "idle")
  /\ UNCHANGED <<host, stream, socket, greeted, nextSeq, link, data, removal>>

-----------------------------------------------------------------------------
(* The task screen: a tap opens a dialog that keeps the task as it was,    *)
(* and confirming it removes the conversation from the board.              *)

OpenDialog(c) ==
  /\ Removes
  /\ pending = EmptyBoard /\ Board[c] # 0
  /\ pending' = [pending EXCEPT ![c] = Board[c]]
  /\ UNCHANGED <<host, stream, socket, session, link, data, hidden, removed>>

DismissDialog ==
  /\ pending # EmptyBoard
  /\ pending' = EmptyBoard
  /\ UNCHANGED <<host, stream, socket, session, link, data, hidden, removed>>

RemoveTaskFromBoard(c) ==
  /\ pending[c] # 0
  /\ pending' = EmptyBoard
  /\ IF Board[c] = 0
       THEN UNCHANGED <<hidden, removed>>
       ELSE /\ VisibleTasks([hidden EXCEPT ![c] = Board[c]], source)
            /\ removed' = [removed EXCEPT ![c] = Board[c]]
  /\ UNCHANGED <<host, stream, socket, session, link, data>>

-----------------------------------------------------------------------------
Publishing == (\E c \in Convs : TaskEvent(c)) \/ TitleArrives \/ QuotaTick
Serving(n) == ServerHello(n) \/ SendSnapshot(n) \/ Heartbeat(n)
Reading(n) == \/ TakeHello(n) \/ FinishHello(n)
              \/ TakeHeartbeat(n) \/ IgnoreHeartbeat(n)
              \/ TakeSnapshot(n) \/ RefuseSnapshot(n)
              \/ IngestQuota(n) \/ IngestTasks(n) \/ IgnoreTasks(n)
Ending(n)  == LastCallback(n) \/ FinallyBlock(n)
Screen     == (\E c \in Convs : OpenDialog(c) \/ RemoveTaskFromBoard(c)) \/ DismissDialog

Next ==
  \/ Publishing \/ ClockSetBack \/ HostRestart
  \/ Connect \/ Reconnect \/ PhoneRestart
  \/ \E n \in Sessions : Serving(n) \/ Reading(n) \/ Ending(n) \/ ConnectionLost(n)
  \/ Screen

(* Both ends keep working and a lost connection is noticed: the client     *)
(* pings every 15 s, and the host closes what the phone closed. The        *)
(* publications, the user and the network are free. The loop's select!     *)
(* picks among its ready branches at random, so none is starved.           *)
Fairness ==
  \A n \in Sessions :
    /\ WF_vars(ServerHello(n)) /\ SF_vars(SendSnapshot(n)) /\ WF_vars(Serving(n))
    /\ WF_vars(Reading(n)) /\ WF_vars(Ending(n))
    /\ WF_vars(ConnectionLost(n) /\ n \in refused)

Spec == Init /\ [][Next]_vars
LiveSpec == Spec /\ Fairness

-----------------------------------------------------------------------------
(* The phone is never online by a session without a connection: whatever   *)
(* markTransportConnected, markTransportDataReceived and the ingest methods *)
(* set is taken back when the last session that may set it disconnects.    *)
OnlineHasSession == connected => greeted # {}

(* A frame of an old connection that is read late, a restart of the host,  *)
(* which restarts its sequence numbers, or one of the phone never brings   *)
(* back an older task snapshot.                                            *)
Feed == INSTANCE TaskFeed WITH published <- Len(log), showing <- source
NeverGoesBack == Feed!Spec

(* TaskVisibilityStore: a version removed from the board does not return,  *)
(* whichever connection or restart delivers it again.                      *)
RemovedStaysRemoved == \A c \in Convs : Board[c] = 0 \/ Board[c] > removed[c]

(* TaskVisibilityStore.kt:7: a removal is tied to the version observed. So *)
(* what the user confirms removes the version that the dialog showed. The  *)
(* code does not keep this: no run has it, see the README.                 *)
RemovesWhatWasShown ==
  [][\A c \in Convs : removed'[c] # removed[c] => removed'[c] = pending[c]]_vars

Healthy(n) ==
  /\ n \in greeted /\ server[n] = "streaming"
  /\ n \notin cancelled \cup refused \cup ended

(* While a connection stays up the phone ends up with the host's latest    *)
(* snapshot ("the board takes the newest state over", CONTEXT.md:179). Only *)
(* a wall clock that was set back can leave it behind, with a snapshot of  *)
(* a time the host has yet to reach again.                                 *)
AheadOfHost == source # 0 /\ log[source].generatedAt > Latest.generatedAt
BoardConverges ==
  \A n \in Sessions : <>[]Healthy(n) => <>[](source = Len(log) \/ AheadOfHost)

(* Callbacks of an old connection may switch the phone to offline, but not *)
(* for good.                                                               *)
OnlineAgain == \A n \in Sessions : <>[]Healthy(n) => <>[]connected

(* A connection that stays up brings the phone online and up to date.      *)
PhoneCatchesUp == BoardConverges /\ OnlineAgain
=============================================================================
