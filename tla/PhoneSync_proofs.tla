--------------------------- MODULE PhoneSync_proofs ---------------------------
(***************************************************************************)
(* Machine-checked proofs about PhoneSync, for any number of connections,  *)
(* tasks and publications.                                                 *)
(***************************************************************************)
EXTENDS PhoneSync, SequenceTheorems, TLAPS

USE PhoneAssumption DEF PhoneAssumption

-----------------------------------------------------------------------------
(* Which snapshot a frame names. A frame in flight or in hand names one    *)
(* that was published.                                                     *)

Named(frame) == frame.type = "snapshot" => frame.tasks \in 1..Len(log)
Applying(n)  == stage[n] \in {"quota", "tasks"}

FramesPublished ==
  /\ \A n \in Sessions : \A k \in 1..Len(pipe[n]) : Named(pipe[n][k])
  /\ \A n \in Sessions : Applying(n) => hand[n].tasks \in 1..Len(log)

Typed == TypeOK /\ FramesPublished

AllTypes == HostTypeOK /\ StreamTypeOK /\ SocketTypeOK /\ SessionTypeOK /\ RepositoryTypeOK

LEMMA FrameFields ==
  ASSUME NEW f \in Frame
  PROVE  /\ f.type \in {"hello", "heartbeat", "snapshot"}
         /\ f.seq \in Nat /\ f.at \in Nat /\ f.quota \in Nat /\ f.tasks \in Nat
BY DEF Frame

LEMMA HelloIsFrame == HelloFrame \in Frame /\ HelloFrame.type = "hello"
BY DEF HelloFrame, Frame

LEMMA SnapshotFields ==
  ASSUME NEW s \in TaskSnapshot
  PROVE  s.generatedAt \in Nat /\ s.sequence \in Nat /\ s.board \in [Convs -> Nat]
BY DEF TaskSnapshot

LEMMA LogFacts ==
  ASSUME HostTypeOK
  PROVE  /\ Len(log) \in Nat \ {0}
         /\ \A i \in 1..Len(log) : log[i] \in TaskSnapshot
BY DEF HostTypeOK

LEMMA TakenFrame ==
  ASSUME StreamTypeOK, NEW n \in Sessions, pipe[n] # <<>>
  PROVE  /\ Head(pipe[n]) \in Frame /\ Head(pipe[n]) = pipe[n][1]
         /\ Tail(pipe[n]) \in Seq(Frame)
         /\ 1 \in 1..Len(pipe[n])
         /\ Len(Tail(pipe[n])) = Len(pipe[n]) - 1
         /\ \A k \in 1..Len(Tail(pipe[n])) :
              k + 1 \in 1..Len(pipe[n]) /\ Tail(pipe[n])[k] = pipe[n][k + 1]
<1>1. pipe[n] \in Seq(Frame)
  BY DEF StreamTypeOK
<1> QED BY <1>1, HeadTailProperties

LEMMA BoardTypes ==
  ASSUME HostTypeOK, NEW i \in 0..Len(log)
  PROVE  BoardOf(i) \in [Convs -> Nat]
<1>1. CASE i = 0
  BY <1>1 DEF BoardOf, EmptyBoard
<1>2. CASE i # 0
  <2>1. log[i] \in TaskSnapshot
    BY <1>2, LogFacts
  <2> QED BY <1>2, <2>1, SnapshotFields DEF BoardOf
<1> QED BY <1>1, <1>2

-----------------------------------------------------------------------------
(* The host.                                                               *)

LEMMA PublishType ==
  ASSUME TypeOK, NEW number \in Nat, NEW board \in [Convs -> Nat], PublishTasks(number, board)
  PROVE  /\ clock' \in Nat /\ log' \in Seq(TaskSnapshot) /\ log' # <<>>
         /\ Len(log') = Len(log) + 1
         /\ \A i \in 1..Len(log) : log'[i] = log[i]
         /\ log'[Len(log) + 1].generatedAt = clock + 1
<1> DEFINE s == [generatedAt |-> clock + 1, sequence |-> number, board |-> board]
<1>1. s \in TaskSnapshot
  BY DEF TypeOK, HostTypeOK, TaskSnapshot
<1>2. log' = Append(log, s) /\ log \in Seq(TaskSnapshot) /\ clock' = clock + 1 /\ clock \in Nat
  BY DEF TypeOK, HostTypeOK, PublishTasks
<1>3. /\ log' \in Seq(TaskSnapshot) /\ Len(log') = Len(log) + 1
      /\ \A i \in 1..Len(log) : log'[i] = log[i]
      /\ log'[Len(log) + 1] = s
  BY <1>1, <1>2, AppendProperties
<1>4. log' # <<>>
  BY <1>3
<1> QED BY <1>2, <1>3, <1>4

(* Publishing leaves everything that names a snapshot alone.               *)
LEMMA LongerLog ==
  ASSUME Typed, Len(log') = Len(log) + 1 \/ log' = log,
         UNCHANGED <<pipe, socket, session, link, data, removal>>
  PROVE  /\ FramesPublished'
         /\ SocketTypeOK' /\ SessionTypeOK' /\ RepositoryTypeOK'
<1>0. Len(log) \in Nat /\ Len(log') \in Nat /\ Len(log) <= Len(log')
  BY LogFacts DEF Typed, TypeOK
<1>1. SocketTypeOK'
  BY DEF Typed, TypeOK, SocketTypeOK, socket
<1>2. SessionTypeOK'
  BY DEF Typed, TypeOK, SessionTypeOK, session
<1>3. RepositoryTypeOK'
  BY <1>0 DEF Typed, TypeOK, RepositoryTypeOK, link, data, removal
<1>4. FramesPublished'
  BY <1>0 DEF Typed, FramesPublished, Named, Applying, session
<1> QED BY <1>1, <1>2, <1>3, <1>4

HostStepTyped ==
  /\ HostTypeOK' /\ StreamTypeOK' /\ (Len(log') = Len(log) + 1 \/ log' = log)
  /\ UNCHANGED <<pipe, socket, session, link, data, removal>>

(* The host's ends after some of them returned.                            *)
LEMMA ServerEndsTypes ==
  ASSUME StreamTypeOK, NEW conns, ServerEnds(conns)
  PROVE  /\ server' \in [Sessions -> {"none", "greeting", "streaming", "closed"}]
         /\ seq' \in [Sessions -> Nat]
         /\ last' \in [Sessions -> Nat \X Nat]
<1>1. server' \in [Sessions -> {"none", "greeting", "streaming", "closed"}]
  BY DEF StreamTypeOK, ServerEnds
<1>2. seq' \in [Sessions -> Nat]
  BY DEF StreamTypeOK, ServerEnds
<1>3. last' \in [Sessions -> Nat \X Nat]
  BY DEF StreamTypeOK, ServerEnds
<1> QED BY <1>1, <1>2, <1>3

LEMMA HostTypes ==
  ASSUME Typed, Publishing \/ ClockSetBack \/ HostRestart
  PROVE  Typed'
<1>0. TypeOK /\ HostTypeOK /\ StreamTypeOK
  BY DEF Typed, TypeOK
<1>1. Latest \in TaskSnapshot /\ Len(log) \in Nat /\ clock \in Nat /\ opened \in Nat
  BY <1>0, LogFacts DEF Latest, HostTypeOK, TypeOK, SocketTypeOK
<1>2. Latest.sequence + 1 \in Nat /\ Latest.board \in [Convs -> Nat] /\ EmptyBoard \in [Convs -> Nat]
  BY <1>1, SnapshotFields DEF EmptyBoard
<1>3. HostStepTyped
  <2>1. ASSUME NEW c \in Convs, TaskEvent(c)
        PROVE  HostStepTyped
    <3>1. [Latest.board EXCEPT ![c] = Len(log) + 1] \in [Convs -> Nat]
      BY <1>1, <1>2
    <3>2. PublishTasks(Latest.sequence + 1, [Latest.board EXCEPT ![c] = Len(log) + 1])
      BY <2>1 DEF TaskEvent
    <3>3. UNCHANGED <<adjusted, quota, server, seq, last, pipe, socket, session, link, data, removal>>
      BY <2>1 DEF TaskEvent, stream
    <3>4. HostTypeOK' /\ Len(log') = Len(log) + 1
      BY <1>0, <1>2, <3>1, <3>2, <3>3, PublishType DEF HostTypeOK
    <3>5. StreamTypeOK'
      BY <1>0, <3>3 DEF StreamTypeOK
    <3> QED BY <3>3, <3>4, <3>5 DEF HostStepTyped
  <2>2. CASE TitleArrives
    <3>2. PublishTasks(Latest.sequence + 1, Latest.board)
      BY <2>2 DEF TitleArrives
    <3>3. UNCHANGED <<adjusted, quota, server, seq, last, pipe, socket, session, link, data, removal>>
      BY <2>2 DEF TitleArrives, stream
    <3>4. HostTypeOK' /\ Len(log') = Len(log) + 1
      BY <1>0, <1>2, <3>2, <3>3, PublishType DEF HostTypeOK
    <3>5. StreamTypeOK'
      BY <1>0, <3>3 DEF StreamTypeOK
    <3> QED BY <3>3, <3>4, <3>5 DEF HostStepTyped
  <2>3. CASE QuotaTick
    <3>1. UNCHANGED <<adjusted, log, server, seq, last, pipe, socket, session, link, data, removal>>
      BY <2>3 DEF QuotaTick, stream
    <3>2. clock' \in Nat /\ quota' \in Nat
      BY <1>1, <2>3 DEF QuotaTick
    <3> QED BY <1>0, <3>1, <3>2 DEF HostStepTyped, HostTypeOK, StreamTypeOK
  <2>4. CASE ClockSetBack
    <3>1. UNCHANGED <<quota, log, server, seq, last, pipe, socket, session, link, data, removal>>
      BY <2>4 DEF ClockSetBack, stream
    <3>2. clock' \in Nat
      BY <1>1, <2>4 DEF ClockSetBack
    <3>3. adjusted' \in BOOLEAN
      BY <2>4 DEF ClockSetBack
    <3> QED BY <1>0, <3>1, <3>2, <3>3 DEF HostStepTyped, HostTypeOK, StreamTypeOK
  <2>5. CASE HostRestart
    <3>1. PublishTasks(0, EmptyBoard) /\ quota' \in Nat
      BY <1>1, <2>5 DEF HostRestart
    <3>2. UNCHANGED <<adjusted, pipe, socket, session, link, data, removal>>
      BY <2>5 DEF HostRestart
    <3>3. ServerEnds(1..opened)
      BY <2>5 DEF HostRestart
    <3>4. HostTypeOK' /\ Len(log') = Len(log) + 1
      BY <1>0, <1>2, <3>1, <3>2, PublishType DEF HostTypeOK
    <3>5. StreamTypeOK'
      BY <1>0, <3>2, <3>3, ServerEndsTypes DEF StreamTypeOK
    <3> QED BY <3>2, <3>4, <3>5 DEF HostStepTyped
  <2> QED BY <2>1, <2>2, <2>3, <2>4, <2>5 DEF Publishing
<1>4. FramesPublished' /\ SocketTypeOK' /\ SessionTypeOK' /\ RepositoryTypeOK'
  BY <1>3, LongerLog DEF HostStepTyped
<1> QED BY <1>3, <1>4 DEF Typed, TypeOK, HostStepTyped

-----------------------------------------------------------------------------
(* The host's end of a connection.                                         *)

(* What a pipe holds after a frame was put into it.                        *)
LEMMA EnqueuedFrames ==
  ASSUME StreamTypeOK, NEW n \in Sessions, NEW f \in Frame, Enqueue(n, f)
  PROVE  /\ pipe' \in [Sessions -> Seq(Frame)]
         /\ \A m \in Sessions : \A k \in 1..Len(pipe'[m]) :
              pipe'[m][k] = f \/ \E j \in 1..Len(pipe[m]) : pipe'[m][k] = pipe[m][j]
<1>1. pipe \in [Sessions -> Seq(Frame)] /\ pipe[n] \in Seq(Frame)
  BY DEF StreamTypeOK
<1>2. pipe' = [pipe EXCEPT ![n] = Append(pipe[n], f)]
  BY DEF Enqueue
<1>3. /\ Append(pipe[n], f) \in Seq(Frame)
      /\ Len(Append(pipe[n], f)) = Len(pipe[n]) + 1
      /\ \A k \in 1..Len(pipe[n]) : Append(pipe[n], f)[k] = pipe[n][k]
      /\ Append(pipe[n], f)[Len(pipe[n]) + 1] = f
  BY <1>1, AppendProperties
<1>4. ASSUME NEW m \in Sessions, NEW k \in 1..Len(pipe'[m])
      PROVE  pipe'[m][k] = f \/ \E j \in 1..Len(pipe[m]) : pipe'[m][k] = pipe[m][j]
  <2>1. CASE m # n
    BY <1>1, <1>2, <1>4, <2>1
  <2>2. CASE m = n
    <3>1. pipe'[m] = Append(pipe[n], f)
      BY <1>1, <1>2, <2>2
    <3>2. CASE k = Len(pipe[n]) + 1
      BY <3>1, <3>2, <1>3
    <3>3. CASE k # Len(pipe[n]) + 1
      <4>1. k \in 1..Len(pipe[n])
        BY <3>1, <3>3, <1>1, <1>3, <1>4, LenProperties
      <4> QED BY <4>1, <3>1, <1>3, <2>2
    <3> QED BY <3>2, <3>3
  <2> QED BY <2>1, <2>2
<1> QED BY <1>1, <1>2, <1>3, <1>4

LEMMA Enqueued ==
  ASSUME Typed, NEW n \in Sessions, NEW f \in Frame, Named(f), Enqueue(n, f)
  PROVE  /\ pipe' \in [Sessions -> Seq(Frame)]
         /\ \A m \in Sessions : \A k \in 1..Len(pipe'[m]) : Named(pipe'[m][k])
BY EnqueuedFrames DEF Typed, TypeOK, FramesPublished

LEMMA ServingTypes ==
  ASSUME Typed, NEW n \in Sessions, Serving(n) \/ ConnectionLost(n)
  PROVE  Typed'
<1>0. TypeOK /\ HostTypeOK /\ StreamTypeOK /\ Len(log) \in Nat \ {0}
  BY LogFacts DEF Typed, TypeOK
<1>1. UNCHANGED <<host, socket, session, link, data, removal>>
  BY DEF Serving, ServerHello, SendSnapshot, Heartbeat, ConnectionLost
<1>2. HostTypeOK' /\ SocketTypeOK' /\ SessionTypeOK' /\ RepositoryTypeOK'
  BY <1>0, <1>1 DEF TypeOK, HostTypeOK, SocketTypeOK, SessionTypeOK, RepositoryTypeOK,
                    host, socket, session, link, data, removal
<1>3. \A m \in Sessions : Applying(m)' => hand'[m].tasks \in 1..Len(log')
  BY <1>1 DEF Typed, FramesPublished, Applying, session, host
<1>4. Count(n) => seq' \in [Sessions -> Nat]
  <2>1. seq[n] \in Nat /\ seq \in [Sessions -> Nat]
    BY <1>0 DEF StreamTypeOK
  <2> QED BY <2>1 DEF Count
<1>5. server' \in [Sessions -> {"none", "greeting", "streaming", "closed"}]
  BY <1>0, ServerEndsTypes DEF StreamTypeOK, Serving, ServerHello, SendSnapshot, Heartbeat,
                               ConnectionLost
<1>6. StreamTypeOK' /\ \A m \in Sessions : \A k \in 1..Len(pipe'[m]) : Named(pipe'[m][k])
  <2>1. CASE ServerHello(n)
    <3>1. Named(HelloFrame)
      BY HelloIsFrame DEF Named
    <3>2. /\ pipe' \in [Sessions -> Seq(Frame)]
          /\ \A m \in Sessions : \A k \in 1..Len(pipe'[m]) : Named(pipe'[m][k])
      BY <2>1, <3>1, HelloIsFrame, Enqueued DEF ServerHello
    <3>3. UNCHANGED <<seq, last>>
      BY <2>1 DEF ServerHello
    <3> QED BY <1>0, <1>5, <3>2, <3>3 DEF StreamTypeOK
  <2>2. CASE SendSnapshot(n)
    <3> DEFINE f == [type |-> "snapshot", seq |-> seq[n], at |-> clock,
                     quota |-> quota, tasks |-> Len(log)]
    <3>1. f \in Frame
      BY <1>0 DEF Frame, HostTypeOK, StreamTypeOK
    <3>2. Named(f)
      BY <1>0 DEF Named
    <3>3. Enqueue(n, f)
      BY <2>2 DEF SendSnapshot
    <3> HIDE DEF f
    <3>4. /\ pipe' \in [Sessions -> Seq(Frame)]
          /\ \A m \in Sessions : \A k \in 1..Len(pipe'[m]) : Named(pipe'[m][k])
      BY <3>1, <3>2, <3>3, Enqueued
    <3>5. seq' \in [Sessions -> Nat]
      BY <1>4, <2>2 DEF SendSnapshot
    <3>6. last' \in [Sessions -> Nat \X Nat]
      BY <1>0, <2>2 DEF SendSnapshot, Payload, StreamTypeOK, HostTypeOK
    <3> QED BY <1>5, <3>4, <3>5, <3>6 DEF StreamTypeOK
  <2>3. CASE Heartbeat(n)
    <3> DEFINE f == [type |-> "heartbeat", seq |-> seq[n], at |-> 0,
                     quota |-> 0, tasks |-> 0]
    <3>1. f \in Frame
      BY <1>0 DEF Frame, HostTypeOK, StreamTypeOK
    <3>2. Named(f)
      BY DEF Named
    <3>3. Enqueue(n, f)
      BY <2>3 DEF Heartbeat
    <3> HIDE DEF f
    <3>4. /\ pipe' \in [Sessions -> Seq(Frame)]
          /\ \A m \in Sessions : \A k \in 1..Len(pipe'[m]) : Named(pipe'[m][k])
      BY <3>1, <3>2, <3>3, Enqueued
    <3>5. seq' \in [Sessions -> Nat] /\ last' = last
      BY <1>4, <2>3 DEF Heartbeat
    <3> QED BY <1>0, <1>5, <3>4, <3>5 DEF StreamTypeOK
  <2>4. CASE ConnectionLost(n)
    <3>1. ServerEnds({n}) /\ pipe' = pipe
      BY <2>4 DEF ConnectionLost
    <3>2. seq' \in [Sessions -> Nat] /\ last' \in [Sessions -> Nat \X Nat]
      BY <1>0, <3>1, ServerEndsTypes
    <3> QED BY <1>0, <1>5, <3>1, <3>2 DEF StreamTypeOK, Typed, FramesPublished
  <2> QED BY <2>1, <2>2, <2>3, <2>4 DEF Serving
<1>7. FramesPublished'
  BY <1>1, <1>3, <1>6 DEF FramesPublished, Named, Applying, host
<1> QED BY <1>2, <1>6, <1>7 DEF Typed, TypeOK

-----------------------------------------------------------------------------
(* The phone's client.                                                     *)

LEMMA ConnectTypes ==
  ASSUME Typed, Connect \/ Reconnect
  PROVE  Typed'
<1>0. /\ HostTypeOK /\ StreamTypeOK /\ SocketTypeOK /\ SessionTypeOK /\ RepositoryTypeOK
      /\ opened \in Nat
  BY DEF Typed, TypeOK, SocketTypeOK
<1>1. UNCHANGED <<clock, adjusted, log, quota, seq, last, pipe, refused, ended, finished,
                  greeted, nextSeq, stage, hand, phoneQuota, source, newest,
                  hidden, pending, removed>>
  BY DEF Connect, Reconnect, host, stream, session, data, removal
<1>2. server' \in [Sessions -> {"none", "greeting", "streaming", "closed"}]
  BY <1>0 DEF StreamTypeOK, Connect, Reconnect, stream
<1>3. opened' \in 0..MaxSessions /\ cancelled' \subseteq Sessions
  <2>1. CASE Connect
    BY <1>0, <2>1 DEF SocketTypeOK, Connect
  <2>2. CASE Reconnect
    <3>1. opened \in Sessions /\ opened' = opened /\ cancelled' = cancelled \cup {opened}
      BY <1>0, <2>2 DEF Reconnect, Sessions
    <3> QED BY <1>0, <3>1 DEF SocketTypeOK
  <2> QED BY <2>1, <2>2
<1>4. connected' \in BOOLEAN
  BY <1>0 DEF RepositoryTypeOK, Connect, Reconnect, link
<1>5. taskFloor' \in Nat
  BY <1>0 DEF RepositoryTypeOK, Connect, Reconnect, link
<1>6. HostTypeOK' /\ StreamTypeOK' /\ SocketTypeOK' /\ SessionTypeOK'
  BY <1>0, <1>1, <1>2, <1>3 DEF HostTypeOK, StreamTypeOK, SocketTypeOK, SessionTypeOK
<1>7. RepositoryTypeOK'
  BY <1>0, <1>1, <1>4, <1>5 DEF RepositoryTypeOK
<1>8. FramesPublished'
  BY <1>1 DEF Typed, FramesPublished, Named, Applying
<1> QED BY <1>6, <1>7, <1>8 DEF Typed, TypeOK

LEMMA EndingTypes ==
  ASSUME Typed, NEW n \in Sessions, Ending(n)
  PROVE  Typed'
<1>0. /\ HostTypeOK /\ StreamTypeOK /\ SocketTypeOK /\ SessionTypeOK /\ RepositoryTypeOK
  BY DEF Typed, TypeOK
<1>1. UNCHANGED <<clock, adjusted, log, quota, opened, cancelled, refused,
                  stage, hand, phoneQuota, source, newest, hidden, pending, removed>>
  BY DEF Ending, LastCallback, FinallyBlock, Disconnect, host, stream, data, removal
<1>2. /\ greeted' = greeted \ {n} /\ nextSeq' = [nextSeq EXCEPT ![n] = 0]
      /\ connected' = FALSE /\ taskFloor' = 0
  BY DEF Ending, LastCallback, FinallyBlock, Disconnect
<1>3. pipe' = pipe \/ pipe' = [pipe EXCEPT ![n] = <<>>]
  BY DEF Ending, LastCallback, FinallyBlock, stream
<1>4. /\ server' \in [Sessions -> {"none", "greeting", "streaming", "closed"}]
      /\ seq' \in [Sessions -> Nat] /\ last' \in [Sessions -> Nat \X Nat]
  <2>1. ServerEnds({n}) \/ UNCHANGED <<server, seq, last>>
    BY DEF Ending, LastCallback, FinallyBlock, stream
  <2> QED BY <1>0, <2>1, ServerEndsTypes DEF StreamTypeOK
<1>5. ended' \subseteq Sessions /\ finished' \subseteq Sessions
  BY <1>0 DEF SocketTypeOK, Ending, LastCallback, FinallyBlock
<1>6. pipe' \in [Sessions -> Seq(Frame)]
  <2>1. <<>> \in Seq(Frame) /\ pipe \in [Sessions -> Seq(Frame)]
    BY <1>0, EmptySeq DEF StreamTypeOK
  <2> QED BY <1>3, <2>1
<1>7. \A m \in Sessions : \A k \in 1..Len(pipe'[m]) : Named(pipe'[m][k])
  <2>1. SUFFICES ASSUME NEW m \in Sessions, NEW k \in 1..Len(pipe'[m])
                 PROVE  Named(pipe'[m][k])
    OBVIOUS
  <2>2. CASE pipe'[m] = pipe[m]
    BY <2>1, <2>2 DEF Typed, FramesPublished
  <2>3. CASE pipe'[m] = <<>>
    BY <2>1, <2>3, EmptySeq
  <2> QED BY <1>0, <1>3, <2>2, <2>3 DEF StreamTypeOK
<1>8. HostTypeOK' /\ StreamTypeOK' /\ SocketTypeOK' /\ SessionTypeOK' /\ RepositoryTypeOK'
  <2>1. HostTypeOK' /\ StreamTypeOK' /\ SocketTypeOK'
    BY <1>0, <1>1, <1>4, <1>5, <1>6 DEF HostTypeOK, StreamTypeOK, SocketTypeOK
  <2>2. SessionTypeOK' /\ RepositoryTypeOK'
    BY <1>0, <1>1, <1>2 DEF SessionTypeOK, RepositoryTypeOK
  <2> QED BY <2>1, <2>2
<1>9. FramesPublished'
  BY <1>1, <1>7 DEF Typed, FramesPublished, Named, Applying
<1> QED BY <1>8, <1>9 DEF Typed, TypeOK

LEMMA RestartTypes ==
  ASSUME Typed, PhoneRestart
  PROVE  Typed'
<1>0. /\ HostTypeOK /\ StreamTypeOK /\ SocketTypeOK /\ SessionTypeOK /\ RepositoryTypeOK
      /\ Len(log) \in Nat
  BY LogFacts DEF Typed, TypeOK
<1>1. HostTypeOK'
  BY <1>0 DEF HostTypeOK, PhoneRestart, host
<1>2. StreamTypeOK'
  <2>1. pipe' \in [Sessions -> Seq(Frame)]
    BY EmptySeq DEF PhoneRestart
  <2>2. ServerEnds(1..opened)
    BY DEF PhoneRestart
  <2> QED BY <1>0, <2>1, <2>2, ServerEndsTypes DEF StreamTypeOK
<1>3. SocketTypeOK'
  BY <1>0 DEF SocketTypeOK, PhoneRestart, Sessions
<1>4. SessionTypeOK'
  BY HelloIsFrame DEF SessionTypeOK, PhoneRestart
<1>5. RepositoryTypeOK'
  <2>1. UNCHANGED <<log, newest, hidden, removed>>
    BY DEF PhoneRestart, host
  <2>2. pending' \in [Convs -> Nat]
    BY DEF PhoneRestart, EmptyBoard
  <2>3. connected' = FALSE /\ taskFloor' = 0 /\ phoneQuota' = 0 /\ source' = 0
    BY DEF PhoneRestart
  <2>4. connected' \in BOOLEAN
    BY <2>3
  <2>5. source' \in 0..Len(log') /\ newest' \in 0..Len(log')
    BY <1>0, <2>1, <2>3 DEF RepositoryTypeOK
  <2> QED BY <1>0, <2>1, <2>2, <2>3, <2>4, <2>5 DEF RepositoryTypeOK
<1>6. FramesPublished'
  <2>1. \A m \in Sessions : pipe'[m] = <<>> /\ stage'[m] = "idle"
    BY DEF PhoneRestart
  <2> QED BY <2>1, EmptySeq DEF FramesPublished, Applying
<1> QED BY <1>1, <1>2, <1>3, <1>4, <1>5, <1>6 DEF Typed, TypeOK

-----------------------------------------------------------------------------
(* Reading and applying a frame.                                           *)

LEMMA TookFrames ==
  ASSUME StreamTypeOK, NEW n \in Sessions, Take(n)
  PROVE  /\ pipe' \in [Sessions -> Seq(Frame)]
         /\ \A m \in Sessions : \A k \in 1..Len(pipe'[m]) :
              \E j \in 1..Len(pipe[m]) : pipe'[m][k] = pipe[m][j]
         /\ Head(pipe[n]) \in Frame
         /\ \E j \in 1..Len(pipe[n]) : Head(pipe[n]) = pipe[n][j]
<1>1. pipe[n] # <<>> /\ pipe \in [Sessions -> Seq(Frame)]
  BY DEF StreamTypeOK, Take
<1>2. pipe' = [pipe EXCEPT ![n] = Tail(pipe[n])]
  BY DEF Take
<1>3. Tail(pipe[n]) \in Seq(Frame) /\ Head(pipe[n]) \in Frame
  BY <1>1, TakenFrame
<1>4. \E j \in 1..Len(pipe[n]) : Head(pipe[n]) = pipe[n][j]
  BY <1>1, TakenFrame
<1>5. ASSUME NEW m \in Sessions, NEW k \in 1..Len(pipe'[m])
      PROVE  \E j \in 1..Len(pipe[m]) : pipe'[m][k] = pipe[m][j]
  <2>1. CASE m # n
    BY <1>1, <1>2, <1>5, <2>1
  <2>2. CASE m = n
    <3>1. pipe'[m] = Tail(pipe[n])
      BY <1>1, <1>2, <2>2
    <3>2. k + 1 \in 1..Len(pipe[n]) /\ pipe'[m][k] = pipe[n][k + 1]
      BY <1>1, <1>5, <3>1, TakenFrame
    <3> QED BY <2>2, <3>2
  <2> QED BY <2>1, <2>2
<1> QED BY <1>1, <1>2, <1>3, <1>4, <1>5

LEMMA Took ==
  ASSUME Typed, NEW n \in Sessions, Take(n)
  PROVE  /\ pipe' \in [Sessions -> Seq(Frame)]
         /\ \A m \in Sessions : \A k \in 1..Len(pipe'[m]) : Named(pipe'[m][k])
         /\ Head(pipe[n]) \in Frame /\ Named(Head(pipe[n]))
BY TookFrames DEF Typed, TypeOK, FramesPublished

LEMMA InHandTypes ==
  ASSUME SessionTypeOK, NEW n \in Sessions, NEW f \in Frame,
         NEW next \in {"idle", "hello", "quota", "tasks"}, InHand(n, f, next)
  PROVE  /\ stage' \in [Sessions -> {"idle", "hello", "quota", "tasks"}]
         /\ hand' \in [Sessions -> Frame]
         /\ stage'[n] = next /\ hand'[n] = f
         /\ \A m \in Sessions \ {n} : stage'[m] = stage[m] /\ hand'[m] = hand[m]
BY DEF SessionTypeOK, InHand

LEMMA LinkTypes ==
  ASSUME RepositoryTypeOK, MarkConnected \/ UNCHANGED link
  PROVE  connected' \in BOOLEAN /\ taskFloor' \in Nat
<1>1. connected' \in BOOLEAN
  BY DEF RepositoryTypeOK, MarkConnected, link
<1>2. taskFloor' \in Nat
  <2>1. CASE MarkConnected
    BY <2>1 DEF MarkConnected, RepositoryTypeOK
  <2>2. CASE UNCHANGED link
    BY <2>2 DEF link, RepositoryTypeOK
  <2> QED BY <2>1, <2>2
<1> QED BY <1>1, <1>2

(* What a frame being taken changes: the session and the link.             *)
LEMMA TakeTypes ==
  ASSUME Typed, NEW n \in Sessions,
         \/ TakeHello(n) \/ TakeHeartbeat(n) \/ IgnoreHeartbeat(n)
         \/ TakeSnapshot(n) \/ RefuseSnapshot(n)
  PROVE  Typed'
<1>0. /\ HostTypeOK /\ StreamTypeOK /\ SocketTypeOK /\ SessionTypeOK /\ RepositoryTypeOK
  BY DEF Typed, TypeOK
<1>1. /\ Take(n)
      /\ UNCHANGED <<clock, adjusted, log, quota, server, seq, last, opened, cancelled,
                     ended, finished, phoneQuota, source, newest, hidden, pending, removed>>
  BY DEF TakeHello, TakeHeartbeat, IgnoreHeartbeat, TakeSnapshot, RefuseSnapshot,
         host, socket, data, removal
<1>2. /\ pipe' \in [Sessions -> Seq(Frame)]
      /\ \A m \in Sessions : \A k \in 1..Len(pipe'[m]) : Named(pipe'[m][k])
      /\ Head(pipe[n]) \in Frame /\ Named(Head(pipe[n]))
  BY <1>1, Took
<1>3. Head(pipe[n]).seq \in Nat
  BY <1>2, FrameFields
<1>4. HostTypeOK' /\ StreamTypeOK'
  BY <1>0, <1>1, <1>2 DEF HostTypeOK, StreamTypeOK
<1>5. refused' \subseteq Sessions
  BY <1>0 DEF SocketTypeOK, socket, TakeHello, TakeHeartbeat, IgnoreHeartbeat,
              TakeSnapshot, RefuseSnapshot
<1>6. SocketTypeOK'
  BY <1>0, <1>1, <1>5 DEF SocketTypeOK
<1>7. greeted' \subseteq Sessions
  BY <1>0 DEF SessionTypeOK, session, TakeHello, TakeHeartbeat, IgnoreHeartbeat,
              TakeSnapshot, RefuseSnapshot
<1>8. nextSeq' \in [Sessions -> Nat]
  BY <1>0, <1>3 DEF SessionTypeOK, session, Accept, TakeHello, TakeHeartbeat, IgnoreHeartbeat,
              TakeSnapshot, RefuseSnapshot
<1>9. connected' \in BOOLEAN /\ taskFloor' \in Nat
  <2>1. CASE TakeHello(n)
    BY <2>1 DEF TakeHello
  <2>2. CASE ~TakeHello(n)
    <3>1. MarkConnected \/ UNCHANGED link
      BY <2>2 DEF Accept, TakeHeartbeat, IgnoreHeartbeat, TakeSnapshot, RefuseSnapshot
    <3> QED BY <1>0, <3>1, LinkTypes
  <2> QED BY <2>1, <2>2
<1>10. RepositoryTypeOK'
  BY <1>0, <1>1, <1>9 DEF RepositoryTypeOK
<1>11. /\ stage' \in [Sessions -> {"idle", "hello", "quota", "tasks"}]
       /\ hand' \in [Sessions -> Frame]
       /\ \A m \in Sessions : Applying(m)' => hand'[m].tasks \in 1..Len(log)
  <2>0. \A m \in Sessions : Applying(m) => hand[m].tasks \in 1..Len(log)
    BY DEF Typed, FramesPublished
  <2>1. CASE TakeHello(n)
    <3>1. InHand(n, HelloFrame, "hello")
      BY <2>1 DEF TakeHello
    <3> QED BY <1>0, <2>0, <3>1, HelloIsFrame, InHandTypes DEF Applying
  <2>2. CASE TakeSnapshot(n)
    <3>1. InHand(n, Head(pipe[n]), "quota") /\ Head(pipe[n]).type = "snapshot"
      BY <2>2 DEF TakeSnapshot
    <3>2. Head(pipe[n]).tasks \in 1..Len(log)
      BY <1>2, <3>1 DEF Named
    <3> QED BY <1>0, <1>2, <2>0, <3>1, <3>2, InHandTypes DEF Applying
  <2>3. CASE TakeHeartbeat(n) \/ IgnoreHeartbeat(n) \/ RefuseSnapshot(n)
    <3>1. UNCHANGED <<stage, hand>>
      BY <2>3 DEF TakeHeartbeat, IgnoreHeartbeat, RefuseSnapshot, session
    <3> QED BY <1>0, <2>0, <3>1 DEF Applying, SessionTypeOK
  <2> QED BY <2>1, <2>2, <2>3
<1>12. SessionTypeOK' /\ FramesPublished'
  <2>1. SessionTypeOK'
    BY <1>7, <1>8, <1>11 DEF SessionTypeOK
  <2>2. FramesPublished'
    BY <1>1, <1>2, <1>11 DEF FramesPublished, Named, Applying
  <2> QED BY <2>1, <2>2
<1> QED BY <1>4, <1>6, <1>10, <1>12 DEF Typed, TypeOK

LEMMA MarkersType ==
  ASSUME HostTypeOK, NEW i \in 0..Len(log), NEW markers \in [Convs -> Nat],
         VisibleTasks(markers, i)
  PROVE  hidden' \in [Convs -> Nat]
BY DEF VisibleTasks

LEMMA ApplyTypes ==
  ASSUME Typed, NEW n \in Sessions,
         FinishHello(n) \/ IngestQuota(n) \/ IngestTasks(n) \/ IgnoreTasks(n)
  PROVE  Typed'
<1>0. /\ HostTypeOK /\ StreamTypeOK /\ SocketTypeOK /\ SessionTypeOK /\ RepositoryTypeOK
      /\ hand[n] \in Frame
  BY DEF Typed, TypeOK, SessionTypeOK
<1>1. UNCHANGED <<clock, adjusted, log, quota, server, seq, last, pipe, opened, cancelled,
                  refused, ended, finished, greeted, nextSeq, pending, removed>>
  BY DEF FinishHello, IngestQuota, IngestTasks, IgnoreTasks, host, stream, socket, removal
<1>2. HostTypeOK' /\ StreamTypeOK' /\ SocketTypeOK'
  BY <1>0, <1>1 DEF HostTypeOK, StreamTypeOK, SocketTypeOK
<1>3. /\ stage' \in [Sessions -> {"idle", "hello", "quota", "tasks"}]
      /\ hand' \in [Sessions -> Frame]
      /\ \A m \in Sessions : Applying(m)' => hand'[m].tasks \in 1..Len(log)
  <2>0. \A m \in Sessions : Applying(m) => hand[m].tasks \in 1..Len(log)
    BY DEF Typed, FramesPublished
  <2>1. CASE FinishHello(n) \/ IngestTasks(n) \/ IgnoreTasks(n)
    <3>1. InHand(n, HelloFrame, "idle")
      BY <2>1 DEF FinishHello, IngestTasks, IgnoreTasks
    <3> QED BY <1>0, <2>0, <3>1, HelloIsFrame, InHandTypes DEF Applying
  <2>2. CASE IngestQuota(n)
    <3>1. InHand(n, hand[n], "tasks") /\ Applying(n)
      BY <2>2 DEF IngestQuota, Applying
    <3> QED BY <1>0, <2>0, <3>1, InHandTypes DEF Applying
  <2> QED BY <2>1, <2>2
<1>4. SessionTypeOK' /\ FramesPublished'
  <2>1. SessionTypeOK'
    BY <1>0, <1>1, <1>3 DEF SessionTypeOK
  <2>2. FramesPublished'
    BY <1>1, <1>3 DEF Typed, FramesPublished, Named, Applying
  <2> QED BY <2>1, <2>2
<1>5. RepositoryTypeOK'
  <2>1. CASE FinishHello(n) \/ IgnoreTasks(n)
    <3>1. UNCHANGED <<phoneQuota, source, newest, hidden>> /\ (MarkConnected \/ UNCHANGED link)
      BY <2>1 DEF FinishHello, IgnoreTasks, data, removal
    <3>2. connected' \in BOOLEAN /\ taskFloor' \in Nat
      BY <1>0, <3>1, LinkTypes
    <3> QED BY <1>0, <1>1, <3>1, <3>2 DEF RepositoryTypeOK
  <2>2. CASE IngestQuota(n)
    <3>1. UNCHANGED <<source, newest, hidden>> /\ (MarkConnected \/ UNCHANGED link)
      BY <2>2 DEF IngestQuota, removal
    <3>2. connected' \in BOOLEAN /\ taskFloor' \in Nat
      BY <1>0, <3>1, LinkTypes
    <3>3. phoneQuota' \in {phoneQuota, hand[n].quota}
      BY <2>2 DEF IngestQuota
    <3>4. phoneQuota' \in Nat
      BY <1>0, <3>3, FrameFields DEF RepositoryTypeOK
    <3> QED BY <1>0, <1>1, <3>1, <3>2, <3>4 DEF RepositoryTypeOK
  <2>3. CASE IngestTasks(n)
    <3> DEFINE i == hand[n].tasks
    <3>1. i \in 1..Len(log)
      BY <2>3 DEF IngestTasks, Applying, Typed, FramesPublished
    <3>2. log[i].sequence \in Nat
      BY <1>0, <3>1, LogFacts, SnapshotFields
    <3>3. /\ connected' = TRUE /\ taskFloor' = log[i].sequence + 1
          /\ source' = i /\ newest' = i /\ phoneQuota' = phoneQuota
          /\ VisibleTasks(hidden, i)
      BY <2>3 DEF IngestTasks
    <3> HIDE DEF i
    <3>4. hidden' \in [Convs -> Nat]
      BY <1>0, <3>1, <3>3, MarkersType DEF RepositoryTypeOK
    <3>5. connected' \in BOOLEAN
      BY <3>3
    <3>6. source' \in 0..Len(log') /\ newest' \in 0..Len(log') /\ taskFloor' \in Nat
      BY <1>0, <1>1, <3>1, <3>2, <3>3, LogFacts
    <3> QED BY <1>0, <1>1, <3>3, <3>4, <3>5, <3>6 DEF RepositoryTypeOK
  <2> QED BY <2>1, <2>2, <2>3
<1> QED BY <1>2, <1>4, <1>5 DEF Typed, TypeOK

-----------------------------------------------------------------------------
(* The task screen.                                                        *)

LEMMA BoardType ==
  ASSUME HostTypeOK, RepositoryTypeOK
  PROVE  Board \in [Convs -> Nat]
<1>1. BoardOf(source) \in [Convs -> Nat]
  BY BoardTypes DEF RepositoryTypeOK
<1> QED BY <1>1 DEF Board

LEMMA ScreenTypes ==
  ASSUME Typed, Screen
  PROVE  Typed'
<1>0. /\ HostTypeOK /\ StreamTypeOK /\ SocketTypeOK /\ SessionTypeOK /\ RepositoryTypeOK
      /\ Board \in [Convs -> Nat] /\ EmptyBoard \in [Convs -> Nat]
  BY BoardType DEF Typed, TypeOK, EmptyBoard
<1>1. UNCHANGED <<host, stream, socket, session, link, data>>
  BY DEF Screen, OpenDialog, DismissDialog, RemoveTaskFromBoard
<1>2. HostTypeOK' /\ StreamTypeOK' /\ SocketTypeOK' /\ SessionTypeOK'
  BY <1>0, <1>1 DEF HostTypeOK, StreamTypeOK, SocketTypeOK, SessionTypeOK,
                    host, stream, socket, session
<1>3. FramesPublished'
  BY <1>1 DEF Typed, FramesPublished, Named, Applying, host, stream, session
<1> DEFINE RemovalTypes ==
      hidden' \in [Convs -> Nat] /\ pending' \in [Convs -> Nat] /\ removed' \in [Convs -> Nat]
<1>4. RemovalTypes
  <2>0. hidden \in [Convs -> Nat] /\ pending \in [Convs -> Nat] /\ removed \in [Convs -> Nat]
    BY <1>0 DEF RepositoryTypeOK
  <2>1. ASSUME NEW c \in Convs, OpenDialog(c)
        PROVE  RemovalTypes
    BY <1>0, <2>0, <2>1 DEF OpenDialog
  <2>2. CASE DismissDialog
    BY <1>0, <2>0, <2>2 DEF DismissDialog
  <2>3. ASSUME NEW c \in Convs, RemoveTaskFromBoard(c)
        PROVE  RemovalTypes
    <3>1. pending' = EmptyBoard
      BY <2>3 DEF RemoveTaskFromBoard
    <3>2. CASE Board[c] = 0
      BY <1>0, <2>0, <2>3, <3>1, <3>2 DEF RemoveTaskFromBoard
    <3>3. CASE Board[c] # 0
      <4>1. /\ VisibleTasks([hidden EXCEPT ![c] = Board[c]], source)
            /\ removed' = [removed EXCEPT ![c] = Board[c]]
        BY <2>3, <3>3 DEF RemoveTaskFromBoard
      <4>2. [hidden EXCEPT ![c] = Board[c]] \in [Convs -> Nat] /\ removed' \in [Convs -> Nat]
        BY <1>0, <2>0, <4>1
      <4>3. hidden' \in [Convs -> Nat]
        BY <1>0, <4>1, <4>2, MarkersType DEF RepositoryTypeOK
      <4> QED BY <1>0, <3>1, <4>2, <4>3
    <3> QED BY <3>2, <3>3
  <2> QED BY <2>1, <2>2, <2>3 DEF Screen
<1>5. RepositoryTypeOK'
  BY <1>0, <1>1, <1>4 DEF RepositoryTypeOK, link, data, host
<1> QED BY <1>2, <1>3, <1>5 DEF Typed, TypeOK

-----------------------------------------------------------------------------
LEMMA InitTyped == Init => Typed
<1> SUFFICES ASSUME Init PROVE Typed
  OBVIOUS
<1> DEFINE s == [generatedAt |-> 1, sequence |-> 0, board |-> EmptyBoard]
<1>1. EmptyBoard \in [Convs -> Nat]
  BY DEF EmptyBoard
<1>2. s \in TaskSnapshot /\ log = <<s>>
  BY <1>1 DEF Init, TaskSnapshot
<1>3. log \in Seq(TaskSnapshot) /\ Len(log) = 1 /\ log # <<>>
  BY <1>2
<1>4. HostTypeOK
  BY <1>3 DEF Init, HostTypeOK
<1>5. StreamTypeOK
  BY EmptySeq DEF Init, StreamTypeOK
<1>6. SocketTypeOK /\ SessionTypeOK
  BY HelloIsFrame DEF Init, SocketTypeOK, SessionTypeOK
<1>7. RepositoryTypeOK
  <2>1. connected \in BOOLEAN
    BY DEF Init
  <2>2. source \in 0..Len(log) /\ newest \in 0..Len(log)
    BY <1>3 DEF Init
  <2>3. taskFloor \in Nat /\ phoneQuota \in Nat
    BY DEF Init
  <2>4. hidden \in [Convs -> Nat] /\ removed \in [Convs -> Nat] /\ pending \in [Convs -> Nat]
    BY <1>1 DEF Init
  <2> QED BY <2>1, <2>2, <2>3, <2>4 DEF RepositoryTypeOK
<1>8. FramesPublished
  <2>1. \A m \in Sessions : pipe[m] = <<>> /\ stage[m] = "idle"
    BY DEF Init
  <2> QED BY <2>1, EmptySeq DEF FramesPublished, Applying
<1> QED BY <1>4, <1>5, <1>6, <1>7, <1>8 DEF Typed, TypeOK

LEMMA StepTyped == Typed /\ [Next]_vars => Typed'
<1> SUFFICES ASSUME Typed, [Next]_vars PROVE Typed'
  OBVIOUS
<1>1. CASE Publishing \/ ClockSetBack \/ HostRestart
  BY <1>1, HostTypes
<1>2. CASE Connect \/ Reconnect
  BY <1>2, ConnectTypes
<1>3. CASE PhoneRestart
  BY <1>3, RestartTypes
<1>4. ASSUME NEW n \in Sessions, Serving(n) \/ Reading(n) \/ Ending(n) \/ ConnectionLost(n)
      PROVE  Typed'
  <2>1. CASE Serving(n) \/ ConnectionLost(n)
    BY <2>1, ServingTypes
  <2>2. CASE Ending(n)
    BY <2>2, EndingTypes
  <2>3. CASE Reading(n)
    BY <2>3, TakeTypes, ApplyTypes DEF Reading
  <2> QED BY <1>4, <2>1, <2>2, <2>3
<1>5. CASE Screen
  BY <1>5, ScreenTypes
<1>6. CASE UNCHANGED vars
  <2>1. UNCHANGED <<host, stream, socket, session, link, data, removal>>
    BY <1>6 DEF vars
  <2>2. HostTypeOK' /\ StreamTypeOK' /\ SocketTypeOK' /\ SessionTypeOK'
    BY <2>1 DEF Typed, TypeOK, HostTypeOK, StreamTypeOK, SocketTypeOK, SessionTypeOK,
                host, stream, socket, session
  <2>3. RepositoryTypeOK'
    BY <2>1 DEF Typed, TypeOK, RepositoryTypeOK, link, data, removal, host
  <2>4. FramesPublished'
    BY <2>1 DEF Typed, FramesPublished, Named, Applying, host, stream, session
  <2> QED BY <2>2, <2>3, <2>4 DEF Typed, TypeOK
<1> QED BY <1>1, <1>2, <1>3, <1>4, <1>5, <1>6 DEF Next

(* Every reachable state is well typed, and every frame on its way names a *)
(* snapshot that was published.                                            *)
THEOREM TypedHolds == Spec => []Typed
BY InitTyped, StepTyped, PTL DEF Spec

(* Type correctness of the phone's end of /sync.                           *)
THEOREM TypeCorrect == Spec => []TypeOK
BY TypedHolds, PTL DEF Typed
-----------------------------------------------------------------------------
(* Online by a session. The frame a session has in hand was taken after    *)
(* its hello, and disconnect() waits for it: so whoever sets the flag has  *)
(* its connection still.                                                   *)

BusyIsGreeted == \A n \in Sessions : stage[n] # "idle" => n \in greeted
OnlineInv == OnlineHasSession /\ BusyIsGreeted

LEMMA OnlineStep == Typed /\ OnlineInv /\ [Next]_vars => OnlineInv'
<1> SUFFICES ASSUME Typed, OnlineInv, [Next]_vars PROVE OnlineInv'
  OBVIOUS
<1>0. /\ greeted \subseteq Sessions
      /\ stage \in [Sessions -> {"idle", "hello", "quota", "tasks"}]
      /\ connected => greeted # {}
      /\ \A n \in Sessions : stage[n] # "idle" => n \in greeted
  BY DEF Typed, TypeOK, SessionTypeOK, OnlineInv, OnlineHasSession, BusyIsGreeted
<1>1. ASSUME UNCHANGED <<greeted, stage>>, connected' = connected \/ connected' = FALSE
      PROVE  OnlineInv'
  BY <1>0, <1>1 DEF OnlineInv, OnlineHasSession, BusyIsGreeted
<1>2. CASE Publishing \/ ClockSetBack \/ HostRestart
  <2>1. UNCHANGED <<session, link>>
    BY <1>2 DEF Publishing, TaskEvent, TitleArrives, QuotaTick, ClockSetBack, HostRestart
  <2> QED BY <1>1, <2>1 DEF session, link
<1>3. CASE Connect \/ Reconnect
  <2>1. UNCHANGED session /\ (connected' = connected \/ connected' = FALSE)
    BY <1>3 DEF Connect, Reconnect, link
  <2> QED BY <1>1, <2>1 DEF session
<1>4. CASE PhoneRestart
  BY <1>4 DEF PhoneRestart, OnlineInv, OnlineHasSession, BusyIsGreeted
<1>5. ASSUME NEW n \in Sessions, Serving(n) \/ ConnectionLost(n)
      PROVE  OnlineInv'
  <2>1. UNCHANGED <<session, link>>
    BY <1>5 DEF Serving, ServerHello, SendSnapshot, Heartbeat, ConnectionLost
  <2> QED BY <1>1, <2>1 DEF session, link
<1>6. ASSUME NEW n \in Sessions, Ending(n)
      PROVE  OnlineInv'
  <2>1. stage[n] = "idle" /\ stage' = stage /\ greeted' = greeted \ {n} /\ connected' = FALSE
    BY <1>6 DEF Ending, LastCallback, FinallyBlock, Disconnect
  <2> QED BY <1>0, <2>1 DEF OnlineInv, OnlineHasSession, BusyIsGreeted
<1>7. ASSUME NEW n \in Sessions, TakeHello(n)
      PROVE  OnlineInv'
  <2>1. /\ greeted' = greeted \cup {n} /\ connected' = FALSE
        /\ stage' = [stage EXCEPT ![n] = "hello"]
    BY <1>7 DEF TakeHello, InHand
  <2> QED BY <1>0, <2>1 DEF OnlineInv, OnlineHasSession, BusyIsGreeted
<1>8. ASSUME NEW n \in Sessions, NEW next, n \in greeted, greeted' = greeted,
             stage' = [stage EXCEPT ![n] = next]
      PROVE  OnlineInv'
  BY <1>0, <1>8 DEF OnlineInv, OnlineHasSession, BusyIsGreeted
<1>9. ASSUME NEW n \in Sessions, TakeHeartbeat(n) \/ TakeSnapshot(n)
      PROVE  OnlineInv'
  <2>1. n \in greeted /\ greeted' = greeted
    BY <1>9 DEF TakeHeartbeat, TakeSnapshot, Accept, InOrder
  <2>2. stage' = [stage EXCEPT ![n] = stage[n]] \/ stage' = [stage EXCEPT ![n] = "quota"]
    BY <1>0, <1>9 DEF TakeHeartbeat, TakeSnapshot, InHand
  <2> QED BY <1>8, <2>1, <2>2
<1>10. ASSUME NEW n \in Sessions, IgnoreHeartbeat(n) \/ RefuseSnapshot(n)
       PROVE  OnlineInv'
  <2>1. UNCHANGED <<session, link>>
    BY <1>10 DEF IgnoreHeartbeat, RefuseSnapshot
  <2> QED BY <1>1, <2>1 DEF session, link
<1>11. ASSUME NEW n \in Sessions,
              FinishHello(n) \/ IngestQuota(n) \/ IngestTasks(n) \/ IgnoreTasks(n)
       PROVE  OnlineInv'
  <2>1. n \in greeted /\ greeted' = greeted
    BY <1>0, <1>11 DEF FinishHello, IngestQuota, IngestTasks, IgnoreTasks
  <2>2. stage' = [stage EXCEPT ![n] = "idle"] \/ stage' = [stage EXCEPT ![n] = "tasks"]
    BY <1>11 DEF FinishHello, IngestQuota, IngestTasks, IgnoreTasks, InHand
  <2> QED BY <1>8, <2>1, <2>2
<1>12. CASE Screen
  <2>1. UNCHANGED <<session, link>>
    BY <1>12 DEF Screen, OpenDialog, DismissDialog, RemoveTaskFromBoard
  <2> QED BY <1>1, <2>1 DEF session, link
<1>13. CASE UNCHANGED vars
  BY <1>1, <1>13 DEF vars, session, link
<1> QED BY <1>2, <1>3, <1>4, <1>5, <1>6, <1>7, <1>9, <1>10, <1>11, <1>12, <1>13
        DEF Next, Reading

(* However frames, callbacks and restarts interleave, the phone is online  *)
(* only by a session that has its connection.                              *)
THEOREM OnlineHasSessionHolds == Spec => []OnlineHasSession
<1>1. Init => OnlineInv
  BY DEF Init, OnlineInv, OnlineHasSession, BusyIsGreeted
<1> QED BY <1>1, TypedHolds, OnlineStep, PTL DEF Spec, OnlineInv
-----------------------------------------------------------------------------
(* The snapshot shown never goes back, if the host's clock is not set      *)
(* back. Then generatedAt grows along the log, and a snapshot that Newer   *)
(* accepts is at least the one shown. A phone that shows none was not sent *)
(* anything yet or was restarted, which emptied its pipes: all it can      *)
(* still receive was sent later than what it once showed.                  *)

LogOrdered ==
  /\ \A i \in 1..Len(log) : log[i].generatedAt <= clock
  /\ \A i, j \in 1..Len(log) : i < j => log[i].generatedAt < log[j].generatedAt

Fresh(frame) == frame.type = "snapshot" => newest <= frame.tasks

NothingOlder ==
  /\ \A n \in Sessions : \A k \in 1..Len(pipe[n]) : Fresh(pipe[n][k])
  /\ \A n \in Sessions : Applying(n) => newest <= hand[n].tasks

ShownInv == (source = 0 /\ NothingOlder) \/ source = newest

OrderInv == LogOrdered /\ ShownInv

(* What the board makes of a step.                                         *)
FeedStep == [Feed!Next]_(Feed!vars)

(* A step that shows the board what it showed.                             *)
LEMMA FeedStutters ==
  ASSUME UNCHANGED <<source, newest>>, Len(log') = Len(log)
  PROVE  FeedStep
BY DEF FeedStep, Feed!vars

LEMMA OrderPublish ==
  ASSUME Typed, OrderInv, NEW number \in Nat, NEW board \in [Convs -> Nat],
         PublishTasks(number, board), UNCHANGED <<pipe, session, source, newest>>
  PROVE  OrderInv' /\ FeedStep
<1>1. /\ clock' = clock + 1 /\ clock \in Nat /\ Len(log) \in Nat /\ Len(log') = Len(log) + 1
      /\ \A i \in 1..Len(log) : log'[i] = log[i]
      /\ log'[Len(log) + 1].generatedAt = clock + 1
  BY PublishType, LogFacts DEF Typed, TypeOK, HostTypeOK, PublishTasks
<1>2. \A i \in 1..Len(log) : log[i].generatedAt \in Nat
  BY LogFacts, SnapshotFields DEF Typed, TypeOK
<1>3. \A i \in 1..Len(log') : i \in 1..Len(log) \/ i = Len(log) + 1
  BY <1>1
<1>4. LogOrdered'
  <2>1. ASSUME NEW i \in 1..Len(log')
        PROVE  log'[i].generatedAt <= clock'
    BY <1>1, <1>2, <1>3 DEF OrderInv, LogOrdered
  <2>2. ASSUME NEW i \in 1..Len(log'), NEW j \in 1..Len(log'), i < j
        PROVE  log'[i].generatedAt < log'[j].generatedAt
    <3>1. i \in 1..Len(log) /\ log'[i] = log[i]
      BY <1>1, <1>3, <2>2
    <3>2. CASE j \in 1..Len(log)
      BY <1>1, <2>2, <3>1, <3>2 DEF OrderInv, LogOrdered
    <3>3. CASE j = Len(log) + 1
      BY <1>1, <1>2, <3>1, <3>3 DEF OrderInv, LogOrdered
    <3> QED BY <1>3, <3>2, <3>3
  <2> QED BY <2>1, <2>2 DEF LogOrdered
<1>5. ShownInv'
  BY DEF OrderInv, ShownInv, NothingOlder, Fresh, Applying, session
<1>6. FeedStep
  BY <1>1 DEF FeedStep, Feed!Next, Feed!Publish
<1> QED BY <1>4, <1>5, <1>6 DEF OrderInv

LEMMA OrderHost ==
  ASSUME ~ClockStepsBack, Typed, OrderInv, Publishing \/ ClockSetBack \/ HostRestart
  PROVE  OrderInv' /\ FeedStep
<1>1. /\ Latest \in TaskSnapshot /\ Len(log) \in Nat /\ clock \in Nat
      /\ EmptyBoard \in [Convs -> Nat]
  BY LogFacts DEF Typed, TypeOK, Latest, HostTypeOK, EmptyBoard
<1>2. Latest.sequence + 1 \in Nat /\ Latest.board \in [Convs -> Nat]
  BY <1>1, SnapshotFields
<1>3. ASSUME NEW c \in Convs, TaskEvent(c)
      PROVE  OrderInv' /\ FeedStep
  <2>1. [Latest.board EXCEPT ![c] = Len(log) + 1] \in [Convs -> Nat]
    BY <1>1, <1>2
  <2>2. PublishTasks(Latest.sequence + 1, [Latest.board EXCEPT ![c] = Len(log) + 1])
    BY <1>3 DEF TaskEvent
  <2>3. UNCHANGED <<pipe, session, source, newest>>
    BY <1>3 DEF TaskEvent, stream, data
  <2> QED BY <1>2, <2>1, <2>2, <2>3, OrderPublish
<1>4. CASE TitleArrives
  <2>1. PublishTasks(Latest.sequence + 1, Latest.board)
    BY <1>4 DEF TitleArrives
  <2>2. UNCHANGED <<pipe, session, source, newest>>
    BY <1>4 DEF TitleArrives, stream, data
  <2> QED BY <1>2, <2>1, <2>2, OrderPublish
<1>5. CASE HostRestart
  <2>1. PublishTasks(0, EmptyBoard)
    BY <1>5 DEF HostRestart
  <2>2. UNCHANGED <<pipe, session, source, newest>>
    BY <1>5 DEF HostRestart, data
  <2> QED BY <1>1, <2>1, <2>2, OrderPublish
<1>6. CASE QuotaTick
  <2>1. UNCHANGED <<log, pipe, session, source, newest>> /\ clock' = clock + 1
    BY <1>6 DEF QuotaTick, stream, data
  <2>2. \A i \in 1..Len(log) : log[i].generatedAt \in Nat
    BY LogFacts, SnapshotFields DEF Typed, TypeOK
  <2>3. LogOrdered'
    BY <1>1, <2>1, <2>2 DEF OrderInv, LogOrdered
  <2>4. ShownInv'
    BY <2>1 DEF OrderInv, ShownInv, NothingOlder, Fresh, Applying, session
  <2> QED BY <2>1, <2>3, <2>4, FeedStutters DEF OrderInv
<1>7. CASE ClockSetBack
  BY <1>7 DEF ClockSetBack
<1> QED BY <1>3, <1>4, <1>5, <1>6, <1>7 DEF Publishing

(* Steps that show nothing new and leave the frames fresh.                 *)
LEMMA OrderKept ==
  ASSUME Typed, OrderInv, UNCHANGED <<host, source, newest>>,
         NothingOlder => NothingOlder'
  PROVE  OrderInv' /\ FeedStep
<1>1. UNCHANGED <<clock, log>>
  BY DEF host
<1>2. LogOrdered'
  BY <1>1 DEF OrderInv, LogOrdered
<1>3. ShownInv'
  BY DEF OrderInv, ShownInv
<1> QED BY <1>1, <1>2, <1>3, FeedStutters DEF OrderInv

LEMMA OrderServing ==
  ASSUME Typed, OrderInv, NEW n \in Sessions, Serving(n) \/ ConnectionLost(n)
  PROVE  OrderInv' /\ FeedStep
<1>0. StreamTypeOK /\ HostTypeOK /\ Len(log) \in Nat /\ newest \in 0..Len(log)
  BY LogFacts DEF Typed, TypeOK, RepositoryTypeOK
<1>1. UNCHANGED <<host, session, source, newest>>
  BY DEF Serving, ServerHello, SendSnapshot, Heartbeat, ConnectionLost, data
<1>2. ASSUME NEW f \in Frame, Fresh(f), Enqueue(n, f)
      PROVE  NothingOlder => NothingOlder'
  BY <1>0, <1>1, <1>2, EnqueuedFrames DEF NothingOlder, Fresh, Applying, session
<1>3. CASE ServerHello(n)
  <2>1. Enqueue(n, HelloFrame) /\ Fresh(HelloFrame)
    BY <1>3, HelloIsFrame DEF ServerHello, Fresh
  <2> QED BY <1>1, <1>2, <2>1, HelloIsFrame, OrderKept
<1> DEFINE f(type, at, q, t) == [type |-> type, seq |-> seq[n], at |-> at, quota |-> q, tasks |-> t]
<1>4. CASE SendSnapshot(n)
  <2>1. f("snapshot", clock, quota, Len(log)) \in Frame
    BY <1>0 DEF Frame, HostTypeOK, StreamTypeOK
  <2>2. Fresh(f("snapshot", clock, quota, Len(log)))
    BY <1>0 DEF Fresh
  <2>3. Enqueue(n, f("snapshot", clock, quota, Len(log)))
    BY <1>4 DEF SendSnapshot
  <2> QED BY <1>1, <1>2, <2>1, <2>2, <2>3, OrderKept
<1>5. CASE Heartbeat(n)
  <2>1. f("heartbeat", 0, 0, 0) \in Frame
    BY <1>0 DEF Frame, HostTypeOK, StreamTypeOK
  <2>2. Fresh(f("heartbeat", 0, 0, 0))
    BY DEF Fresh
  <2>3. Enqueue(n, f("heartbeat", 0, 0, 0))
    BY <1>5 DEF Heartbeat
  <2> QED BY <1>1, <1>2, <2>1, <2>2, <2>3, OrderKept
<1>6. CASE ConnectionLost(n)
  <2>1. NothingOlder => NothingOlder'
    BY <1>1, <1>6 DEF ConnectionLost, NothingOlder, Fresh, Applying, session
  <2> QED BY <1>1, <2>1, OrderKept
<1> QED BY <1>3, <1>4, <1>5, <1>6 DEF Serving

LEMMA OrderSockets ==
  ASSUME Typed, OrderInv,
         Connect \/ Reconnect \/ Screen \/ \E n \in Sessions : Ending(n)
  PROVE  OrderInv' /\ FeedStep
<1>1. CASE Connect \/ Reconnect \/ Screen
  <2>1. UNCHANGED <<host, pipe, session, source, newest>>
    BY <1>1 DEF Connect, Reconnect, Screen, OpenDialog, DismissDialog, RemoveTaskFromBoard,
                stream, data
  <2>2. NothingOlder => NothingOlder'
    BY <2>1 DEF NothingOlder, Fresh, Applying, session
  <2> QED BY <2>1, <2>2, OrderKept
<1>2. ASSUME NEW n \in Sessions, Ending(n)
      PROVE  OrderInv' /\ FeedStep
  <2>1. UNCHANGED <<host, stage, hand, source, newest>>
    BY <1>2 DEF Ending, LastCallback, FinallyBlock, Disconnect, data
  <2>2. \A m \in Sessions : pipe'[m] = pipe[m] \/ pipe'[m] = <<>>
    BY <1>2 DEF Ending, LastCallback, FinallyBlock, stream, Typed, TypeOK, StreamTypeOK
  <2>3. NothingOlder => NothingOlder'
    BY <2>1, <2>2, EmptySeq DEF NothingOlder, Fresh, Applying
  <2> QED BY <2>1, <2>3, OrderKept
<1> QED BY <1>1, <1>2

LEMMA OrderRestart ==
  ASSUME Typed, OrderInv, PhoneRestart
  PROVE  OrderInv' /\ FeedStep
<1>1. UNCHANGED <<clock, log, newest>> /\ source' = 0
  BY DEF PhoneRestart, host
<1>2. \A m \in Sessions : pipe'[m] = <<>> /\ stage'[m] = "idle"
  BY DEF PhoneRestart
<1>3. NothingOlder'
  BY <1>2, EmptySeq DEF NothingOlder, Applying
<1>4. LogOrdered'
  BY <1>1 DEF OrderInv, LogOrdered
<1>5. FeedStep
  BY <1>1 DEF FeedStep, Feed!Next, Feed!Forget
<1> QED BY <1>1, <1>3, <1>4, <1>5 DEF OrderInv, ShownInv

LEMMA OrderTake ==
  ASSUME Typed, OrderInv, NEW n \in Sessions,
         \/ TakeHello(n) \/ TakeHeartbeat(n) \/ IgnoreHeartbeat(n)
         \/ TakeSnapshot(n) \/ RefuseSnapshot(n)
  PROVE  OrderInv' /\ FeedStep
<1>0. StreamTypeOK /\ SessionTypeOK
  BY DEF Typed, TypeOK
<1>1. Take(n) /\ UNCHANGED <<host, source, newest>>
  BY DEF TakeHello, TakeHeartbeat, IgnoreHeartbeat, TakeSnapshot, RefuseSnapshot, data
<1>2. SUFFICES ASSUME NothingOlder PROVE NothingOlder'
  BY <1>1, OrderKept
<1>3. /\ \A m \in Sessions : \A k \in 1..Len(pipe'[m]) :
           \E j \in 1..Len(pipe[m]) : pipe'[m][k] = pipe[m][j]
      /\ Head(pipe[n]) \in Frame
      /\ \E j \in 1..Len(pipe[n]) : Head(pipe[n]) = pipe[n][j]
  BY <1>0, <1>1, TookFrames
<1>4. Fresh(Head(pipe[n]))
  BY <1>2, <1>3 DEF NothingOlder
<1>5. \A m \in Sessions : \A k \in 1..Len(pipe'[m]) : Fresh(pipe[m][k])' 
  BY <1>1, <1>2, <1>3 DEF NothingOlder, Fresh
<1>6. \A m \in Sessions : Applying(m)' => newest' <= hand'[m].tasks
  <2>0. \A m \in Sessions : Applying(m) => newest <= hand[m].tasks
    BY <1>2 DEF NothingOlder
  <2>1. CASE TakeHello(n)
    <3>1. InHand(n, HelloFrame, "hello")
      BY <2>1 DEF TakeHello
    <3> QED BY <1>0, <1>1, <2>0, <3>1, HelloIsFrame, InHandTypes DEF Applying
  <2>2. CASE TakeSnapshot(n)
    <3>1. InHand(n, Head(pipe[n]), "quota") /\ Head(pipe[n]).type = "snapshot"
      BY <2>2 DEF TakeSnapshot
    <3>2. newest <= Head(pipe[n]).tasks
      BY <1>4, <3>1 DEF Fresh
    <3> QED BY <1>0, <1>1, <1>3, <2>0, <3>1, <3>2, InHandTypes DEF Applying
  <2>3. CASE TakeHeartbeat(n) \/ IgnoreHeartbeat(n) \/ RefuseSnapshot(n)
    <3>1. UNCHANGED <<stage, hand>>
      BY <2>3 DEF TakeHeartbeat, IgnoreHeartbeat, RefuseSnapshot, session
    <3> QED BY <1>1, <2>0, <3>1 DEF Applying
  <2> QED BY <2>1, <2>2, <2>3
<1> QED BY <1>5, <1>6 DEF NothingOlder, Fresh

LEMMA OrderIngest ==
  ASSUME Typed, OrderInv, NEW n \in Sessions, IngestTasks(n)
  PROVE  OrderInv' /\ FeedStep
<1> DEFINE i == hand[n].tasks
<1>1. i \in 1..Len(log) /\ Len(log) \in Nat
  BY LogFacts DEF IngestTasks, Applying, Typed, TypeOK, FramesPublished
<1>2. Newer(i) /\ source' = i /\ newest' = i /\ UNCHANGED <<clock, log>>
  BY DEF IngestTasks, host
<1>3. newest \in 0..Len(log)
  BY DEF Typed, TypeOK, RepositoryTypeOK
<1>4. newest <= i
  <2>1. CASE source = 0 /\ NothingOlder
    BY <2>1 DEF NothingOlder, Applying, IngestTasks
  <2>2. CASE source = newest /\ source # 0
    <3>1. source \in 1..Len(log) /\ log[i].generatedAt >= log[source].generatedAt
      BY <1>2, <1>3, <2>2 DEF Newer
    <3>2. ~(i < source)
      <4>1. log[i].generatedAt \in Nat /\ log[source].generatedAt \in Nat
        BY <1>1, <3>1, LogFacts, SnapshotFields DEF Typed, TypeOK
      <4> QED BY <1>1, <3>1, <4>1 DEF OrderInv, LogOrdered
    <3> QED BY <1>1, <2>2, <3>1, <3>2
  <2>3. CASE source = newest /\ source = 0
    BY <1>1, <2>3
  <2> QED BY <2>1, <2>2, <2>3 DEF OrderInv, ShownInv
<1>5. FeedStep
  BY <1>1, <1>2, <1>4 DEF FeedStep, Feed!Next, Feed!Show
<1>6. LogOrdered' /\ ShownInv'
  BY <1>2 DEF OrderInv, LogOrdered, ShownInv
<1> QED BY <1>5, <1>6 DEF OrderInv

LEMMA OrderApply ==
  ASSUME Typed, OrderInv, NEW n \in Sessions,
         FinishHello(n) \/ IngestQuota(n) \/ IgnoreTasks(n)
  PROVE  OrderInv' /\ FeedStep
<1>0. SessionTypeOK /\ hand[n] \in Frame
  BY DEF Typed, TypeOK, SessionTypeOK
<1>1. UNCHANGED <<host, pipe, source, newest>>
  BY DEF FinishHello, IngestQuota, IgnoreTasks, stream, data
<1>2. SUFFICES ASSUME NothingOlder PROVE NothingOlder'
  BY <1>1, OrderKept
<1>3. \A m \in Sessions : Applying(m)' => newest <= hand'[m].tasks
  <2>0. \A m \in Sessions : Applying(m) => newest <= hand[m].tasks
    BY <1>2 DEF NothingOlder
  <2>1. CASE FinishHello(n) \/ IgnoreTasks(n)
    <3>1. InHand(n, HelloFrame, "idle")
      BY <2>1 DEF FinishHello, IgnoreTasks
    <3> QED BY <1>0, <2>0, <3>1, HelloIsFrame, InHandTypes DEF Applying
  <2>2. CASE IngestQuota(n)
    <3>1. InHand(n, hand[n], "tasks") /\ Applying(n)
      BY <2>2 DEF IngestQuota, Applying
    <3> QED BY <1>0, <2>0, <3>1, InHandTypes DEF Applying
  <2> QED BY <2>1, <2>2
<1> QED BY <1>1, <1>2, <1>3 DEF NothingOlder, Fresh, Applying

LEMMA OrderStep ==
  ASSUME ~ClockStepsBack
  PROVE  Typed /\ OrderInv /\ [Next]_vars => OrderInv' /\ FeedStep
<1> SUFFICES ASSUME Typed, OrderInv, [Next]_vars PROVE OrderInv' /\ FeedStep
  OBVIOUS
<1>1. CASE Publishing \/ ClockSetBack \/ HostRestart
  BY <1>1, OrderHost
<1>2. CASE Connect \/ Reconnect \/ Screen
  BY <1>2, OrderSockets
<1>3. CASE PhoneRestart
  BY <1>3, OrderRestart
<1>4. ASSUME NEW n \in Sessions, Serving(n) \/ Reading(n) \/ Ending(n) \/ ConnectionLost(n)
      PROVE  OrderInv' /\ FeedStep
  <2>1. CASE Serving(n) \/ ConnectionLost(n)
    BY <2>1, OrderServing
  <2>2. CASE Ending(n)
    BY <2>2, OrderSockets
  <2>3. CASE Reading(n)
    BY <2>3, OrderTake, OrderApply, OrderIngest DEF Reading
  <2> QED BY <1>4, <2>1, <2>2, <2>3
<1>5. CASE UNCHANGED vars
  <2>1. UNCHANGED <<host, pipe, session, source, newest>>
    BY <1>5 DEF vars, stream, data
  <2>2. NothingOlder => NothingOlder'
    BY <2>1 DEF NothingOlder, Fresh, Applying, session
  <2> QED BY <2>1, <2>2, OrderKept
<1> QED BY <1>1, <1>2, <1>3, <1>4, <1>5 DEF Next

LEMMA InitOrdered == Init => OrderInv /\ Feed!Init
<1> SUFFICES ASSUME Init PROVE OrderInv /\ Feed!Init
  OBVIOUS
<1> DEFINE s == [generatedAt |-> 1, sequence |-> 0, board |-> EmptyBoard]
<1>1. Len(log) = 1 /\ log[1].generatedAt = 1 /\ clock = 1
  BY DEF Init
<1>2. LogOrdered
  BY <1>1 DEF LogOrdered
<1>3. source = 0 /\ newest = 0
  BY DEF Init
<1> QED BY <1>1, <1>2, <1>3 DEF OrderInv, ShownInv, Feed!Init

(* If the host's clock is not set back, the phone implements TaskFeed: the *)
(* snapshot it shows is never older than one it showed before, whatever    *)
(* frames of old connections arrive and whoever is restarted.              *)
THEOREM NeverGoesBackHolds ==
  ASSUME ~ClockStepsBack
  PROVE  Spec => NeverGoesBack
<1>1. Typed /\ OrderInv /\ [Next]_vars => OrderInv' /\ [Feed!Next]_(Feed!vars)
  BY OrderStep DEF FeedStep
<1> QED BY <1>1, InitOrdered, TypedHolds, PTL DEF Spec, NeverGoesBack, Feed!Spec

-----------------------------------------------------------------------------
(* A removed version does not return, if the host's clock is not set back. *)
(* A task's versions grow along the log, except that a restarted host      *)
(* shows nothing of it at first. So once a version was removed, whatever   *)
(* is shown later is that version, and then its marker still hides it, or  *)
(* a greater one, and then the marker is needed no more.                   *)

VersionsGrow ==
  /\ \A i \in 1..Len(log) : \A c \in Convs : log[i].board[c] <= i
  /\ \A i, j \in 1..Len(log) : i <= j =>
       \A c \in Convs : log[j].board[c] = 0 \/ log[i].board[c] <= log[j].board[c]

Overtaken(c) == \E k \in 1..newest : log[k].board[c] > removed[c]

RemovalHolds(c) ==
  \/ removed[c] = 0
  \/ /\ \E k \in 1..newest : log[k].board[c] = removed[c]
     /\ hidden[c] = removed[c] \/ Overtaken(c)

RemovedInv == VersionsGrow /\ \A c \in Convs : RemovalHolds(c)

LEMMA VersionTypes ==
  ASSUME HostTypeOK
  PROVE  \A i \in 1..Len(log) : \A c \in Convs : log[i].board[c] \in Nat
<1> SUFFICES ASSUME NEW i \in 1..Len(log), NEW c \in Convs
             PROVE  log[i].board[c] \in Nat
  OBVIOUS
<1>1. log[i].board \in [Convs -> Nat]
  BY LogFacts, SnapshotFields
<1> QED BY <1>1

(* A new snapshot shows each task as it was, not at all, or anew.          *)
LEMMA VersionsPublish ==
  ASSUME Typed, VersionsGrow, NEW number \in Nat, NEW board \in [Convs -> Nat],
         PublishTasks(number, board),
         \A c \in Convs : board[c] \in {0, Latest.board[c], Len(log) + 1}
  PROVE  /\ VersionsGrow'
         /\ Len(log) \in Nat /\ Len(log') = Len(log) + 1
         /\ \A i \in 1..Len(log) : log'[i] = log[i]
<1> DEFINE s == [generatedAt |-> clock + 1, sequence |-> number, board |-> board]
           new == Len(log) + 1
<1>1. s \in TaskSnapshot /\ HostTypeOK /\ log' = Append(log, s)
  BY DEF Typed, TypeOK, HostTypeOK, TaskSnapshot, PublishTasks
<1>2. /\ Len(log) \in Nat \ {0} /\ Len(log') = new
      /\ \A i \in 1..Len(log) : log'[i] = log[i]
      /\ log'[new].board = board
  BY <1>1, LogFacts, AppendProperties DEF HostTypeOK
<1>3. \A i \in 1..Len(log) : \A c \in Convs : log[i].board[c] \in Nat
  BY <1>1, VersionTypes
<1>4. \A i \in 1..new : i = new \/ i \in 1..Len(log)
  BY <1>2
<1>5. ASSUME NEW c \in Convs
      PROVE  /\ board[c] \in Nat /\ board[c] <= new
             /\ \A i \in 1..Len(log) : board[c] = 0 \/ log[i].board[c] <= board[c]
  <2>1. Len(log) \in 1..Len(log) /\ Latest.board[c] = log[Len(log)].board[c]
    BY <1>2 DEF Latest
  <2>2. /\ Latest.board[c] \in Nat /\ Latest.board[c] <= Len(log)
        /\ \A i \in 1..Len(log) :
             /\ log[i].board[c] <= i
             /\ Latest.board[c] = 0 \/ log[i].board[c] <= Latest.board[c]
    BY <1>2, <1>3, <2>1 DEF VersionsGrow
  <2> QED BY <1>2, <1>3, <2>2
<1>6. ASSUME NEW i \in 1..new, NEW c \in Convs
      PROVE  log'[i].board[c] <= i
  BY <1>2, <1>4, <1>5 DEF VersionsGrow
<1>7. ASSUME NEW i \in 1..new, NEW j \in 1..new, i <= j, NEW c \in Convs
      PROVE  log'[j].board[c] = 0 \/ log'[i].board[c] <= log'[j].board[c]
  <2>1. CASE j = new /\ i = new
    BY <1>2, <1>5, <2>1
  <2>2. CASE j = new /\ i \in 1..Len(log)
    BY <1>2, <1>5, <2>2
  <2>3. CASE j \in 1..Len(log)
    <3>1. i \in 1..Len(log)
      BY <1>2, <1>7, <2>3
    <3> QED BY <1>2, <1>7, <2>3, <3>1 DEF VersionsGrow
  <2> QED BY <1>4, <2>1, <2>2, <2>3
<1>8. VersionsGrow'
  BY <1>2, <1>6, <1>7 DEF VersionsGrow
<1> QED BY <1>2, <1>8

LEMMA RemovedPublish ==
  ASSUME Typed, RemovedInv, NEW number \in Nat, NEW board \in [Convs -> Nat],
         PublishTasks(number, board),
         \A c \in Convs : board[c] \in {0, Latest.board[c], Len(log) + 1},
         UNCHANGED <<newest, hidden, removed>>
  PROVE  RemovedInv'
<1>1. /\ VersionsGrow' /\ Len(log) \in Nat
      /\ \A i \in 1..Len(log) : log'[i] = log[i]
  BY VersionsPublish DEF RemovedInv
<1>2. \A k \in 1..newest : k \in 1..Len(log)
  BY <1>1 DEF Typed, TypeOK, RepositoryTypeOK
<1> QED BY <1>1, <1>2 DEF RemovedInv, RemovalHolds, Overtaken

LEMMA RemovedHost ==
  ASSUME Typed, RemovedInv, Publishing \/ ClockSetBack \/ HostRestart
  PROVE  RemovedInv'
<1>1. /\ Latest.sequence + 1 \in Nat /\ Latest.board \in [Convs -> Nat]
      /\ EmptyBoard \in [Convs -> Nat] /\ Len(log) \in Nat
  BY LogFacts, SnapshotFields DEF Typed, TypeOK, Latest, EmptyBoard
<1>2. ASSUME NEW c \in Convs, TaskEvent(c)
      PROVE  RemovedInv'
  <2> DEFINE board == [Latest.board EXCEPT ![c] = Len(log) + 1]
  <2>1. board \in [Convs -> Nat] /\ \A d \in Convs : board[d] \in {Latest.board[d], Len(log) + 1}
    BY <1>1
  <2>2. PublishTasks(Latest.sequence + 1, board) /\ UNCHANGED <<newest, hidden, removed>>
    BY <1>2 DEF TaskEvent, data, removal
  <2> HIDE DEF board
  <2> QED BY <1>1, <2>1, <2>2, RemovedPublish
<1>3. CASE TitleArrives
  <2>1. PublishTasks(Latest.sequence + 1, Latest.board) /\ UNCHANGED <<newest, hidden, removed>>
    BY <1>3 DEF TitleArrives, data, removal
  <2> QED BY <1>1, <2>1, RemovedPublish
<1>4. CASE HostRestart
  <2>1. PublishTasks(0, EmptyBoard) /\ UNCHANGED <<newest, hidden, removed>>
    BY <1>4 DEF HostRestart, data, removal
  <2>2. \A c \in Convs : EmptyBoard[c] = 0
    BY DEF EmptyBoard
  <2> QED BY <1>1, <2>1, <2>2, RemovedPublish
<1>5. CASE QuotaTick \/ ClockSetBack
  <2>1. UNCHANGED <<log, newest, hidden, removed>>
    BY <1>5 DEF QuotaTick, ClockSetBack, data, removal
  <2> QED BY <2>1 DEF RemovedInv, VersionsGrow, RemovalHolds, Overtaken
<1> QED BY <1>2, <1>3, <1>4, <1>5 DEF Publishing

(* Showing snapshot i, no older than the newest one shown.                 *)
LEMMA RemovalFollows ==
  ASSUME Typed, RemovedInv, NEW c \in Convs, NEW i \in 1..Len(log), newest <= i,
         NEW markers \in [Convs -> Nat], markers[c] = hidden[c], VisibleTasks(markers, i),
         removed'[c] = removed[c], newest' = i, UNCHANGED log
  PROVE  RemovalHolds(c)'
<1>1. /\ newest \in Nat /\ i \in Nat \ {0} /\ removed[c] \in Nat /\ hidden[c] \in Nat
      /\ BoardOf(i) = log[i].board
  BY LogFacts DEF Typed, TypeOK, RepositoryTypeOK, BoardOf
<1>2. CASE removed[c] = 0
  BY <1>2 DEF RemovalHolds
<1>3. CASE removed[c] # 0
  <2>1. PICK k \in 1..newest : log[k].board[c] = removed[c]
    BY <1>3 DEF RemovedInv, RemovalHolds
  <2>2. k \in 1..newest' /\ k \in 1..Len(log) /\ k <= i /\ i \in 1..newest'
    BY <1>1, LogFacts DEF Typed, TypeOK
  <2>3. log[i].board[c] = 0 \/ removed[c] <= log[i].board[c]
    BY <2>1, <2>2 DEF RemovedInv, VersionsGrow
  <2>4. hidden'[c] = removed[c] \/ Overtaken(c)'
    <3>1. CASE Overtaken(c)
      <4>1. PICK m \in 1..newest : log[m].board[c] > removed[c]
        BY <3>1 DEF Overtaken
      <4>2. m \in 1..newest'
        BY <1>1
      <4> QED BY <4>1, <4>2 DEF Overtaken
    <3>2. CASE hidden[c] = removed[c]
      <4>1. CASE log[i].board[c] \in {0, markers[c]}
        BY <1>1, <3>2, <4>1 DEF VisibleTasks
      <4>2. CASE log[i].board[c] \notin {0, markers[c]}
        <5>1. log[i].board[c] \in Nat
          BY VersionTypes DEF Typed, TypeOK
        <5>2. log[i].board[c] > removed[c]
          BY <1>1, <2>3, <3>2, <4>2, <5>1
        <5> QED BY <2>2, <5>2 DEF Overtaken
      <4> QED BY <4>1, <4>2
    <3> QED BY <1>3, <3>1, <3>2 DEF RemovedInv, RemovalHolds
  <2> QED BY <2>1, <2>2, <2>4 DEF RemovalHolds
<1> QED BY <1>2, <1>3

LEMMA RemovedShow ==
  ASSUME Typed, OrderInv, OrderInv', RemovedInv, NEW n \in Sessions, IngestTasks(n), FeedStep
  PROVE  RemovedInv'
<1> DEFINE i == hand[n].tasks
<1>1. /\ i \in 1..Len(log) /\ source' = i /\ newest' = i /\ UNCHANGED <<log, removed>>
      /\ VisibleTasks(hidden, i) /\ hidden \in [Convs -> Nat] /\ newest \in Nat
  BY LogFacts DEF IngestTasks, Applying, Typed, TypeOK, FramesPublished, RepositoryTypeOK, host
<1> HIDE DEF i
<1>2. newest <= i
  BY <1>1, LogFacts DEF FeedStep, Feed!Next, Feed!Show, Feed!Publish, Feed!Forget, Feed!vars,
        Typed, TypeOK
<1>3. \A c \in Convs : RemovalHolds(c)'
  BY <1>1, <1>2, RemovalFollows
<1> QED BY <1>1, <1>3 DEF RemovedInv, VersionsGrow

LEMMA RemovedScreen ==
  ASSUME Typed, OrderInv, RemovedInv, Screen
  PROVE  RemovedInv'
<1>0. /\ UNCHANGED <<log, source, newest>> /\ HostTypeOK /\ newest \in 0..Len(log)
      /\ hidden \in [Convs -> Nat] /\ removed \in [Convs -> Nat] /\ Board \in [Convs -> Nat]
  BY BoardType DEF Screen, OpenDialog, DismissDialog, RemoveTaskFromBoard, host, data,
                   Typed, TypeOK, RepositoryTypeOK
<1>1. SUFFICES ASSUME NEW c \in Convs, RemoveTaskFromBoard(c), Board[c] # 0
               PROVE  RemovedInv'
  <2>1. CASE UNCHANGED <<hidden, removed>>
    BY <1>0, <2>1 DEF RemovedInv, VersionsGrow, RemovalHolds, Overtaken
  <2>2. \/ UNCHANGED <<hidden, removed>>
        \/ \E c \in Convs : RemoveTaskFromBoard(c) /\ Board[c] # 0
    BY DEF Screen, OpenDialog, DismissDialog, RemoveTaskFromBoard
  <2> QED BY <1>1, <2>1, <2>2
<1> DEFINE markers == [hidden EXCEPT ![c] = Board[c]]
<1>2. VisibleTasks(markers, source) /\ removed' = [removed EXCEPT ![c] = Board[c]]
  BY <1>1 DEF RemoveTaskFromBoard
<1>3. /\ markers \in [Convs -> Nat] /\ markers[c] = Board[c]
      /\ \A d \in Convs : d # c => markers[d] = hidden[d] /\ removed'[d] = removed[d]
      /\ removed'[c] = Board[c]
  BY <1>0, <1>2
<1> HIDE DEF markers
<1>4. BoardOf(source)[c] = Board[c]
  BY <1>1 DEF Board
<1>5. source # 0
  BY <1>1, <1>4 DEF BoardOf, EmptyBoard
<1>6. source = newest /\ source \in 1..Len(log) /\ BoardOf(source) = log[source].board
  BY <1>0, <1>5, LogFacts DEF OrderInv, ShownInv, BoardOf
<1>7. RemovalHolds(c)'
  <2>1. hidden'[c] = Board[c]
    BY <1>2, <1>3, <1>4 DEF VisibleTasks
  <2>2. source \in 1..newest' /\ log'[source].board[c] = removed'[c]
    BY <1>0, <1>3, <1>4, <1>6, LogFacts
  <2> QED BY <1>3, <2>1, <2>2 DEF RemovalHolds
<1>8. ASSUME NEW d \in Convs, d # c
      PROVE  RemovalHolds(d)'
  <2>1. newest <= source /\ newest' = source
    BY <1>0, <1>6, LogFacts
  <2> QED BY <1>0, <1>2, <1>3, <1>6, <1>8, <2>1, RemovalFollows
<1> QED BY <1>0, <1>7, <1>8 DEF RemovedInv, VersionsGrow

LEMMA RemovedStep ==
  ASSUME Typed, OrderInv, OrderInv', FeedStep, RemovedInv, [Next]_vars
  PROVE  RemovedInv'
<1>1. CASE Publishing \/ ClockSetBack \/ HostRestart
  BY <1>1, RemovedHost
<1>2. CASE Screen
  BY <1>2, RemovedScreen
<1>3. ASSUME NEW n \in Sessions, IngestTasks(n)
      PROVE  RemovedInv'
  BY <1>3, RemovedShow
<1>4. CASE UNCHANGED <<log, newest, hidden, removed>>
  BY <1>4 DEF RemovedInv, VersionsGrow, RemovalHolds, Overtaken
<1>5. ASSUME NEW n \in Sessions, Serving(n) \/ Reading(n) \/ Ending(n) \/ ConnectionLost(n),
             ~IngestTasks(n)
      PROVE  UNCHANGED <<log, newest, hidden, removed>>
  BY <1>5 DEF Serving, ServerHello, SendSnapshot, Heartbeat, ConnectionLost,
              Reading, TakeHello, FinishHello, TakeHeartbeat, IgnoreHeartbeat, TakeSnapshot,
              RefuseSnapshot, IngestQuota, IgnoreTasks,
              Ending, LastCallback, FinallyBlock, host, data, removal
<1>6. Connect \/ Reconnect \/ PhoneRestart \/ UNCHANGED vars
        => UNCHANGED <<log, newest, hidden, removed>>
  BY DEF Connect, Reconnect, PhoneRestart, vars, host, data, removal
<1> QED BY <1>1, <1>2, <1>3, <1>4, <1>5, <1>6 DEF Next

LEMMA RemovedHidden ==
  ASSUME Typed, OrderInv, RemovedInv
  PROVE  RemovedStaysRemoved
<1> SUFFICES ASSUME NEW c \in Convs, Board[c] # 0
             PROVE  Board[c] > removed[c]
  BY DEF RemovedStaysRemoved
<1>1. /\ HostTypeOK /\ newest \in 0..Len(log) /\ Len(log) \in Nat
      /\ hidden[c] \in Nat /\ removed[c] \in Nat /\ Board[c] \in Nat
  BY LogFacts, BoardType DEF Typed, TypeOK, RepositoryTypeOK
<1>2. BoardOf(source)[c] = Board[c] /\ Board[c] # hidden[c]
  BY DEF Board
<1>3. source # 0
  BY <1>2 DEF BoardOf, EmptyBoard
<1>4. source = newest /\ source \in 1..Len(log) /\ log[source].board[c] = Board[c]
  BY <1>1, <1>2, <1>3 DEF OrderInv, ShownInv, BoardOf
<1>5. \A k \in 1..newest : log[k].board[c] \in Nat /\ log[k].board[c] <= Board[c]
  BY <1>1, <1>4, VersionTypes DEF RemovedInv, VersionsGrow
<1>6. CASE removed[c] = 0
  BY <1>1, <1>6
<1>7. CASE removed[c] # 0
  BY <1>1, <1>2, <1>5, <1>7 DEF RemovedInv, RemovalHolds, Overtaken
<1> QED BY <1>6, <1>7

LEMMA InitRemoved == Init => RemovedInv
<1> SUFFICES ASSUME Init PROVE RemovedInv
  OBVIOUS
<1>1. Len(log) = 1 /\ log[1].board = EmptyBoard
  BY DEF Init
<1>2. \A c \in Convs : EmptyBoard[c] = 0
  BY DEF EmptyBoard
<1>3. \A i \in 1..Len(log) : i = 1
  BY <1>1
<1>4. VersionsGrow
  BY <1>1, <1>2, <1>3 DEF VersionsGrow
<1>5. \A c \in Convs : removed[c] = 0
  BY <1>2 DEF Init
<1> QED BY <1>4, <1>5 DEF RemovedInv, RemovalHolds

(* If the host's clock is not set back, a version removed from the board   *)
(* does not return, whichever connection or restart delivers it again.     *)
THEOREM RemovedStaysRemovedHolds ==
  ASSUME ~ClockStepsBack
  PROVE  Spec => []RemovedStaysRemoved
<1>1. Typed /\ OrderInv /\ [Next]_vars => OrderInv'
  BY OrderStep
<1>2. Typed /\ OrderInv /\ OrderInv' /\ RemovedInv /\ [Next]_vars => RemovedInv'
  <2> SUFFICES ASSUME Typed, OrderInv, OrderInv', RemovedInv, [Next]_vars
               PROVE  RemovedInv'
    OBVIOUS
  <2>1. FeedStep
    BY OrderStep
  <2> QED BY <2>1, RemovedStep
<1>3. Typed /\ OrderInv /\ RemovedInv => RemovedStaysRemoved
  BY RemovedHidden
<1> QED BY <1>1, <1>2, <1>3, InitOrdered, InitRemoved, TypedHolds, PTL DEF Spec
=============================================================================
