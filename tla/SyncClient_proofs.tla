-------------------------- MODULE SyncClient_proofs --------------------------
(***************************************************************************)
(* Machine-checked proofs about SyncClient, for any number of pairings,    *)
(* loops and failures. What is proved of calls that do not overlap has     *)
(* ~Overlaps among its assumptions: calls that overlap can leave two loops *)
(* alive (OldComputerIsLeft, which the code does not keep).                *)
(***************************************************************************)
EXTENDS SyncClient, TLAPS

USE ClientAssumption DEF ClientAssumption

(* A loop and a call are never at work for different pairings.             *)
LiveIsCurrent == \A l \in Loops : Live(l) => l = connectionJob
CurrentServes == connectionJob # 0 => with[connectionJob] = saved
ClosedInCall  == InCall => connectionJob = 0
MainServes    == main = "launching" => wanted = saved
PairServes    == \A p \in Pairings : pair[p] = "launching" => saved = Of(p)
OneCall ==
  /\ main = "launching" => \A p \in Pairings : pair[p] # "launching"
  /\ \A p, q \in Pairings : pair[p] = "launching" /\ pair[q] = "launching" => p = q
FreshStart == main = "boot" => \A p \in Pairings : pair[p] \in {"none", "done", "failed"}
Unused == \A l \in Loops : l > launched => loop[l] = "none" /\ l \notin cancelled
JobLaunched == connectionJob <= launched

CallInv == ClosedInCall /\ MainServes /\ PairServes /\ OneCall /\ FreshStart
LoopInv == LiveIsCurrent /\ CurrentServes /\ Unused /\ JobLaunched /\ CallInv

(* A socket that is up belongs to a loop that waits for it or has been     *)
(* cancelled, and then the socket is, too.                                 *)
Up == {"stillborn", "dialing", "open", "streaming"}
UpHasLoop     == \A l \in Loops : conn[l] \in Up => loop[l] \in {"waiting", "gone"}
GoneCancelled == \A l \in Loops : loop[l] = "gone" => l \in cancelled
GreetedUp     == \A l \in Loops : l \in greeted => conn[l] = "streaming"
ActiveUp      == activeWebSocket # 0 => conn[activeWebSocket] \in Up
CancelledDead == \A l \in Loops : l \in cancelled /\ conn[l] \in Up => l \in dead
SessionIsNew  == activeSession \in cancelled => conn[activeSession] \notin {"dialing", "open", "streaming"}

SocketInv == UpHasLoop /\ GoneCancelled /\ GreetedUp /\ ActiveUp /\ CancelledDead /\ SessionIsNew

-----------------------------------------------------------------------------
(* What the steps of each kind leave alone.                                *)

PairingStep(p) == Asking(p) \/ Mint(p) \/ Revoke(p)
LoopStep(l) == Loop(l) \/ Socket(l) \/ NetworkFails(l)

LEMMA PairingFrame ==
  ASSUME OpenLink \/ \E p \in Pairings : PairingStep(p)
  PROVE  UNCHANGED <<caller, active, elapsed, loops, sockets, counts, misdirected>>
BY DEF OpenLink, PairingStep, Asking, Mint, Revoke, EndpointFails, SaveCredentials, SaveEndpoint

LEMMA WatchdogFrame ==
  ASSUME Watchdog
  PROVE  UNCHANGED <<world, store, pairing, caller, active, loops, conn, greeted, counts>>
BY DEF Watchdog, WatchdogWaits, WatchdogSends, WatchdogStaysDue, sockets

LEMMA LoopFrame ==
  ASSUME NEW l \in Loops, LoopStep(l)
  PROVE  UNCHANGED <<world, store, pairing, caller, connectionJob, elapsed,
                     launched, with, cancelled, kills, misdirected>>
BY DEF LoopStep, Loop, Socket, NetworkFails, Enter, CreateSession, Dial, FinallyBlock,
       DelayEnds, Open, Greet, EndOfSocket, LastCallback, active, loops, sockets, counts

LEMMA OfType == \A p \in 0..MaxPairings : Of(p) \in Connections
BY DEF Of, Connections

-----------------------------------------------------------------------------
(* Type correctness.                                                       *)

LEMMA InitTypes == Init => TypeOK
<1> SUFFICES ASSUME Init PROVE TypeOK
  OBVIOUS
<1>1. NoConnection \in Connections
  BY OfType DEF NoConnection
<1>2. PairingTypeOK
  BY DEF Init, PairingTypeOK, Pairings, Stages
<1>3. CallerTypeOK
  BY <1>1 DEF Init, CallerTypeOK
<1>4. LoopTypeOK
  BY <1>1 DEF Init, LoopTypeOK
<1>5. CountTypeOK
  <2>1. failures \in 0..MaxFailures /\ kills \in 0..MaxKills
    BY DEF Init
  <2>2. misdirected \in BOOLEAN
    BY DEF Init
  <2> QED BY <2>1, <2>2 DEF CountTypeOK
<1> QED BY <1>2, <1>3, <1>4, <1>5 DEF TypeOK

LEMMA PairingTypes ==
  ASSUME TypeOK, OpenLink \/ \E p \in Pairings : PairingStep(p)
  PROVE  TypeOK'
<1>1. PairingTypeOK'
  <2> USE DEF TypeOK, PairingTypeOK, Pairings, Stages, world, store, pairing
  <2>1. CASE OpenLink
    BY <2>1 DEF OpenLink
  <2>2. ASSUME NEW p \in Pairings, EndpointFails(p) PROVE PairingTypeOK'
    <3>1. CASE tries[p] > 1
      BY <2>2, <3>1 DEF EndpointFails
    <3>2. CASE ~(tries[p] > 1)
      BY <2>2, <3>2 DEF EndpointFails
    <3> QED BY <3>1, <3>2
  <2>3. ASSUME NEW p \in Pairings, SaveCredentials(p) PROVE PairingTypeOK'
    BY <2>3 DEF SaveCredentials, Stage
  <2>6. ASSUME NEW p \in Pairings, SaveEndpoint(p) PROVE PairingTypeOK'
    BY <2>6 DEF SaveEndpoint, Stage
  <2>4. ASSUME NEW p \in Pairings, Mint(p) PROVE PairingTypeOK'
    BY <2>4 DEF Mint, Stage
  <2>5. ASSUME NEW p \in Pairings, Revoke(p) PROVE PairingTypeOK'
    BY <2>5 DEF Revoke
  <2> QED BY <2>1, <2>2, <2>3, <2>4, <2>5, <2>6 DEF PairingStep, Asking
<1> QED BY <1>1, PairingFrame DEF TypeOK, CallerTypeOK, LoopTypeOK, CountTypeOK,
              caller, active, loops, sockets, counts

LEMMA SendTypes ==
  ASSUME TypeOK, SendRefresh
  PROVE  dead' \subseteq Loops /\ misdirected' \in BOOLEAN
<1>1. dead' \subseteq Loops
  BY DEF SendRefresh, CanSend, TypeOK, CallerTypeOK, LoopTypeOK
<1>2. misdirected' \in BOOLEAN
  BY DEF SendRefresh, TypeOK, CountTypeOK
<1> QED BY <1>1, <1>2

LEMMA CloseTypes ==
  ASSUME TypeOK, CloseActiveConnection
  PROVE  /\ cancelled' \subseteq Loops /\ dead' \subseteq Loops
         /\ connectionJob' = 0 /\ activeWebSocket' = 0 /\ activeSession' = 0
BY DEF CloseActiveConnection, TypeOK, CallerTypeOK, LoopTypeOK

LEMMA LaunchTypes ==
  ASSUME TypeOK, NEW connection \in Connections, Launch(connection)
  PROVE  /\ launched' \in Loops \cup {0} /\ connectionJob' \in Loops
         /\ loop' = [loop EXCEPT ![launched'] = "ready"]
         /\ with' = [with EXCEPT ![launched'] = connection]
         /\ launched' = launched + 1 /\ connectionJob' = launched'
         /\ loop' \in [Loops -> {"none", "ready", "entered", "session", "waiting", "resumed",
                                 "delay", "gone"}]
         /\ with' \in [Loops -> Connections]
BY DEF Launch, Loops, TypeOK, LoopTypeOK

LEMMA CallTypes ==
  ASSUME TypeOK, Calls \/ RefreshSends \/ RefreshReconnects
  PROVE  TypeOK'
<1> USE DEF TypeOK, PairingTypeOK, CallerTypeOK, LoopTypeOK, CountTypeOK, world, store, pairing,
            caller, active, loops, sockets, counts
<1>1. CASE Boot
  <2>1. CASE storedToken = 0 \/ storedEndpoint = 0
    BY <1>1, <2>1 DEF Boot
  <2>2. CASE ~(storedToken = 0 \/ storedEndpoint = 0)
    <3> DEFINE connection == [token |-> storedToken, endpoint |-> storedEndpoint]
    <3>1. connection \in Connections
      BY DEF Connections
    <3>2. /\ main' = "launching" /\ wanted' = connection
          /\ saved' = connection /\ elapsed' = 0 /\ CloseActiveConnection
      BY <1>1, <2>2 DEF Boot, Start
    <3>3. UNCHANGED <<world, store, pairing, launched, loop, with, conn, greeted, counts, misdirected>>
      BY <1>1 DEF Boot
    <3> QED BY <3>1, <3>2, <3>3, CloseTypes
  <2> QED BY <2>1, <2>2
<1>2. CASE MainLaunch
  <2>1. NoConnection \in Connections
    BY OfType DEF NoConnection
  <2> QED BY <1>2, <2>1, LaunchTypes DEF MainLaunch, Launch
<1>3. ASSUME NEW p \in Pairings, StartPaired(p) PROVE TypeOK'
  <2>1. Of(p) \in Connections
    BY OfType DEF Pairings
  <2> QED BY <1>3, <2>1, CloseTypes DEF StartPaired, Start, Stage, Stages
<1>4. ASSUME NEW p \in Pairings, LaunchPaired(p) PROVE TypeOK'
  <2>1. Of(p) \in Connections
    BY OfType DEF Pairings
  <2>2. Launch(Of(p))
    BY <1>4 DEF LaunchPaired
  <2> QED BY <1>4, <2>1, <2>2, LaunchTypes DEF LaunchPaired, Launch, Stage, Stages
<1>5. CASE RefreshSends
  BY <1>5, SendTypes DEF RefreshSends
<1>6. CASE RefreshReconnects
  BY <1>6, CloseTypes DEF RefreshReconnects
<1> QED BY <1>1, <1>2, <1>3, <1>4, <1>5, <1>6 DEF Calls

LEMMA WatchdogTypes ==
  ASSUME TypeOK, Watchdog
  PROVE  TypeOK'
<1>1. elapsed' \in 0..Due /\ dead' \subseteq Loops /\ misdirected' \in BOOLEAN
  <2>1. CASE WatchdogWaits
    BY <2>1 DEF WatchdogWaits, TypeOK, CallerTypeOK, LoopTypeOK, CountTypeOK, sockets
  <2>2. CASE WatchdogSends
    BY <2>2, SendTypes DEF WatchdogSends
  <2>3. CASE WatchdogStaysDue
    BY <2>3 DEF WatchdogStaysDue, TypeOK, LoopTypeOK, CountTypeOK, sockets
  <2> QED BY <2>1, <2>2, <2>3 DEF Watchdog
<1> QED BY <1>1, WatchdogFrame DEF TypeOK, PairingTypeOK, CallerTypeOK, LoopTypeOK, CountTypeOK,
              world, store, pairing, caller, active, loops, counts

LEMMA LoopTypes ==
  ASSUME TypeOK, NEW l \in Loops, LoopStep(l)
  PROVE  TypeOK'
<1>1. /\ activeWebSocket' \in Loops \cup {0} /\ activeSession' \in Loops \cup {0}
      /\ loop' \in [Loops -> {"none", "ready", "entered", "session", "waiting", "resumed",
                              "delay", "gone"}]
      /\ conn' \in [Loops -> {"none", "stillborn", "dialing", "open", "streaming", "over"}]
      /\ dead' \subseteq Loops /\ greeted' \subseteq Loops
      /\ failures' \in 0..MaxFailures
  <2> USE DEF TypeOK, CallerTypeOK, LoopTypeOK, CountTypeOK, active, sockets, counts, loops
  <2>1. CASE Enter(l) BY <2>1 DEF Enter, At
  <2>2. CASE CreateSession(l) BY <2>2 DEF CreateSession, At
  <2>3. CASE Dial(l) BY <2>3 DEF Dial, At
  <2>4. CASE FinallyBlock(l) BY <2>4 DEF FinallyBlock
  <2>5. CASE DelayEnds(l) BY <2>5 DEF DelayEnds, At
  <2>6. CASE Open(l) BY <2>6 DEF Open
  <2>7. CASE Greet(l) BY <2>7 DEF Greet
  <2>8. CASE EndOfSocket(l) BY <2>8 DEF EndOfSocket, LastCallback
  <2>9. CASE NetworkFails(l) BY <2>9 DEF NetworkFails, LastCallback
  <2> QED BY <2>1, <2>2, <2>3, <2>4, <2>5, <2>6, <2>7, <2>8, <2>9 DEF LoopStep, Loop, Socket
<1> QED BY <1>1, LoopFrame DEF TypeOK, PairingTypeOK, CallerTypeOK, LoopTypeOK, CountTypeOK,
              world, store, pairing, caller

LEMMA KillTypes ==
  ASSUME TypeOK, Kill
  PROVE  TypeOK'
<1>1. NoConnection \in Connections
  BY OfType DEF NoConnection
<1>2. PairingTypeOK'
  BY DEF Kill, TypeOK, PairingTypeOK, Stages, world, store
<1>3. CallerTypeOK'
  BY <1>1 DEF Kill, CallerTypeOK
<1>4. LoopTypeOK'
  BY <1>1 DEF Kill, LoopTypeOK
<1>5. failures' \in 0..MaxFailures /\ kills' \in 0..MaxKills
  BY DEF Kill, TypeOK, CountTypeOK
<1>6. misdirected' \in BOOLEAN
  BY DEF Kill
<1> QED BY <1>2, <1>3, <1>4, <1>5, <1>6 DEF TypeOK, CountTypeOK

(* Every reachable state is well typed, whether calls overlap or not.      *)
THEOREM TypeCorrect == Spec => []TypeOK
<1>1. ASSUME TypeOK, [Next]_vars PROVE TypeOK'
  <2>1. CASE UNCHANGED vars
    BY <1>1, <2>1 DEF vars, TypeOK, PairingTypeOK, CallerTypeOK, LoopTypeOK, CountTypeOK,
                      world, store, pairing, caller, active, loops, sockets, counts
  <2>2. CASE Next
    BY <1>1, <2>2, CallTypes, WatchdogTypes, PairingTypes, KillTypes, LoopTypes
       DEF Next, PairingStep, LoopStep
  <2> QED BY <1>1, <2>1, <2>2
<1> QED BY <1>1, InitTypes, PTL DEF Spec

-----------------------------------------------------------------------------
(* One current loop, when calls do not overlap.                            *)

LEMMA AfterClose ==
  ASSUME TypeOK, LiveIsCurrent, Unused, JobLaunched, CloseActiveConnection,
         UNCHANGED <<launched, loop>>
  PROVE  LiveIsCurrent' /\ Unused' /\ JobLaunched' /\ CurrentServes' /\ connectionJob' = 0
<1>1. connectionJob' = 0 /\ cancelled' = cancelled \cup ({connectionJob} \ {0})
  BY DEF CloseActiveConnection
<1>2. LiveIsCurrent'
  BY <1>1 DEF LiveIsCurrent, Live, Loops
<1>3. Unused'
  BY <1>1 DEF Unused, JobLaunched, TypeOK, CallerTypeOK, LoopTypeOK, Loops
<1>4. JobLaunched'
  BY <1>1 DEF JobLaunched, TypeOK, LoopTypeOK, Loops
<1> QED BY <1>1, <1>2, <1>3, <1>4 DEF CurrentServes

LEMMA AfterLaunch ==
  ASSUME TypeOK, LiveIsCurrent, Unused, connectionJob = 0,
         NEW connection \in Connections, Launch(connection)
  PROVE  LiveIsCurrent' /\ Unused' /\ JobLaunched' /\ with'[connectionJob'] = connection
<1>1. /\ launched' = launched + 1 /\ launched' \in Loops /\ connectionJob' = launched'
      /\ loop' = [loop EXCEPT ![launched'] = "ready"]
      /\ with' = [with EXCEPT ![launched'] = connection]
      /\ cancelled' = cancelled
  BY LaunchTypes DEF Launch, Loops
<1>2. \A l \in Loops : ~Live(l)
  BY DEF LiveIsCurrent, Loops
<1>3. LiveIsCurrent'
  BY <1>1, <1>2 DEF LiveIsCurrent, Live, TypeOK, LoopTypeOK
<1>4. Unused'
  BY <1>1 DEF Unused, TypeOK, LoopTypeOK, Loops
<1>5. JobLaunched'
  BY <1>1 DEF JobLaunched, Loops
<1>6. with'[connectionJob'] = connection
  BY <1>1 DEF TypeOK, LoopTypeOK
<1> QED BY <1>3, <1>4, <1>5, <1>6

(* What a step may change without touching LoopInv.                        *)
LEMMA LoopInvStable ==
  ASSUME LoopInv,
         UNCHANGED <<connectionJob, launched, with, cancelled, main, wanted, saved, pair>>,
         \A l \in Loops : /\ loop[l] = "none" => loop'[l] = "none"
                          /\ loop[l] = "gone" => loop'[l] = "gone"
  PROVE  LoopInv'
<1>1. LiveIsCurrent'
  BY DEF LoopInv, LiveIsCurrent, Live
<1>2. Unused'
  BY DEF LoopInv, Unused
<1>3. CurrentServes' /\ JobLaunched' /\ CallInv'
  BY DEF LoopInv, CurrentServes, JobLaunched, CallInv, ClosedInCall, InCall, MainServes,
         PairServes, OneCall, FreshStart
<1> QED BY <1>1, <1>2, <1>3 DEF LoopInv

LEMMA PairingLoopInv ==
  ASSUME LoopInv, TypeOK, OpenLink \/ \E p \in Pairings : PairingStep(p)
  PROVE  LoopInv'
<1>1. UNCHANGED <<main, wanted, saved, connectionJob, launched, with, cancelled, loop>>
  BY PairingFrame DEF caller, active, loops
<1>2. /\ \A p \in Pairings : pair'[p] = "launching" => pair[p] = "launching"
      /\ main = "boot" => pair' = pair
  <2>1. CASE OpenLink
    BY <2>1 DEF OpenLink, TypeOK, PairingTypeOK
  <2>2. ASSUME NEW p \in Pairings, PairingStep(p) PROVE <1>2
    BY <2>2 DEF PairingStep, Asking, Mint, Revoke, EndpointFails, SaveCredentials,
                SaveEndpoint, Stage, TypeOK, PairingTypeOK, pairing, LoopInv, CallInv, FreshStart
  <2> QED BY <2>1, <2>2
<1>3. LiveIsCurrent' /\ CurrentServes' /\ Unused' /\ JobLaunched'
  BY <1>1 DEF LoopInv, LiveIsCurrent, Live, CurrentServes, Unused, JobLaunched
<1>4. CallInv'
  BY <1>1, <1>2 DEF LoopInv, CallInv, ClosedInCall, InCall, MainServes, PairServes, OneCall,
                    FreshStart
<1> QED BY <1>3, <1>4 DEF LoopInv
LEMMA CallLoopInv ==
  ASSUME ~Overlaps, LoopInv, TypeOK, Calls \/ RefreshSends \/ RefreshReconnects
  PROVE  LoopInv'
<1> USE DEF LoopInv, CallInv
<1>1. CASE Boot
  <2>1. CASE storedToken = 0 \/ storedEndpoint = 0
    <3>1. /\ main = "boot" /\ main' = "idle"
          /\ UNCHANGED <<wanted, saved, connectionJob, launched, loop, with, cancelled, pair>>
      BY <1>1, <2>1 DEF Boot, active, pairing
    <3>2. LiveIsCurrent' /\ CurrentServes' /\ Unused' /\ JobLaunched'
      BY <3>1 DEF LiveIsCurrent, Live, CurrentServes, Unused, JobLaunched
    <3>3. CallInv'
      BY <3>1 DEF ClosedInCall, InCall, MainServes, PairServes, OneCall, FreshStart
    <3> QED BY <3>2, <3>3
  <2>2. CASE ~(storedToken = 0 \/ storedEndpoint = 0)
    <3>1. /\ main = "boot" /\ main' = "launching" /\ saved' = wanted'
          /\ CloseActiveConnection /\ UNCHANGED <<launched, loop, pair>>
      BY <1>1, <2>2 DEF Boot, Start, pairing
    <3>2. LiveIsCurrent' /\ Unused' /\ JobLaunched' /\ CurrentServes' /\ connectionJob' = 0
      BY <3>1, AfterClose
    <3>3. CallInv'
      BY <3>1, <3>2 DEF ClosedInCall, InCall, MainServes, PairServes, OneCall, FreshStart
    <3> QED BY <3>2, <3>3
  <2> QED BY <2>1, <2>2
<1>2. CASE MainLaunch
  <2>1. /\ main = "launching" /\ main' = "idle" /\ Launch(wanted) /\ UNCHANGED <<pair, saved>>
    BY <1>2 DEF MainLaunch, pairing
  <2>2. connectionJob = 0 /\ wanted = saved /\ wanted \in Connections
    BY <2>1 DEF ClosedInCall, InCall, MainServes, TypeOK, CallerTypeOK
  <2>3. LiveIsCurrent' /\ Unused' /\ JobLaunched' /\ with'[connectionJob'] = wanted
    BY <2>1, <2>2, AfterLaunch
  <2>4. CurrentServes'
    BY <2>1, <2>2, <2>3 DEF CurrentServes
  <2>5. CallInv'
    BY <2>1 DEF ClosedInCall, InCall, MainServes, PairServes, OneCall, FreshStart
  <2> QED BY <2>3, <2>4, <2>5
<1>3. ASSUME NEW p \in Pairings, StartPaired(p) PROVE LoopInv'
  <2>1. /\ ~InCall /\ pair[p] = "stored" /\ pair' = [pair EXCEPT ![p] = "launching"]
        /\ saved' = Of(p) /\ CloseActiveConnection /\ UNCHANGED <<main, wanted, launched, loop>>
    BY <1>3 DEF StartPaired, MayCall, Stage, Start
  <2>2. LiveIsCurrent' /\ Unused' /\ JobLaunched' /\ CurrentServes' /\ connectionJob' = 0
    BY <2>1, AfterClose
  <2>3. \A q \in Pairings : pair'[q] = "launching" <=> q = p
    BY <2>1 DEF InCall, TypeOK, PairingTypeOK
  <2>4. main' # "launching" /\ main' # "boot"
    BY <2>1 DEF InCall, FreshStart
  <2>5. CallInv'
    BY <2>1, <2>2, <2>3, <2>4 DEF ClosedInCall, MainServes, PairServes, OneCall, FreshStart
  <2> QED BY <2>2, <2>5
<1>4. ASSUME NEW p \in Pairings, LaunchPaired(p) PROVE LoopInv'
  <2>1. /\ pair[p] = "launching" /\ pair' = [pair EXCEPT ![p] = "done"]
        /\ Launch(Of(p)) /\ UNCHANGED <<main, wanted, saved>>
    BY <1>4 DEF LaunchPaired, Stage, caller
  <2>2. connectionJob = 0 /\ saved = Of(p) /\ Of(p) \in Connections
    BY <2>1, OfType DEF ClosedInCall, InCall, PairServes, Pairings
  <2>3. LiveIsCurrent' /\ Unused' /\ JobLaunched' /\ with'[connectionJob'] = Of(p)
    BY <2>1, <2>2, AfterLaunch
  <2>4. CurrentServes'
    BY <2>1, <2>2, <2>3 DEF CurrentServes
  <2>5. main # "launching" /\ \A q \in Pairings : pair'[q] # "launching"
    BY <2>1 DEF OneCall, TypeOK, PairingTypeOK
  <2>6. FreshStart'
    BY <2>1 DEF FreshStart, TypeOK, PairingTypeOK
  <2>7. CallInv'
    BY <2>1, <2>5, <2>6 DEF ClosedInCall, InCall, MainServes, PairServes, OneCall
  <2> QED BY <2>3, <2>4, <2>7
<1>5. CASE RefreshSends
  BY <1>5, LoopInvStable DEF RefreshSends, caller, active, loops, pairing
<1>6. CASE RefreshReconnects
  <2>1. /\ ~InCall /\ main' = "launching" /\ wanted' = saved
        /\ CloseActiveConnection /\ UNCHANGED <<pair, saved, launched, loop>>
    BY <1>6 DEF RefreshReconnects, MayCall, pairing
  <2>2. LiveIsCurrent' /\ Unused' /\ JobLaunched' /\ CurrentServes' /\ connectionJob' = 0
    BY <2>1, AfterClose
  <2>3. CallInv'
    BY <2>1, <2>2 DEF ClosedInCall, InCall, MainServes, PairServes, OneCall, FreshStart
  <2> QED BY <2>2, <2>3
<1> QED BY <1>1, <1>2, <1>3, <1>4, <1>5, <1>6 DEF Calls

LEMMA LoopStepLoopInv ==
  ASSUME LoopInv, TypeOK, NEW l \in Loops, LoopStep(l)
  PROVE  LoopInv'
<1>1. \A k \in Loops : /\ loop[k] = "none" => loop'[k] = "none"
                       /\ loop[k] = "gone" => loop'[k] = "gone"
  BY DEF LoopStep, Loop, Socket, NetworkFails, Enter, CreateSession, Dial, FinallyBlock, At,
         DelayEnds, Open, Greet, EndOfSocket, LastCallback, loops, TypeOK, LoopTypeOK
<1> QED BY <1>1, LoopFrame, LoopInvStable DEF pairing, caller

LEMMA KillLoopInv ==
  ASSUME TypeOK, Kill
  PROVE  LoopInv'
<1>1. /\ main' = "boot" /\ connectionJob' = 0 /\ launched' = 0 /\ cancelled' = {}
      /\ \A l \in Loops : loop'[l] = "none"
      /\ \A p \in Pairings : pair'[p] \in {"none", "done", "failed"}
  BY DEF Kill
<1>2. LiveIsCurrent' /\ CurrentServes' /\ Unused' /\ JobLaunched'
  BY <1>1 DEF LiveIsCurrent, Live, CurrentServes, Unused, JobLaunched
<1>3. CallInv'
  BY <1>1 DEF CallInv, ClosedInCall, InCall, MainServes, PairServes, OneCall, FreshStart
<1> QED BY <1>2, <1>3 DEF LoopInv

THEOREM LoopInvHolds == ASSUME ~Overlaps PROVE Spec => []LoopInv
<1>1. Init => LoopInv
  BY DEF Init, LoopInv, LiveIsCurrent, Live, CurrentServes, Unused, JobLaunched,
         CallInv, ClosedInCall, InCall, MainServes, PairServes, OneCall, FreshStart
<1>2. ASSUME TypeOK, LoopInv, [Next]_vars PROVE LoopInv'
  <2>1. CASE UNCHANGED vars
    BY <1>2, <2>1, LoopInvStable DEF vars, caller, active, loops, pairing
  <2>2. CASE Calls \/ RefreshSends \/ RefreshReconnects
    BY <1>2, <2>2, CallLoopInv
  <2>3. CASE Watchdog
    BY <1>2, <2>3, WatchdogFrame, LoopInvStable DEF caller, active, loops, pairing
  <2>4. CASE OpenLink \/ \E p \in Pairings : PairingStep(p)
    BY <1>2, <2>4, PairingLoopInv
  <2>5. CASE Kill
    BY <1>2, <2>5, KillLoopInv
  <2>6. ASSUME NEW l \in Loops, LoopStep(l) PROVE LoopInv'
    BY <1>2, <2>6, LoopStepLoopInv
  <2> QED BY <1>2, <2>1, <2>2, <2>3, <2>4, <2>5, <2>6 DEF Next, PairingStep, LoopStep
<1> QED BY <1>1, <1>2, TypeCorrect, PTL DEF Spec

(* While calls do not overlap, the loop that is alive is the one launched  *)
(* last, and it serves the pairing that was started last.                  *)
THEOREM OneCurrentLoopHolds == ASSUME ~Overlaps PROVE Spec => []OneCurrentLoop
<1>1. LoopInv => OneCurrentLoop
  BY DEF LoopInv, LiveIsCurrent, CurrentServes, OneCurrentLoop, Loops
<1> QED BY <1>1, LoopInvHolds, PTL
-----------------------------------------------------------------------------
(* Refreshes go out over their own socket, when calls do not overlap.      *)

(* What a step may change without touching SocketInv.                      *)
LEMMA SocketInvStable ==
  ASSUME SocketInv, dead \subseteq dead', UNCHANGED <<active, loops, conn, greeted>>
  PROVE  SocketInv'
BY DEF SocketInv, UpHasLoop, GoneCancelled, GreetedUp, ActiveUp, CancelledDead, SessionIsNew,
       active, loops

(* A session that can send is that of the live loop, and a socket that is  *)
(* not its own is cancelled.                                               *)
LEMMA NoForeign ==
  ASSUME TypeOK, LoopInv, SocketInv, CanSend
  PROVE  ~Foreign
<1> DEFINE s == activeSession
           w == activeWebSocket
<1>1. s \in Loops /\ s \in greeted /\ w \in Loops
  BY DEF CanSend, TypeOK, CallerTypeOK, LoopTypeOK
<1>2. conn[s] = "streaming" /\ loop[s] \in {"waiting", "gone"}
  BY <1>1 DEF SocketInv, GreetedUp, UpHasLoop, Up
<1>3. s \notin cancelled
  BY <1>2 DEF SocketInv, SessionIsNew
<1>4. s = connectionJob
  BY <1>1, <1>2, <1>3 DEF SocketInv, GoneCancelled, LoopInv, LiveIsCurrent, Live
<1>5. conn[w] \in Up /\ loop[w] \in {"waiting", "gone"}
  BY <1>1 DEF SocketInv, ActiveUp, UpHasLoop, CanSend
<1>6. CASE w \in cancelled
  BY <1>1, <1>5, <1>6 DEF SocketInv, CancelledDead, Foreign
<1>7. CASE w \notin cancelled
  BY <1>1, <1>4, <1>5, <1>7 DEF SocketInv, GoneCancelled, LoopInv, LiveIsCurrent, Live, Foreign
<1> QED BY <1>6, <1>7

LEMMA CloseSockets ==
  ASSUME TypeOK, LoopInv, SocketInv, CloseActiveConnection, UNCHANGED <<loop, conn, greeted>>
  PROVE  SocketInv'
<1>1. /\ activeWebSocket' = 0 /\ activeSession' = 0
      /\ cancelled' = cancelled \cup ({connectionJob} \ {0})
      /\ dead \subseteq dead'
      /\ \A l \in Loops : l = connectionJob /\ loop[l] = "waiting" => l \in dead'
  BY DEF CloseActiveConnection
<1>2. cancelled' \subseteq Loops
  BY CloseTypes
<1>3. UpHasLoop' /\ GreetedUp' /\ ActiveUp'
  BY <1>1 DEF SocketInv, UpHasLoop, GreetedUp, ActiveUp
<1>4. GoneCancelled'
  BY <1>1 DEF SocketInv, GoneCancelled
<1>5. CancelledDead'
  BY <1>1 DEF SocketInv, CancelledDead, UpHasLoop, GoneCancelled
<1>6. SessionIsNew'
  BY <1>1, <1>2 DEF SessionIsNew, Loops
<1> QED BY <1>3, <1>4, <1>5, <1>6 DEF SocketInv

LEMMA LaunchSockets ==
  ASSUME TypeOK, LoopInv, SocketInv, NEW connection \in Connections, Launch(connection),
         UNCHANGED sockets
  PROVE  SocketInv'
<1>1. /\ launched' \in Loops /\ launched' > launched
      /\ loop' = [loop EXCEPT ![launched'] = "ready"]
      /\ UNCHANGED <<activeWebSocket, activeSession, cancelled, conn, dead, greeted>>
  BY LaunchTypes DEF Launch, sockets, TypeOK, LoopTypeOK, Loops
<1>2. loop[launched'] = "none"
  BY <1>1 DEF LoopInv, Unused
<1>3. UpHasLoop'
  BY <1>1, <1>2 DEF SocketInv, UpHasLoop, TypeOK, LoopTypeOK
<1>4. GoneCancelled'
  BY <1>1 DEF SocketInv, GoneCancelled, TypeOK, LoopTypeOK
<1>5. GreetedUp' /\ ActiveUp' /\ CancelledDead' /\ SessionIsNew'
  BY <1>1 DEF SocketInv, GreetedUp, ActiveUp, CancelledDead, SessionIsNew
<1> QED BY <1>3, <1>4, <1>5 DEF SocketInv

LEMMA CallSockets ==
  ASSUME TypeOK, LoopInv, SocketInv, Calls \/ RefreshSends \/ RefreshReconnects
  PROVE  SocketInv'
<1>1. CASE Boot
  <2>1. CASE storedToken = 0 \/ storedEndpoint = 0
    <3>1. UNCHANGED <<active, loops, conn, greeted>> /\ dead' = dead
      BY <1>1, <2>1 DEF Boot, loops
    <3> QED BY <3>1, SocketInvStable
  <2>2. CASE ~(storedToken = 0 \/ storedEndpoint = 0)
    BY <1>1, <2>2, CloseSockets DEF Boot, Start
  <2> QED BY <2>1, <2>2
<1>2. CASE MainLaunch
  BY <1>2, LaunchSockets DEF MainLaunch, TypeOK, CallerTypeOK
<1>3. ASSUME NEW p \in Pairings, StartPaired(p) PROVE SocketInv'
  BY <1>3, CloseSockets DEF StartPaired, Start
<1>4. ASSUME NEW p \in Pairings, LaunchPaired(p) PROVE SocketInv'
  <2>1. Of(p) \in Connections
    BY OfType DEF Pairings
  <2> QED BY <1>4, <2>1, LaunchSockets DEF LaunchPaired
<1>5. CASE RefreshSends
  BY <1>5, SocketInvStable DEF RefreshSends, SendRefresh
<1>6. CASE RefreshReconnects
  BY <1>6, CloseSockets DEF RefreshReconnects
<1> QED BY <1>1, <1>2, <1>3, <1>4, <1>5, <1>6 DEF Calls
LEMMA LoopStepSockets ==
  ASSUME TypeOK, SocketInv, NEW l \in Loops, LoopStep(l)
  PROVE  SocketInv'
<1> USE DEF SocketInv, UpHasLoop, GoneCancelled, GreetedUp, ActiveUp, CancelledDead, SessionIsNew,
            Up, TypeOK, CallerTypeOK, LoopTypeOK
<1>1. cancelled' = cancelled /\ 0 \notin cancelled
  BY LoopFrame DEF Loops
<1>2. CASE Enter(l)
  BY <1>1, <1>2 DEF Enter, At, active, sockets
<1>3. CASE CreateSession(l)
  BY <1>1, <1>3 DEF CreateSession, At, sockets
<1>4. CASE Dial(l)
  BY <1>1, <1>4 DEF Dial, At
<1>5. CASE FinallyBlock(l)
  BY <1>1, <1>5 DEF FinallyBlock
<1>6. CASE DelayEnds(l)
  BY <1>1, <1>6 DEF DelayEnds, At, active, sockets
<1>7. CASE Open(l)
  BY <1>1, <1>7 DEF Open, loops
<1>8. CASE Greet(l)
  BY <1>1, <1>8 DEF Greet, active, loops
<1>9. CASE EndOfSocket(l) \/ NetworkFails(l)
  <2>1. LastCallback(l) /\ conn[l] \in Up
    BY <1>9 DEF EndOfSocket, NetworkFails
  <2> QED BY <1>1, <2>1 DEF LastCallback
<1> QED BY <1>2, <1>3, <1>4, <1>5, <1>6, <1>7, <1>8, <1>9 DEF LoopStep, Loop, Socket

THEOREM SocketInvHolds == ASSUME ~Overlaps PROVE Spec => []SocketInv
<1>1. Init => SocketInv
  BY DEF Init, SocketInv, UpHasLoop, GoneCancelled, GreetedUp, ActiveUp, CancelledDead,
         SessionIsNew, Up
<1>2. ASSUME TypeOK, LoopInv, SocketInv, [Next]_vars PROVE SocketInv'
  <2>1. CASE UNCHANGED vars
    BY <1>2, <2>1, SocketInvStable DEF vars, sockets
  <2>2. CASE Calls \/ RefreshSends \/ RefreshReconnects
    BY <1>2, <2>2, CallSockets
  <2>3. CASE Watchdog
    <3>1. dead \subseteq dead'
      BY <2>3 DEF Watchdog, WatchdogWaits, WatchdogSends, WatchdogStaysDue, SendRefresh, sockets
    <3> QED BY <1>2, <2>3, <3>1, WatchdogFrame, SocketInvStable
  <2>4. CASE OpenLink \/ \E p \in Pairings : PairingStep(p)
    BY <1>2, <2>4, PairingFrame, SocketInvStable DEF sockets
  <2>5. CASE Kill
    BY <2>5 DEF Kill, SocketInv, UpHasLoop, GoneCancelled, GreetedUp, ActiveUp, CancelledDead,
                SessionIsNew, Up
  <2>6. ASSUME NEW l \in Loops, LoopStep(l) PROVE SocketInv'
    BY <1>2, <2>6, LoopStepSockets
  <2> QED BY <1>2, <2>1, <2>2, <2>3, <2>4, <2>5, <2>6 DEF Next, PairingStep, LoopStep
<1> QED BY <1>1, <1>2, TypeCorrect, LoopInvHolds, PTL DEF Spec

(* While calls do not overlap, no refresh request of the user or of the    *)
(* watchdog carries the connectionId of another connection.                *)
THEOREM RefreshIsOnOwnSocket == ASSUME ~Overlaps PROVE Spec => []RefreshOnOwnSocket
<1>1. Init => RefreshOnOwnSocket
  BY DEF Init, RefreshOnOwnSocket
<1>2. ASSUME TypeOK, LoopInv, SocketInv, RefreshOnOwnSocket, [Next]_vars
      PROVE  RefreshOnOwnSocket'
  <2> USE <1>2 DEF RefreshOnOwnSocket
  <2>1. CASE UNCHANGED vars
    BY <2>1 DEF vars
  <2>2. CASE RefreshSends \/ WatchdogSends
    <3>1. SendRefresh
      BY <2>2 DEF RefreshSends, WatchdogSends
    <3>2. ~Foreign
      BY <3>1, NoForeign DEF SendRefresh
    <3> QED BY <3>1, <3>2 DEF SendRefresh
  <2>3. CASE Calls \/ RefreshReconnects
    BY <2>3 DEF Calls, Boot, MainLaunch, StartPaired, LaunchPaired, RefreshReconnects
  <2>4. CASE WatchdogWaits \/ WatchdogStaysDue
    BY <2>4 DEF WatchdogWaits, WatchdogStaysDue
  <2>5. CASE OpenLink \/ \E p \in Pairings : PairingStep(p)
    BY <2>5, PairingFrame
  <2>6. CASE Kill
    BY <2>6 DEF Kill
  <2>7. ASSUME NEW l \in Loops, LoopStep(l) PROVE RefreshOnOwnSocket'
    BY <2>7, LoopFrame
  <2> QED BY <2>1, <2>2, <2>3, <2>4, <2>5, <2>6, <2>7
          DEF Next, Watchdog, PairingStep, LoopStep
<1> QED BY <1>1, <1>2, TypeCorrect, LoopInvHolds, SocketInvHolds, PTL DEF Spec
=============================================================================
