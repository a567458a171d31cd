----------------------------- MODULE SyncClient -----------------------------
(***************************************************************************)
(* The phone's connection loop: SyncWebSocketClient, with its callers in   *)
(* CodexQuotaApplication and the pairing client that feeds it.             *)
(*                                                                         *)
(* start() runs on an IO thread at the end of a pairing, refresh() and the *)
(* start at boot on the main thread. Both replace the loop: they cancel    *)
(* its job and the active socket (close), then launch a new one. Nothing   *)
(* locks the client; whether another call may come between close and       *)
(* launch is a constant. A cancelled loop runs on to its next suspension   *)
(* point, its socket's callbacks and its finally block come late, and all  *)
(* of them write the same two fields that the watchdog's refresh reads.    *)
(*                                                                         *)
(* A loop has one connection at a time, which bears the loop's number. A   *)
(* pairing, the token it mints and the endpoint it was made at bear one    *)
(* number too. What the repository makes of hellos, frames and disconnects *)
(* is in module PhoneSync; durations (the delays between attempts, the     *)
(* pings) are left out.                                                    *)
(***************************************************************************)
EXTENDS Naturals

CONSTANTS
  MaxPairings,  \* bound on the pairing links opened
  Endpoints,    \* endpoints of an offer
  MaxLoops,     \* bound on the loops that a process launches
  MaxFailures,  \* bound on the failures of the network
  MaxKills,     \* bound on the ends of the app's process
  Due,          \* watchdog ticks per automatic refresh: 45 s / 5 s
  Overlaps      \* calls of the client may overlap

ASSUME ClientAssumption ==
  /\ MaxPairings \in Nat /\ MaxLoops \in Nat /\ MaxFailures \in Nat /\ MaxKills \in Nat
  /\ Endpoints \in Nat \ {0} /\ Due \in Nat \ {0}
  /\ Overlaps \in BOOLEAN

Pairings == 1..MaxPairings
Loops    == 1..MaxLoops

(* SavedConnection; token 0 is null.                                       *)
Connections == [token : 0..MaxPairings, endpoint : 0..MaxPairings]
Of(p) == [token |-> p, endpoint |-> p]
NoConnection == Of(0)

VARIABLES
  valid,           \* external: the tokens a computer accepts
  used,            \* external: the offers that have minted one
  storedToken,     \* PairingCredentialStore
  storedEndpoint,  \* ConnectionIdentityStore
  linked,          \* how many pairing links were opened
  pair,            \* how far each handlePairingLink is
  tries,           \* the endpoints it has left, the current one included
  main,            \* the main thread: "boot", "idle", "launching"
  wanted,          \* the connection the main thread is about to launch
  saved,           \* savedConnection
  connectionJob, activeWebSocket, activeSession,  \* by loop, 0 for null
  elapsed,         \* elapsedSinceRefreshMs of the watchdog, in ticks
  launched,        \* how many loops this process has launched
  loop,            \* where each of them is
  with,            \* the connection it was launched with
  cancelled,       \* the loops whose job is cancelled
  conn,            \* its connection's socket
  dead,            \* sockets that are cancelled, or that the host gives up
  greeted,         \* sessions with a connectionId
  failures, kills,
  misdirected      \* history: a live socket was sent another session's id

world   == <<valid, used>>
store   == <<storedToken, storedEndpoint>>
pairing == <<linked, pair, tries>>
caller  == <<main, wanted, saved>>
active  == <<connectionJob, activeWebSocket, activeSession>>
loops   == <<launched, loop, with, cancelled>>
sockets == <<conn, dead, greeted>>
counts  == <<failures, kills>>
vars    == <<world, store, pairing, caller, active, elapsed, loops, sockets, counts, misdirected>>

Stages == {"none", "asking", "granted", "saved", "stored", "launching",
           "done", "failed"}

PairingTypeOK ==
  /\ valid \subseteq Pairings /\ used \subseteq Pairings
  /\ storedToken \in 0..MaxPairings /\ storedEndpoint \in 0..MaxPairings
  /\ linked \in 0..MaxPairings
  /\ pair \in [Pairings -> Stages]
  /\ tries \in [Pairings -> 1..Endpoints]

CallerTypeOK ==
  /\ main \in {"boot", "idle", "launching"}
  /\ wanted \in Connections /\ saved \in Connections
  /\ connectionJob \in Loops \cup {0}
  /\ activeWebSocket \in Loops \cup {0} /\ activeSession \in Loops \cup {0}
  /\ elapsed \in 0..Due

LoopTypeOK ==
  /\ launched \in Loops \cup {0}
  /\ loop \in [Loops -> {"none", "ready", "entered", "session", "waiting", "resumed",
                         "delay", "gone"}]
  /\ with \in [Loops -> Connections]
  /\ cancelled \subseteq Loops
  /\ conn \in [Loops -> {"none", "stillborn", "dialing", "open", "streaming", "over"}]
  /\ dead \subseteq Loops /\ greeted \subseteq Loops

CountTypeOK ==
  /\ failures \in 0..MaxFailures /\ kills \in 0..MaxKills
  /\ misdirected \in BOOLEAN

TypeOK == PairingTypeOK /\ CallerTypeOK /\ LoopTypeOK /\ CountTypeOK

Init ==
  /\ valid = {} /\ used = {}
  /\ storedToken = 0 /\ storedEndpoint = 0
  /\ linked = 0
  /\ pair = [p \in Pairings |-> "none"] /\ tries = [p \in Pairings |-> Endpoints]
  /\ main = "boot" /\ wanted = NoConnection /\ saved = NoConnection
  /\ connectionJob = 0 /\ activeWebSocket = 0 /\ activeSession = 0
  /\ elapsed = 0
  /\ launched = 0
  /\ loop = [l \in Loops |-> "none"] /\ with = [l \in Loops |-> NoConnection]
  /\ cancelled = {}
  /\ conn = [l \in Loops |-> "none"] /\ dead = {} /\ greeted = {}
  /\ failures = 0 /\ kills = 0
  /\ misdirected = FALSE

Live(l) == loop[l] \notin {"none", "gone"} /\ l \notin cancelled

-----------------------------------------------------------------------------
(* Calls of the client: a call closes the active connection, then launches *)
(* a new loop.                                                             *)

InCall == main = "launching" \/ \E p \in Pairings : pair[p] = "launching"
MayCall == launched < MaxLoops /\ (Overlaps \/ ~InCall)

(* Mutant: the job is not cancelled, only the socket.                      *)
CloseSocketOnly ==
  /\ cancelled' = cancelled
  /\ dead' = dead \cup ({activeWebSocket} \ {0})
  /\ connectionJob' = 0 /\ activeWebSocket' = 0 /\ activeSession' = 0

(* closeActiveConnection. Cancelling a job that waits for its connection   *)
(* cancels that socket, too.                                               *)
CloseActiveConnection ==
  /\ cancelled' = cancelled \cup ({connectionJob} \ {0})
  /\ dead' = dead \cup ({activeWebSocket} \ {0})
                  \cup {l \in Loops : l = connectionJob /\ loop[l] = "waiting"}
  /\ connectionJob' = 0 /\ activeWebSocket' = 0 /\ activeSession' = 0

(* start, up to its call of scope.launch.                                  *)
Start(connection) ==
  /\ saved' = connection
  /\ elapsed' = 0
  /\ CloseActiveConnection

Launch(connection) ==
  LET l == launched + 1 IN
  /\ l <= MaxLoops
  /\ launched' = l
  /\ loop' = [loop EXCEPT ![l] = "ready"]
  /\ with' = [with EXCEPT ![l] = connection]
  /\ connectionJob' = l
  /\ UNCHANGED <<activeWebSocket, activeSession, cancelled>>

MainLaunch ==
  /\ main = "launching"
  /\ main' = "idle" /\ wanted' = NoConnection
  /\ Launch(wanted)
  /\ UNCHANGED <<world, store, pairing, saved, elapsed, sockets, counts, misdirected>>

(* startSavedConnection: a process that finds no pairing does nothing.     *)
Boot ==
  /\ main = "boot"
  /\ IF storedToken = 0 \/ storedEndpoint = 0
       THEN main' = "idle"
              /\ UNCHANGED <<wanted, saved, active, elapsed, cancelled, dead>>
       ELSE LET connection == [token |-> storedToken, endpoint |-> storedEndpoint] IN
            main' = "launching" /\ wanted' = connection /\ Start(connection)
  /\ UNCHANGED <<world, store, pairing, launched, loop, with, conn, greeted, counts, misdirected>>

-----------------------------------------------------------------------------
(* requestQuotaRefreshIfReady. A socket takes the message unless it has    *)
(* failed; one that is being cancelled may or may not. The host ends a     *)
(* connection over a connectionId that is not its own.                     *)

CanSend == activeWebSocket # 0 /\ activeSession \in greeted
Foreign == activeWebSocket # activeSession /\ activeWebSocket \notin dead

SendRefresh ==
  /\ CanSend
  /\ dead' = IF Foreign THEN dead \cup {activeWebSocket} ELSE dead
  /\ misdirected' = (misdirected \/ Foreign)

NotSent == ~CanSend \/ activeWebSocket \in dead

(* refresh, by a tap or a pull on the main thread.                         *)
RefreshSends ==
  /\ main = "idle" /\ saved # NoConnection
  /\ SendRefresh
  /\ UNCHANGED <<world, store, pairing, caller, active, elapsed, loops, conn, greeted, counts>>

RefreshReconnects ==
  /\ main = "idle" /\ saved # NoConnection
  /\ NotSent /\ MayCall
  /\ main' = "launching" /\ wanted' = saved
  /\ CloseActiveConnection
  /\ UNCHANGED <<world, store, pairing, saved, elapsed, launched, loop, with, conn, greeted,
                 counts, misdirected>>

(* The freshness watchdog: AutomaticRefreshSchedule.onWatchdogTick.        *)
WatchdogWaits ==
  /\ saved # NoConnection /\ elapsed + 1 < Due
  /\ elapsed' = elapsed + 1
  /\ UNCHANGED <<world, store, pairing, caller, active, loops, sockets, counts, misdirected>>

WatchdogSends ==
  /\ saved # NoConnection /\ elapsed + 1 >= Due
  /\ SendRefresh
  /\ elapsed' = 0
  /\ UNCHANGED <<world, store, pairing, caller, active, loops, conn, greeted, counts>>

WatchdogStaysDue ==
  /\ saved # NoConnection /\ elapsed + 1 >= Due
  /\ NotSent
  /\ elapsed' = Due
  /\ UNCHANGED <<world, store, pairing, caller, active, loops, sockets, counts, misdirected>>

-----------------------------------------------------------------------------
(* A loop and its connectOnce.                                             *)

At(l, from, to) ==
  /\ loop[l] = from
  /\ loop' = [loop EXCEPT ![l] = to]

(* isActive holds; a job cancelled before that ends here.                  *)
Enter(l) ==
  /\ At(l, "ready", IF l \in cancelled THEN "gone" ELSE "entered")
  /\ UNCHANGED <<world, store, pairing, caller, active, elapsed, launched, with, cancelled,
                 sockets, counts, misdirected>>

CreateSession(l) ==
  /\ At(l, "entered", "session")
  /\ activeSession' = l
  /\ UNCHANGED <<world, store, pairing, caller, connectionJob, activeWebSocket, elapsed,
                 launched, with, cancelled, sockets, counts, misdirected>>

(* Mutant: invokeOnCancellation is missing.                                *)
DialUnhooked(l) ==
  /\ At(l, "session", "waiting")
  /\ activeWebSocket' = l
  /\ conn' = [conn EXCEPT ![l] = "dialing"]
  /\ dead' = dead \ {l}
  /\ UNCHANGED <<world, store, pairing, caller, connectionJob, activeSession, elapsed,
                 launched, with, cancelled, greeted, counts, misdirected>>

(* newWebSocket. If the job was cancelled meanwhile, the socket is, too,   *)
(* before it can have connected.                                           *)
Dial(l) ==
  /\ At(l, "session", "waiting")
  /\ activeWebSocket' = l
  /\ conn' = [conn EXCEPT ![l] = IF l \in cancelled THEN "stillborn" ELSE "dialing"]
  /\ dead' = IF l \in cancelled THEN dead \cup {l} ELSE dead \ {l}
  /\ UNCHANGED <<world, store, pairing, caller, connectionJob, activeSession, elapsed,
                 launched, with, cancelled, greeted, counts, misdirected>>

(* onOpen, which may still come while the socket is being cancelled.       *)
Open(l) ==
  /\ conn[l] = "dialing"
  /\ conn' = [conn EXCEPT ![l] = "open"]
  /\ activeWebSocket' = l
  /\ UNCHANGED <<world, store, pairing, caller, connectionJob, activeSession, elapsed,
                 loops, dead, greeted, counts, misdirected>>

(* The ServerHello: the token is valid and the endpoint is its computer's. *)
Welcome(l) == with[l].token \in valid /\ with[l].endpoint = with[l].token

Greet(l) ==
  /\ conn[l] = "open" /\ Welcome(l)
  /\ conn' = [conn EXCEPT ![l] = "streaming"]
  /\ greeted' = greeted \cup {l}
  /\ UNCHANGED <<world, store, pairing, caller, active, elapsed, loops, dead, counts, misdirected>>

(* Mutant: onFailure does not resume the coroutine.                        *)
LastCallbackHangs(l) ==
  /\ conn' = [conn EXCEPT ![l] = "over"]
  /\ dead' = dead \ {l} /\ greeted' = greeted \ {l}
  /\ activeWebSocket' = 0 /\ activeSession' = 0
  /\ UNCHANGED <<world, store, pairing, caller, connectionJob, elapsed, loops, kills,
                 misdirected>>

(* onClosed or onFailure: the session is disconnected and the coroutine    *)
(* resumed, unless it was cancelled.                                       *)
LastCallback(l) ==
  /\ conn' = [conn EXCEPT ![l] = "over"]
  /\ dead' = dead \ {l} /\ greeted' = greeted \ {l}
  /\ activeWebSocket' = 0 /\ activeSession' = 0
  /\ loop' = [loop EXCEPT ![l] = IF @ = "waiting" /\ l \notin cancelled THEN "resumed" ELSE @]
  /\ UNCHANGED <<world, store, pairing, caller, connectionJob, elapsed, launched, with,
                 cancelled, kills, misdirected>>

EndOfSocket(l) ==
  /\ conn[l] \in {"stillborn", "dialing", "open", "streaming"}
  /\ l \in dead \/ ~Welcome(l)
  /\ LastCallback(l) /\ UNCHANGED failures

NetworkFails(l) ==
  /\ conn[l] \in {"dialing", "open", "streaming"}
  /\ failures < MaxFailures
  /\ failures' = failures + 1
  /\ LastCallback(l)

(* The finally block, then the delay, or the end of a cancelled job.       *)
FinallyBlock(l) ==
  /\ loop[l] = "resumed" \/ (loop[l] = "waiting" /\ l \in cancelled)
  /\ loop' = [loop EXCEPT ![l] = IF l \in cancelled THEN "gone" ELSE "delay"]
  /\ activeWebSocket' = 0
  /\ greeted' = greeted \ {l}
  /\ UNCHANGED <<world, store, pairing, caller, connectionJob, activeSession, elapsed,
                 launched, with, cancelled, conn, dead, counts, misdirected>>

DelayEnds(l) ==
  /\ At(l, "delay", IF l \in cancelled THEN "gone" ELSE "ready")
  /\ UNCHANGED <<world, store, pairing, caller, active, elapsed, launched, with, cancelled,
                 sockets, counts, misdirected>>

-----------------------------------------------------------------------------
(* handlePairingLink and PairingClient.pair.                               *)

Stage(p, from, to) ==
  /\ pair[p] = from
  /\ pair' = [pair EXCEPT ![p] = to]

OpenLink ==
  /\ main = "idle"
  /\ linked < MaxPairings
  /\ linked' = linked + 1
  /\ pair' = [pair EXCEPT ![linked + 1] = "asking"]
  /\ UNCHANGED <<world, store, tries, caller, active, elapsed, loops, sockets, counts, misdirected>>

(* A computer accepts the code, once. It is the one paired before, whose   *)
(* token is replaced, or another one.                                      *)
Mint(p) ==
  /\ Stage(p, "asking", "granted")
  /\ p \notin used
  /\ used' = used \cup {p}
  /\ valid' \in {{p}, valid \cup {p}}
  /\ UNCHANGED <<store, linked, tries, caller, active, elapsed, loops, sockets, counts, misdirected>>

(* No answer within PAIRING_TIMEOUT_MS, or a refusal: the next endpoint.   *)
EndpointFails(p) ==
  /\ pair[p] \in {"asking", "granted"}
  /\ IF tries[p] > 1
       THEN /\ tries' = [tries EXCEPT ![p] = @ - 1]
            /\ pair' = [pair EXCEPT ![p] = "asking"]
       ELSE pair' = [pair EXCEPT ![p] = "failed"] /\ UNCHANGED tries
  /\ UNCHANGED <<world, store, linked, caller, active, elapsed, loops, sockets, counts, misdirected>>

(* The answer is in time, and its token is saved.                          *)
SaveCredentials(p) ==
  /\ Stage(p, "granted", "saved")
  /\ storedToken' = p
  /\ UNCHANGED <<world, storedEndpoint, linked, tries, caller, active, elapsed, loops, sockets,
                 counts, misdirected>>

SaveEndpoint(p) ==
  /\ Stage(p, "saved", "stored")
  /\ storedEndpoint' = p
  /\ UNCHANGED <<world, storedToken, linked, tries, caller, active, elapsed, loops, sockets,
                 counts, misdirected>>

StartPaired(p) ==
  /\ MayCall
  /\ Stage(p, "stored", "launching")
  /\ Start(Of(p))
  /\ UNCHANGED <<world, store, linked, tries, main, wanted, launched, loop, with, conn, greeted,
                 counts, misdirected>>

LaunchPaired(p) ==
  /\ Stage(p, "launching", "done")
  /\ Launch(Of(p))
  /\ UNCHANGED <<world, store, linked, tries, caller, elapsed, sockets, counts, misdirected>>

(* The tray revokes the phone.                                             *)
Revoke(p) ==
  /\ p \in valid
  /\ valid' = valid \ {p}
  /\ UNCHANGED <<used, store, pairing, caller, active, elapsed, loops, sockets, counts, misdirected>>

(* The process ends and is started again. What is written is written.      *)
Kill ==
  /\ kills < MaxKills
  /\ kills' = kills + 1
  /\ pair' = [p \in Pairings |->
                IF pair[p] \in {"none", "done", "failed"} THEN pair[p]
                ELSE IF pair[p] \in {"saved", "stored", "launching"} THEN "done" ELSE "failed"]
  /\ main' = "boot" /\ wanted' = NoConnection /\ saved' = NoConnection
  /\ connectionJob' = 0 /\ activeWebSocket' = 0 /\ activeSession' = 0
  /\ elapsed' = 0 /\ launched' = 0
  /\ loop' = [l \in Loops |-> "none"] /\ with' = [l \in Loops |-> NoConnection]
  /\ cancelled' = {}
  /\ conn' = [l \in Loops |-> "none"] /\ dead' = {} /\ greeted' = {}
  /\ misdirected' = FALSE
  /\ UNCHANGED <<world, store, linked, tries, failures>>

-----------------------------------------------------------------------------
Calls       == Boot \/ MainLaunch \/ \E p \in Pairings : StartPaired(p) \/ LaunchPaired(p)
Asking(p)   == EndpointFails(p) \/ SaveCredentials(p) \/ SaveEndpoint(p)
Watchdog    == WatchdogWaits \/ WatchdogSends \/ WatchdogStaysDue
Loop(l)     == Enter(l) \/ CreateSession(l) \/ Dial(l) \/ FinallyBlock(l) \/ DelayEnds(l)
Socket(l)   == Open(l) \/ Greet(l) \/ EndOfSocket(l)

Next ==
  \/ Calls \/ RefreshSends \/ RefreshReconnects \/ Watchdog
  \/ OpenLink \/ Kill
  \/ \E p \in Pairings : Asking(p) \/ Mint(p) \/ Revoke(p)
  \/ \E l \in Loops : Loop(l) \/ Socket(l) \/ NetworkFails(l)

Spec == Init /\ [][Next]_vars

(* Calls, coroutines and the watchdog are scheduled, pairing endpoints     *)
(* answer or time out, sockets connect, are answered or fail, and a        *)
(* cancelled one gets its last callback. The user, the tray and failures   *)
(* are free.                                                               *)
Fairness ==
  /\ WF_vars(Calls) /\ WF_vars(Watchdog)
  /\ \A p \in Pairings : WF_vars(Asking(p))
  /\ \A l \in Loops : WF_vars(Loop(l)) /\ WF_vars(Socket(l))

FairSpec == Spec /\ Fairness

-----------------------------------------------------------------------------
(* Properties.                                                             *)

(* One loop at most is alive, the last that reconnect launched, and        *)
(* between calls it serves the pairing that was started last, whatever old *)
(* loops and sockets still do. PhoneSync relies on it: a connection is     *)
(* only opened when the older ones are cancelled or over.                  *)
OneCurrentLoop ==
  \A l \in Loops : Live(l) => l = connectionJob /\ (~InCall => with[l] = saved)

(* A refresh request never carries the connectionId of another connection, *)
(* over which the host would end it (network.rs:285).                      *)
RefreshOnOwnSocket == ~misdirected

(* A phone whose pairing stays valid is connected in the end, after any    *)
(* failures, refreshes, re-pairings and process ends.                      *)
Paired == saved.token \in valid /\ saved.endpoint = saved.token
Connected == \E l \in Loops : Live(l) /\ conn[l] = "streaming" /\ l \in greeted \ dead
ComesOnline == <>[]Paired => <>[]Connected

(* docs/architecture.md:145: while the connection is alive, it is sent an  *)
(* authenticated refresh request every 45 s. The code does not keep this,  *)
(* nor the next: no run has them, see the README.                          *)
RefreshesWhileConnected == <>[]Connected => []<>(elapsed = 0)

(* CONTEXT.md:207: pairing with another computer replaces the current one, *)
(* whose tasks are not shown any more. No loop goes on with an older       *)
(* pairing.                                                                *)
OldComputerIsLeft == \A l \in Loops : Live(l) /\ ~InCall => with[l] = saved
=============================================================================
