----------------------------- MODULE SyncServer -----------------------------
(***************************************************************************)
(* The /sync side of the Windows host: WssService of                       *)
(* windows-native/src/network.rs with the publishing loop of               *)
(* start_quota_monitor (bin/codex_quota_windows.rs) that feeds it.         *)
(*                                                                         *)
(* Every connection is a task of its own. It shares with the others the    *)
(* token behind the pairing lock, the latest payload behind a RwLock, and  *)
(* three tokio watch channels. Of a watch channel only one thing matters   *)
(* to a receiver: whether a value was sent since the receiver last looked. *)
(* authDirty, snapDirty and refreshDirty hold exactly that bit, so that    *)
(* `subscribe` clears it, `send_replace` sets it for all that subscribed,  *)
(* and `changed().await` waits for it and clears it.                       *)
(*                                                                         *)
(* A step ends wherever the code awaits, or releases a lock: between two   *)
(* steps of a connection any other task may run. Frame numbers and         *)
(* heartbeats, which touch nothing shared, are in module PhoneSync.        *)
(***************************************************************************)
EXTENDS Naturals

CONSTANTS
  Conns,          \* connections that can be open at the same time
  PhoneTokens,    \* phone tokens; pairing picks one nobody uses any more
  NoPhone,           \* no phone is paired
  MaxPayload,     \* bound on the distinct payloads published
  MaxBumps,       \* bound on the token changes waiting for their bump
  HasCollector,   \* QuotaCollector::discover succeeds on this machine
  Collects        \* and a collection has succeeded: the quota tick publishes

ASSUME ServerAssumption ==
  /\ NoPhone \notin PhoneTokens
  /\ MaxPayload \in Nat /\ MaxBumps \in Nat
  /\ HasCollector \in BOOLEAN /\ Collects \in BOOLEAN
  /\ Collects => HasCollector

VARIABLES
  pairedToken,  \* PairingManager.phone_token_hash
  bumpsDue,     \* token changes whose bump_authorization_revision is to come
  latest,       \* WssService.latest, as the number of the payload
  publisher,    \* the publishing loop: "idle", or "written" before the bump
  refreshDirty, \* its refresh_revision receiver
  cooling,      \* less than REFRESH_REQUEST_COOLDOWN_MS since the last refresh
  pc,           \* where each connection's task is
  token,        \* the bearer token its upgrade request presented
  authDirty,    \* its authorization_revision receiver
  snapDirty,    \* its snapshot_revision receiver
  holding,      \* the payload it has cloned and is about to send
  sent,         \* the last payload it sent
  resent        \* history: it has sent a snapshot from its loop

host == <<pairedToken, bumpsDue>>
feed == <<latest, publisher>>
task == <<pc, token, authDirty, snapDirty, holding, sent, resent>>
syncVars == <<host, feed, refreshDirty, cooling, task>>

(* "accepted": upgraded, not yet subscribed; "subscribed": not yet         *)
(* authenticated; "waiting": for the ClientHello; "greeted": ServerHello   *)
(* sent; "first": the first payload is cloned; "sent1": it is sent;        *)
(* "loop": in select!; "marked": the snapshot arm has fired; "sending".    *)
Unchecked   == {"accepted", "subscribed"}
Admitted    == {"waiting", "greeted", "first", "sent1", "loop", "marked", "sending"}
PC          == {"free"} \cup Unchecked \cup Admitted
Streaming   == {"loop", "marked", "sending"}
AuthWatcher == {"subscribed"} \cup Admitted

Payloads == 0..MaxPayload

HostTypeOK ==
  /\ pairedToken \in PhoneTokens \cup {NoPhone}
  /\ bumpsDue \in 0..MaxBumps

FeedTypeOK ==
  /\ latest \in Payloads
  /\ publisher \in {"idle", "written"}
  /\ refreshDirty \in BOOLEAN /\ cooling \in BOOLEAN

TaskTypeOK ==
  /\ pc \in [Conns -> PC]
  /\ token \in [Conns -> PhoneTokens \cup {NoPhone}]
  /\ authDirty \in [Conns -> BOOLEAN]
  /\ snapDirty \in [Conns -> BOOLEAN]
  /\ holding \in [Conns -> Payloads]
  /\ sent \in [Conns -> Payloads]
  /\ resent \in [Conns -> BOOLEAN]

SyncTypeOK == HostTypeOK /\ FeedTypeOK /\ TaskTypeOK

(* WssService::new on what the token file and the cached quota gave.       *)
SyncInit ==
  /\ pairedToken \in PhoneTokens \cup {NoPhone}
  /\ bumpsDue = 0
  /\ latest = 0 /\ publisher = "idle"
  /\ refreshDirty = FALSE /\ cooling = FALSE
  /\ pc = [c \in Conns |-> "free"]
  /\ token = [c \in Conns |-> NoPhone]
  /\ authDirty = [c \in Conns |-> FALSE] /\ snapDirty = [c \in Conns |-> FALSE]
  /\ holding = [c \in Conns |-> 0] /\ sent = [c \in Conns |-> 0]
  /\ resent = [c \in Conns |-> FALSE]

Goto(c, from, to) ==
  /\ pc[c] = from
  /\ pc' = [pc EXCEPT ![c] = to]

-----------------------------------------------------------------------------
(* The credential. handle_pairing and revoke_phone change the token under  *)
(* the pairing lock and bump authorization_revision after releasing it.    *)

Fresh(t) == t # pairedToken /\ \A c \in Conns : pc[c] # "free" => token[c] # t

PairPhone(t) ==
  /\ Fresh(t)
  /\ bumpsDue < MaxBumps
  /\ pairedToken' = t
  /\ bumpsDue' = bumpsDue + 1
  /\ UNCHANGED <<feed, refreshDirty, cooling, task>>

(* Mutant: revoke_phone forgets the bump.                                  *)
RevokePhoneSilently ==
  /\ pairedToken' = NoPhone
  /\ UNCHANGED <<bumpsDue, feed, refreshDirty, cooling, task>>

RevokePhone ==
  /\ bumpsDue < MaxBumps
  /\ pairedToken' = NoPhone
  /\ bumpsDue' = bumpsDue + 1
  /\ UNCHANGED <<feed, refreshDirty, cooling, task>>

BumpAuthorization ==
  /\ bumpsDue > 0
  /\ bumpsDue' = bumpsDue - 1
  /\ authDirty' = [c \in Conns |-> pc[c] \in AuthWatcher]
  /\ UNCHANGED <<pairedToken, feed, refreshDirty, cooling,
                 pc, token, snapDirty, holding, sent, resent>>

-----------------------------------------------------------------------------
(* The publishing loop: WssService::publish writes the payload, then bumps *)
(* snapshot_revision. Its quota arm publishes every five seconds and its   *)
(* direct reset arm every fifteen minutes, changed or not, but only with a *)
(* collector; its hook arm publishes when a task changed; its refresh arm  *)
(* answers request_upstream_refresh.                                       *)

Payload(changed) == IF changed THEN latest + 1 ELSE latest

WriteLatest(changed) ==
  /\ publisher = "idle"
  /\ Payload(changed) <= MaxPayload
  /\ latest' = Payload(changed)
  /\ publisher' = "written"

HookArm ==
  /\ WriteLatest(TRUE)
  /\ UNCHANGED <<host, refreshDirty, cooling, task>>

(* Mutant: the quota tick publishes only what changed.                     *)
QuotaArmOnlyChanges(changed) ==
  /\ Collects /\ changed
  /\ WriteLatest(changed)
  /\ UNCHANGED <<host, refreshDirty, cooling, task>>

QuotaArm(changed) ==
  /\ Collects
  /\ WriteLatest(changed)
  /\ UNCHANGED <<host, refreshDirty, cooling, task>>

DirectResetArm(changed) ==
  /\ HasCollector
  /\ WriteLatest(changed)
  /\ UNCHANGED <<host, refreshDirty, cooling, task>>

RefreshArm(changed) ==
  /\ refreshDirty
  /\ publisher = "idle"
  /\ refreshDirty' = FALSE
  /\ IF HasCollector THEN WriteLatest(changed) ELSE UNCHANGED feed
  /\ UNCHANGED <<host, cooling, task>>

MarkSnapshots == snapDirty' = [c \in Conns |-> pc[c] \in Streaming]

BumpSnapshots ==
  /\ publisher = "written"
  /\ publisher' = "idle"
  /\ MarkSnapshots
  /\ UNCHANGED <<host, latest, refreshDirty, cooling,
                 pc, token, authDirty, holding, sent, resent>>

CooldownEnds ==
  /\ cooling
  /\ cooling' = FALSE
  /\ UNCHANGED <<host, feed, refreshDirty, task>>

-----------------------------------------------------------------------------
(* One /sync connection, in the order of handle_sync.                      *)

Accept(c, t) ==
  /\ Goto(c, "free", "accepted")
  /\ token' = [token EXCEPT ![c] = t]
  /\ UNCHANGED <<host, feed, refreshDirty, cooling, authDirty, snapDirty, holding,
                 sent, resent>>

SubscribeAuthorization(c) ==
  /\ Goto(c, "accepted", "subscribed")
  /\ UNCHANGED <<host, feed, refreshDirty, cooling,
                 token, authDirty, snapDirty, holding, sent, resent>>

Authenticate(c) ==
  /\ token[c] = pairedToken
  /\ Goto(c, "subscribed", "waiting")
  /\ UNCHANGED <<host, feed, refreshDirty, cooling,
                 token, authDirty, snapDirty, holding, sent, resent>>

(* The task returns: a wrong token, a bad or late ClientHello, an I/O      *)
(* error, a closed peer. Its receivers are dropped.                        *)
Leave(c) ==
  /\ pc' = [pc EXCEPT ![c] = "free"]
  /\ token' = [token EXCEPT ![c] = NoPhone]
  /\ authDirty' = [authDirty EXCEPT ![c] = FALSE]
  /\ snapDirty' = [snapDirty EXCEPT ![c] = FALSE]
  /\ holding' = [holding EXCEPT ![c] = 0]
  /\ sent' = [sent EXCEPT ![c] = 0]
  /\ resent' = [resent EXCEPT ![c] = FALSE]
  /\ UNCHANGED <<host, feed, refreshDirty, cooling>>

Reject(c) == pc[c] = "subscribed" /\ token[c] # pairedToken /\ Leave(c)

(* HANDSHAKE_TIMEOUT, or a first message that is no valid ClientHello.     *)
HelloFails(c) == pc[c] = "waiting" /\ Leave(c)

(* The peer closes or the write fails: the peer is gone for good, or TCP   *)
(* has given up on it.                                                     *)
Disconnect(c) == pc[c] \in Admitted /\ Leave(c)

(* Mutant: authorization_revision is subscribed after the ClientHello.     *)
ClientHelloSubscribes(c) ==
  /\ Goto(c, "waiting", "greeted")
  /\ authDirty' = [authDirty EXCEPT ![c] = FALSE]
  /\ UNCHANGED <<host, feed, refreshDirty, cooling,
                 token, snapDirty, holding, sent, resent>>

ClientHello(c) ==
  /\ Goto(c, "waiting", "greeted")
  /\ UNCHANGED <<host, feed, refreshDirty, cooling,
                 token, authDirty, snapDirty, holding, sent, resent>>

ReadFirst(c) ==
  /\ Goto(c, "greeted", "first")
  /\ holding' = [holding EXCEPT ![c] = latest]
  /\ UNCHANGED <<host, feed, refreshDirty, cooling, token, authDirty, snapDirty, sent, resent>>

Send(c, from, to) ==
  /\ Goto(c, from, to)
  /\ sent' = [sent EXCEPT ![c] = holding[c]]
  /\ UNCHANGED <<host, feed, refreshDirty, cooling, token, authDirty, snapDirty, holding>>

SendFirst(c) == Send(c, "first", "sent1") /\ UNCHANGED resent

SubscribeSnapshots(c) ==
  /\ Goto(c, "sent1", "loop")
  /\ UNCHANGED <<host, feed, refreshDirty, cooling,
                 token, authDirty, snapDirty, holding, sent, resent>>

(* The authorization arm: a Close frame, and the task returns.             *)
AuthorizationArm(c) == pc[c] = "loop" /\ authDirty[c] /\ Leave(c)

SnapshotArm(c) ==
  /\ Goto(c, "loop", "marked")
  /\ snapDirty[c]
  /\ snapDirty' = [snapDirty EXCEPT ![c] = FALSE]
  /\ UNCHANGED <<host, feed, refreshDirty, cooling, token, authDirty, holding, sent, resent>>

ReadLatest(c) ==
  /\ Goto(c, "marked", "sending")
  /\ holding' = [holding EXCEPT ![c] = latest]
  /\ UNCHANGED <<host, feed, refreshDirty, cooling, token, authDirty, snapDirty, sent, resent>>

(* Mutant: the revision is marked as seen after the send.                  *)
SendNextMarksSeen(c) ==
  /\ Goto(c, "sending", "loop")
  /\ sent' = [sent EXCEPT ![c] = holding[c]]
  /\ resent' = [resent EXCEPT ![c] = TRUE]
  /\ snapDirty' = [snapDirty EXCEPT ![c] = FALSE]
  /\ UNCHANGED <<host, feed, refreshDirty, cooling, token, authDirty, holding>>

SendNext(c) == Send(c, "sending", "loop") /\ resent' = [resent EXCEPT ![c] = TRUE]

(* The incoming arm with a RefreshRequest: request_upstream_refresh. The   *)
(* compare_exchange loop lets exactly one caller per cooldown through.     *)
RefreshRequest(c) ==
  /\ pc[c] = "loop"
  /\ IF cooling
       THEN MarkSnapshots /\ UNCHANGED <<refreshDirty, cooling>>
       ELSE refreshDirty' = TRUE /\ cooling' = TRUE /\ UNCHANGED snapDirty
  /\ UNCHANGED <<host, feed, pc, token, authDirty, holding, sent, resent>>

-----------------------------------------------------------------------------
Credential ==
  \/ \E t \in PhoneTokens : PairPhone(t)
  \/ RevokePhone
  \/ BumpAuthorization

Publisher ==
  \/ HookArm
  \/ \E changed \in BOOLEAN :
       QuotaArm(changed) \/ DirectResetArm(changed) \/ RefreshArm(changed)
  \/ BumpSnapshots

(* What a connection's task does by itself, one step after the other.      *)
Advance(c) ==
  \/ SubscribeAuthorization(c) \/ Authenticate(c) \/ Reject(c)
  \/ ClientHello(c) \/ HelloFails(c)
  \/ ReadFirst(c) \/ SendFirst(c) \/ SubscribeSnapshots(c)
  \/ ReadLatest(c) \/ SendNext(c)

Connection(c) ==
  \/ \E t \in PhoneTokens : Accept(c, t)
  \/ Advance(c)
  \/ AuthorizationArm(c) \/ SnapshotArm(c)
  \/ RefreshRequest(c) \/ Disconnect(c)

SyncNext ==
  \/ Credential \/ Publisher \/ CooldownEnds
  \/ \E c \in Conns : Connection(c)

SyncSpec == SyncInit /\ [][SyncNext]_syncVars

(* The bumps follow at once. A task runs on while it can: the wait for the *)
(* ClientHello has a timeout, and a write is done or fails with its peer.  *)
(* select! polls its arms in random order, so an arm that is ready again   *)
(* and again is taken: strong fairness. The five-second tick never stops.  *)
(* Nothing is asked of the fifteen-minute one: it is no use to a board.    *)
(* No phone, user or task owes the host anything.                          *)
SyncFairness ==
  /\ WF_syncVars(BumpAuthorization) /\ WF_syncVars(BumpSnapshots)
  /\ WF_syncVars(\E changed \in BOOLEAN : QuotaArm(changed))
  /\ \A c \in Conns :
       /\ WF_syncVars(Advance(c))
       /\ SF_syncVars(AuthorizationArm(c)) /\ SF_syncVars(SnapshotArm(c))

SyncFairSpec == SyncSpec /\ SyncFairness

-----------------------------------------------------------------------------
(* Properties.                                                             *)

(* A connection past authentication whose token is no longer the phone's   *)
(* has the notice in its receiver, or a token change has still to send it: *)
(* no schedule of pairing, revocation and handshake lets a connection slip *)
(* between the check of its token and the notice of the change.            *)
NoUnnoticedRevocation ==
  \A c \in Conns :
    pc[c] \in Admitted => token[c] = pairedToken \/ authDirty[c] \/ bumpsDue > 0

(* From the first snapshot of its loop on, a stream that waits without a   *)
(* mark has sent the latest payload: publish writes before it bumps, and   *)
(* the snapshot arm clears the mark before it reads, so no update is lost  *)
(* between two snapshots.                                                  *)
NoUpdateLostInLoop ==
  \A c \in Conns :
    pc[c] = "loop" /\ resent[c] /\ ~snapDirty[c] /\ publisher = "idle"
       => sent[c] = latest

RevokedConnectionsClose ==
  \A c \in Conns :
    (pc[c] \in Admitted /\ token[c] # pairedToken) ~> (pc[c] = "free")

UpdatesReachStreams ==
  \A c \in Conns, n \in 1..MaxPayload :
    (pc[c] \in Admitted /\ latest = n) ~> (sent[c] >= n \/ pc[c] = "free")

(* Revoking or replacing the phone closes every connection of the old one, *)
(* wherever in its handshake or loop the change finds it; and every        *)
(* payload published while a connection is admitted is overtaken by a      *)
(* snapshot on that connection, or the connection ends.                    *)
StreamsKeepUp == RevokedConnectionsClose /\ UpdatesReachStreams
=============================================================================
