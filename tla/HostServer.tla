----------------------------- MODULE HostServer -----------------------------
(***************************************************************************)
(* One run of the Windows host's process, from its start to its end:       *)
(* Pairing and SyncServer side by side. They share the phone token.        *)
(* handle_pairing and revoke_phone (windows-native/src/network.rs) change  *)
(* it under the pairing lock and owe the connections a notice of the       *)
(* change; nothing else of either is seen by the other.                    *)
(*                                                                         *)
(* SyncServer takes on trust that the token changes only to none or to one *)
(* that no connection has presented. Here it changes as Pairing says.      *)
(***************************************************************************)
EXTENDS Pairing, SyncServer

hostVars == <<vars, syncVars>>

(* WindowsHost::start with the token an earlier run may have left on disk, *)
(* and the service made from it. History starts with the process.          *)
HostInit ==
  /\ phase = "up" /\ now = 0
  /\ minted \in Tokens /\ phoneToken \in 0..minted /\ offer = NoOffer
  /\ disk = phoneToken /\ persisted = phoneToken /\ monitor = "idle" /\ reading = NoToken
  /\ revoking = FALSE
  /\ offers = 0 /\ failures = 0 /\ shownAt = 0 /\ revoked = {}
  /\ SyncInit /\ pairedToken = phoneToken

(* The token is changed under the lock, the bump comes after it.           *)
TokenChange ==
  /\ SubmitRight \/ RevokeMemory
  /\ bumpsDue < MaxBumps
  /\ pairedToken' = phoneToken'
  /\ bumpsDue' = bumpsDue + 1
  /\ UNCHANGED <<feed, refreshDirty, cooling, task>>

PairingStep ==
  /\ \/ Tick \/ (\E c \in Codes : Begin(c) \/ SubmitWrong(c)) \/ SubmitExpired
     \/ RevokeDisk \/ RevokeDiskFails \/ RequestShutdown \/ Monitor
  /\ UNCHANGED syncVars

(* A phone presents a token it was once given; a guessed one fits nothing. *)
SyncStep ==
  /\ \/ BumpAuthorization \/ Publisher \/ CooldownEnds
     \/ \E c \in Conns : \/ Advance(c) \/ AuthorizationArm(c) \/ SnapshotArm(c)
                         \/ RefreshRequest(c) \/ Disconnect(c)
                         \/ \E t \in 1..minted : Accept(c, t)
  /\ UNCHANGED vars

HostNext == TokenChange \/ PairingStep \/ SyncStep

HostSpec == HostInit /\ [][HostNext]_hostVars

(* Once revoke_phone has returned, a connection past authentication with a *)
(* token that was withdrawn has been told, or is about to be: the process  *)
(* that revoked a phone serves it no longer than it takes to tell.         *)
RevokedAreTold ==
  \A c \in Conns :
    pc[c] \in Admitted /\ token[c] \in revoked => authDirty[c] \/ bumpsDue > 0
=============================================================================
