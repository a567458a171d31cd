------------------------------ MODULE Pairing ------------------------------
(***************************************************************************)
(* The phone credential of the Windows host: the one-time pairing offer    *)
(* (PairingManager, windows-native/src/lib.rs), the single phone token it  *)
(* mints, the file that keeps the token's hash (storage.rs), the monitor   *)
(* that copies memory to that file every 500 ms, and the tray's revoke and *)
(* shutdown (host.rs, bin/codex_quota_windows.rs).                         *)
(*                                                                         *)
(* Three threads meet here: the tray thread (Begin, Revoke..., Shutdown),  *)
(* which holds the `host` mutex for the whole of a call; the /pair         *)
(* handlers (Submit...), which hold the pairing lock for one `complete`;   *)
(* and the persistence monitor, which reads memory under that lock but     *)
(* writes the file outside it.                                             *)
(*                                                                         *)
(* A token is the number of the pairing that minted it (random 256-bit     *)
(* values never repeat); NoToken is the hash that is absent.               *)
(***************************************************************************)
EXTENDS Naturals

CONSTANTS
  Codes,        \* six-digit pairing codes
  MaxAttempts,  \* PAIRING_MAX_ATTEMPTS
  Lifetime,     \* PAIRING_LIFETIME_MS, in clock ticks
  MaxTime,      \* bound on the clock
  MaxOffers,    \* bound on the offers shown
  MaxTokens     \* bound on the tokens minted

ASSUME PairingAssumption ==
  /\ Codes # {}
  /\ MaxAttempts \in Nat \ {0}
  /\ Lifetime \in Nat /\ MaxTime \in Nat
  /\ MaxOffers \in Nat /\ MaxTokens \in Nat

NoToken == 0
NoOffer == [code |-> "none"]

VARIABLES
  phase,       \* the process: "up", "stopping" (shutdown requested), "down"
  now,         \* the wall clock
  offer,       \* PairingManager.active
  phoneToken,  \* PairingManager.phone_token_hash
  disk,        \* the phone-token-hash file
  persisted,   \* the monitor's `persisted`: what it believes the file holds
  monitor,     \* "idle", "saving", "finalSaving", "done" (Ok), "dead" (Err)
  reading,     \* the monitor's `current` between the read and the save
  revoking,    \* the tray is between clearing memory and removing the file
  minted,      \* tokens minted so far
  \* history, for the properties only
  offers,      \* offers shown so far
  failures,    \* wrong codes submitted against the current offer
  shownAt,     \* when the current offer was shown
  revoked      \* tokens whose revocation was reported to the user as done

memory  == <<offer, phoneToken, minted>>
saver   == <<disk, persisted, monitor, reading>>
history == <<offers, failures, shownAt, revoked>>
vars    == <<phase, now, memory, saver, revoking, history>>

Tokens  == 0..MaxTokens
Offers  == [code : Codes, expires : 0..(MaxTime + Lifetime), left : 1..MaxAttempts]
Running == phase \in {"up", "stopping"}

ProcessTypeOK ==
  /\ phase \in {"up", "stopping", "down"}
  /\ now \in 0..MaxTime
  /\ revoking \in BOOLEAN

MemoryTypeOK ==
  /\ offer \in Offers \cup {NoOffer}
  /\ minted \in Tokens
  /\ phoneToken \in 0..minted

SaverTypeOK ==
  /\ disk \in 0..minted /\ persisted \in 0..minted /\ reading \in 0..minted
  /\ monitor \in {"idle", "saving", "finalSaving", "done", "dead"}

HistoryTypeOK ==
  /\ offers \in 0..MaxOffers
  /\ failures \in Nat
  /\ shownAt \in 0..MaxTime
  /\ revoked \subseteq Tokens

TypeOK == ProcessTypeOK /\ MemoryTypeOK /\ SaverTypeOK /\ HistoryTypeOK

(* WindowsHost::start on a machine that never paired.                      *)
Init ==
  /\ phase = "up" /\ now = 0
  /\ offer = NoOffer /\ phoneToken = NoToken /\ minted = 0
  /\ disk = NoToken /\ persisted = NoToken /\ monitor = "idle" /\ reading = NoToken
  /\ revoking = FALSE
  /\ offers = 0 /\ failures = 0 /\ shownAt = 0 /\ revoked = {}

Tick ==
  /\ now < MaxTime
  /\ now' = now + 1
  /\ UNCHANGED <<phase, memory, saver, revoking, history>>

-----------------------------------------------------------------------------
(* The tray. pairing_presentation and revoke_phone hold the host mutex, so *)
(* neither starts while the other runs, and shutdown takes the host away.  *)

TrayFree == phase = "up" /\ ~revoking

Begin(c) ==
  /\ TrayFree
  /\ offers < MaxOffers
  /\ offer' = [code |-> c, expires |-> now + Lifetime, left |-> MaxAttempts]
  /\ offers' = offers + 1 /\ failures' = 0 /\ shownAt' = now
  /\ UNCHANGED <<phase, now, phoneToken, minted, saver, revoking, revoked>>

(* Mutant: revoke_phone clears the token and forgets the open offer.       *)
RevokeMemoryKeepsOffer ==
  /\ TrayFree
  /\ phoneToken' = NoToken
  /\ revoking' = TRUE
  /\ UNCHANGED <<phase, now, offer, minted, saver, history>>

(* WindowsHost::revoke_phone, first half: WssService::revoke_phone.        *)
RevokeMemory ==
  /\ TrayFree
  /\ offer' = NoOffer /\ phoneToken' = NoToken
  /\ revoking' = TRUE
  /\ UNCHANGED <<phase, now, minted, saver, history>>

(* Second half: the file is removed and Ok goes back to the tray.          *)
RevokeDisk ==
  /\ phase = "up" /\ revoking
  /\ disk' = NoToken
  /\ revoking' = FALSE
  /\ revoked' = 1..minted   \* every token minted so far is withdrawn by now
  /\ UNCHANGED <<phase, now, memory, persisted, monitor, reading,
                 offers, failures, shownAt>>

(* remove_file fails: revoke_phone returns the error.                      *)
RevokeDiskFails ==
  /\ phase = "up" /\ revoking
  /\ revoking' = FALSE
  /\ UNCHANGED <<phase, now, memory, saver, history>>

(* AppController::shutdown -> WindowsHost::shutdown.                       *)
RequestShutdown ==
  /\ TrayFree
  /\ phase' = "stopping"
  /\ UNCHANGED <<now, memory, saver, revoking, history>>

-----------------------------------------------------------------------------
(* A /pair handler: PairingManager.complete with code c, under the lock.   *)
(* A handler accepted before a shutdown still runs while the host stops.   *)

SubmitExpired ==
  /\ Running
  /\ offer # NoOffer
  /\ now > offer.expires
  /\ offer' = NoOffer
  /\ UNCHANGED <<phase, now, phoneToken, minted, saver, revoking, history>>

(* Mutant: the last wrong code does not void the offer.                    *)
SubmitWrongKeepsOffer(c) ==
  /\ Running
  /\ offer # NoOffer
  /\ now <= offer.expires
  /\ c # offer.code
  /\ offer' = [offer EXCEPT !.left = IF @ = 0 THEN 0 ELSE @ - 1]
  /\ failures < MaxAttempts   \* bound
  /\ failures' = failures + 1
  /\ UNCHANGED <<phase, now, phoneToken, minted, saver, revoking,
                 offers, shownAt, revoked>>

SubmitWrong(c) ==
  /\ Running
  /\ offer # NoOffer
  /\ now <= offer.expires
  /\ c # offer.code
  /\ offer' = IF offer.left = 1 THEN NoOffer ELSE [offer EXCEPT !.left = @ - 1]
  /\ failures' = failures + 1
  /\ UNCHANGED <<phase, now, phoneToken, minted, saver, revoking,
                 offers, shownAt, revoked>>

(* Mutant: a used offer stays valid until it expires.                      *)
SubmitRightKeepsOffer ==
  /\ Running
  /\ offer # NoOffer
  /\ now <= offer.expires
  /\ minted < MaxTokens
  /\ minted' = minted + 1
  /\ phoneToken' = minted + 1
  /\ UNCHANGED <<phase, now, offer, saver, revoking, offers, failures, shownAt, revoked>>

SubmitRight ==
  /\ Running
  /\ offer # NoOffer
  /\ now <= offer.expires
  /\ minted < MaxTokens
  /\ minted' = minted + 1
  /\ phoneToken' = minted + 1
  /\ offer' = NoOffer
  /\ UNCHANGED <<phase, now, saver, revoking, offers, failures, shownAt, revoked>>

-----------------------------------------------------------------------------
(* monitor_phone_token_hash: the lock is held for the read only; the save  *)
(* that follows may come after any step of the other two threads.          *)

(* Mutant: the monitor only ever writes a token, never its absence.        *)
MonitorReadIgnoresNone ==
  /\ Running
  /\ monitor = "idle"
  /\ phoneToken \notin {persisted, NoToken}
  /\ monitor' = "saving" /\ reading' = phoneToken
  /\ UNCHANGED <<phase, now, memory, disk, persisted, revoking, history>>

MonitorRead ==
  /\ Running
  /\ monitor = "idle"
  /\ phoneToken # persisted
  /\ monitor' = "saving" /\ reading' = phoneToken
  /\ UNCHANGED <<phase, now, memory, disk, persisted, revoking, history>>

(* Mutant: the shutdown arm returns without the last comparison.           *)
MonitorFinalReadSkipsFlush ==
  /\ phase = "stopping"
  /\ monitor = "idle"
  /\ reading' = phoneToken
  /\ monitor' = "done"
  /\ UNCHANGED <<phase, now, memory, disk, persisted, revoking, history>>

(* The shutdown arm: a last read, and Ok at once when nothing changed.     *)
MonitorFinalRead ==
  /\ phase = "stopping"
  /\ monitor = "idle"
  /\ reading' = phoneToken
  /\ monitor' = IF phoneToken = persisted THEN "done" ELSE "finalSaving"
  /\ UNCHANGED <<phase, now, memory, disk, persisted, revoking, history>>

(* PhoneTokenHashStore.save: one rename, or one remove_file.               *)
MonitorSave ==
  /\ Running
  /\ monitor \in {"saving", "finalSaving"}
  /\ disk' = reading
  /\ persisted' = reading
  /\ monitor' = IF monitor = "saving" THEN "idle" ELSE "done"
  /\ UNCHANGED <<phase, now, memory, reading, revoking, history>>

(* `store.save(current)?` returns from the task: nobody restarts it.       *)
MonitorSaveFails ==
  /\ Running
  /\ monitor \in {"saving", "finalSaving"}
  /\ monitor' = "dead"
  /\ UNCHANGED <<phase, now, memory, disk, persisted, reading, revoking, history>>

-----------------------------------------------------------------------------
(* The process ends, in order or by a crash, and starts again from disk.   *)

Gone ==
  /\ phase' = "down"
  /\ offer' = NoOffer /\ phoneToken' = NoToken /\ persisted' = NoToken
  /\ monitor' = "idle" /\ reading' = NoToken /\ revoking' = FALSE
  /\ UNCHANGED <<now, minted, disk, history>>

Exit  == phase = "stopping" /\ monitor \in {"done", "dead"} /\ Gone
Crash == Running /\ Gone

(* WindowsHost::start: PhoneTokenHashStore.load, from_phone_token_hash.    *)
Restart ==
  /\ phase = "down"
  /\ phase' = "up"
  /\ phoneToken' = disk /\ persisted' = disk
  /\ UNCHANGED <<now, offer, minted, disk, monitor, reading, revoking, history>>

-----------------------------------------------------------------------------
Tray    == \/ \E c \in Codes : Begin(c)
           \/ RevokeMemory \/ RevokeDisk \/ RevokeDiskFails
           \/ RequestShutdown
Pair    == SubmitExpired \/ (\E c \in Codes : SubmitWrong(c)) \/ SubmitRight
Save    == MonitorSave \/ MonitorSaveFails
Monitor == MonitorRead \/ MonitorFinalRead \/ Save
Process == Exit \/ Crash \/ Restart

Next == Tick \/ Tray \/ Pair \/ Monitor \/ Process

Spec == Init /\ [][Next]_vars

(* The monitor is a task of the runtime with its own ticker: it is         *)
(* scheduled whenever it can run. Nobody owes a pairing, a revocation or a *)
(* restart.                                                                *)
FairSpec == Spec /\ WF_vars(MonitorRead) /\ WF_vars(Save)

-----------------------------------------------------------------------------
(* Properties.                                                             *)

(* One offer admits one phone: the tokens minted never outnumber the       *)
(* offers shown (a QR code is void once it was used).                      *)
OfferSingleUse == minted <= offers

(* A pairing succeeds only while its offer is fresh and fewer than         *)
(* MaxAttempts wrong codes were tried since the tray showed it, whatever   *)
(* happened in between.                                                    *)
GuessBudget ==
  [][minted' # minted =>
       /\ failures < MaxAttempts
       /\ now <= shownAt + Lifetime]_vars

(* The monitor compares memory with what it last saved, not with the file. *)
(* When it believes there is nothing to save, the file does hold what      *)
(* memory holds, although the tray removes that file behind its back.      *)
MonitorBeliefSound == Running /\ persisted = phoneToken => disk = phoneToken

(* An orderly shutdown cannot bring a revoked phone back: once the last    *)
(* save has succeeded, a host without a paired phone has no token file.    *)
CleanExitForgetsRevoked == monitor = "done" /\ phoneToken = NoToken => disk = NoToken

(* A file that differs from memory is brought up to date, unless the       *)
(* process stops first or a failed save has killed the monitor.            *)
DiskCatchesUp ==
  (phase = "up" /\ disk # phoneToken)
     ~> (disk = phoneToken \/ monitor = "dead" \/ phase # "up")

(* docs/architecture.md: a revoked credential is invalid at once. Once     *)
(* revoke_phone has returned Ok, no revoked token authenticates again.     *)
RevokedStaysOut == phoneToken \notin revoked
=============================================================================
