--------------------------- MODULE QuotaFreshness ---------------------------
(***************************************************************************)
(* How the Windows host confirms the quota upstream and what it then shows *)
(* (windows-native/src/quota.rs and the monitor of                         *)
(* bin/codex_quota_windows.rs).                                            *)
(*                                                                         *)
(* refresh_upstream_freshness_with_diagnostic asks the two upstream        *)
(* endpoints and writes three files with no lock between them: the usage   *)
(* values and the freshness are truncated and written in place, the reset  *)
(* inventory is written to a temporary name and renamed. It runs on two    *)
(* threads that may overlap: "user", the diagnostics window's "confirm     *)
(* now", and "monitor", the quota task, for its 15-minute arm and for a    *)
(* refresh the phone asked for. Every five seconds the same monitor        *)
(* collects: it reads the three files one after the other and publishes.   *)
(* The process may end between any two of these steps.                     *)
(*                                                                         *)
(* A stored value is the time of the refresh that fetched it; the content  *)
(* of the windows is HostData's subject. Chromium's cache and the session  *)
(* logs, the fallbacks of collect, are one read with a result in Elsewhere.*)
(***************************************************************************)
EXTENDS Integers

CONSTANTS
  Elsewhere,     \* links the fallback sources may yield
  MaxEvents      \* bound on the refreshes begun and on the mishaps (failed reads
                 \* and writes, lost tasks, exits), counted together

ASSUME QuotaAssumption ==
  /\ Elsewhere # {} /\ Elsewhere \subseteq {"Ok", "FormatChanged", "Unavailable"}
  /\ MaxEvents \in Nat

Missing    == -2   \* there is no such file
Unreadable == -1   \* the file is there, empty or torn: serde_json finds nothing
Never      == -1   \* no time, no values

Who   == {"user", "monitor"}
Times == 0..MaxEvents
Files == {Missing, Unreadable} \cup Times
Marks == {Never} \cup Times
Links == {"Ok", "Stale", "FormatChanged", "Unavailable"}

Dataset   == [status : {"Current", "Cached", "Unavailable"},
              attempt : Marks, success : Marks]
Freshness == [usage : Dataset, reset : Dataset]
Snapshots == [at : Marks,            \* when its direct windows were fetched
              reset : Marks,         \* when its direct inventory was fetched
              link : Links, fresh : Freshness]
Jobs      == [at : Times, prior : Freshness, asked : BOOLEAN,
              usageOk : BOOLEAN, resetOk : BOOLEAN,
              dest : {"tmp", "final", "gone"}, fresh : Freshness]

UnavailableSet == [status |-> "Unavailable", attempt |-> Never, success |-> Never]
Default == [usage |-> UnavailableSet, reset |-> UnavailableSet]
Nothing == [at |-> Never, reset |-> Never, link |-> "Unavailable", fresh |-> Default]
NoJob   == [at |-> 0, prior |-> Default, asked |-> FALSE,
            usageOk |-> FALSE, resetOk |-> FALSE, dest |-> "gone", fresh |-> Default]
NoQuota == [link |-> "none"]

VARIABLES
  usageFile,   \* direct_usage_cache_path
  resetFile,   \* direct_reset_cache_path
  resetTmp,    \* its temporary name, one for every refresh
  freshFile,   \* direct_freshness_cache_path, as load(..).unwrap_or_default() sees it
  snapFile,    \* last-snapshot-v1.json
  running,     \* the host process
  current,     \* the monitor's current_quota, which it also publishes
  trusted,     \* last_trusted_quota
  shared,      \* quota_state, which the tray's windows read
  confirming,  \* upstream_confirmation_in_progress
  pc,          \* where each thread is
  job,         \* the locals of its refresh
  arm,         \* the arm of the monitor's select! that runs
  draft,       \* the snapshot collect is building
  clock,       \* refreshes begun; refresh n has now = n
  mishaps,
  \* history, for the properties only
  saved,       \* times at which each data set was fetched and saved
  troubled     \* a fault, an overlap or an exit in mid-refresh has happened

disk   == <<usageFile, resetFile, resetTmp, freshFile, snapFile>>
host   == <<running, current, trusted, shared, confirming>>
work   == <<pc, job, arm, draft>>
bounds == <<clock, mishaps>>
past   == <<saved, troubled>>
vars   == <<disk, host, work, bounds, past>>

Refreshing == {"ask", "openUsage", "writeUsage", "openTmp", "writeTmp",
               "rename", "openFresh", "writeFresh", "report"}
Collecting == {"readFresh", "readUsage", "readReset", "publish", "failed"}

Other(p) == IF p = "user" THEN "monitor" ELSE "user"

DiskTypeOK ==
  /\ usageFile \in Files /\ resetFile \in Files /\ resetTmp \in Files
  /\ freshFile \in Freshness
  /\ snapFile \in Snapshots \cup {NoQuota}

HostTypeOK ==
  /\ running \in BOOLEAN
  /\ current \in Snapshots /\ shared \in Snapshots
  /\ trusted \in Snapshots \cup {NoQuota}
  /\ confirming = (pc["user"] # "idle")

WorkTypeOK ==
  /\ pc \in [Who -> Refreshing \cup Collecting \cup {"idle"}]
  /\ pc["user"] \notin Collecting
  /\ job \in [Who -> Jobs]
  /\ arm \in {"refresh", "direct", "quota"}
  /\ draft \in Snapshots

BoundsTypeOK ==
  /\ clock \in Times /\ mishaps \in Times
  /\ saved \in [usage : SUBSET Times, reset : SUBSET Times]
  /\ troubled \in BOOLEAN

Quiet == \A p \in Who : pc[p] \notin Refreshing \ {"ask"}

TypeOK == DiskTypeOK /\ HostTypeOK /\ WorkTypeOK /\ BoundsTypeOK

FreshSet(t) == [status |-> "Current", attempt |-> t, success |-> t]

(* A first start, or one on the disk that a successful refresh left.       *)
Init ==
  /\ \/ /\ usageFile = Missing /\ resetFile = Missing /\ freshFile = Default
        /\ saved = [usage |-> {}, reset |-> {}]
     \/ /\ usageFile = 0 /\ resetFile = 0
        /\ freshFile = [usage |-> FreshSet(0), reset |-> FreshSet(0)]
        /\ saved = [usage |-> {0}, reset |-> {0}]
  /\ resetTmp = Missing /\ snapFile = NoQuota
  /\ running = FALSE /\ current = Nothing /\ trusted = NoQuota /\ shared = Nothing
  /\ confirming = FALSE
  /\ pc = [p \in Who |-> "idle"] /\ job = [p \in Who |-> NoJob]
  /\ arm = "quota" /\ draft = Nothing
  /\ clock = 0 /\ mishaps = 0 /\ troubled = FALSE

Goto(p, l) == pc' = [pc EXCEPT ![p] = l]

Room == clock + mishaps < MaxEvents

Mishap == Room /\ mishaps' = mishaps + 1

Fault == Mishap /\ troubled' = TRUE

-----------------------------------------------------------------------------
(* A refresh.                                                              *)

(* The button of the diagnostics window; a second press does nothing.      *)
Confirm ==
  /\ running /\ ~confirming
  /\ Room
  /\ confirming' = TRUE
  /\ Goto("user", "ask")
  /\ UNCHANGED <<disk, running, current, trusted, shared, job, arm, draft, bounds,
                 past>>

(* select! takes the refresh_requests or the direct_reset_interval arm.    *)
TakeRefreshArm(a) ==
  /\ running /\ pc["monitor"] = "idle"
  /\ Room
  /\ arm' = a
  /\ Goto("monitor", "ask")
  /\ UNCHANGED <<disk, host, job, draft, bounds, past>>

(* Back to the loop, or the end of the confirming task: its locals die.    *)
Finish(p) ==
  /\ Goto(p, "idle")
  /\ job' = [job EXCEPT ![p] = NoJob]
  /\ IF p = "monitor" THEN arm' = "quota" /\ draft' = Nothing
     ELSE UNCHANGED <<arm, draft>>

(* discover or the blocking task fails, or the bound is used up: nothing   *)
(* is reported.                                                            *)
Lost(p) ==
  /\ pc[p] = "ask"
  /\ mishaps' = IF Room THEN mishaps + 1 ELSE mishaps
  /\ Finish(p)
  /\ confirming' = (confirming /\ p # "user")
  /\ UNCHANGED <<disk, running, current, trusted, shared, clock, past>>

(* The prior freshness is read, then both requests are made, before        *)
(* anything is saved. Without a token neither answers.                     *)
Ask(p, usage, reset) ==
  /\ pc[p] = "ask"
  /\ Room
  /\ clock' = clock + 1
  /\ job' = [job EXCEPT ![p] = [NoJob EXCEPT !.at = clock + 1, !.prior = freshFile,
                                            !.asked = reset]]
  /\ troubled' = (troubled \/ ~Quiet)
  /\ Goto(p, IF usage THEN "openUsage" ELSE IF reset THEN "openTmp" ELSE "openFresh")
  /\ UNCHANGED <<disk, host, arm, draft, mishaps, saved>>

AfterUsage(p) == Goto(p, IF job[p].asked THEN "openTmp" ELSE "openFresh")

(* save_direct_usage: fs::write truncates the file, then fills it.         *)
OpenUsage(p) ==
  /\ pc[p] = "openUsage"
  /\ usageFile' = Unreadable
  /\ Goto(p, "writeUsage")
  /\ UNCHANGED <<resetFile, resetTmp, freshFile, snapFile, host, job, arm, draft,
                 bounds, past>>

(* A writer that finds the other's bytes where it expected none may leave  *)
(* a mixture of both.                                                      *)
Written(file, value) == IF file \in Times THEN {value, Unreadable} ELSE {value}

WriteUsage(p) ==
  /\ pc[p] = "writeUsage"
  /\ usageFile' \in Written(usageFile, job[p].at)
  /\ job' = [job EXCEPT ![p].usageOk = TRUE]
  /\ saved' = [saved EXCEPT !.usage = @ \cup {job[p].at}]
  /\ AfterUsage(p)
  /\ UNCHANGED <<resetFile, resetTmp, freshFile, snapFile, host, arm, draft, bounds,
                 troubled>>

(* The open fails, or the write does and leaves the truncated file.        *)
SaveUsageFails(p) ==
  /\ pc[p] \in {"openUsage", "writeUsage"}
  /\ Fault
  /\ AfterUsage(p)
  /\ UNCHANGED <<disk, host, job, arm, draft, clock, saved>>

(* save_direct_reset_inventory: fs::write of the temporary file...         *)
OpenTmp(p) ==
  /\ pc[p] = "openTmp"
  /\ resetTmp' = Unreadable
  /\ job' = [job EXCEPT ![p].dest = "tmp"]
  /\ Goto(p, "writeTmp")
  /\ UNCHANGED <<usageFile, resetFile, freshFile, snapFile, host, arm, draft, bounds,
                 past>>

(* ... whose open handle follows the file when the other refresh renames   *)
(* it...                                                                   *)
WriteTmp(p) ==
  /\ pc[p] = "writeTmp"
  /\ IF job[p].dest = "tmp"
       THEN resetTmp' \in Written(resetTmp, job[p].at)
       ELSE UNCHANGED resetTmp
  /\ IF job[p].dest = "final"
       THEN resetFile' \in Written(resetFile, job[p].at)
       ELSE UNCHANGED resetFile
  /\ Goto(p, "rename")
  /\ UNCHANGED <<usageFile, freshFile, snapFile, host, job, arm, draft, bounds, past>>

(* ... then the rename, which fails when the other took the name away.     *)
Rename(p) ==
  /\ pc[p] = "rename"
  /\ IF resetTmp # Missing
       THEN /\ resetFile' = resetTmp /\ resetTmp' = Missing
            /\ job' = [job EXCEPT ![p].resetOk = TRUE,
                         ![Other(p)].dest = IF @ = "tmp" THEN "final" ELSE "gone"]
            /\ saved' = [saved EXCEPT !.reset = @ \cup {job[p].at}]
       ELSE UNCHANGED <<resetFile, resetTmp, job, saved>>
  /\ Goto(p, "openFresh")
  /\ UNCHANGED <<usageFile, freshFile, snapFile, host, arm, draft, bounds, troubled>>

(* A step of it fails; after the rename the temporary file is removed.     *)
SaveResetFails(p) ==
  /\ pc[p] \in {"openTmp", "writeTmp", "rename"}
  /\ Fault
  /\ resetTmp' = IF pc[p] = "rename" THEN Missing ELSE resetTmp
  /\ job' = [job EXCEPT ![Other(p)].dest =
               IF pc[p] = "rename" /\ @ = "tmp" THEN "gone" ELSE @]
  /\ Goto(p, "openFresh")
  /\ UNCHANGED <<usageFile, resetFile, freshFile, snapFile, host, arm, draft, clock,
                 saved>>

(* Mutant: next_freshness stamps a success on every attempt.               *)
NextDatasetStampsAlways(prior, ok, exists, t) ==
  [status  |-> IF ok THEN "Current" ELSE IF exists THEN "Cached" ELSE "Unavailable",
   attempt |-> t, success |-> t]

(* Mutant: next_freshness forgets the last success when an attempt fails.  *)
NextDatasetForgets(prior, ok, exists, t) ==
  [status  |-> IF ok THEN "Current" ELSE IF exists THEN "Cached" ELSE "Unavailable",
   attempt |-> t, success |-> IF ok THEN t ELSE Never]

(* next_freshness                                                          *)
NextDataset(prior, ok, exists, t) ==
  [status  |-> IF ok THEN "Current" ELSE IF exists THEN "Cached" ELSE "Unavailable",
   attempt |-> t, success |-> IF ok THEN t ELSE prior.success]

NextFreshness(j) ==
  [usage |-> NextDataset(j.prior.usage, j.usageOk, usageFile # Missing, j.at),
   reset |-> NextDataset(j.prior.reset, j.resetOk, resetFile # Missing, j.at)]

(* The refresh_requests arm goes on to collect.                            *)
AfterFresh(p) ==
  Goto(p, IF p = "monitor" /\ arm = "refresh" THEN "readFresh" ELSE "report")

(* save_upstream_freshness truncates and writes in place, too...           *)
OpenFresh(p) ==
  /\ pc[p] = "openFresh"
  /\ job' = [job EXCEPT ![p] = [NoJob EXCEPT !.fresh = NextFreshness(job[p])]]
  /\ freshFile' = Default
  /\ Goto(p, "writeFresh")
  /\ UNCHANGED <<usageFile, resetFile, resetTmp, snapFile, host, arm, draft, bounds,
                 past>>

WriteFresh(p) ==
  /\ pc[p] = "writeFresh"
  /\ freshFile' \in IF freshFile = Default THEN {job[p].fresh} ELSE {job[p].fresh, Default}
  /\ AfterFresh(p)
  /\ UNCHANGED <<usageFile, resetFile, resetTmp, snapFile, host, job, arm, draft,
                 bounds, past>>

(* ... and its error is ignored.                                           *)
SaveFreshFails(p) ==
  /\ pc[p] \in {"openFresh", "writeFresh"}
  /\ Fault
  /\ job' = [job EXCEPT ![p] = IF pc[p] = "openFresh"
                THEN [NoJob EXCEPT !.fresh = NextFreshness(job[p])] ELSE @]
  /\ AfterFresh(p)
  /\ UNCHANGED <<disk, host, arm, draft, clock, saved>>

(* Mutant: confirm_upstream_now leaves its flag set when the query failed. *)
ReportToUserOnSuccess ==
  /\ pc["user"] = "report"
  /\ shared' = [shared EXCEPT !.fresh = job["user"].fresh]
  /\ confirming' = (job["user"].fresh.usage.status # "Current")
  /\ Finish("user")
  /\ UNCHANGED <<disk, running, current, trusted, bounds, past>>

(* confirm_upstream_now tells the windows, not the monitor.                *)
ReportToUser ==
  /\ pc["user"] = "report"
  /\ shared' = [shared EXCEPT !.fresh = job["user"].fresh]
  /\ confirming' = FALSE
  /\ Finish("user")
  /\ UNCHANGED <<disk, running, current, trusted, bounds, past>>

Show(s) == current' = s /\ shared' = s

(* The direct_reset_interval arm publishes the freshness with the values   *)
(* it had.                                                                 *)
ReportDirect ==
  /\ pc["monitor"] = "report"
  /\ Show([current EXCEPT !.fresh = job["monitor"].fresh])
  /\ Finish("monitor")
  /\ UNCHANGED <<disk, running, trusted, confirming, bounds,
                 past>>

-----------------------------------------------------------------------------
(* collect, and what the monitor does with it.                             *)

TakeQuotaArm ==
  /\ running /\ pc["monitor"] = "idle"
  /\ arm' = "quota"
  /\ Goto("monitor", "readFresh")
  /\ UNCHANGED <<disk, host, job, draft, bounds, past>>

ReadFresh ==
  /\ pc["monitor"] = "readFresh"
  /\ draft' = [Nothing EXCEPT !.fresh = freshFile]
  /\ Goto("monitor", "readUsage")
  /\ UNCHANGED <<disk, host, job, arm, bounds, past>>

(* The link of a snapshot whose windows are the direct ones.               *)
DirectLink(f) == IF f.usage.status = "Current" THEN "Ok" ELSE "Stale"

(* The direct values when they can be read, else the fallbacks.            *)
WithUsage(s, elsewhere) ==
  IF usageFile \in Times
    THEN [s EXCEPT !.at = usageFile, !.link = DirectLink(s.fresh)]
    ELSE [s EXCEPT !.at = Never, !.link = elsewhere]

WithReset(s) == [s EXCEPT !.reset = IF resetFile \in Times THEN resetFile ELSE Never]

ReadUsage(elsewhere) ==
  /\ pc["monitor"] = "readUsage"
  /\ draft' = WithUsage(draft, elsewhere)
  /\ Goto("monitor", "readReset")
  /\ UNCHANGED <<disk, host, job, arm, bounds, past>>

(* Mutant: collect reads the freshness last.                               *)
ReadResetThenFresh ==
  /\ pc["monitor"] = "readReset"
  /\ draft' = [WithReset(draft) EXCEPT !.fresh = freshFile,
                 !.link = IF draft.at = Never THEN @ ELSE DirectLink(freshFile)]
  /\ Goto("monitor", "publish")
  /\ UNCHANGED <<disk, host, job, arm, bounds, past>>

ReadReset ==
  /\ pc["monitor"] = "readReset"
  /\ draft' = WithReset(draft)
  /\ Goto("monitor", "publish")
  /\ UNCHANGED <<disk, host, job, arm, bounds, past>>

(* A file or directory that exists cannot be read: collect returns Err.    *)
CollectFails ==
  /\ pc["monitor"] \in {"readUsage", "readReset"}
  /\ Fault
  /\ Goto("monitor", "failed")
  /\ UNCHANGED <<disk, host, job, arm, draft, clock, saved>>

(* save_cached_snapshot skips the freshness (serde skip_serializing).      *)
Stored(s) == [s EXCEPT !.fresh = Default]

(* Mutant: the windows' copy is not updated by the monitor.                *)
PublishOnly ==
  /\ pc["monitor"] = "publish"
  /\ current' = draft /\ UNCHANGED shared
  /\ trusted' = IF draft.link = "Ok" THEN draft ELSE trusted
  /\ snapFile' = IF draft.link = "Ok" THEN Stored(draft) ELSE snapFile
  /\ Finish("monitor")
  /\ UNCHANGED <<usageFile, resetFile, resetTmp, freshFile, running, confirming, bounds,
                 past>>

(* A trusted snapshot is remembered and saved (its error is ignored);      *)
(* current_quota, quota_state and the publisher follow.                    *)
Publish ==
  /\ pc["monitor"] = "publish"
  /\ Show(draft)
  /\ trusted' = IF draft.link = "Ok" THEN draft ELSE trusted
  /\ snapFile' = IF draft.link = "Ok" THEN Stored(draft) ELSE snapFile
  /\ Finish("monitor")
  /\ UNCHANGED <<usageFile, resetFile, resetTmp, freshFile, running, confirming, bounds,
                 past>>

PublishUnsaved ==
  /\ pc["monitor"] = "publish" /\ draft.link = "Ok"
  /\ Fault
  /\ Show(draft) /\ trusted' = draft
  /\ Finish("monitor")
  /\ UNCHANGED <<disk, running, confirming, clock, saved>>

(* Without a snapshot: the requested refresh still shows its freshness, a  *)
(* tick falls back to the last trusted snapshot, if there is one.          *)
ShowFailure ==
  /\ pc["monitor"] = "failed"
  /\ IF arm = "refresh"
       THEN Show([current EXCEPT !.fresh = job["monitor"].fresh])
       ELSE IF trusted # NoQuota THEN Show([trusted EXCEPT !.link = "Stale"])
       ELSE UNCHANGED <<current, shared>>
  /\ Finish("monitor")
  /\ UNCHANGED <<disk, running, trusted, confirming, bounds,
                 past>>

-----------------------------------------------------------------------------
(* The process.                                                            *)

(* It ends with whatever its threads have written so far.                  *)
Exit ==
  /\ running
  /\ Mishap
  /\ running' = FALSE /\ current' = Nothing /\ shared' = Nothing /\ trusted' = NoQuota
  /\ confirming' = FALSE
  /\ pc' = [p \in Who |-> "idle"] /\ job' = [p \in Who |-> NoJob]
  /\ arm' = "quota" /\ draft' = Nothing
  /\ troubled' = (troubled \/ ~Quiet)
  /\ UNCHANGED <<disk, clock, saved>>

(* run's initial_quota: collect unless it finds nothing, else the saved    *)
(* snapshot as a stale one, else the unavailable payload.                  *)
Collected(elsewhere) ==
  WithReset(WithUsage([Nothing EXCEPT !.fresh = freshFile], elsewhere))

LoadedSnapshot == IF snapFile = NoQuota THEN Nothing
                  ELSE [snapFile EXCEPT !.link = "Stale"]

InitialQuota(elsewhere) ==
  IF Collected(elsewhere).link # "Unavailable" THEN Collected(elsewhere)
  ELSE LoadedSnapshot

StartWith(quota) ==
  /\ ~running
  /\ running' = TRUE
  /\ Show(quota)
  /\ trusted' = IF quota.link = "Ok" THEN quota ELSE NoQuota
  /\ UNCHANGED <<disk, confirming, work, clock, saved>>

Start(elsewhere) ==
  /\ StartWith(InitialQuota(elsewhere))
  /\ UNCHANGED <<mishaps, troubled>>

StartUnread == Fault /\ StartWith(LoadedSnapshot)

-----------------------------------------------------------------------------
Refresh(p) ==
  \/ Lost(p)
  \/ \E usage, reset \in BOOLEAN : Ask(p, usage, reset)
  \/ OpenUsage(p) \/ WriteUsage(p) \/ SaveUsageFails(p)
  \/ OpenTmp(p) \/ WriteTmp(p) \/ Rename(p) \/ SaveResetFails(p)
  \/ OpenFresh(p) \/ WriteFresh(p) \/ SaveFreshFails(p)

Monitor ==
  \/ ReportDirect
  \/ ReadFresh \/ (\E e \in Elsewhere : ReadUsage(e)) \/ ReadReset \/ CollectFails
  \/ Publish \/ PublishUnsaved \/ ShowFailure

Next ==
  \/ Confirm \/ ReportToUser
  \/ \E a \in {"refresh", "direct"} : TakeRefreshArm(a)
  \/ \E p \in Who : Refresh(p)
  \/ TakeQuotaArm \/ Monitor
  \/ Exit \/ (\E e \in Elsewhere : Start(e)) \/ StartUnread

Spec == Init /\ [][Next]_vars

(* Every blocking call ends (the HTTP client has a timeout), so a thread   *)
(* that has a step takes it, and the five-second timer always fires again. *)
FairSpec ==
  /\ Spec
  /\ WF_vars(Refresh("user") \/ ReportToUser)
  /\ WF_vars(Refresh("monitor") \/ Monitor)
  /\ WF_vars(TakeQuotaArm)

-----------------------------------------------------------------------------
Saves(f) ==
  /\ f.usage.success \in saved.usage \cup {Never}
  /\ f.reset.success \in saved.reset \cup {Never}
  /\ \A d \in {f.usage, f.reset} :
       d.status = "Current" => d.success = d.attempt /\ d.success # Never

(* No confirmation is invented: a time of last success, in the freshness   *)
(* file, in what is published, in what the windows show and in what the    *)
(* monitor would fall back to, is the time of a refresh that fetched that  *)
(* data set and saved it, and Current means that refresh was the last one  *)
(* to try.                                                                 *)
NoInventedSuccess ==
  /\ Saves(freshFile) /\ Saves(current.fresh) /\ Saves(shared.fresh)
  /\ trusted # NoQuota => Saves(trusted.fresh)

Agree(file, success, times) ==
  /\ \A t \in times : t <= success
  /\ success \in times \cup {Never}
  /\ IF times = {} THEN success = Never /\ file = Missing ELSE file = success

(* As long as no refresh was cut short, failed to write or ran over        *)
(* another: between refreshes the stored values are the last ones fetched  *)
(* and the freshness file names exactly their time, whatever requests      *)
(* failed since ("the last sanitized values remain available as cache").   *)
LastValuesKept ==
  ~troubled /\ Quiet =>
    /\ Agree(usageFile, freshFile.usage.success, saved.usage)
    /\ Agree(resetFile, freshFile.reset.success, saved.reset)

(* A snapshot the monitor trusts does not claim a confirmation newer than  *)
(* its own values: collect reads the freshness before the values, and a    *)
(* refresh writes the values before the freshness.                         *)
TrustedIsAsNewAsItSays ==
  ~troubled /\ trusted # NoQuota =>
    /\ trusted.at # Never => trusted.at >= trusted.fresh.usage.success
    /\ trusted.reset >= trusted.fresh.reset.success

(* A confirmation the user asked for ends: the flag that blocks the button *)
(* is cleared, whatever fails.                                             *)
ConfirmationEnds == []<>~confirming

(* Whatever a lost or a late write did to them, the windows and the        *)
(* publisher end up with the freshness that is on disk.                    *)
ShownFollowsDisk ==
  <>[](running => shared.fresh = freshFile /\ current.fresh = freshFile)

(* Confirmations end, and what they learnt is what is shown.               *)
ConfirmationsAreShown == ConfirmationEnds /\ ShownFollowsDisk
=============================================================================
