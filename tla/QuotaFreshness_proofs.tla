------------------------ MODULE QuotaFreshness_proofs ------------------------
(* Theorems about QuotaFreshness, for any number of refreshes and mishaps  *)
(* and any links of the fallback sources: the types, that no success is    *)
(* ever invented, that an undisturbed refresh keeps the values it did not  *)
(* renew, and that a trusted value is as new as the time beside it says.   *)
EXTENDS QuotaFreshness, TLAPS

USE QuotaAssumption DEF QuotaAssumption

-----------------------------------------------------------------------------
(* The records the model is built from.                                    *)

LEMMA Constants ==
  /\ Default \in Freshness /\ Nothing \in Snapshots /\ NoJob \in Jobs
  /\ Never \in Marks /\ 0 \in Times
<1>1. Never \in Marks /\ 0 \in Times
  BY DEF Marks, Times, Never
<1>2. UnavailableSet \in Dataset
  BY <1>1 DEF UnavailableSet, Dataset
<1>3. Default \in Freshness
  BY <1>2 DEF Default, Freshness
<1>4. Nothing \in Snapshots
  BY <1>1, <1>3 DEF Nothing, Snapshots, Links
<1>5. NoJob \in Jobs
  BY <1>1, <1>3 DEF NoJob, Jobs
<1> QED BY <1>1, <1>3, <1>4, <1>5

LEMMA DatasetType ==
  ASSUME NEW prior \in Dataset, NEW ok \in BOOLEAN, NEW exists, NEW t \in Times
  PROVE  NextDataset(prior, ok, exists, t) \in Dataset
BY DEF NextDataset, Dataset, Marks

LEMMA FreshnessType ==
  ASSUME NEW j \in Jobs
  PROVE  NextFreshness(j) \in Freshness
<1>1. /\ j.prior.usage \in Dataset /\ j.prior.reset \in Dataset
      /\ j.usageOk \in BOOLEAN /\ j.resetOk \in BOOLEAN /\ j.at \in Times
  BY DEF Jobs, Freshness
<1> QED BY <1>1, DatasetType DEF NextFreshness, Freshness

LEMMA JobUpdates ==
  ASSUME NEW j \in Jobs
  PROVE  /\ [j EXCEPT !.usageOk = TRUE] \in Jobs
         /\ [j EXCEPT !.resetOk = TRUE] \in Jobs
         /\ \A d \in {"tmp", "final", "gone"} : [j EXCEPT !.dest = d] \in Jobs
         /\ \A f \in Freshness : [NoJob EXCEPT !.fresh = f] \in Jobs
BY Constants DEF Jobs

LEMMA AskedJob ==
  ASSUME NEW t \in Times, NEW f \in Freshness, NEW reset \in BOOLEAN
  PROVE  [NoJob EXCEPT !.at = t, !.prior = f, !.asked = reset] \in Jobs
<1>1. CASE reset
  BY <1>1, Constants DEF Jobs
<1>2. CASE ~ reset
  BY <1>2, Constants DEF Jobs
<1> QED BY <1>1, <1>2

LEMMA SnapshotUpdates ==
  ASSUME NEW s \in Snapshots
  PROVE  /\ \A f \in Freshness : [s EXCEPT !.fresh = f] \in Snapshots
         /\ \A l \in Links : [s EXCEPT !.link = l] \in Snapshots
         /\ \A m \in Marks : [s EXCEPT !.reset = m] \in Snapshots
         /\ \A m \in Marks, l \in Links : [s EXCEPT !.at = m, !.link = l] \in Snapshots
BY DEF Snapshots

-----------------------------------------------------------------------------
(* Type correctness.                                                       *)

Stages == Refreshing \cup Collecting \cup {"idle"}

PcOK ==
  /\ pc \in [Who -> Stages]
  /\ pc["user"] \notin Collecting
  /\ confirming = (pc["user"] # "idle")

ShowOK ==
  /\ running \in BOOLEAN
  /\ current \in Snapshots /\ shared \in Snapshots
  /\ trusted \in Snapshots \cup {NoQuota}

JobOK == job \in [Who -> Jobs] /\ arm \in {"refresh", "direct", "quota"} /\ draft \in Snapshots

LEMMA TypeParts == TypeOK <=> DiskTypeOK /\ PcOK /\ ShowOK /\ JobOK /\ BoundsTypeOK
BY DEF TypeOK, HostTypeOK, WorkTypeOK, PcOK, ShowOK, JobOK, Stages

LEMMA TypePartsNext ==
  TypeOK' <=> DiskTypeOK' /\ PcOK' /\ ShowOK' /\ JobOK' /\ BoundsTypeOK'
BY DEF TypeOK, HostTypeOK, WorkTypeOK, PcOK, ShowOK, JobOK, Stages

LEMMA InitTypes == Init => TypeOK
<1> SUFFICES ASSUME Init PROVE TypeOK
  OBVIOUS
<1>1. FreshSet(0) \in Dataset
  BY Constants DEF FreshSet, Dataset, Marks
<1>2. DiskTypeOK
  <2>1. [usage |-> FreshSet(0), reset |-> FreshSet(0)] \in Freshness
    BY <1>1 DEF Freshness
  <2>2. freshFile \in Freshness
    BY <2>1, Constants DEF Init
  <2>3. usageFile \in Files /\ resetFile \in Files /\ resetTmp \in Files
    BY Constants DEF Init, Files
  <2> QED BY <2>2, <2>3 DEF Init, DiskTypeOK
<1>3. ShowOK /\ JobOK
  BY Constants DEF Init, ShowOK, JobOK, Who
<1>4. PcOK
  BY DEF Init, PcOK, Who, Stages, Collecting
<1>5. BoundsTypeOK
  <2>1. saved \in {[usage |-> {}, reset |-> {}], [usage |-> {0}, reset |-> {0}]}
    BY DEF Init
  <2>2. saved \in [usage : SUBSET Times, reset : SUBSET Times]
    BY <2>1, Constants
  <2> QED BY <2>2, Constants DEF Init, BoundsTypeOK
<1> QED BY <1>2, <1>3, <1>4, <1>5, TypeParts

(* A thread that stays at work keeps the flag and the window as they are.  *)
LEMMA PcMoves ==
  ASSUME PcOK, NEW p \in Who, NEW l \in Stages, Goto(p, l), UNCHANGED confirming,
         p = "user" => pc[p] # "idle" /\ l \in Refreshing
  PROVE  PcOK'
<1>1. pc' \in [Who -> Stages]
  BY DEF PcOK, Goto
<1>2. CASE p = "user"
  <2>1. pc'["user"] = l /\ l # "idle" /\ l \notin Collecting
    BY <1>2 DEF Goto, PcOK, Refreshing, Collecting
  <2>2. confirming
    BY <1>2 DEF PcOK
  <2>3. confirming' = (pc'["user"] # "idle")
    <3>1. (confirming = TRUE) /\ (pc["user"] # "idle")
      BY <1>2, <2>2 DEF PcOK
    <3>2. (pc'["user"] # "idle") = TRUE
      BY <2>1
    <3> QED BY <3>1, <3>2
  <2> QED BY <1>1, <2>1, <2>3 DEF PcOK
<1>3. CASE p # "user"
  <2>1. pc'["user"] = pc["user"]
    BY <1>3 DEF Goto, PcOK, Who
  <2> QED BY <1>1, <2>1 DEF PcOK
<1> QED BY <1>2, <1>3

LEMMA RefreshPc ==
  ASSUME PcOK, NEW p \in Who, Refresh(p), ~ Lost(p)
  PROVE  PcOK'
<1>1. ASSUME NEW usage, NEW reset, Ask(p, usage, reset)
      PROVE  PcOK'
  <2>1. /\ Goto(p, IF usage THEN "openUsage" ELSE IF reset THEN "openTmp" ELSE "openFresh")
        /\ pc[p] # "idle" /\ UNCHANGED confirming
    BY <1>1 DEF Ask, host
  <2> QED BY <2>1, PcMoves DEF Stages, Refreshing
<1>2. CASE OpenUsage(p) \/ WriteUsage(p) \/ SaveUsageFails(p)
  <2>1. \E l \in {"writeUsage", "openTmp", "openFresh"} : Goto(p, l)
    BY <1>2 DEF OpenUsage, WriteUsage, SaveUsageFails, AfterUsage
  <2>2. pc[p] # "idle" /\ UNCHANGED confirming
    BY <1>2 DEF OpenUsage, WriteUsage, SaveUsageFails, host
  <2> QED BY <2>1, <2>2, PcMoves DEF Stages, Refreshing
<1>3. CASE OpenTmp(p) \/ WriteTmp(p) \/ Rename(p) \/ SaveResetFails(p) \/ OpenFresh(p)
  <2>1. \E l \in {"writeTmp", "rename", "openFresh", "writeFresh"} : Goto(p, l)
    BY <1>3 DEF OpenTmp, WriteTmp, Rename, SaveResetFails, OpenFresh
  <2>2. pc[p] # "idle" /\ UNCHANGED confirming
    BY <1>3 DEF OpenTmp, WriteTmp, Rename, SaveResetFails, OpenFresh, host
  <2> QED BY <2>1, <2>2, PcMoves DEF Stages, Refreshing
<1>4. CASE WriteFresh(p) \/ SaveFreshFails(p)
  <2>1. \E l \in {"readFresh", "report"} : Goto(p, l) /\ (p = "user" => l = "report")
    BY <1>4 DEF WriteFresh, SaveFreshFails, AfterFresh
  <2>2. pc[p] # "idle" /\ UNCHANGED confirming
    BY <1>4 DEF WriteFresh, SaveFreshFails, host
  <2> QED BY <2>1, <2>2, PcMoves DEF Stages, Refreshing, Collecting
<1> QED BY <1>1, <1>2, <1>3, <1>4 DEF Refresh

(* The end of a thread's work.                                             *)
LEMMA FinishTypes ==
  ASSUME JobOK, PcOK, NEW p \in Who, Finish(p),
         IF p = "user" THEN confirming' = FALSE ELSE UNCHANGED confirming
  PROVE  JobOK' /\ PcOK'
<1>1. JobOK'
  BY Constants DEF Finish, JobOK
<1>2. pc' \in [Who -> Stages]
  BY DEF Finish, Goto, PcOK, Stages
<1>3. CASE p = "user"
  <2>1. pc'["user"] = "idle" /\ confirming' = FALSE
    BY <1>3 DEF Finish, Goto, PcOK
  <2>2. (pc'["user"] # "idle") = FALSE
    BY <2>1
  <2> QED BY <1>1, <1>2, <2>1, <2>2 DEF PcOK, Collecting
<1>4. CASE p # "user"
  <2>1. pc'["user"] = pc["user"] /\ confirming' = confirming
    BY <1>4 DEF Finish, Goto, PcOK, Who
  <2> QED BY <1>1, <1>2, <2>1 DEF PcOK
<1> QED BY <1>3, <1>4
LEMMA WrittenFiles ==
  ASSUME NEW file, NEW t \in Times
  PROVE  Written(file, t) \subseteq Files
BY DEF Written, Files

LEMMA JobFields ==
  ASSUME NEW j \in Jobs
  PROVE  /\ j.at \in Times /\ j.prior \in Freshness /\ j.fresh \in Freshness
         /\ j.usageOk \in BOOLEAN /\ j.resetOk \in BOOLEAN
BY DEF Jobs

LEMMA RefreshDisk ==
  ASSUME DiskTypeOK, JobOK, NEW p \in Who, Refresh(p)
  PROVE  DiskTypeOK'
<1>0. job[p].at \in Times /\ job[p].fresh \in Freshness
  BY JobFields DEF JobOK
<1>1. Unreadable \in Files /\ Missing \in Files
  BY DEF Files
<1>2. CASE OpenUsage(p) \/ OpenTmp(p)
  BY <1>1, <1>2 DEF OpenUsage, OpenTmp, DiskTypeOK
<1>3. CASE WriteUsage(p)
  BY <1>0, <1>3, WrittenFiles DEF WriteUsage, DiskTypeOK
<1>4. CASE WriteTmp(p)
  <2>1. resetTmp' \in Files
    BY <1>0, <1>4, WrittenFiles DEF WriteTmp, DiskTypeOK
  <2>2. resetFile' \in Files
    BY <1>0, <1>4, WrittenFiles DEF WriteTmp, DiskTypeOK
  <2> QED BY <1>4, <2>1, <2>2 DEF WriteTmp, DiskTypeOK
<1>5. CASE Rename(p)
  BY <1>1, <1>5 DEF Rename, DiskTypeOK
<1>6. CASE SaveResetFails(p)
  BY <1>1, <1>6 DEF SaveResetFails, DiskTypeOK
<1>7. CASE OpenFresh(p)
  BY <1>7, Constants DEF OpenFresh, DiskTypeOK
<1>8. CASE WriteFresh(p)
  BY <1>0, <1>8, Constants DEF WriteFresh, DiskTypeOK
<1>9. CASE UNCHANGED disk
  BY <1>9 DEF disk, DiskTypeOK
<1>10. CASE Lost(p) \/ SaveUsageFails(p) \/ SaveFreshFails(p)
  BY <1>9, <1>10 DEF Lost, SaveUsageFails, SaveFreshFails
<1>11. ASSUME NEW usage, NEW reset, Ask(p, usage, reset)
       PROVE  DiskTypeOK'
  BY <1>9, <1>11 DEF Ask
<1> QED
  BY <1>2, <1>3, <1>4, <1>5, <1>6, <1>7, <1>8, <1>10, <1>11 DEF Refresh

LEMMA RefreshShow ==
  ASSUME ShowOK, NEW p \in Who, Refresh(p)
  PROVE  ShowOK'
<1>1. UNCHANGED <<running, current, trusted, shared>>
  BY DEF Refresh, Lost, Ask, OpenUsage, WriteUsage, SaveUsageFails, OpenTmp, WriteTmp,
         Rename, SaveResetFails, OpenFresh, WriteFresh, SaveFreshFails, host
<1> QED BY <1>1 DEF ShowOK

LEMMA RefreshBounds ==
  ASSUME BoundsTypeOK, JobOK, NEW p \in Who, Refresh(p)
  PROVE  BoundsTypeOK'
<1>0. job[p].at \in Times
  BY JobFields DEF JobOK
<1>1. clock' \in Times
  <2>1. ASSUME NEW usage, NEW reset, Ask(p, usage, reset)
        PROVE  clock' \in Times
    BY <2>1 DEF Ask, Room, BoundsTypeOK, Times
  <2>2. CASE Lost(p) \/ OpenUsage(p) \/ WriteUsage(p) \/ SaveUsageFails(p) \/ OpenTmp(p)
             \/ WriteTmp(p) \/ Rename(p) \/ SaveResetFails(p) \/ OpenFresh(p)
             \/ WriteFresh(p) \/ SaveFreshFails(p)
    <3>1. UNCHANGED clock
      BY <2>2 DEF Lost, OpenUsage, WriteUsage, SaveUsageFails, OpenTmp, WriteTmp,
         Rename, SaveResetFails, OpenFresh, WriteFresh, SaveFreshFails, bounds
    <3> QED BY <3>1 DEF BoundsTypeOK
  <2> QED BY <2>1, <2>2 DEF Refresh
<1>2. mishaps' \in Times
  <2>1. ASSUME NEW usage, NEW reset, Ask(p, usage, reset)
        PROVE  mishaps' \in Times
    BY <2>1 DEF Ask, BoundsTypeOK
  <2>2. CASE Lost(p) \/ SaveUsageFails(p) \/ SaveResetFails(p) \/ SaveFreshFails(p)
    <3>1. UNCHANGED mishaps \/ (Room /\ mishaps' = mishaps + 1)
      BY <2>2 DEF Lost, SaveUsageFails, SaveResetFails, SaveFreshFails, Fault, Mishap
    <3> QED BY <3>1 DEF BoundsTypeOK, Room, Times
  <2>3. CASE OpenUsage(p) \/ WriteUsage(p) \/ OpenTmp(p) \/ WriteTmp(p) \/ Rename(p)
             \/ OpenFresh(p) \/ WriteFresh(p)
    <3>1. UNCHANGED mishaps
      BY <2>3 DEF OpenUsage, WriteUsage, OpenTmp, WriteTmp, Rename, OpenFresh,
         WriteFresh, bounds
    <3> QED BY <3>1 DEF BoundsTypeOK
  <2> QED BY <2>1, <2>2, <2>3 DEF Refresh
<1>3. saved' \in [usage : SUBSET Times, reset : SUBSET Times]
  <2>1. CASE WriteUsage(p)
    BY <1>0, <2>1 DEF WriteUsage, BoundsTypeOK
  <2>2. CASE Rename(p)
    BY <1>0, <2>2 DEF Rename, BoundsTypeOK
  <2>3. CASE UNCHANGED saved
    BY <2>3 DEF BoundsTypeOK
  <2>4. CASE Lost(p) \/ OpenUsage(p) \/ SaveUsageFails(p) \/ OpenTmp(p) \/ WriteTmp(p)
             \/ SaveResetFails(p) \/ OpenFresh(p) \/ WriteFresh(p) \/ SaveFreshFails(p)
    BY <2>3, <2>4 DEF Lost, OpenUsage, SaveUsageFails, OpenTmp, WriteTmp,
         SaveResetFails, OpenFresh, WriteFresh, SaveFreshFails, past
  <2>5. ASSUME NEW usage, NEW reset, Ask(p, usage, reset)
        PROVE  UNCHANGED saved
    BY <2>5 DEF Ask
  <2> QED BY <2>1, <2>2, <2>3, <2>4, <2>5 DEF Refresh
<1>4. troubled' \in BOOLEAN
  <2>1. CASE UNCHANGED troubled
    BY <2>1 DEF BoundsTypeOK
  <2>2. CASE troubled' = TRUE
    BY <2>2
  <2>3. ASSUME NEW usage, NEW reset, Ask(p, usage, reset)
        PROVE  troubled' \in BOOLEAN
    <3>1. troubled' = (troubled \/ ~ Quiet)
      BY <2>3 DEF Ask
    <3> QED BY <3>1, Zenon
  <2>4. CASE Lost(p) \/ OpenUsage(p) \/ WriteUsage(p) \/ OpenTmp(p) \/ WriteTmp(p)
             \/ Rename(p) \/ OpenFresh(p) \/ WriteFresh(p)
    BY <2>1, <2>4 DEF Lost, OpenUsage, WriteUsage, OpenTmp, WriteTmp, Rename, OpenFresh,
         WriteFresh, past
  <2>5. CASE SaveUsageFails(p) \/ SaveResetFails(p) \/ SaveFreshFails(p)
    BY <2>2, <2>5 DEF SaveUsageFails, SaveResetFails, SaveFreshFails, Fault
  <2> QED BY <2>3, <2>4, <2>5 DEF Refresh
<1> QED BY <1>1, <1>2, <1>3, <1>4 DEF BoundsTypeOK

LEMMA RefreshJob ==
  ASSUME JobOK, DiskTypeOK, BoundsTypeOK, NEW p \in Who, Refresh(p), ~ Lost(p)
  PROVE  JobOK'
<1>0. /\ job \in [Who -> Jobs] /\ job[p] \in Jobs /\ job[Other(p)] \in Jobs
      /\ Other(p) \in Who /\ Other(p) # p
  BY DEF JobOK, Who, Other
<1>1. UNCHANGED <<arm, draft>>
  BY DEF Refresh, Ask, OpenUsage, WriteUsage, SaveUsageFails, OpenTmp, WriteTmp,
         Rename, SaveResetFails, OpenFresh, WriteFresh, SaveFreshFails
<1>2. job' \in [Who -> Jobs]
  <2>1. ASSUME NEW usage \in BOOLEAN, NEW reset \in BOOLEAN, Ask(p, usage, reset)
        PROVE  job' \in [Who -> Jobs]
    <3>1. clock + 1 \in Times
      BY <2>1 DEF Ask, Room, BoundsTypeOK, Times
    <3>2. [NoJob EXCEPT !.at = clock + 1, !.prior = freshFile, !.asked = reset] \in Jobs
      BY <3>1, AskedJob DEF DiskTypeOK
    <3> QED BY <1>0, <2>1, <3>2 DEF Ask
  <2>2. CASE WriteUsage(p)
    <3>1. job' = [job EXCEPT ![p] = [job[p] EXCEPT !.usageOk = TRUE]]
      BY <1>0, <2>2 DEF WriteUsage
    <3> QED BY <1>0, <3>1, JobUpdates
  <2>3. CASE OpenTmp(p)
    <3>1. job' = [job EXCEPT ![p] = [job[p] EXCEPT !.dest = "tmp"]]
      BY <1>0, <2>3 DEF OpenTmp
    <3> QED BY <1>0, <3>1, JobUpdates
  <2>4. CASE Rename(p)
    <3>1. CASE resetTmp # Missing
      <4>1. PICK d \in {"tmp", "final", "gone"} :
              job' = [job EXCEPT ![p].resetOk = TRUE, ![Other(p)].dest = d]
        BY <2>4, <3>1 DEF Rename
      <4>2. job' = [job EXCEPT ![p] = [job[p] EXCEPT !.resetOk = TRUE],
                               ![Other(p)] = [job[Other(p)] EXCEPT !.dest = d]]
        BY <1>0, <4>1
      <4> QED BY <1>0, <4>2, JobUpdates
    <3>2. CASE resetTmp = Missing
      BY <1>0, <2>4, <3>2 DEF Rename
    <3> QED BY <3>1, <3>2
  <2>5. CASE SaveResetFails(p)
    <3>0. job[Other(p)].dest \in {"tmp", "final", "gone"}
      BY <1>0 DEF Jobs
    <3>1. PICK d \in {"tmp", "final", "gone"} :
            job' = [job EXCEPT ![Other(p)] = [job[Other(p)] EXCEPT !.dest = d]]
      BY <1>0, <2>5, <3>0 DEF SaveResetFails
    <3> QED BY <1>0, <3>1, JobUpdates
  <2>6. CASE OpenFresh(p)
    BY <1>0, <2>6, FreshnessType, JobUpdates DEF OpenFresh
  <2>7. CASE SaveFreshFails(p)
    BY <1>0, <2>7, FreshnessType, JobUpdates DEF SaveFreshFails
  <2>8. CASE OpenUsage(p) \/ SaveUsageFails(p) \/ WriteTmp(p) \/ WriteFresh(p)
    BY <1>0, <2>8 DEF OpenUsage, SaveUsageFails, WriteTmp, WriteFresh
  <2> QED BY <2>1, <2>2, <2>3, <2>4, <2>5, <2>6, <2>7, <2>8 DEF Refresh
<1> QED BY <1>1, <1>2 DEF JobOK

LEMMA LostTypes ==
  ASSUME TypeOK, NEW p \in Who, Lost(p)
  PROVE  JobOK' /\ PcOK'
<1>0. JobOK /\ PcOK
  BY TypeParts
<1>1. Finish(p)
  BY DEF Lost
<1>2. IF p = "user" THEN confirming' = FALSE ELSE UNCHANGED confirming
  <2>1. CASE p = "user"
    <3>1. confirming' = (confirming /\ p # "user")
      BY DEF Lost
    <3> QED BY <2>1, <3>1
  <2>2. CASE p # "user"
    <3>1. confirming' = (confirming /\ p # "user") /\ confirming \in BOOLEAN
      BY <1>0 DEF Lost, PcOK
    <3>2. CASE confirming = TRUE
      BY <2>2, <3>1, <3>2
    <3>3. CASE confirming = FALSE
      BY <2>2, <3>1, <3>3
    <3> QED BY <2>2, <3>1, <3>2, <3>3
  <2> QED BY <2>1, <2>2
<1> QED BY <1>0, <1>1, <1>2, FinishTypes

LEMMA RefreshTypes ==
  ASSUME TypeOK, NEW p \in Who, Refresh(p)
  PROVE  TypeOK'
<1>0. DiskTypeOK /\ PcOK /\ ShowOK /\ JobOK /\ BoundsTypeOK
  BY TypeParts
<1>1. DiskTypeOK' /\ ShowOK' /\ BoundsTypeOK'
  BY <1>0, RefreshDisk, RefreshShow, RefreshBounds
<1>2. CASE Lost(p)
  BY <1>1, <1>2, LostTypes, TypePartsNext
<1>3. CASE ~ Lost(p)
  BY <1>0, <1>1, <1>3, RefreshJob, RefreshPc, TypePartsNext
<1> QED BY <1>2, <1>3

LEMMA SnapshotFields ==
  ASSUME NEW s \in Snapshots
  PROVE  s.fresh \in Freshness /\ s.at \in Marks /\ s.reset \in Marks /\ s.link \in Links
BY DEF Snapshots

LEMMA DraftTypes ==
  ASSUME NEW s \in Snapshots, NEW e \in Elsewhere
  PROVE  WithUsage(s, e) \in Snapshots /\ WithReset(s) \in Snapshots
<1>1. usageFile \in Times => usageFile \in Marks
  BY DEF Marks
<1>2. (IF resetFile \in Times THEN resetFile ELSE Never) \in Marks
  BY DEF Marks
<1>3. DirectLink(s.fresh) \in Links /\ e \in Links
  BY DEF DirectLink, Links
<1>4. WithReset(s) \in Snapshots
  BY <1>2, SnapshotUpdates DEF WithReset
<1>5. CASE usageFile \in Times
  BY <1>1, <1>3, <1>4, <1>5, SnapshotUpdates DEF WithUsage
<1>6. CASE usageFile \notin Times
  BY <1>3, <1>4, <1>6, Constants, SnapshotUpdates DEF WithUsage
<1> QED BY <1>5, <1>6

LEMMA StoredTypes ==
  ASSUME NEW s \in Snapshots
  PROVE  Stored(s) \in Snapshots /\ [s EXCEPT !.link = "Stale"] \in Snapshots
BY Constants, SnapshotUpdates DEF Stored, Links

LEMMA MishapBounds ==
  ASSUME BoundsTypeOK, Mishap, UNCHANGED <<clock, saved>>,
         troubled' = TRUE \/ troubled' = (troubled \/ ~ Quiet)
  PROVE  BoundsTypeOK'
<1>1. mishaps' \in Times
  BY DEF Mishap, Room, BoundsTypeOK, Times
<1>2. troubled' \in BOOLEAN
  <2>1. CASE troubled' = TRUE
    BY <2>1
  <2>2. CASE troubled' = (troubled \/ ~ Quiet)
    BY <2>2, Zenon
  <2> QED BY <2>1, <2>2
<1> QED BY <1>1, <1>2 DEF BoundsTypeOK

LEMMA StayedBounds ==
  ASSUME BoundsTypeOK, UNCHANGED <<bounds, past>>
  PROVE  BoundsTypeOK'
BY DEF BoundsTypeOK, bounds, past

LEMMA StayedDisk ==
  ASSUME DiskTypeOK, UNCHANGED disk
  PROVE  DiskTypeOK'
BY DEF DiskTypeOK, disk

LEMMA MonitorTypes ==
  ASSUME TypeOK, Monitor
  PROVE  TypeOK'
<1>0. DiskTypeOK /\ PcOK /\ ShowOK /\ JobOK /\ BoundsTypeOK
  BY TypeParts
<1>1. "monitor" \in Who /\ "monitor" # "user"
  BY DEF Who
<1>2. job["monitor"].fresh \in Freshness
  BY <1>0, <1>1, JobFields DEF JobOK
<1>3. ASSUME NEW l \in Stages, Goto("monitor", l), UNCHANGED confirming
      PROVE  PcOK'
  BY <1>0, <1>1, <1>3, PcMoves
<1>4. ASSUME Finish("monitor"), UNCHANGED confirming
      PROVE  JobOK' /\ PcOK'
  BY <1>0, <1>1, <1>4, FinishTypes
<1>5. [current EXCEPT !.fresh = job["monitor"].fresh] \in Snapshots
  BY <1>0, <1>2, SnapshotUpdates DEF ShowOK
<1>6. CASE ReportDirect
  <2>1. JobOK' /\ PcOK'
    BY <1>4, <1>6 DEF ReportDirect
  <2>2. ShowOK'
    BY <1>0, <1>5, <1>6 DEF ReportDirect, Show, ShowOK
  <2>3. DiskTypeOK' /\ BoundsTypeOK'
    BY <1>0, <1>6, StayedDisk, StayedBounds DEF ReportDirect
  <2> QED BY <2>1, <2>2, <2>3, TypePartsNext
<1>7. ASSUME NEW e \in Elsewhere, ReadFresh \/ ReadUsage(e) \/ ReadReset
      PROVE  TypeOK'
  <2>1. DiskTypeOK' /\ BoundsTypeOK'
    BY <1>0, <1>7, StayedDisk, StayedBounds DEF ReadFresh, ReadUsage, ReadReset
  <2>2. PcOK'
    <3>1. UNCHANGED confirming /\ \E l \in {"readUsage", "readReset", "publish"} :
            Goto("monitor", l)
      BY <1>7 DEF ReadFresh, ReadUsage, ReadReset, host
    <3> QED BY <1>3, <3>1 DEF Stages, Collecting
  <2>3. draft' \in Snapshots
    <3>1. CASE ReadFresh
      BY <1>0, <3>1, Constants, SnapshotUpdates DEF ReadFresh, DiskTypeOK
    <3>2. CASE ReadUsage(e)
      BY <1>0, <3>2, DraftTypes DEF ReadUsage, JobOK
    <3>3. CASE ReadReset
      BY <1>0, <3>3, DraftTypes DEF ReadReset, JobOK
    <3> QED BY <1>7, <3>1, <3>2, <3>3
  <2>4. JobOK'
    BY <1>0, <1>7, <2>3 DEF ReadFresh, ReadUsage, ReadReset, JobOK
  <2>5. ShowOK'
    BY <1>0, <1>7 DEF ReadFresh, ReadUsage, ReadReset, host, ShowOK
  <2> QED BY <2>1, <2>2, <2>4, <2>5, TypePartsNext
<1>8. CASE CollectFails
  <2>1. PcOK'
    <3>1. UNCHANGED confirming /\ Goto("monitor", "failed")
      BY <1>8 DEF CollectFails, host
    <3> QED BY <1>3, <3>1 DEF Stages, Collecting
  <2>2. JobOK' /\ ShowOK' /\ DiskTypeOK'
    BY <1>0, <1>8, StayedDisk DEF CollectFails, JobOK, ShowOK, host
  <2>3. BoundsTypeOK'
    BY <1>0, <1>8, MishapBounds DEF CollectFails, Fault
  <2> QED BY <2>1, <2>2, <2>3, TypePartsNext
<1>9. CASE Publish \/ PublishUnsaved
  <2>1. JobOK' /\ PcOK'
    BY <1>4, <1>9 DEF Publish, PublishUnsaved
  <2>2. ShowOK'
    BY <1>0, <1>9 DEF Publish, PublishUnsaved, Show, ShowOK, JobOK
  <2>3. BoundsTypeOK'
    BY <1>0, <1>9, StayedBounds, MishapBounds DEF Publish, PublishUnsaved, Fault
  <2>4. DiskTypeOK'
    <3>1. CASE PublishUnsaved
      BY <1>0, <3>1, StayedDisk DEF PublishUnsaved
    <3>2. CASE Publish
      BY <1>0, <3>2, StoredTypes DEF Publish, DiskTypeOK, JobOK
    <3> QED BY <1>9, <3>1, <3>2
  <2> QED BY <2>1, <2>2, <2>3, <2>4, TypePartsNext
<1>10. CASE ShowFailure
  <2>1. JobOK' /\ PcOK'
    BY <1>4, <1>10 DEF ShowFailure
  <2>2. ShowOK'
    <3>1. trusted # NoQuota => [trusted EXCEPT !.link = "Stale"] \in Snapshots
      BY <1>0, StoredTypes DEF ShowOK
    <3> QED BY <1>0, <1>5, <1>10, <3>1 DEF ShowFailure, Show, ShowOK
  <2>3. DiskTypeOK' /\ BoundsTypeOK'
    BY <1>0, <1>10, StayedDisk, StayedBounds DEF ShowFailure
  <2> QED BY <2>1, <2>2, <2>3, TypePartsNext
<1>11. \E e : e \in Elsewhere
  OBVIOUS
<1> QED BY <1>6, <1>7, <1>8, <1>9, <1>10, <1>11 DEF Monitor

LEMMA InitialQuotaTypes ==
  ASSUME DiskTypeOK, NEW e \in Elsewhere
  PROVE  InitialQuota(e) \in Snapshots /\ LoadedSnapshot \in Snapshots
<1>1. LoadedSnapshot \in Snapshots
  BY Constants, StoredTypes DEF LoadedSnapshot, DiskTypeOK
<1>2. [Nothing EXCEPT !.fresh = freshFile] \in Snapshots
  BY Constants, SnapshotUpdates DEF DiskTypeOK
<1>3. Collected(e) \in Snapshots
  BY <1>2, DraftTypes DEF Collected
<1> QED BY <1>1, <1>3 DEF InitialQuota

LEMMA OtherTypes ==
  ASSUME TypeOK,
         \/ Confirm \/ ReportToUser \/ (\E a \in {"refresh", "direct"} : TakeRefreshArm(a))
         \/ TakeQuotaArm \/ Exit \/ (\E e \in Elsewhere : Start(e)) \/ StartUnread
  PROVE  TypeOK'
<1>0. DiskTypeOK /\ PcOK /\ ShowOK /\ JobOK /\ BoundsTypeOK
  BY TypeParts
<1>1. "monitor" \in Who /\ "user" \in Who /\ "monitor" # "user"
  BY DEF Who
<1>2. CASE Confirm
  <2>1. PcOK'
    <3>1. pc'["user"] = "ask" /\ pc' \in [Who -> Stages]
      BY <1>0, <1>1, <1>2 DEF Confirm, Goto, PcOK, Stages, Refreshing
    <3>2. (pc'["user"] # "idle") = TRUE
      BY <3>1
    <3> QED BY <1>2, <3>1, <3>2 DEF Confirm, PcOK, Collecting
  <2>2. DiskTypeOK' /\ BoundsTypeOK'
    BY <1>0, <1>2, StayedDisk, StayedBounds DEF Confirm
  <2>3. ShowOK' /\ JobOK'
    BY <1>0, <1>2 DEF Confirm, ShowOK, JobOK
  <2> QED BY <2>1, <2>2, <2>3, TypePartsNext
<1>3. CASE ReportToUser
  <2>1. job["user"].fresh \in Freshness
    BY <1>0, <1>1, JobFields DEF JobOK
  <2>2. JobOK' /\ PcOK'
    BY <1>0, <1>1, <1>3, FinishTypes DEF ReportToUser
  <2>3. ShowOK'
    BY <1>0, <1>3, <2>1, SnapshotUpdates DEF ReportToUser, ShowOK
  <2>4. DiskTypeOK' /\ BoundsTypeOK'
    BY <1>0, <1>3, StayedDisk, StayedBounds DEF ReportToUser
  <2> QED BY <2>2, <2>3, <2>4, TypePartsNext
<1>4. ASSUME NEW a \in {"refresh", "direct"}, TakeRefreshArm(a) \/ TakeQuotaArm
      PROVE  TypeOK'
  <2>1. UNCHANGED confirming /\ \E l \in {"ask", "readFresh"} : Goto("monitor", l)
    BY <1>4 DEF TakeRefreshArm, TakeQuotaArm, host
  <2>2. PcOK'
    BY <1>0, <1>1, <2>1, PcMoves DEF Stages, Refreshing, Collecting
  <2>3. DiskTypeOK' /\ BoundsTypeOK'
    BY <1>0, <1>4, StayedDisk, StayedBounds DEF TakeRefreshArm, TakeQuotaArm
  <2>4. ShowOK' /\ JobOK'
    BY <1>0, <1>4 DEF TakeRefreshArm, TakeQuotaArm, ShowOK, JobOK, host
  <2> QED BY <2>2, <2>3, <2>4, TypePartsNext
<1>5. CASE Exit
  <2>1. PcOK'
    BY <1>1, <1>5 DEF Exit, PcOK, Stages, Collecting
  <2>2. DiskTypeOK' /\ BoundsTypeOK'
    BY <1>0, <1>5, StayedDisk, MishapBounds DEF Exit
  <2>3. ShowOK' /\ JobOK'
    BY <1>5, Constants DEF Exit, ShowOK, JobOK
  <2> QED BY <2>1, <2>2, <2>3, TypePartsNext
<1>6. ASSUME NEW q \in Snapshots, StartWith(q), BoundsTypeOK'
      PROVE  TypeOK'
  <2>1. ShowOK' /\ JobOK'
    BY <1>0, <1>6 DEF StartWith, Show, ShowOK, JobOK, work
  <2>2. DiskTypeOK' /\ PcOK'
    BY <1>0, <1>6, StayedDisk DEF StartWith, PcOK, work
  <2> QED BY <1>6, <2>1, <2>2, TypePartsNext
<1>7. ASSUME NEW e \in Elsewhere, Start(e)
      PROVE  TypeOK'
  <2>1. BoundsTypeOK'
    BY <1>0, <1>7 DEF Start, StartWith, BoundsTypeOK
  <2> QED BY <1>0, <1>6, <1>7, <2>1, InitialQuotaTypes DEF Start
<1>8. CASE StartUnread
  <2>1. BoundsTypeOK'
    BY <1>0, <1>8, MishapBounds DEF StartUnread, StartWith, Fault
  <2>2. LoadedSnapshot \in Snapshots
    BY <1>0, InitialQuotaTypes
  <2> QED BY <1>6, <1>8, <2>1, <2>2 DEF StartUnread
<1> QED BY <1>2, <1>3, <1>4, <1>5, <1>7, <1>8

LEMMA NextTypes == TypeOK /\ [Next]_vars => TypeOK'
<1> SUFFICES ASSUME TypeOK, [Next]_vars PROVE TypeOK'
  OBVIOUS
<1>1. CASE Next
  BY <1>1, RefreshTypes, MonitorTypes, OtherTypes DEF Next
<1>2. CASE UNCHANGED vars
  BY <1>2 DEF vars, disk, host, work, bounds, past, TypeOK, DiskTypeOK, HostTypeOK,
         WorkTypeOK, BoundsTypeOK
<1> QED BY <1>1, <1>2

(* Every file, every copy of the snapshot and every local of a refresh     *)
(* keeps its type, and the flag that blocks the button of the diagnostics  *)
(* window is up exactly while the thread it started is at work.            *)
THEOREM TypeCorrect == Spec => []TypeOK
<1> QED BY InitTypes, NextTypes, PTL DEF Spec

-----------------------------------------------------------------------------
(* No success is invented. SavesIn is Saves with the history as a          *)
(* parameter: what was true of an earlier history stays true of a longer   *)
(* one.                                                                    *)

SavesIn(f, h) ==
  /\ f.usage.success \in h.usage \cup {Never}
  /\ f.reset.success \in h.reset \cup {Never}
  /\ \A d \in {f.usage, f.reset} :
       d.status = "Current" => d.success = d.attempt /\ d.success # Never

JobHonest(j, h) ==
  /\ SavesIn(j.prior, h) /\ SavesIn(j.fresh, h)
  /\ j.usageOk => j.at \in h.usage
  /\ j.resetOk => j.at \in h.reset

DiskHonest == SavesIn(freshFile, saved) /\ (snapFile # NoQuota => SavesIn(snapFile.fresh, saved))
ShowHonest == /\ SavesIn(current.fresh, saved) /\ SavesIn(shared.fresh, saved)
              /\ trusted # NoQuota => SavesIn(trusted.fresh, saved)
WorkHonest == SavesIn(draft.fresh, saved) /\ \A p \in Who : JobHonest(job[p], saved)

Honest == DiskHonest /\ ShowHonest /\ WorkHonest

LEMMA Grown ==
  ASSUME NEW h, NEW k, h.usage \subseteq k.usage, h.reset \subseteq k.reset
  PROVE  /\ \A f : SavesIn(f, h) => SavesIn(f, k)
         /\ \A j : JobHonest(j, h) => JobHonest(j, k)
<1>1. ASSUME NEW f, SavesIn(f, h)
      PROVE  SavesIn(f, k)
  BY <1>1 DEF SavesIn
<1>2. ASSUME NEW j, JobHonest(j, h)
      PROVE  JobHonest(j, k)
  BY <1>1, <1>2 DEF JobHonest
<1> QED BY <1>1, <1>2

LEMMA NothingSaved ==
  ASSUME NEW h
  PROVE  SavesIn(Default, h) /\ SavesIn(Nothing.fresh, h) /\ JobHonest(NoJob, h)
<1>1. SavesIn(Default, h)
  BY DEF SavesIn, Default, UnavailableSet
<1>2. SavesIn(Nothing.fresh, h)
  BY <1>1 DEF Nothing
<1>3. JobHonest(NoJob, h)
  BY <1>1 DEF NoJob, JobHonest
<1> QED BY <1>1, <1>2, <1>3

LEMMA NextHonest ==
  ASSUME NEW j \in Jobs, NEW h, JobHonest(j, h)
  PROVE  SavesIn(NextFreshness(j), h)
<1>1. /\ j.at \in Times /\ j.at # Never /\ j.usageOk \in BOOLEAN /\ j.resetOk \in BOOLEAN
  BY JobFields DEF Times, Never
<1>2. /\ j.prior.usage.success \in h.usage \cup {Never}
      /\ j.prior.reset.success \in h.reset \cup {Never}
  BY DEF JobHonest, SavesIn
<1>3. /\ j.usageOk => j.at \in h.usage
      /\ j.resetOk => j.at \in h.reset
  BY DEF JobHonest
<1>4. LET d == NextDataset(j.prior.usage, j.usageOk, usageFile # Missing, j.at)
      IN  /\ d.success \in h.usage \cup {Never}
          /\ d.status = "Current" => d.success = d.attempt /\ d.success # Never
  BY <1>1, <1>2, <1>3 DEF NextDataset
<1>5. LET d == NextDataset(j.prior.reset, j.resetOk, resetFile # Missing, j.at)
      IN  /\ d.success \in h.reset \cup {Never}
          /\ d.status = "Current" => d.success = d.attempt /\ d.success # Never
  BY <1>1, <1>2, <1>3 DEF NextDataset
<1> QED BY <1>4, <1>5 DEF NextFreshness, SavesIn

LEMMA JobRecords ==
  ASSUME NEW j \in Jobs, NEW h, JobHonest(j, h)
  PROVE  /\ j.at \in h.usage => JobHonest([j EXCEPT !.usageOk = TRUE], h)
         /\ j.at \in h.reset => JobHonest([j EXCEPT !.resetOk = TRUE], h)
         /\ \A d : JobHonest([j EXCEPT !.dest = d], h)
BY DEF JobHonest, Jobs

LEMMA NewJobRecords ==
  ASSUME NEW h, NEW f, SavesIn(f, h)
  PROVE  /\ JobHonest([NoJob EXCEPT !.fresh = f], h)
         /\ \A t, r : JobHonest([NoJob EXCEPT !.at = t, !.prior = f, !.asked = r], h)
BY NothingSaved DEF JobHonest, NoJob

LEMMA InitHonest == Init => Honest
<1> SUFFICES ASSUME Init PROVE Honest
  OBVIOUS
<1>1. SavesIn(freshFile, saved)
  <2>1. CASE freshFile = Default
    BY <2>1, NothingSaved
  <2>2. CASE /\ freshFile = [usage |-> FreshSet(0), reset |-> FreshSet(0)]
             /\ saved = [usage |-> {0}, reset |-> {0}]
    BY <2>2 DEF SavesIn, FreshSet, Never
  <2> QED BY <2>1, <2>2 DEF Init
<1> QED BY <1>1, NothingSaved DEF Init, Honest, DiskHonest, ShowHonest, WorkHonest

(* The history only grows.                                                 *)
LEMMA RefreshGrows ==
  ASSUME TypeOK, NEW p \in Who, Refresh(p)
  PROVE  saved.usage \subseteq saved'.usage /\ saved.reset \subseteq saved'.reset
<1>0. saved \in [usage : SUBSET Times, reset : SUBSET Times]
  BY DEF TypeOK, BoundsTypeOK
<1>1. CASE WriteUsage(p)
  BY <1>0, <1>1 DEF WriteUsage
<1>2. CASE Rename(p)
  BY <1>0, <1>2 DEF Rename
<1>3. CASE UNCHANGED saved
  BY <1>3
<1>4. CASE Lost(p) \/ OpenUsage(p) \/ SaveUsageFails(p) \/ OpenTmp(p) \/ WriteTmp(p)
           \/ SaveResetFails(p) \/ OpenFresh(p) \/ WriteFresh(p) \/ SaveFreshFails(p)
  BY <1>3, <1>4 DEF Lost, OpenUsage, SaveUsageFails, OpenTmp, WriteTmp,
       SaveResetFails, OpenFresh, WriteFresh, SaveFreshFails, past
<1>5. ASSUME NEW usage, NEW reset, Ask(p, usage, reset)
      PROVE  UNCHANGED saved
  BY <1>5 DEF Ask
<1> QED BY <1>1, <1>2, <1>3, <1>4, <1>5 DEF Refresh

LEMMA RefreshHonest ==
  ASSUME TypeOK, Honest, NEW p \in Who, Refresh(p)
  PROVE  Honest'
<1>0. /\ job \in [Who -> Jobs] /\ job[p] \in Jobs /\ job[Other(p)] \in Jobs
      /\ Other(p) \in Who /\ Other(p) # p
      /\ saved \in [usage : SUBSET Times, reset : SUBSET Times]
  BY DEF TypeOK, WorkTypeOK, BoundsTypeOK, Who, Other
<1>1. /\ \A f : SavesIn(f, saved) => SavesIn(f, saved')
      /\ \A j : JobHonest(j, saved) => JobHonest(j, saved')
  BY RefreshGrows, Grown
<1>2. \A q \in Who : JobHonest(job[q], saved) /\ JobHonest(job[q], saved')
  BY <1>1 DEF Honest, WorkHonest
<1>3. ShowHonest'
  <2>1. UNCHANGED <<current, trusted, shared>>
    BY DEF Refresh, Lost, Ask, OpenUsage, WriteUsage, SaveUsageFails, OpenTmp, WriteTmp,
           Rename, SaveResetFails, OpenFresh, WriteFresh, SaveFreshFails, host
  <2> QED BY <1>1, <2>1 DEF Honest, ShowHonest
<1>4. SavesIn(draft'.fresh, saved')
  <2>1. draft' = draft \/ draft' = Nothing
    BY DEF Refresh, Lost, Ask, OpenUsage, WriteUsage, SaveUsageFails, OpenTmp, WriteTmp,
           Rename, SaveResetFails, OpenFresh, WriteFresh, SaveFreshFails, Finish
  <2> QED BY <1>1, <2>1, NothingSaved DEF Honest, WorkHonest
<1>5. snapFile' # NoQuota => SavesIn(snapFile'.fresh, saved')
  <2>1. UNCHANGED snapFile
    BY DEF Refresh, Lost, Ask, OpenUsage, WriteUsage, SaveUsageFails, OpenTmp, WriteTmp,
           Rename, SaveResetFails, OpenFresh, WriteFresh, SaveFreshFails, disk
  <2> QED BY <1>1, <2>1 DEF Honest, DiskHonest
<1>6. SavesIn(freshFile', saved')
  <2>1. SavesIn(job[p].fresh, saved')
    BY <1>2 DEF JobHonest
  <2>2. freshFile' \in {freshFile, Default, job[p].fresh}
    <3>1. CASE OpenFresh(p)
      BY <3>1 DEF OpenFresh
    <3>2. CASE WriteFresh(p)
      BY <3>2 DEF WriteFresh
    <3>3. CASE Lost(p) \/ OpenUsage(p) \/ WriteUsage(p) \/ SaveUsageFails(p) \/ OpenTmp(p)
               \/ WriteTmp(p) \/ Rename(p) \/ SaveResetFails(p) \/ SaveFreshFails(p)
      BY <3>3 DEF Lost, OpenUsage, WriteUsage, SaveUsageFails, OpenTmp, WriteTmp, Rename,
           SaveResetFails, SaveFreshFails, disk
    <3>4. ASSUME NEW usage, NEW reset, Ask(p, usage, reset)
          PROVE  UNCHANGED freshFile
      BY <3>4 DEF Ask, disk
    <3> QED BY <3>1, <3>2, <3>3, <3>4 DEF Refresh
  <2> QED BY <1>1, <2>1, <2>2, NothingSaved DEF Honest, DiskHonest
<1>7. \A q \in Who : JobHonest(job'[q], saved')
  <2>1. CASE Lost(p)
    BY <1>0, <1>2, <2>1, NothingSaved DEF Lost, Finish
  <2>2. ASSUME NEW usage, NEW reset, Ask(p, usage, reset)
        PROVE  \A q \in Who : JobHonest(job'[q], saved')
    <3>1. JobHonest([NoJob EXCEPT !.at = clock + 1, !.prior = freshFile, !.asked = reset],
                    saved')
      BY <1>1, NewJobRecords DEF Honest, DiskHonest
    <3> QED BY <1>0, <1>2, <2>2, <3>1 DEF Ask
  <2>3. CASE WriteUsage(p)
    <3>1. job' = [job EXCEPT ![p] = [job[p] EXCEPT !.usageOk = TRUE]]
      BY <1>0, <2>3 DEF WriteUsage
    <3>2. job[p].at \in saved'.usage
      BY <1>0, <2>3 DEF WriteUsage
    <3> QED BY <1>0, <1>2, <3>1, <3>2, JobRecords
  <2>4. CASE OpenTmp(p)
    <3>1. job' = [job EXCEPT ![p] = [job[p] EXCEPT !.dest = "tmp"]]
      BY <1>0, <2>4 DEF OpenTmp
    <3> QED BY <1>0, <1>2, <3>1, JobRecords
  <2>5. CASE Rename(p)
    <3>1. CASE resetTmp # Missing
      <4>1. PICK d \in {"final", "gone"} :
              job' = [job EXCEPT ![p].resetOk = TRUE, ![Other(p)].dest = d]
        BY <2>5, <3>1 DEF Rename
      <4>2. job' = [job EXCEPT ![p] = [job[p] EXCEPT !.resetOk = TRUE],
                               ![Other(p)] = [job[Other(p)] EXCEPT !.dest = d]]
        BY <1>0, <4>1
      <4>3. job[p].at \in saved'.reset
        BY <1>0, <2>5, <3>1 DEF Rename
      <4> QED BY <1>0, <1>2, <4>2, <4>3, JobRecords
    <3>2. CASE resetTmp = Missing
      BY <1>2, <2>5, <3>2 DEF Rename
    <3> QED BY <3>1, <3>2
  <2>6. CASE SaveResetFails(p)
    <3>0. job[Other(p)].dest \in {"tmp", "final", "gone"}
      BY <1>0 DEF Jobs
    <3>1. PICK d \in {"tmp", "final", "gone"} :
            job' = [job EXCEPT ![Other(p)] = [job[Other(p)] EXCEPT !.dest = d]]
      BY <1>0, <2>6, <3>0 DEF SaveResetFails
    <3> QED BY <1>0, <1>2, <3>1, JobRecords
  <2>7. CASE OpenFresh(p) \/ SaveFreshFails(p)
    <3>1. JobHonest([NoJob EXCEPT !.fresh = NextFreshness(job[p])], saved')
      BY <1>0, <1>2, NextHonest, NewJobRecords
    <3>2. job'[p] \in {job[p], [NoJob EXCEPT !.fresh = NextFreshness(job[p])]}
      BY <1>0, <2>7 DEF OpenFresh, SaveFreshFails
    <3>3. \A q \in Who \ {p} : job'[q] = job[q]
      BY <1>0, <2>7 DEF OpenFresh, SaveFreshFails
    <3> QED BY <1>2, <3>1, <3>2, <3>3
  <2>8. CASE OpenUsage(p) \/ SaveUsageFails(p) \/ WriteTmp(p) \/ WriteFresh(p)
    BY <1>2, <2>8 DEF OpenUsage, SaveUsageFails, WriteTmp, WriteFresh
  <2> QED BY <2>1, <2>2, <2>3, <2>4, <2>5, <2>6, <2>7, <2>8 DEF Refresh
<1> QED BY <1>3, <1>4, <1>5, <1>6, <1>7 DEF Honest, DiskHonest, WorkHonest

LEMMA SnapshotRecords ==
  ASSUME NEW s \in Snapshots
  PROVE  /\ \A f : [s EXCEPT !.fresh = f].fresh = f
         /\ \A l : [s EXCEPT !.link = l].fresh = s.fresh
         /\ \A e : WithUsage(s, e).fresh = s.fresh
         /\ WithReset(s).fresh = s.fresh
         /\ Stored(s).fresh = Default
BY DEF Snapshots, WithUsage, WithReset, Stored

LEMMA MonitorHonest ==
  ASSUME TypeOK, Honest, Monitor
  PROVE  Honest'
<1>0. /\ current \in Snapshots /\ shared \in Snapshots /\ draft \in Snapshots
      /\ trusted \in Snapshots \cup {NoQuota} /\ job \in [Who -> Jobs] /\ "monitor" \in Who
  BY DEF TypeOK, HostTypeOK, WorkTypeOK, Who
<1>1. /\ SavesIn(draft.fresh, saved) /\ \A q \in Who : JobHonest(job[q], saved)
      /\ SavesIn(job["monitor"].fresh, saved)
      /\ SavesIn(freshFile, saved)
  BY <1>0 DEF Honest, WorkHonest, DiskHonest, JobHonest
<1>2. UNCHANGED <<saved, freshFile>>
  BY DEF Monitor, ReportDirect, ReadFresh, ReadUsage, ReadReset, CollectFails, Publish,
         PublishUnsaved, ShowFailure, past, disk
<1>3. \A q \in Who : JobHonest(job'[q], saved)
  <2>1. job' = job \/ job' = [job EXCEPT !["monitor"] = NoJob]
    BY DEF Monitor, ReportDirect, ReadFresh, ReadUsage, ReadReset, CollectFails, Publish,
           PublishUnsaved, ShowFailure, Finish
  <2> QED BY <1>0, <1>1, <2>1, NothingSaved
<1>4. SavesIn(draft'.fresh, saved)
  <2>1. CASE ReadFresh
    BY <1>1, <2>1, Constants, SnapshotRecords DEF ReadFresh
  <2>2. CASE \E e \in Elsewhere : ReadUsage(e)
    BY <1>0, <1>1, <2>2, SnapshotRecords DEF ReadUsage
  <2>3. CASE ReadReset
    BY <1>0, <1>1, <2>3, SnapshotRecords DEF ReadReset
  <2>4. CASE CollectFails
    BY <1>1, <2>4 DEF CollectFails
  <2>5. CASE ReportDirect \/ Publish \/ PublishUnsaved \/ ShowFailure
    BY <2>5, NothingSaved DEF ReportDirect, Publish, PublishUnsaved, ShowFailure, Finish
  <2> QED BY <2>1, <2>2, <2>3, <2>4, <2>5 DEF Monitor
<1>5. snapFile' # NoQuota => SavesIn(snapFile'.fresh, saved)
  <2>1. snapFile' \in {snapFile, Stored(draft)}
    BY DEF Monitor, ReportDirect, ReadFresh, ReadUsage, ReadReset, CollectFails, Publish,
           PublishUnsaved, ShowFailure, disk
  <2> QED BY <1>0, <2>1, SnapshotRecords, NothingSaved DEF Honest, DiskHonest
<1>6. trusted' # NoQuota => SavesIn(trusted'.fresh, saved)
  <2>1. trusted' \in {trusted, draft}
    BY DEF Monitor, ReportDirect, ReadFresh, ReadUsage, ReadReset, CollectFails, Publish,
           PublishUnsaved, ShowFailure, host
  <2> QED BY <1>1, <2>1 DEF Honest, ShowHonest
<1>7. SavesIn(current'.fresh, saved) /\ SavesIn(shared'.fresh, saved)
  <2>1. ASSUME NEW s, SavesIn(s.fresh, saved), Show(s)
        PROVE  SavesIn(current'.fresh, saved) /\ SavesIn(shared'.fresh, saved)
    BY <2>1 DEF Show
  <2>2. CASE UNCHANGED <<current, shared>>
    BY <2>2 DEF Honest, ShowHonest
  <2>3. [current EXCEPT !.fresh = job["monitor"].fresh].fresh = job["monitor"].fresh
    BY <1>0, SnapshotRecords
  <2>4. CASE ReportDirect
    BY <1>1, <2>1, <2>3, <2>4 DEF ReportDirect
  <2>5. CASE Publish \/ PublishUnsaved
    BY <1>1, <2>1, <2>5 DEF Publish, PublishUnsaved
  <2>6. CASE ShowFailure
    <3>1. trusted # NoQuota => SavesIn([trusted EXCEPT !.link = "Stale"].fresh, saved)
      BY <1>0, SnapshotRecords DEF Honest, ShowHonest
    <3> QED BY <1>1, <2>1, <2>2, <2>3, <2>6, <3>1 DEF ShowFailure
  <2>7. CASE ReadFresh \/ (\E e \in Elsewhere : ReadUsage(e)) \/ ReadReset \/ CollectFails
    BY <2>2, <2>7 DEF ReadFresh, ReadUsage, ReadReset, CollectFails, host
  <2> QED BY <2>4, <2>5, <2>6, <2>7 DEF Monitor
<1> QED BY <1>1, <1>2, <1>3, <1>4, <1>5, <1>6, <1>7
         DEF Honest, DiskHonest, ShowHonest, WorkHonest

LEMMA OtherHonest ==
  ASSUME TypeOK, Honest,
         \/ Confirm \/ ReportToUser \/ (\E a \in {"refresh", "direct"} : TakeRefreshArm(a))
         \/ TakeQuotaArm \/ Exit \/ (\E e \in Elsewhere : Start(e)) \/ StartUnread
  PROVE  Honest'
<1>0. /\ shared \in Snapshots /\ job \in [Who -> Jobs] /\ "user" \in Who
      /\ freshFile \in Freshness /\ snapFile \in Snapshots \cup {NoQuota}
  BY DEF TypeOK, DiskTypeOK, HostTypeOK, WorkTypeOK, Who
<1>1. CASE UNCHANGED <<disk, current, trusted, shared, job, draft, saved>>
  BY <1>1 DEF disk, Honest, DiskHonest, ShowHonest, WorkHonest
<1>2. CASE Confirm \/ (\E a \in {"refresh", "direct"} : TakeRefreshArm(a)) \/ TakeQuotaArm
  BY <1>1, <1>2 DEF Confirm, TakeRefreshArm, TakeQuotaArm, host, past
<1>3. CASE ReportToUser
  <2>1. SavesIn(shared'.fresh, saved)
    <3>1. SavesIn(job["user"].fresh, saved)
      BY <1>0 DEF Honest, WorkHonest, JobHonest
    <3> QED BY <1>0, <1>3, <3>1, SnapshotRecords DEF ReportToUser
  <2>2. \A q \in Who : JobHonest(job'[q], saved)
    BY <1>0, <1>3, NothingSaved DEF ReportToUser, Finish, Honest, WorkHonest
  <2> QED BY <1>3, <2>1, <2>2
          DEF ReportToUser, Finish, disk, past, Honest, DiskHonest, ShowHonest, WorkHonest
<1>4. CASE Exit
  BY <1>4, NothingSaved DEF Exit, disk, Honest, DiskHonest, ShowHonest, WorkHonest
<1>5. ASSUME NEW q, SavesIn(q.fresh, saved), StartWith(q)
      PROVE  Honest'
  BY <1>5 DEF StartWith, Show, disk, work, Honest, DiskHonest, ShowHonest, WorkHonest
<1>6. SavesIn(LoadedSnapshot.fresh, saved)
  <2>1. snapFile # NoQuota => [snapFile EXCEPT !.link = "Stale"].fresh = snapFile.fresh
    BY <1>0, SnapshotRecords
  <2> QED BY <2>1, NothingSaved DEF LoadedSnapshot, Honest, DiskHonest
<1>7. ASSUME NEW e \in Elsewhere
      PROVE  SavesIn(InitialQuota(e).fresh, saved)
  <2>1. [Nothing EXCEPT !.fresh = freshFile] \in Snapshots
    BY <1>0, Constants, SnapshotUpdates
  <2>2. Collected(e).fresh = [Nothing EXCEPT !.fresh = freshFile].fresh
    BY <2>1, DraftTypes, SnapshotRecords DEF Collected
  <2>3. SavesIn(Collected(e).fresh, saved)
    BY <2>2, Constants, SnapshotRecords DEF Honest, DiskHonest
  <2> QED BY <1>6, <2>3 DEF InitialQuota
<1>8. CASE StartUnread \/ \E e \in Elsewhere : Start(e)
  BY <1>5, <1>6, <1>7, <1>8 DEF StartUnread, Start
<1> QED BY <1>2, <1>3, <1>4, <1>8

LEMMA HonestHolds == Spec => []Honest
<1>1. Init => TypeOK /\ Honest
  BY InitTypes, InitHonest
<1>2. TypeOK /\ Honest /\ [Next]_vars => (TypeOK /\ Honest)'
  <2> SUFFICES ASSUME TypeOK, Honest, [Next]_vars PROVE (TypeOK /\ Honest)'
    OBVIOUS
  <2>1. CASE Next
    BY <2>1, NextTypes, RefreshHonest, MonitorHonest, OtherHonest DEF Next
  <2>2. CASE UNCHANGED vars
    BY <2>2, NextTypes DEF vars, disk, host, work, past, Honest, DiskHonest, ShowHonest,
       WorkHonest
  <2> QED BY <2>1, <2>2
<1> QED BY <1>1, <1>2, PTL DEF Spec

(* A time of last success, wherever it is kept or shown, is the time of a  *)
(* refresh that fetched that data set and saved it, and "Current" means it *)
(* was the last refresh to try. What makes this inductive is the same fact *)
(* about every place a freshness passes through: the prior one a refresh   *)
(* read, the one it computed, the snapshot being collected and the saved   *)
(* one.                                                                    *)
THEOREM NoInventedSuccessHolds == Spec => []NoInventedSuccess
<1>1. Honest => NoInventedSuccess
  BY DEF Honest, DiskHonest, ShowHonest, NoInventedSuccess, Saves, SavesIn
<1> QED BY <1>1, HonestHolds, PTL

-----------------------------------------------------------------------------
(* The last values are kept. As long as nothing went wrong at most one     *)
(* refresh is at work, and each of its stages says which of the two data   *)
(* sets is already stored and which is as the refresh before left it.      *)

AtWork(p) == pc[p] \in Refreshing \ {"ask"}
Saving    == {"openUsage", "writeUsage", "openTmp", "writeTmp", "rename", "openFresh"}

KeptIn(f) ==
  /\ Agree(usageFile, f.usage.success, saved.usage)
  /\ Agree(resetFile, f.reset.success, saved.reset)

Settled(file, ok, success, times) ==
  IF ok THEN file = clock /\ clock \in times ELSE Agree(file, success, times)

SavingHolds(p) ==
  /\ job[p].at = clock
  /\ IF pc[p] = "writeUsage" THEN usageFile = Unreadable
     ELSE Settled(usageFile, job[p].usageOk, job[p].prior.usage.success, saved.usage)
  /\ Settled(resetFile, job[p].resetOk, job[p].prior.reset.success, saved.reset)
  /\ pc[p] = "writeTmp" => resetTmp = Unreadable /\ job[p].dest = "tmp"
  /\ pc[p] = "rename" => resetTmp = clock

StageHolds(p) ==
  /\ pc[p] \in Saving => SavingHolds(p)
  /\ pc[p] = "writeFresh" => freshFile = Default /\ KeptIn(job[p].fresh)
  /\ pc[p] = "report" => KeptIn(freshFile)

SavedPast == \A t \in saved.usage \cup saved.reset : t <= clock

Undisturbed ==
  /\ \A p, q \in Who : AtWork(p) /\ AtWork(q) => p = q
  /\ SavedPast
  /\ Quiet => KeptIn(freshFile)
  /\ \A p \in Who : StageHolds(p)

KeptInv == ~troubled => Undisturbed

LEMMA NextAgrees ==
  ASSUME NEW file, NEW ok, NEW prior, NEW exists, NEW times \in SUBSET Times,
         clock \in Times, \A s \in times : s <= clock,
         Settled(file, ok, prior.success, times)
  PROVE  Agree(file, NextDataset(prior, ok, exists, clock).success, times)
<1>1. CASE ok
  <2>1. NextDataset(prior, ok, exists, clock).success = clock
    BY <1>1 DEF NextDataset
  <2>2. file = clock /\ clock \in times
    BY <1>1 DEF Settled
  <2> QED BY <2>1, <2>2 DEF Agree
<1>2. CASE ~ ok
  <2>1. NextDataset(prior, ok, exists, clock).success = prior.success
    BY <1>2 DEF NextDataset
  <2> QED BY <1>2, <2>1 DEF Settled
<1> QED BY <1>1, <1>2

(* A step that leaves the refresh at work alone.                           *)
LEMMA Aside ==
  ASSUME KeptInv,
         UNCHANGED <<usageFile, resetFile, resetTmp, freshFile, saved, clock>>,
         \A p \in Who : AtWork(p)' => pc'[p] = pc[p] /\ job'[p] = job[p],
         ~troubled' => ~troubled /\ (Quiet' => Quiet \/ KeptIn(freshFile))
  PROVE  KeptInv'
<1> SUFFICES ASSUME ~troubled' PROVE Undisturbed'
  BY DEF KeptInv
<1>1. Undisturbed
  BY DEF KeptInv
<1>2. SavedPast'
  BY <1>1 DEF Undisturbed, SavedPast
<1>3. \A p, q \in Who : AtWork(p)' /\ AtWork(q)' => p = q
  BY <1>1 DEF Undisturbed, AtWork
<1>4. KeptIn(freshFile) => KeptIn(freshFile)'
  BY DEF KeptIn
<1>5. Quiet' => KeptIn(freshFile)'
  BY <1>1, <1>4 DEF Undisturbed
<1>6. ASSUME NEW p \in Who
      PROVE  StageHolds(p)'
  <2>1. CASE AtWork(p)'
    <3>1. StageHolds(p) /\ pc'[p] = pc[p] /\ job'[p] = job[p]
      BY <1>1, <2>1 DEF Undisturbed
    <3> QED BY <3>1 DEF StageHolds, SavingHolds, KeptIn, Settled
  <2>2. CASE ~ AtWork(p)'
    BY <2>2 DEF AtWork, StageHolds, Saving, Refreshing
  <2> QED BY <2>1, <2>2
<1> QED BY <1>2, <1>3, <1>5, <1>6 DEF Undisturbed

(* A step of the only refresh at work.                                     *)
LEMMA Inside ==
  ASSUME TypeOK, NEW p \in Who, NEW l, Goto(p, l), l # "idle",
         \A q \in Who : q # p => ~ AtWork(q),
         SavedPast', StageHolds(p)', KeptIn(freshFile)' \/ AtWork(p)'
  PROVE  Undisturbed'
<1>1. \A q \in Who : q # p => pc'[q] = pc[q]
  BY DEF Goto
<1>2. \A q \in Who : q # p => ~ AtWork(q)'
  BY <1>1 DEF AtWork
<1>3. \A q \in Who : StageHolds(q)'
  BY <1>2 DEF AtWork, StageHolds, Saving, Refreshing
<1>4. Quiet' => ~ AtWork(p)'
  BY DEF Quiet, AtWork
<1> QED BY <1>2, <1>3, <1>4 DEF Undisturbed

LEMMA SavingKept ==
  ASSUME TypeOK, Undisturbed, NEW p \in Who,
         OpenUsage(p) \/ WriteUsage(p) \/ OpenTmp(p) \/ WriteTmp(p) \/ Rename(p)
  PROVE  Undisturbed'
<1>0. /\ job \in [Who -> Jobs] /\ job[p] \in Jobs /\ pc \in [Who -> Refreshing \cup Collecting \cup {"idle"}]
      /\ saved \in [usage : SUBSET Times, reset : SUBSET Times] /\ clock \in Times
      /\ Other(p) # p
  BY DEF TypeOK, WorkTypeOK, BoundsTypeOK, Who, Other
<1>1. pc[p] \in Saving /\ AtWork(p)
  BY DEF OpenUsage, WriteUsage, OpenTmp, WriteTmp, Rename, Saving, AtWork, Refreshing
<1>2. /\ \A q \in Who : q # p => ~ AtWork(q)
      /\ SavingHolds(p) /\ SavedPast
  BY <1>1 DEF Undisturbed, StageHolds
<1>3. /\ job[p].at = clock
      /\ Settled(resetFile, job[p].resetOk, job[p].prior.reset.success, saved.reset)
      /\ pc[p] # "writeUsage" =>
           Settled(usageFile, job[p].usageOk, job[p].prior.usage.success, saved.usage)
  BY <1>2 DEF SavingHolds
<1>4. ASSUME NEW l \in Saving, Goto(p, l), SavingHolds(p)', SavedPast'
      PROVE  Undisturbed'
  <2>1. pc'[p] = l /\ l # "idle" /\ AtWork(p)'
    BY <1>0, <1>4 DEF Goto, Saving, AtWork, Refreshing
  <2>2. StageHolds(p)'
    BY <1>4, <2>1 DEF StageHolds, Saving
  <2> QED BY <1>2, <1>4, <2>1, <2>2, Inside
<1>5. CASE OpenUsage(p)
  <2>1. /\ Goto(p, "writeUsage") /\ usageFile' = Unreadable
        /\ UNCHANGED <<resetFile, job, clock, saved>>
    BY <1>5 DEF OpenUsage, bounds, past
  <2>2. pc'[p] = "writeUsage"
    BY <1>0, <2>1 DEF Goto
  <2>3. SavingHolds(p)' /\ SavedPast'
    BY <1>2, <1>3, <2>1, <2>2 DEF SavingHolds, Settled, SavedPast
  <2> QED BY <1>4, <2>1, <2>3 DEF Saving
<1>6. CASE WriteUsage(p)
  <2>1. /\ pc[p] = "writeUsage" /\ AfterUsage(p) /\ usageFile' \in Written(usageFile, clock)
        /\ job' = [job EXCEPT ![p] = [job[p] EXCEPT !.usageOk = TRUE]]
        /\ saved' = [saved EXCEPT !.usage = @ \cup {clock}]
        /\ UNCHANGED <<resetFile, clock>>
    BY <1>0, <1>3, <1>6 DEF WriteUsage, bounds
  <2>2. usageFile' = clock
    BY <1>2, <2>1 DEF SavingHolds, Written, Unreadable, Times
  <2>3. PICK l \in {"openTmp", "openFresh"} : Goto(p, l)
    BY <2>1 DEF AfterUsage
  <2>4. pc'[p] = l
    BY <1>0, <2>3 DEF Goto
  <2>5. /\ job'[p].at = job[p].at /\ job'[p].usageOk = TRUE /\ job'[p].prior = job[p].prior
        /\ job'[p].resetOk = job[p].resetOk
    BY <1>0, <2>1 DEF Jobs
  <2>6. saved'.usage = saved.usage \cup {clock} /\ saved'.reset = saved.reset
    BY <1>0, <2>1
  <2>7. SavingHolds(p)'
    BY <1>3, <2>1, <2>2, <2>4, <2>5, <2>6 DEF SavingHolds, Settled
  <2>8. SavedPast'
    BY <1>0, <1>2, <2>1, <2>6 DEF SavedPast, Times
  <2> QED BY <1>4, <2>3, <2>7, <2>8 DEF Saving
<1>7. CASE OpenTmp(p)
  <2>1. /\ pc[p] = "openTmp" /\ Goto(p, "writeTmp") /\ resetTmp' = Unreadable
        /\ job' = [job EXCEPT ![p] = [job[p] EXCEPT !.dest = "tmp"]]
        /\ UNCHANGED <<usageFile, resetFile, clock, saved>>
    BY <1>0, <1>7 DEF OpenTmp, bounds, past
  <2>2. pc'[p] = "writeTmp"
    BY <1>0, <2>1 DEF Goto
  <2>3. /\ job'[p].at = job[p].at /\ job'[p].usageOk = job[p].usageOk /\ job'[p].dest = "tmp"
        /\ job'[p].resetOk = job[p].resetOk /\ job'[p].prior = job[p].prior
    BY <1>0, <2>1 DEF Jobs
  <2>4. SavingHolds(p)' /\ SavedPast'
    BY <1>2, <1>3, <2>1, <2>2, <2>3 DEF SavingHolds, Settled, SavedPast
  <2> QED BY <1>4, <2>1, <2>4 DEF Saving
<1>8. CASE WriteTmp(p)
  <2>1. /\ pc[p] = "writeTmp" /\ Goto(p, "rename")
        /\ UNCHANGED <<usageFile, job, clock, saved>>
    BY <1>8 DEF WriteTmp, bounds, past
  <2>2. pc'[p] = "rename"
    BY <1>0, <2>1 DEF Goto
  <2>3. resetTmp = Unreadable /\ job[p].dest = "tmp"
    BY <1>2, <2>1 DEF SavingHolds
  <2>4. resetTmp' = clock /\ UNCHANGED resetFile
    BY <1>3, <1>8, <2>3 DEF WriteTmp, Written, Unreadable, Times
  <2>5. SavingHolds(p)' /\ SavedPast'
    BY <1>2, <1>3, <2>1, <2>2, <2>4 DEF SavingHolds, Settled, SavedPast
  <2> QED BY <1>4, <2>1, <2>5 DEF Saving
<1>9. CASE Rename(p)
  <2>1. pc[p] = "rename" /\ Goto(p, "openFresh") /\ UNCHANGED <<usageFile, clock>>
    BY <1>9 DEF Rename, bounds
  <2>2. resetTmp = clock /\ resetTmp # Missing
    BY <1>0, <1>2, <2>1 DEF SavingHolds, Missing, Times
  <2>3. pc'[p] = "openFresh"
    BY <1>0, <2>1 DEF Goto
  <2>4. PICK d \in {"final", "gone"} :
          job' = [job EXCEPT ![p].resetOk = TRUE, ![Other(p)].dest = d]
    BY <1>9, <2>2 DEF Rename
  <2>5. job'[p] = [job[p] EXCEPT !.resetOk = TRUE]
    BY <1>0, <2>4
  <2>6. /\ job'[p].at = job[p].at /\ job'[p].resetOk = TRUE /\ job'[p].prior = job[p].prior
        /\ job'[p].usageOk = job[p].usageOk
    BY <1>0, <2>5 DEF Jobs
  <2>7. /\ resetFile' = clock
        /\ saved'.usage = saved.usage /\ saved'.reset = saved.reset \cup {clock}
    BY <1>0, <1>3, <1>9, <2>2 DEF Rename
  <2>8. SavingHolds(p)'
    BY <1>3, <2>1, <2>3, <2>6, <2>7 DEF SavingHolds, Settled
  <2>9. SavedPast'
    BY <1>0, <1>2, <2>1, <2>7 DEF SavedPast, Times
  <2> QED BY <1>4, <2>1, <2>8, <2>9 DEF Saving
<1> QED BY <1>5, <1>6, <1>7, <1>8, <1>9

LEMMA ReportingKept ==
  ASSUME TypeOK, Undisturbed, NEW p \in Who, OpenFresh(p) \/ WriteFresh(p)
  PROVE  Undisturbed'
<1>0. /\ job \in [Who -> Jobs] /\ job[p] \in Jobs /\ pc \in [Who -> Refreshing \cup Collecting \cup {"idle"}]
      /\ saved \in [usage : SUBSET Times, reset : SUBSET Times] /\ clock \in Times
  BY DEF TypeOK, WorkTypeOK, BoundsTypeOK
<1>1. AtWork(p) /\ (OpenFresh(p) => pc[p] \in Saving)
  BY DEF OpenFresh, WriteFresh, Saving, AtWork, Refreshing
<1>2. /\ \A q \in Who : q # p => ~ AtWork(q)
      /\ SavedPast /\ StageHolds(p)
  BY <1>1 DEF Undisturbed
<1>3. /\ UNCHANGED <<usageFile, resetFile, clock, saved>> /\ SavedPast'
  BY <1>2 DEF OpenFresh, WriteFresh, bounds, past, SavedPast
<1>4. CASE OpenFresh(p)
  <2>1. /\ pc[p] = "openFresh" /\ Goto(p, "writeFresh") /\ freshFile' = Default
        /\ job' = [job EXCEPT ![p] = [NoJob EXCEPT !.fresh = NextFreshness(job[p])]]
    BY <1>4 DEF OpenFresh
  <2>2. pc'[p] = "writeFresh" /\ AtWork(p)'
    BY <1>0, <2>1 DEF Goto, AtWork, Refreshing
  <2>3. job'[p].fresh = NextFreshness(job[p])
    BY <1>0, <2>1 DEF NoJob
  <2>4. /\ job[p].at = clock
        /\ Settled(usageFile, job[p].usageOk, job[p].prior.usage.success, saved.usage)
        /\ Settled(resetFile, job[p].resetOk, job[p].prior.reset.success, saved.reset)
    BY <1>1, <1>2, <1>4, <2>1 DEF StageHolds, SavingHolds
  <2>5. /\ saved.usage \in SUBSET Times /\ saved.reset \in SUBSET Times
        /\ \A t \in saved.usage : t <= clock
        /\ \A t \in saved.reset : t <= clock
    BY <1>0, <1>2 DEF SavedPast
  <2>6. /\ Agree(usageFile, NextFreshness(job[p]).usage.success, saved.usage)
        /\ Agree(resetFile, NextFreshness(job[p]).reset.success, saved.reset)
    BY <1>0, <2>4, <2>5, NextAgrees DEF NextFreshness
  <2>7. KeptIn(job[p].fresh)'
    BY <1>3, <2>3, <2>6 DEF KeptIn
  <2>8. StageHolds(p)'
    BY <2>1, <2>2, <2>7 DEF StageHolds, Saving
  <2> QED BY <1>2, <1>3, <2>1, <2>2, <2>8, Inside
<1>5. CASE WriteFresh(p)
  <2>1. pc[p] = "writeFresh" /\ UNCHANGED job
    BY <1>5 DEF WriteFresh
  <2>2. freshFile = Default /\ KeptIn(job[p].fresh)
    BY <1>2, <2>1 DEF StageHolds
  <2>3. freshFile' = job[p].fresh
    BY <1>5, <2>2 DEF WriteFresh
  <2>4. KeptIn(freshFile)'
    BY <1>3, <2>2, <2>3 DEF KeptIn
  <2>5. PICK l \in {"readFresh", "report"} : Goto(p, l)
    BY <1>5 DEF WriteFresh, AfterFresh
  <2>6. pc'[p] = l
    BY <1>0, <2>5 DEF Goto
  <2>7. StageHolds(p)'
    BY <2>4, <2>6 DEF StageHolds, Saving
  <2> QED BY <1>2, <1>3, <2>4, <2>5, <2>7, Inside
<1> QED BY <1>4, <1>5

LEMMA AskKept ==
  ASSUME TypeOK, Undisturbed, Quiet, NEW p \in Who,
         NEW usage \in BOOLEAN, NEW reset \in BOOLEAN, Ask(p, usage, reset)
  PROVE  Undisturbed'
<1>0. /\ job \in [Who -> Jobs] /\ pc \in [Who -> Refreshing \cup Collecting \cup {"idle"}]
      /\ saved \in [usage : SUBSET Times, reset : SUBSET Times] /\ clock \in Times
  BY DEF TypeOK, WorkTypeOK, BoundsTypeOK
<1>1. /\ \A q \in Who : ~ AtWork(q)
      /\ SavedPast /\ KeptIn(freshFile)
  BY DEF Undisturbed, Quiet, AtWork
<1>2. /\ clock' = clock + 1 /\ UNCHANGED <<usageFile, resetFile, freshFile, saved>>
      /\ job' = [job EXCEPT ![p] = [NoJob EXCEPT !.at = clock + 1, !.prior = freshFile,
                                                !.asked = reset]]
  BY DEF Ask, disk
<1>3. PICK l \in {"openUsage", "openTmp", "openFresh"} : Goto(p, l)
  BY DEF Ask
<1>4. pc'[p] = l /\ AtWork(p)' /\ l # "idle"
  BY <1>0, <1>3 DEF Goto, AtWork, Refreshing
<1>5. /\ job'[p].at = clock' /\ job'[p].prior = freshFile
      /\ job'[p].usageOk = FALSE /\ job'[p].resetOk = FALSE
  BY <1>0, <1>2 DEF NoJob
<1>6. SavedPast'
  BY <1>0, <1>1, <1>2 DEF SavedPast, Times
<1>7. SavingHolds(p)'
  BY <1>1, <1>2, <1>4, <1>5 DEF SavingHolds, Settled, KeptIn
<1>8. StageHolds(p)'
  BY <1>4, <1>7 DEF StageHolds, Saving
<1> QED BY <1>1, <1>3, <1>4, <1>6, <1>8, Inside

(* The end of a thread's work leaves the other one alone.                  *)
LEMMA FinishAside ==
  ASSUME TypeOK, NEW p \in Who, Finish(p)
  PROVE  \A q \in Who : AtWork(q)' => pc'[q] = pc[q] /\ job'[q] = job[q]
<1>1. pc \in [Who -> Refreshing \cup Collecting \cup {"idle"}] /\ job \in [Who -> Jobs]
  BY DEF TypeOK, WorkTypeOK
<1>2. ~ AtWork(p)'
  BY <1>1 DEF Finish, Goto, AtWork, Refreshing
<1> QED BY <1>1, <1>2 DEF Finish, Goto

LEMMA RefreshKept ==
  ASSUME TypeOK, KeptInv, NEW p \in Who, Refresh(p)
  PROVE  KeptInv'
<1>1. CASE Lost(p)
  <2>1. UNCHANGED <<usageFile, resetFile, resetTmp, freshFile, saved, clock, troubled>>
    BY <1>1 DEF Lost, disk, past
  <2>2. \A q \in Who : AtWork(q)' => pc'[q] = pc[q] /\ job'[q] = job[q]
    BY <1>1, FinishAside DEF Lost
  <2>3. Quiet' => Quiet
    <3>1. pc[p] = "ask" /\ \A q \in Who : q # p => pc'[q] = pc[q]
      BY <1>1 DEF Lost, Finish, Goto, TypeOK, WorkTypeOK
    <3> QED BY <3>1 DEF Quiet
  <2> QED BY <2>1, <2>2, <2>3, Aside
<1>2. ASSUME NEW usage \in BOOLEAN, NEW reset \in BOOLEAN, Ask(p, usage, reset)
      PROVE  KeptInv'
  <2>1. troubled' = (troubled \/ ~ Quiet)
    BY <1>2 DEF Ask
  <2>2. ~troubled' => ~troubled /\ Quiet
    BY <2>1, Zenon
  <2> QED BY <1>2, <2>2, AskKept DEF KeptInv
<1>3. CASE OpenUsage(p) \/ WriteUsage(p) \/ OpenTmp(p) \/ WriteTmp(p) \/ Rename(p)
           \/ OpenFresh(p) \/ WriteFresh(p)
  <2>1. UNCHANGED troubled
    BY <1>3 DEF OpenUsage, WriteUsage, OpenTmp, WriteTmp, Rename, OpenFresh, WriteFresh, past
  <2> QED BY <1>3, <2>1, SavingKept, ReportingKept DEF KeptInv
<1>4. CASE SaveUsageFails(p) \/ SaveResetFails(p) \/ SaveFreshFails(p)
  BY <1>4 DEF SaveUsageFails, SaveResetFails, SaveFreshFails, Fault, KeptInv
<1> QED BY <1>1, <1>2, <1>3, <1>4 DEF Refresh

LEMMA MonitorKept ==
  ASSUME TypeOK, KeptInv, Monitor
  PROVE  KeptInv'
<1>0. /\ pc \in [Who -> Refreshing \cup Collecting \cup {"idle"}] /\ job \in [Who -> Jobs]
      /\ "monitor" \in Who /\ UNCHANGED <<usageFile, resetFile, resetTmp, freshFile, saved, clock>>
  BY DEF TypeOK, WorkTypeOK, Who, Monitor, ReportDirect, ReadFresh, ReadUsage, ReadReset,
         CollectFails, Publish, PublishUnsaved, ShowFailure, disk, bounds, past
<1>1. CASE CollectFails \/ PublishUnsaved
  BY <1>1 DEF CollectFails, PublishUnsaved, Fault, KeptInv
<1>2. CASE ReportDirect
  <2>1. UNCHANGED troubled /\ Finish("monitor") /\ pc["monitor"] = "report"
    BY <1>2 DEF ReportDirect, past
  <2>2. ~troubled => KeptIn(freshFile)
    BY <1>0, <2>1 DEF KeptInv, Undisturbed, StageHolds
  <2> QED BY <1>0, <2>1, <2>2, FinishAside, Aside
<1>3. CASE Publish \/ ShowFailure
  <2>1. UNCHANGED troubled /\ Finish("monitor") /\ pc["monitor"] \in {"publish", "failed"}
    BY <1>3 DEF Publish, ShowFailure, past
  <2>2. Quiet' => Quiet
    BY <1>0, <2>1 DEF Finish, Goto, Quiet, Refreshing
  <2> QED BY <1>0, <2>1, <2>2, FinishAside, Aside
<1>4. CASE ReadFresh \/ (\E e \in Elsewhere : ReadUsage(e)) \/ ReadReset
  <2>1. /\ UNCHANGED <<troubled, job>> /\ pc["monitor"] \in Collecting
        /\ \E l \in Collecting : Goto("monitor", l)
    BY <1>4 DEF ReadFresh, ReadUsage, ReadReset, past, Collecting
  <2>2. /\ Quiet' => Quiet
        /\ \A q \in Who : AtWork(q)' => pc'[q] = pc[q]
    BY <1>0, <2>1 DEF Goto, Quiet, AtWork, Refreshing, Collecting
  <2> QED BY <1>0, <2>1, <2>2, Aside
<1> QED BY <1>1, <1>2, <1>3, <1>4 DEF Monitor

LEMMA OtherKept ==
  ASSUME TypeOK, KeptInv,
         \/ Confirm \/ ReportToUser \/ (\E a \in {"refresh", "direct"} : TakeRefreshArm(a))
         \/ TakeQuotaArm \/ Exit \/ (\E e \in Elsewhere : Start(e)) \/ StartUnread
  PROVE  KeptInv'
<1>0. /\ pc \in [Who -> Refreshing \cup Collecting \cup {"idle"}] /\ job \in [Who -> Jobs]
      /\ "monitor" \in Who /\ "user" \in Who
      /\ UNCHANGED <<usageFile, resetFile, resetTmp, freshFile, saved, clock>>
  BY DEF TypeOK, WorkTypeOK, Who, Confirm, ReportToUser, TakeRefreshArm, TakeQuotaArm, Exit,
         Start, StartUnread, StartWith, disk, bounds, past
<1>1. CASE Confirm
  <2>1. UNCHANGED <<troubled, job>> /\ ~confirming /\ Goto("user", "ask")
    BY <1>1 DEF Confirm, past
  <2>2. pc["user"] = "idle"
    <3>1. confirming = (pc["user"] # "idle")
      BY DEF TypeOK, HostTypeOK
    <3> QED BY <2>1, <3>1
  <2>3. /\ Quiet' => Quiet
        /\ \A q \in Who : AtWork(q)' => pc'[q] = pc[q]
    BY <1>0, <2>1, <2>2 DEF Goto, Quiet, AtWork, Refreshing
  <2> QED BY <1>0, <2>1, <2>3, Aside
<1>2. CASE TakeQuotaArm \/ \E a \in {"refresh", "direct"} : TakeRefreshArm(a)
  <2>1. /\ UNCHANGED <<troubled, job>> /\ pc["monitor"] = "idle"
        /\ \E l \in {"ask", "readFresh"} : Goto("monitor", l)
    BY <1>2 DEF TakeQuotaArm, TakeRefreshArm, past
  <2>2. /\ Quiet' => Quiet
        /\ \A q \in Who : AtWork(q)' => pc'[q] = pc[q]
    BY <1>0, <2>1 DEF Goto, Quiet, AtWork, Refreshing
  <2> QED BY <1>0, <2>1, <2>2, Aside
<1>3. CASE ReportToUser
  <2>1. UNCHANGED troubled /\ Finish("user") /\ pc["user"] = "report"
    BY <1>3 DEF ReportToUser, past
  <2>2. ~troubled => KeptIn(freshFile)
    BY <1>0, <2>1 DEF KeptInv, Undisturbed, StageHolds
  <2> QED BY <1>0, <2>1, <2>2, FinishAside, Aside
<1>4. CASE Exit
  <2>1. troubled' = (troubled \/ ~ Quiet) /\ pc' = [p \in Who |-> "idle"]
    BY <1>4 DEF Exit
  <2>2. ~troubled' => ~troubled /\ Quiet
    BY <2>1, Zenon
  <2>3. \A q \in Who : ~ AtWork(q)'
    BY <2>1 DEF AtWork, Refreshing
  <2> QED BY <1>0, <2>2, <2>3, Aside
<1>5. CASE StartUnread
  BY <1>5 DEF StartUnread, Fault, KeptInv
<1>6. CASE \E e \in Elsewhere : Start(e)
  <2>1. UNCHANGED <<troubled, pc, job>>
    BY <1>6 DEF Start, StartWith, work
  <2>2. Quiet' => Quiet
    BY <2>1 DEF Quiet
  <2> QED BY <1>0, <2>1, <2>2, Aside
<1> QED BY <1>1, <1>2, <1>3, <1>4, <1>5, <1>6

LEMMA InitKept == Init => KeptInv
<1> SUFFICES ASSUME Init PROVE Undisturbed
  BY DEF KeptInv
<1>1. \A p \in Who : pc[p] = "idle"
  BY DEF Init
<1>2. \A p \in Who : ~ AtWork(p) /\ StageHolds(p)
  BY <1>1 DEF AtWork, Refreshing, StageHolds, Saving
<1>3. clock = 0 /\ SavedPast /\ KeptIn(freshFile)
  <2>1. CASE /\ usageFile = Missing /\ resetFile = Missing /\ freshFile = Default
             /\ saved = [usage |-> {}, reset |-> {}]
    BY <2>1 DEF Init, SavedPast, KeptIn, Agree, Default, UnavailableSet
  <2>2. CASE /\ usageFile = 0 /\ resetFile = 0
             /\ freshFile = [usage |-> FreshSet(0), reset |-> FreshSet(0)]
             /\ saved = [usage |-> {0}, reset |-> {0}]
    BY <2>2 DEF Init, SavedPast, KeptIn, Agree, FreshSet
  <2> QED BY <2>1, <2>2 DEF Init
<1> QED BY <1>2, <1>3 DEF Undisturbed

LEMMA KeptHolds == Spec => []KeptInv
<1>1. TypeOK /\ KeptInv /\ [Next]_vars => KeptInv'
  <2> SUFFICES ASSUME TypeOK, KeptInv, [Next]_vars PROVE KeptInv'
    OBVIOUS
  <2>1. CASE Next
    BY <2>1, RefreshKept, MonitorKept, OtherKept DEF Next
  <2>2. CASE UNCHANGED vars
    <3>1. UNCHANGED <<usageFile, resetFile, resetTmp, freshFile, saved, clock, troubled, pc, job>>
      BY <2>2 DEF vars, disk, work, bounds, past
    <3>2. Quiet' => Quiet
      BY <3>1 DEF Quiet
    <3> QED BY <3>1, <3>2, Aside
  <2> QED BY <2>1, <2>2
<1> QED BY <1>1, InitKept, TypeCorrect, PTL DEF Spec

(* As long as no refresh was cut short, failed to write or ran over        *)
(* another: between refreshes the stored values are the last ones fetched, *)
(* and the freshness file names their time.                                *)
THEOREM LastValuesKeptHolds == Spec => []LastValuesKept
<1>1. KeptInv => LastValuesKept
  BY DEF KeptInv, Undisturbed, KeptIn, LastValuesKept
<1> QED BY <1>1, KeptHolds, PTL

-----------------------------------------------------------------------------
(* A trusted snapshot is as new as it says: undisturbed, a stored value    *)
(* that can be read is the newest one ever saved, and Honest says that the *)
(* freshness collect has read before names a time that was saved.          *)

UsageNew(s) == s.at # Never => s.at >= s.fresh.usage.success
ResetNew(s) == s.reset >= s.fresh.reset.success

DraftNew ==
  /\ pc["monitor"] \in {"readReset", "publish"} => UsageNew(draft)
  /\ pc["monitor"] = "publish" => ResetNew(draft)

TrustInv == ~troubled => DraftNew /\ (trusted # NoQuota => UsageNew(trusted) /\ ResetNew(trusted))

NewestStored ==
  /\ usageFile \in Times => \A t \in saved.usage : t <= usageFile
  /\ IF resetFile \in Times THEN \A t \in saved.reset : t <= resetFile ELSE saved.reset = {}

LEMMA AgreedIsNewest ==
  ASSUME NEW file, NEW success, NEW times \in SUBSET Times, Agree(file, success, times)
  PROVE  IF file \in Times THEN \A t \in times : t <= file ELSE times = {}
BY DEF Agree, Times, Never, Missing

LEMMA Newest ==
  ASSUME TypeOK, Undisturbed
  PROVE  NewestStored
<1>0. /\ clock \in Times /\ saved.usage \in SUBSET Times /\ saved.reset \in SUBSET Times
      /\ \A t \in saved.usage : t <= clock
      /\ \A t \in saved.reset : t <= clock
  BY DEF TypeOK, BoundsTypeOK, Undisturbed, SavedPast
<1>1. ASSUME NEW f, KeptIn(f)
      PROVE  NewestStored
  BY <1>0, <1>1, AgreedIsNewest DEF KeptIn, NewestStored
<1>2. ASSUME NEW p \in Who, pc[p] \in Saving
      PROVE  NewestStored
  <2>1. SavingHolds(p)
    BY <1>2 DEF Undisturbed, StageHolds
  <2>2. usageFile \in Times => \A t \in saved.usage : t <= usageFile
    <3>1. CASE pc[p] = "writeUsage"
      BY <2>1, <3>1 DEF SavingHolds, Unreadable, Times
    <3>2. CASE pc[p] # "writeUsage" /\ job[p].usageOk
      BY <1>0, <2>1, <3>2 DEF SavingHolds, Settled
    <3>3. CASE pc[p] # "writeUsage" /\ ~ job[p].usageOk
      BY <1>0, <2>1, <3>3, AgreedIsNewest DEF SavingHolds, Settled
    <3> QED BY <3>1, <3>2, <3>3
  <2>3. IF resetFile \in Times THEN \A t \in saved.reset : t <= resetFile ELSE saved.reset = {}
    <3>1. CASE job[p].resetOk
      BY <1>0, <2>1, <3>1 DEF SavingHolds, Settled
    <3>2. CASE ~ job[p].resetOk
      BY <1>0, <2>1, <3>2, AgreedIsNewest DEF SavingHolds, Settled
    <3> QED BY <3>1, <3>2
  <2> QED BY <2>2, <2>3 DEF NewestStored
<1>3. CASE Quiet
  BY <1>1, <1>3 DEF Undisturbed
<1>4. CASE ~ Quiet
  <2>1. PICK p \in Who : pc[p] \in Saving \cup {"writeFresh", "report"}
    BY <1>4 DEF Quiet, Refreshing, Saving
  <2> QED BY <1>1, <1>2, <2>1 DEF Undisturbed, StageHolds
<1> QED BY <1>3, <1>4

(* What collect adds to a snapshot whose freshness is honest.              *)
LEMMA CollectedNew ==
  ASSUME TypeOK, NewestStored, NEW s \in Snapshots, SavesIn(s.fresh, saved)
  PROVE  /\ \A e \in Elsewhere : UsageNew(WithUsage(s, e))
         /\ ResetNew(WithReset(s))
<1>0. /\ saved.usage \in SUBSET Times /\ saved.reset \in SUBSET Times
      /\ s.fresh.usage.success \in saved.usage \cup {Never}
      /\ s.fresh.reset.success \in saved.reset \cup {Never}
  BY DEF TypeOK, BoundsTypeOK, SavesIn
<1>1. ASSUME NEW e \in Elsewhere
      PROVE  UsageNew(WithUsage(s, e))
  <2>1. WithUsage(s, e).fresh = s.fresh
    BY SnapshotRecords
  <2>2. CASE usageFile \in Times
    <3>1. WithUsage(s, e).at = usageFile
      BY <2>2 DEF WithUsage, Snapshots
    <3> QED BY <1>0, <2>1, <2>2, <3>1 DEF UsageNew, NewestStored, Never, Times
  <2>3. CASE usageFile \notin Times
    <3>1. WithUsage(s, e).at = Never
      BY <2>3 DEF WithUsage, Snapshots
    <3> QED BY <3>1 DEF UsageNew
  <2> QED BY <2>2, <2>3
<1>2. ResetNew(WithReset(s))
  <2>1. WithReset(s).fresh = s.fresh
    BY SnapshotRecords
  <2>2. WithReset(s).reset = IF resetFile \in Times THEN resetFile ELSE Never
    BY DEF WithReset, Snapshots
  <2> QED BY <1>0, <2>1, <2>2 DEF ResetNew, NewestStored, Never, Times
<1> QED BY <1>1, <1>2

LEMMA ResetLeavesUsage ==
  ASSUME NEW s \in Snapshots, UsageNew(s)
  PROVE  UsageNew(WithReset(s))
BY SnapshotRecords DEF UsageNew, WithReset, Snapshots

(* Steps that leave the collected and the trusted snapshot alone.          *)
LEMMA TrustAside ==
  ASSUME TrustInv, ~troubled' => ~troubled,
         trusted' \in {trusted, NoQuota},
         pc'["monitor"] \in {"readReset", "publish"}
           => pc'["monitor"] = pc["monitor"] /\ draft' = draft
  PROVE  TrustInv'
BY DEF TrustInv, DraftNew, UsageNew, ResetNew

LEMMA RefreshTrust ==
  ASSUME TypeOK, TrustInv, NEW p \in Who, Refresh(p)
  PROVE  TrustInv'
<1>0. /\ pc \in [Who -> Refreshing \cup Collecting \cup {"idle"}] /\ "monitor" \in Who
  BY DEF TypeOK, WorkTypeOK, Who
<1>1. UNCHANGED trusted
  BY DEF Refresh, Lost, Ask, OpenUsage, WriteUsage, SaveUsageFails, OpenTmp, WriteTmp,
         Rename, SaveResetFails, OpenFresh, WriteFresh, SaveFreshFails, host
<1>2. ~troubled' => ~troubled
  <2>1. ASSUME NEW usage, NEW reset, Ask(p, usage, reset)
        PROVE  ~troubled' => ~troubled
    <3>1. troubled' = (troubled \/ ~ Quiet)
      BY <2>1 DEF Ask
    <3> QED BY <3>1, Zenon
  <2>2. CASE ~ \E usage, reset \in BOOLEAN : Ask(p, usage, reset)
    BY <2>2 DEF Refresh, Lost, OpenUsage, WriteUsage, SaveUsageFails, OpenTmp, WriteTmp,
         Rename, SaveResetFails, OpenFresh, WriteFresh, SaveFreshFails, Fault, past
  <2> QED BY <2>1, <2>2
<1>3. pc'["monitor"] \in {"readReset", "publish"}
        => pc'["monitor"] = pc["monitor"] /\ draft' = draft
  <2> DEFINE Targets == Refreshing \cup {"idle", "readFresh"}
  <2>1. \E l \in Targets : Goto(p, l)
    <3>1. CASE Lost(p)
      BY <3>1 DEF Lost, Finish
    <3>2. ASSUME NEW usage, NEW reset, Ask(p, usage, reset)
          PROVE  \E l \in Targets : Goto(p, l)
      <4>1. \E l \in {"openUsage", "openTmp", "openFresh"} : Goto(p, l)
        BY <3>2 DEF Ask
      <4> QED BY <4>1 DEF Refreshing
    <3>3. CASE OpenUsage(p) \/ WriteUsage(p) \/ SaveUsageFails(p)
      <4>1. \E l \in {"writeUsage", "openTmp", "openFresh"} : Goto(p, l)
        BY <3>3 DEF OpenUsage, WriteUsage, SaveUsageFails, AfterUsage
      <4> QED BY <4>1 DEF Refreshing
    <3>4. CASE OpenTmp(p) \/ WriteTmp(p) \/ Rename(p) \/ SaveResetFails(p) \/ OpenFresh(p)
      BY <3>4 DEF OpenTmp, WriteTmp, Rename, SaveResetFails, OpenFresh, Refreshing
    <3>5. CASE WriteFresh(p) \/ SaveFreshFails(p)
      <4>1. \E l \in {"readFresh", "report"} : Goto(p, l)
        BY <3>5 DEF WriteFresh, SaveFreshFails, AfterFresh
      <4> QED BY <4>1 DEF Refreshing
    <3> QED BY <3>1, <3>2, <3>3, <3>4, <3>5 DEF Refresh
  <2>2. p # "monitor" => draft' = draft
    BY DEF Refresh, Lost, Ask, OpenUsage, WriteUsage, SaveUsageFails, OpenTmp, WriteTmp,
           Rename, SaveResetFails, OpenFresh, WriteFresh, SaveFreshFails, Finish
  <2> QED BY <1>0, <2>1, <2>2 DEF Goto, Refreshing
<1> QED BY <1>1, <1>2, <1>3, TrustAside

LEMMA MonitorTrust ==
  ASSUME TypeOK, KeptInv, Honest, TrustInv, Monitor
  PROVE  TrustInv'
<1>0. /\ pc \in [Who -> Refreshing \cup Collecting \cup {"idle"}] /\ "monitor" \in Who
      /\ draft \in Snapshots /\ SavesIn(draft.fresh, saved)
  BY DEF TypeOK, WorkTypeOK, Who, Honest, WorkHonest
<1>1. ~troubled => NewestStored
  BY Newest DEF KeptInv
<1>2. CASE CollectFails \/ PublishUnsaved
  BY <1>2 DEF CollectFails, PublishUnsaved, Fault, TrustInv
<1>3. CASE ReportDirect \/ ShowFailure
  <2>1. UNCHANGED <<troubled, trusted>> /\ pc'["monitor"] = "idle"
    BY <1>0, <1>3 DEF ReportDirect, ShowFailure, Finish, Goto, past
  <2> QED BY <2>1, TrustAside
<1>4. CASE ReadFresh
  <2>1. UNCHANGED <<troubled, trusted>> /\ pc'["monitor"] = "readUsage"
    BY <1>0, <1>4 DEF ReadFresh, Goto, past, host
  <2> QED BY <2>1, TrustAside
<1>5. ASSUME NEW e \in Elsewhere, ReadUsage(e)
      PROVE  TrustInv'
  <2>1. /\ UNCHANGED <<troubled, trusted>> /\ pc'["monitor"] = "readReset"
        /\ draft' = WithUsage(draft, e)
    BY <1>0, <1>5 DEF ReadUsage, Goto, past, host
  <2>2. ~troubled => UsageNew(WithUsage(draft, e))
    BY <1>0, <1>1, CollectedNew
  <2> QED BY <2>1, <2>2 DEF TrustInv, DraftNew, UsageNew, ResetNew
<1>6. CASE ReadReset
  <2>1. /\ UNCHANGED <<troubled, trusted>> /\ pc'["monitor"] = "publish"
        /\ pc["monitor"] = "readReset" /\ draft' = WithReset(draft)
    BY <1>0, <1>6 DEF ReadReset, Goto, past, host
  <2>2. ~troubled => UsageNew(WithReset(draft)) /\ ResetNew(WithReset(draft))
    BY <1>0, <1>1, <2>1, CollectedNew, ResetLeavesUsage DEF TrustInv, DraftNew
  <2> QED BY <2>1, <2>2 DEF TrustInv, DraftNew, UsageNew, ResetNew
<1>7. CASE Publish
  <2>1. /\ UNCHANGED troubled /\ pc'["monitor"] = "idle" /\ pc["monitor"] = "publish"
        /\ trusted' \in {trusted, draft}
    BY <1>0, <1>7 DEF Publish, Finish, Goto, past
  <2> QED BY <2>1 DEF TrustInv, DraftNew, UsageNew, ResetNew
<1> QED BY <1>2, <1>3, <1>4, <1>5, <1>6, <1>7 DEF Monitor

LEMMA OtherTrust ==
  ASSUME TypeOK, KeptInv, Honest, TrustInv,
         \/ Confirm \/ ReportToUser \/ (\E a \in {"refresh", "direct"} : TakeRefreshArm(a))
         \/ TakeQuotaArm \/ Exit \/ (\E e \in Elsewhere : Start(e)) \/ StartUnread
  PROVE  TrustInv'
<1>0. /\ pc \in [Who -> Refreshing \cup Collecting \cup {"idle"}]
      /\ "monitor" \in Who /\ "user" \in Who
  BY DEF TypeOK, WorkTypeOK, Who
<1>1. CASE Confirm \/ (\E a \in {"refresh", "direct"} : TakeRefreshArm(a)) \/ TakeQuotaArm
  <2>1. /\ UNCHANGED <<troubled, trusted, draft>>
        /\ \E p \in Who, l \in {"ask", "readFresh"} : Goto(p, l)
    BY <1>0, <1>1 DEF Confirm, TakeRefreshArm, TakeQuotaArm, past, host
  <2>2. pc'["monitor"] \in {pc["monitor"], "ask", "readFresh"}
    BY <1>0, <2>1 DEF Goto
  <2> QED BY <2>1, <2>2, TrustAside
<1>2. CASE ReportToUser
  <2>1. UNCHANGED <<troubled, trusted, draft>> /\ pc'["monitor"] = pc["monitor"]
    BY <1>0, <1>2 DEF ReportToUser, Finish, Goto, past
  <2> QED BY <2>1, TrustAside
<1>3. CASE Exit
  <2>1. /\ troubled' = (troubled \/ ~ Quiet) /\ trusted' = NoQuota
        /\ pc'["monitor"] = "idle"
    BY <1>0, <1>3 DEF Exit
  <2>2. ~troubled' => ~troubled
    BY <2>1, Zenon
  <2> QED BY <2>1, <2>2, TrustAside
<1>4. CASE StartUnread
  BY <1>4 DEF StartUnread, Fault, TrustInv
<1>5. ASSUME NEW e \in Elsewhere, Start(e)
      PROVE  TrustInv'
  <2> DEFINE s == [Nothing EXCEPT !.fresh = freshFile]
  <2>1. /\ UNCHANGED <<troubled, pc, draft>>
        /\ trusted' = IF InitialQuota(e).link = "Ok" THEN InitialQuota(e) ELSE NoQuota
    BY <1>5 DEF Start, StartWith, work
  <2>2. s \in Snapshots /\ s.fresh = freshFile
    BY Constants, SnapshotUpdates, SnapshotRecords DEF TypeOK, DiskTypeOK
  <2>3. SavesIn(s.fresh, saved)
    BY <2>2 DEF Honest, DiskHonest
  <2>4. WithUsage(s, e) \in Snapshots
    BY <2>2, DraftTypes
  <2>5. SavesIn(WithUsage(s, e).fresh, saved)
    BY <2>2, <2>3, SnapshotRecords
  <2>6. ~troubled => UsageNew(Collected(e)) /\ ResetNew(Collected(e))
    <3>1. SUFFICES ASSUME ~troubled PROVE UsageNew(Collected(e)) /\ ResetNew(Collected(e))
      OBVIOUS
    <3>2. NewestStored
      BY <3>1, Newest DEF KeptInv
    <3>3. UsageNew(WithUsage(s, e))
      BY <2>2, <2>3, <3>2, CollectedNew
    <3> QED BY <2>4, <2>5, <3>2, <3>3, CollectedNew, ResetLeavesUsage DEF Collected
  <2>7. LoadedSnapshot.link # "Ok"
    BY DEF LoadedSnapshot, Nothing, TypeOK, DiskTypeOK, Snapshots
  <2>8. trusted' \in {NoQuota, Collected(e)}
    BY <2>1, <2>7 DEF InitialQuota
  <2> QED BY <2>1, <2>6, <2>8 DEF TrustInv, DraftNew, UsageNew, ResetNew
<1> QED BY <1>1, <1>2, <1>3, <1>4, <1>5

(* A snapshot the monitor trusts does not claim a confirmation newer than  *)
(* its own values, as long as nothing went wrong.                          *)
THEOREM TrustedIsAsNewHolds == Spec => []TrustedIsAsNewAsItSays
<1>1. Init => TrustInv
  BY DEF Init, TrustInv, DraftNew, Who
<1>2. TypeOK /\ Honest /\ KeptInv /\ TrustInv /\ [Next]_vars => TrustInv'
  <2> SUFFICES ASSUME TypeOK, Honest, KeptInv, TrustInv, [Next]_vars PROVE TrustInv'
    OBVIOUS
  <2>1. CASE Next
    BY <2>1, RefreshTrust, MonitorTrust, OtherTrust DEF Next
  <2>2. CASE UNCHANGED vars
    BY <2>2, TrustAside DEF vars, host, work, past
  <2> QED BY <2>1, <2>2
<1>3. TrustInv => TrustedIsAsNewAsItSays
  BY DEF TrustInv, UsageNew, ResetNew, TrustedIsAsNewAsItSays
<1> QED BY <1>1, <1>2, <1>3, HonestHolds, KeptHolds, TypeCorrect, PTL DEF Spec
=============================================================================
