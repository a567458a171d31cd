------------------------- MODULE TaskPipeline_proofs -------------------------
(***************************************************************************)
(* Machine-checked proofs about TaskPipeline, for any conversations, hook  *)
(* processes and bounds.                                                   *)
(***************************************************************************)
EXTENDS TaskPipeline, TLAPS

USE PipelineAssumption DEF PipelineAssumption

Resolved(p) == hook[p].at = "resolved"

(* Type correctness needs to know where stems come from: they are handed   *)
(* out once, in order, and each is in one hook process or in one file.     *)
StemInv ==
  /\ \A u \in spool \cup batch : u.stem <= stems
  /\ \A p \in Hooks : Resolved(p) => hook[p].update.stem <= stems
  /\ \A p \in Hooks : Resolved(p) => \A u \in spool \cup batch : hook[p].update.stem # u.stem
  /\ \A p, q \in Hooks :
       Resolved(p) /\ Resolved(q) /\ hook[p].update.stem = hook[q].update.stem => p = q

StemsInOrder == StemsUnique /\ StemInv

(* What a step of the host's poll leaves alone.                            *)
LEMMA PollUntouched ==
  ASSUME Poll
  PROVE  UNCHANGED <<now, index, hook, events, stems, open, restarts>>
BY DEF Poll, Drain, Ingest, TakeFromBatch, ReadSignature, ReadTitles, ReadTitlesFails,
       Publish, files

-----------------------------------------------------------------------------
(* Types of the world: clock, index, hook processes and their files.       *)

LEMMA TitledType ==
  ASSUME NEW u \in Update, NEW n \in Nat
  PROVE  /\ Titled(u, n) \in Update
         /\ Titled(u, n).stem = n /\ Titled(u, n).time = u.time
         /\ Titled(u, n).conv = u.conv /\ Titled(u, n).state = u.state
BY DEF Titled, Update, Titles

LEMMA HookTypes ==
  ASSUME WorldTypeOK, NEW p \in Hooks, HookProcess(p)
  PROVE  WorldTypeOK'
<1> USE DEF WorldTypeOK
<1>0. ASSUME hook[p].at # "idle"
      PROVE  hook[p] \in Process
  BY <1>0 DEF Nothing
<1>1. ASSUME NEW c \in Convs, NEW s \in Kinds, StartHook(p, c, s)
      PROVE  WorldTypeOK'
  <2> DEFINE u == [conv |-> c, state |-> s, title |-> "generic", time |-> now, stem |-> 0]
  <2>1. u \in Update
    BY DEF Update, Titles
  <2>2. hook' = [hook EXCEPT ![p] = [at |-> "started", update |-> u, after |-> open[c]]]
    BY <1>1 DEF StartHook
  <2>3. [at |-> "started", update |-> u, after |-> open[c]] \in Process
    BY <2>1 DEF Process
  <2>4. hook' \in [Hooks -> Process \cup {Nothing}]
    BY <2>2, <2>3
  <2> QED BY <1>1, <2>4 DEF StartHook
<1>2. CASE ResolveTitle(p)
  <2>1. hook[p] \in Process
    BY <1>0, <1>2 DEF ResolveTitle
  <2>2. stems' \in Nat
    BY <1>2 DEF ResolveTitle
  <2>3. Titled(hook[p].update, stems') \in Update
    BY <2>1, <2>2, TitledType DEF Process
  <2>4. [at |-> "resolved", update |-> Titled(hook[p].update, stems'),
         after |-> hook[p].after] \in Process
    BY <2>1, <2>3 DEF Process
  <2>5. hook' \in [Hooks -> Process \cup {Nothing}]
    BY <1>2, <2>4 DEF ResolveTitle
  <2> QED BY <1>2, <2>2, <2>5 DEF ResolveTitle
<1>3. CASE RenameFile(p)
  <2>1. hook[p] \in Process
    BY <1>0, <1>3 DEF RenameFile
  <2>2. hook[p].update \in Update
    BY <2>1 DEF Process
  <2>3. hook[p].update.conv \in Convs
    BY <2>2 DEF Update
  <2>4. hook' \in [Hooks -> Process \cup {Nothing}] /\ spool' \subseteq Update
    BY <1>3, <2>2 DEF RenameFile
  <2>5. open' \in [Convs -> SUBSET Update]
    BY <1>3, <2>2, <2>3 DEF RenameFile
  <2> QED BY <1>3, <2>4, <2>5 DEF RenameFile
<1>4. CASE HookDies(p)
  BY <1>4 DEF HookDies
<1> QED BY <1>1, <1>2, <1>3, <1>4 DEF HookProcess

LEMMA HookPoller ==
  ASSUME PollerTypeOK, NEW p \in Hooks, HookProcess(p)
  PROVE  PollerTypeOK'
BY DEF PollerTypeOK, HookProcess, StartHook, ResolveTitle, RenameFile, HookDies, poller, trouble

(* The stems of a hook process step: a new one is above all others, and a  *)
(* file takes over the stem of its process.                                *)
LEMMA HookStems ==
  ASSUME WorldTypeOK, PollerTypeOK, StemsInOrder, NEW p \in Hooks, HookProcess(p)
  PROVE  StemsInOrder'
<1> USE DEF StemsInOrder, StemsUnique, StemInv, Resolved
<1>0. /\ \A q \in Hooks : hook[q].at # "idle" => hook[q] \in Process
      /\ \A u \in spool \cup batch : u \in Update /\ u.stem \in Nat
      /\ stems \in Nat
  BY DEF WorldTypeOK, PollerTypeOK, Nothing, Update
<1>1. ASSUME NEW c \in Convs, NEW s \in Kinds, StartHook(p, c, s)
      PROVE  StemsInOrder'
  BY <1>1 DEF StartHook, poller, WorldTypeOK
<1>2. CASE ResolveTitle(p)
  <2>1. /\ UNCHANGED <<spool, batch>> /\ stems' = stems + 1
        /\ \A q \in Hooks : q # p => hook'[q] = hook[q]
        /\ hook'[p].update = Titled(hook[p].update, stems')
    BY <1>2 DEF ResolveTitle, poller, WorldTypeOK
  <2>0. hook[p].update \in Update
    BY <1>0, <1>2 DEF ResolveTitle, Process
  <2>2. hook'[p].update.stem = stems + 1
    BY <1>0, <2>0, <2>1, TitledType
  <2>3. \A q \in Hooks : Resolved(q) => hook[q].update.stem \in Nat
    BY <1>0 DEF Process, Update
  <2>4. \A u \in spool' \cup batch' : u.stem <= stems' /\ hook'[p].update.stem # u.stem
    BY <1>0, <2>1, <2>2
  <2>5. \A q \in Hooks : Resolved(q)' /\ q # p =>
          /\ hook'[q].update.stem <= stems' /\ hook'[q].update.stem # hook'[p].update.stem
          /\ \A u \in spool' \cup batch' : hook'[q].update.stem # u.stem
    BY <1>0, <2>1, <2>2, <2>3
  <2>6. StemsUnique' BY <2>1
  <2>7. \A q, r \in Hooks :
          Resolved(q)' /\ Resolved(r)' /\ hook'[q].update.stem = hook'[r].update.stem => q = r
    BY <2>1, <2>5
  <2>8. hook'[p].update.stem <= stems' BY <1>0, <2>1, <2>2
  <2> QED BY <2>4, <2>5, <2>6, <2>7, <2>8
<1>3. CASE RenameFile(p)
  <2>1. /\ UNCHANGED <<batch, stems>> /\ spool' = spool \cup {hook[p].update}
        /\ Resolved(p) /\ hook'[p].at = "idle"
        /\ \A q \in Hooks : q # p => hook'[q] = hook[q]
    BY <1>3 DEF RenameFile, poller, WorldTypeOK, Nothing
  <2> QED BY <1>0, <2>1
<1>4. CASE HookDies(p)
  BY <1>4 DEF HookDies, poller, WorldTypeOK, Nothing
<1> QED BY <1>1, <1>2, <1>3, <1>4 DEF HookProcess

-----------------------------------------------------------------------------
(* Types of the poller.                                                    *)

LEMMA IngestedType ==
  ASSUME PollerTypeOK, NEW u \in Update
  PROVE  /\ Ingested(u, KeptTitle(u)) \in [Convs -> Tasks]
         /\ Ingested(u, KeptTitle(u))[u.conv].time = u.time
         /\ Ingested(u, KeptTitle(u))[u.conv].state = u.state
         /\ \A c \in Convs : c # u.conv => Ingested(u, KeptTitle(u))[c] = tasks[c]
<1>1. u.conv \in Convs /\ KeptTitle(u) \in Titles
  BY DEF Update, KeptTitle, Titles
<1>2. [state |-> u.state, title |-> KeptTitle(u), time |-> u.time] \in Tasks
  BY <1>1 DEF Update, Tasks
<1> QED BY <1>1, <1>2 DEF Ingested, PollerTypeOK

LEMMA RefreshedType ==
  ASSUME PollerTypeOK
  PROVE  /\ TitlesRefreshed \in [Convs -> Tasks]
         /\ \A c \in Convs : /\ TitlesRefreshed[c].state = tasks[c].state
                             /\ TitlesRefreshed[c].time = tasks[c].time
                             /\ tasks[c].title = "named" => TitlesRefreshed[c].title = "named"
BY DEF PollerTypeOK, TitlesRefreshed, Tasks, Titles

LEMMA PollTypes ==
  ASSUME WorldTypeOK, PollerTypeOK, StemsInOrder, Poll
  PROVE  WorldTypeOK' /\ PollerTypeOK' /\ StemsInOrder'
<1> USE DEF PollerTypeOK
<1>1. spool' \subseteq spool /\ spool' \cup batch' \subseteq spool \cup batch
  BY DEF Poll, Drain, SameTime, Ingest, TakeFromBatch, ReadSignature, ReadTitles, ReadTitlesFails,
         Publish, files
<1>2. WorldTypeOK' /\ StemsInOrder'
  <2>1. WorldTypeOK'
    BY <1>1, PollUntouched DEF WorldTypeOK
  <2>2. StemsUnique'
    BY <1>1 DEF StemsInOrder, StemsUnique
  <2>3. StemInv'
    BY <1>1, PollUntouched DEF StemsInOrder, StemInv, Resolved
  <2> QED BY <2>1, <2>2, <2>3 DEF StemsInOrder
<1>3. PollerTypeOK'
  <2>1. CASE Drain
    <3>1. changed' \in BOOLEAN BY <2>1 DEF Drain
    <3>2. batch' \subseteq Update
      BY <2>1 DEF Drain, WorldTypeOK
    <3>3. faults' \in 0..MaxFaults
      BY <2>1 DEF Drain
    <3>4. \A u \in spool : u.conv \in Convs
      BY DEF WorldTypeOK, Update
    <3>5. lost' \subseteq Convs /\ disturbed' \subseteq Convs
      BY <2>1, <3>4 DEF Drain
    <3>6. poll' = "ingesting" /\ UNCHANGED <<seen, index, tasks, published, restarts>>
      BY <2>1 DEF Drain
    <3> QED BY <3>1, <3>2, <3>3, <3>5, <3>6
  <2>2. ASSUME NEW u \in batch, Ingest(u) PROVE PollerTypeOK'
    <3>1. tasks' \in [Convs -> Tasks] /\ changed' \in BOOLEAN
      BY <2>2, IngestedType DEF Ingest
    <3>2. /\ UNCHANGED <<poll, seen, index, published, restarts, trouble>>
          /\ poll = "ingesting" /\ batch' \subseteq batch
      BY <2>2 DEF Ingest, TakeFromBatch
    <3> QED BY <3>1, <3>2 DEF trouble
  <2>3. CASE ReadSignature
    BY <2>3 DEF ReadSignature, trouble
  <2>4. CASE ReadTitles
    <3>1. changed' \in BOOLEAN
      BY <2>4 DEF ReadTitles
    <3> QED BY <2>4, <3>1, RefreshedType DEF ReadTitles, trouble
  <2>5. CASE ReadTitlesFails
    BY <2>5 DEF ReadTitlesFails, trouble
  <2>6. CASE Publish
    <3>1. published'.sequence \in Nat
      <4>1. CASE changed
        BY <2>6, <4>1 DEF Publish
      <4>2. CASE ~changed
        BY <2>6, <4>2 DEF Publish
      <4> QED BY <4>1, <4>2
    <3> QED BY <2>6, <3>1 DEF Publish, trouble
  <2> QED BY <2>1, <2>2, <2>3, <2>4, <2>5, <2>6 DEF Poll
<1> QED BY <1>2, <1>3

LEMMA RestartTypes ==
  ASSUME WorldTypeOK, PollerTypeOK, StemsInOrder, Restart
  PROVE  WorldTypeOK' /\ PollerTypeOK' /\ StemsInOrder'
<1>1. Absent \in Tasks
  BY DEF Absent, Tasks, Titles
<1>2. PollerTypeOK'
  <2>1. changed' \in BOOLEAN
    BY DEF Restart, FreshRuntime
  <2>2. restarts' \in 0..MaxRestarts
    BY DEF Restart, PollerTypeOK
  <2>3. published'.sequence \in Nat
    BY DEF Restart, FreshRuntime
  <2>4. faults' \in 0..MaxFaults /\ lost' \subseteq Convs
    BY DEF Restart, PollerTypeOK
  <2>5. disturbed' \subseteq Convs
    BY DEF Restart, PollerTypeOK, WorldTypeOK, Update
  <2>6. /\ poll' = "idle" /\ batch' = {} /\ seen' = {}
        /\ tasks' = [c \in Convs |-> Absent]
    BY DEF Restart, FreshRuntime
  <2> QED BY <1>1, <2>1, <2>2, <2>3, <2>4, <2>5, <2>6 DEF PollerTypeOK
<1> QED BY <1>2 DEF Restart, FreshRuntime, files, WorldTypeOK, StemsInOrder, StemsUnique,
                    StemInv, Resolved

LEMMA InitTypes == Init => WorldTypeOK /\ PollerTypeOK /\ StemsInOrder
<1> SUFFICES ASSUME Init PROVE WorldTypeOK /\ PollerTypeOK /\ StemsInOrder
  OBVIOUS
<1>1. Absent \in Tasks
  BY DEF Absent, Tasks, Titles
<1>2. WorldTypeOK BY DEF Init, WorldTypeOK
<1>3. changed \in BOOLEAN BY DEF Init
<1>4. PollerTypeOK BY <1>1, <1>3 DEF Init, PollerTypeOK
<1> QED BY <1>2, <1>4 DEF Init, StemsInOrder, StemsUnique, StemInv, Resolved, Nothing

LEMMA TypesInductive ==
  ASSUME WorldTypeOK, PollerTypeOK, StemsInOrder, [Next]_vars
  PROVE  WorldTypeOK' /\ PollerTypeOK' /\ StemsInOrder'
<1> USE DEF WorldTypeOK, PollerTypeOK, StemsInOrder, StemsUnique, StemInv, Resolved, files,
            poller, trouble
<1>1. CASE Tick BY <1>1 DEF Tick
<1>2. ASSUME NEW c \in Convs, NameThread(c) PROVE WorldTypeOK' /\ PollerTypeOK' /\ StemsInOrder'
  BY <1>2 DEF NameThread
<1>7. CASE SetClockBack
  <2>1. now' \in 0..MaxTime /\ UNCHANGED <<index, files>> /\ UNCHANGED batch
    BY <1>7 DEF SetClockBack
  <2>2. WorldTypeOK' /\ StemsInOrder'
    BY <2>1
  <2>3. PollerTypeOK'
    BY <1>7, <2>1 DEF SetClockBack
  <2> QED BY <2>2, <2>3
<1>3. ASSUME NEW p \in Hooks, HookProcess(p)
      PROVE  WorldTypeOK' /\ PollerTypeOK' /\ StemsInOrder'
  BY <1>3, HookTypes, HookPoller, HookStems
<1>4. CASE Poll BY <1>4, PollTypes
<1>5. CASE Restart BY <1>5, RestartTypes
<1>6. CASE UNCHANGED vars BY <1>6 DEF vars
<1> QED BY <1>1, <1>2, <1>3, <1>4, <1>5, <1>6, <1>7 DEF Next

THEOREM StemsHold == Spec => [](WorldTypeOK /\ PollerTypeOK /\ StemsInOrder)
BY InitTypes, TypesInductive, PTL DEF Spec

(* Every reachable state is well typed, and no two files share a stem.     *)
THEOREM TypeCorrect == Spec => []TypeOK
<1>1. WorldTypeOK /\ PollerTypeOK /\ StemsInOrder => TypeOK
  BY DEF TypeOK, StemsInOrder
<1> QED BY <1>1, StemsHold, PTL

-----------------------------------------------------------------------------
(* The later event wins. An event overtakes those that were over when it   *)
(* began: it is observed no earlier, and its stem is larger. Whatever of a *)
(* conversation the host holds, in its directory, in its batch or in the   *)
(* reducer, is therefore an event nobody overtook, or what overtook it is  *)
(* still to be ingested after it, or the reducer will refuse it. All that  *)
(* is about the conversations whose files were read and whose times tell   *)
(* the order.                                                              *)

Quiet == Convs \ (lost \cup disturbed)

Overtakes(p, e) ==
  /\ e.conv = hook[p].update.conv
  /\ e.time <= hook[p].update.time /\ e.stem <= stems
  /\ Resolved(p) => e.stem < hook[p].update.stem

EventsInOrder ==
  /\ \A c \in Quiet : \A e \in open[c] : e.conv = c /\ e.time <= now /\ e.stem <= stems
  /\ \A p \in Hooks : hook[p].at # "idle" /\ hook[p].update.conv \in Quiet =>
       /\ hook[p].update.time <= now
       /\ \A e \in hook[p].after : Overtakes(p, e)

Shows(c, e) == e.state = tasks[c].state /\ e.time = tasks[c].time

SpoolOrdered == \A f \in spool : f.conv \in Quiet =>
  \/ f \in open[f.conv] \/ Beaten(f)
  \/ \E g \in spool : g.conv = f.conv /\ g.time >= f.time /\ g.stem > f.stem

BatchOrdered == \A f \in batch : f.conv \in Quiet =>
  \/ f \in open[f.conv] \/ Beaten(f)
  \/ \E g \in batch \cup spool :
       g.conv = f.conv /\ g.time >= f.time /\ (g \in spool \/ g.stem > f.stem)

TasksOrdered == \A c \in Quiet : Known(c) =>
  \/ \E e \in open[c] : Shows(c, e)
  \/ \E g \in batch \cup spool : g.conv = c /\ g.time >= tasks[c].time

OrderInv == EventsInOrder /\ SpoolOrdered /\ BatchOrdered /\ TasksOrdered

Typed == WorldTypeOK /\ PollerTypeOK

LEMMA ProcessFields ==
  ASSUME WorldTypeOK, NEW p \in Hooks, hook[p].at # "idle"
  PROVE  /\ hook[p] \in Process
         /\ hook[p].update \in Update /\ hook[p].update.conv \in Convs
         /\ hook[p].update.time \in Nat /\ hook[p].update.stem \in Nat
         /\ hook[p].after \subseteq Update
BY DEF WorldTypeOK, Nothing, Process, Update

LEMMA UpdateFields ==
  ASSUME NEW u \in Update
  PROVE  u.conv \in Convs /\ u.time \in Nat /\ u.stem \in Nat /\ u.state \in States
BY DEF Update

LEMMA HookEvents ==
  ASSUME Typed, StemInv, EventsInOrder, NEW p \in Hooks, HookProcess(p)
  PROVE  EventsInOrder'
<1> USE DEF Typed, EventsInOrder, Overtakes, Resolved
<1>0. /\ now \in Nat /\ stems \in Nat
      /\ hook \in [Hooks -> Process \cup {Nothing}]
      /\ open \in [Convs -> SUBSET Update]
      /\ Quiet' = Quiet /\ Quiet \subseteq Convs
  BY DEF WorldTypeOK, HookProcess, StartHook, ResolveTitle, RenameFile, HookDies, poller,
         trouble, Quiet
<1>1. ASSUME NEW c \in Convs, NEW s \in Kinds, StartHook(p, c, s)
      PROVE  EventsInOrder'
  <2>1. /\ UNCHANGED <<now, stems, open>>
        /\ \A q \in Hooks : q # p => hook'[q] = hook[q]
    BY <1>0, <1>1 DEF StartHook
  <2>2. /\ hook'[p].at = "started" /\ hook'[p].update.time = now
        /\ hook'[p].update.conv = c /\ hook'[p].after = open[c]
    BY <1>0, <1>1 DEF StartHook
  <2>3. c \in Quiet => \A e \in hook'[p].after : Overtakes(p, e)'
    BY <1>0, <2>1, <2>2
  <2>4. hook'[p].update.time <= now'
    BY <1>0, <2>1, <2>2
  <2> QED BY <1>0, <2>1, <2>2, <2>3, <2>4
<1>2. CASE ResolveTitle(p)
  <2> DEFINE u == hook[p].update
  <2>1. /\ UNCHANGED <<now, open>> /\ stems' = stems + 1
        /\ \A q \in Hooks : q # p => hook'[q] = hook[q]
        /\ hook'[p].update = Titled(u, stems') /\ hook'[p].after = hook[p].after
    BY <1>0, <1>2 DEF ResolveTitle
  <2>2. hook[p].at # "idle" /\ u \in Update
    BY <1>2, ProcessFields DEF ResolveTitle
  <2>3. /\ hook'[p].update.stem = stems + 1 /\ hook'[p].update.time = u.time
        /\ hook'[p].update.conv = u.conv
    BY <1>0, <2>1, <2>2, TitledType
  <2>4. \A c \in Convs : \A e \in open[c] : e.stem \in Nat
    BY <1>0, UpdateFields
  <2>5. \A q \in Hooks : hook[q].at # "idle" => \A e \in hook[q].after : e.stem \in Nat
    BY ProcessFields, UpdateFields
  <2>6. u.conv \in Quiet => \A e \in hook'[p].after : Overtakes(p, e)'
    BY <1>0, <2>1, <2>2, <2>3, <2>5
  <2>7. \A q \in Hooks : q # p /\ hook'[q].at # "idle" /\ hook'[q].update.conv \in Quiet =>
          \A e \in hook'[q].after : Overtakes(q, e)'
    BY <1>0, <2>1, <2>5
  <2>8. \A q \in Hooks : hook'[q].at # "idle" /\ hook'[q].update.conv \in Quiet =>
          hook'[q].update.time <= now'
    BY <2>1, <2>2, <2>3
  <2>9. \A c \in Quiet : \A e \in open'[c] : e.conv = c /\ e.time <= now' /\ e.stem <= stems'
    BY <1>0, <2>1, <2>4
  <2> QED BY <1>0, <2>3, <2>6, <2>7, <2>8, <2>9
<1>3. CASE RenameFile(p)
  <2> DEFINE u == hook[p].update
  <2>1. /\ UNCHANGED <<now, stems>> /\ hook[p].at # "idle" /\ Resolved(p)
        /\ hook'[p].at = "idle"
        /\ \A q \in Hooks : q # p => hook'[q] = hook[q]
        /\ open' = [open EXCEPT ![u.conv] = (@ \ hook[p].after) \cup {u}]
    BY <1>0, <1>3 DEF RenameFile, Nothing
  <2>2. u.conv \in Convs
    BY <2>1, ProcessFields
  <2>3. \A c \in Convs : \A e \in open'[c] : e \in open[c] \/ (c = u.conv /\ e = u)
    BY <1>0, <2>1, <2>2
  <2>4. u.stem <= stems /\ (u.conv \in Quiet => u.time <= now)
    BY <1>3, <2>1 DEF StemInv
  <2> QED BY <1>0, <2>1, <2>3, <2>4
<1>4. CASE HookDies(p)
  BY <1>0, <1>4 DEF HookDies, Nothing
<1> QED BY <1>1, <1>2, <1>3, <1>4 DEF HookProcess

(* A completed file overtakes exactly what was over when it began.         *)
LEMMA RenameOrders ==
  ASSUME Typed, OrderInv, NEW p \in Hooks, RenameFile(p)
  PROVE  SpoolOrdered' /\ BatchOrdered' /\ TasksOrdered'
<1> DEFINE u == hook[p].update
           a == hook[p].after
<1>0. /\ hook[p].at # "idle" /\ Resolved(p)
      /\ spool' = spool \cup {u} /\ UNCHANGED <<batch, tasks, lost, disturbed>>
      /\ open' = [open EXCEPT ![u.conv] = (@ \ a) \cup {u}]
  BY DEF RenameFile, poller, trouble, Resolved
<1>10. /\ Quiet' = Quiet /\ Quiet \subseteq Convs
       /\ \A f : Beaten(f)' <=> Beaten(f)
  BY <1>0 DEF Quiet, Beaten, Known
<1>1. u \in Update /\ u.conv \in Convs
  BY <1>0, ProcessFields DEF Typed
<1>2. open \in [Convs -> SUBSET Update] /\ spool \subseteq Update /\ batch \subseteq Update
  BY DEF Typed, WorldTypeOK, PollerTypeOK
<1>3. \A f \in spool \cup batch : f.conv \in Convs
  BY <1>2, UpdateFields
<1>4. u.conv \in Quiet =>
        \A e \in a : e.conv = u.conv /\ e.time <= u.time /\ e.stem < u.stem
  BY <1>0 DEF OrderInv, EventsInOrder, Overtakes
<1>5. \A c \in Convs : \A e \in open[c] : e \in open'[c] \/ (c = u.conv /\ e \in a)
  BY <1>0, <1>1, <1>2
<1>6. u \in open'[u.conv]
  BY <1>0, <1>1, <1>2
<1>7. SpoolOrdered'
  <2> SUFFICES ASSUME NEW f \in spool', f.conv \in Quiet
               PROVE  \/ f \in open'[f.conv] \/ Beaten(f)
                      \/ \E g \in spool' : g.conv = f.conv /\ g.time >= f.time /\ g.stem > f.stem
    BY <1>10 DEF SpoolOrdered
  <2>1. CASE f = u BY <2>1, <1>6
  <2>2. CASE f \in spool /\ f \in open[f.conv]
    <3>1. CASE f.conv = u.conv /\ f \in a
      <4>1. u.conv = f.conv /\ u.time >= f.time /\ u.stem > f.stem
        BY <1>1, <1>2, <1>4, <2>2, <3>1, UpdateFields
      <4> QED BY <1>0, <4>1
    <3> QED BY <1>3, <1>5, <2>2, <3>1
  <2>3. CASE f \in spool /\ f \notin open[f.conv]
    BY <1>0, <2>3 DEF OrderInv, SpoolOrdered
  <2> QED BY <1>0, <2>1, <2>2, <2>3
<1>8. BatchOrdered'
  <2> SUFFICES ASSUME NEW f \in batch, f.conv \in Quiet
               PROVE  \/ f \in open'[f.conv] \/ Beaten(f)
                      \/ \E g \in batch \cup spool' : /\ g.conv = f.conv /\ g.time >= f.time
                                                      /\ g \in spool' \/ g.stem > f.stem
    BY <1>0, <1>10 DEF BatchOrdered
  <2>2. CASE f \in open[f.conv]
    <3>1. CASE f.conv = u.conv /\ f \in a
      <4>1. u.conv = f.conv /\ u.time >= f.time
        BY <1>1, <1>2, <1>4, <3>1, UpdateFields
      <4> QED BY <1>0, <4>1
    <3> QED BY <1>3, <1>5, <2>2, <3>1
  <2>3. CASE f \notin open[f.conv]
    BY <1>0, <2>3 DEF OrderInv, BatchOrdered
  <2> QED BY <2>2, <2>3
<1>9. TasksOrdered'
  <2> SUFFICES ASSUME NEW c \in Quiet, Known(c)
               PROVE  \/ \E e \in open'[c] : Shows(c, e)
                      \/ \E g \in batch \cup spool' : g.conv = c /\ g.time >= tasks[c].time
    BY <1>0, <1>10 DEF TasksOrdered, Known, Shows
  <2>2. ASSUME NEW e \in open[c], Shows(c, e)
        PROVE  \/ \E d \in open'[c] : Shows(c, d)
               \/ \E g \in batch \cup spool' : g.conv = c /\ g.time >= tasks[c].time
    <3>1. CASE e \in open'[c] BY <2>2, <3>1
    <3>2. CASE c = u.conv /\ e \in a
      <4>1. u.time >= e.time /\ e.time = tasks[c].time
        BY <1>1, <1>2, <1>4, <2>2, <3>2, UpdateFields DEF Shows
      <4> QED BY <1>0, <3>2, <4>1
    <3> QED BY <1>5, <1>10, <2>2, <3>1, <3>2
  <2> QED BY <1>0, <2>2 DEF OrderInv, TasksOrdered
<1> QED BY <1>7, <1>8, <1>9

(* The reducer's times only grow, so that what was beaten stays beaten.    *)
LEMMA IngestKeepsBeaten ==
  ASSUME WorldTypeOK, PollerTypeOK, NEW u \in batch, Ingest(u),
         NEW f \in batch \cup spool, Beaten(f)
  PROVE  Beaten(f)'
<1>0. u \in Update /\ f \in Update /\ batch' = batch \ {u} /\ tasks \in [Convs -> Tasks]
  BY DEF WorldTypeOK, PollerTypeOK, Ingest, TakeFromBatch
<1>1. /\ f.conv \in Convs /\ f.time \in Nat /\ u.conv \in Convs /\ u.time \in Nat
      /\ u.state # "none"
  BY <1>0, UpdateFields DEF States
<1>2. tasks[f.conv].time \in Nat
  <2>1. tasks[f.conv] \in Tasks
    BY <1>0, <1>1
  <2> QED BY <2>1 DEF Tasks
<1>3. CASE Known(f.conv) /\ tasks[f.conv].time > f.time
  <2>1. CASE Accepts(u)
    <3>1. CASE f.conv = u.conv
      <4>1. tasks'[f.conv].time = u.time /\ tasks'[f.conv].state = u.state
        BY <1>0, <2>1, <3>1, IngestedType DEF Ingest
      <4>2. f.time < u.time
        BY <1>1, <1>2, <1>3, <2>1, <3>1 DEF Accepts
      <4>3. tasks'[f.conv].state # "none"
        BY <1>1, <4>1
      <4>4. tasks'[f.conv].time > f.time
        BY <1>1, <4>1, <4>2
      <4> QED BY <4>3, <4>4 DEF Beaten, Known
    <3>2. CASE f.conv # u.conv
      <4>1. tasks'[f.conv] = tasks[f.conv]
        BY <1>0, <1>1, <2>1, <3>2, IngestedType DEF Ingest
      <4> QED BY <1>3, <4>1 DEF Beaten, Known
    <3> QED BY <3>1, <3>2
  <2>2. CASE ~Accepts(u)
    BY <1>3, <2>2 DEF Ingest, Beaten, Known
  <2> QED BY <2>1, <2>2
<1>4. ASSUME NEW g \in batch, g.conv = f.conv, g.time > f.time
      PROVE  Beaten(f)'
  <2>1. CASE g # u
    BY <1>0, <1>4, <2>1 DEF Beaten
  <2>2. CASE g = u /\ Accepts(u)
    <3>1. tasks'[f.conv].time = u.time /\ tasks'[f.conv].state = u.state
      BY <1>0, <1>4, <2>2, IngestedType DEF Ingest
    <3> QED BY <1>1, <1>4, <2>2, <3>1 DEF Beaten, Known
  <2>3. CASE g = u /\ ~Accepts(u)
    BY <1>1, <1>2, <1>4, <2>3 DEF Ingest, Accepts, Beaten, Known
  <2> QED BY <2>1, <2>2, <2>3
<1> QED BY <1>3, <1>4 DEF Beaten

(* A drain: of the files nothing is told that comes between the events of  *)
(* a quiet conversation.                                                   *)
LEMMA DrainOrders ==
  ASSUME Typed, OrderInv, Drain
  PROVE  SpoolOrdered' /\ BatchOrdered' /\ TasksOrdered'
<1>1. PICK unread \in SUBSET spool, kept \in SUBSET spool :
        /\ batch' = spool \ unread /\ spool' = kept
        /\ lost' = lost \cup {u.conv : u \in unread \ kept}
        /\ disturbed' = disturbed \cup {u.conv : u \in {v \in kept : SameTime(v)}}
  BY DEF Drain
<1>2. batch = {} /\ UNCHANGED <<open, tasks>>
  BY DEF Drain, Typed, PollerTypeOK
<1>3. \A f \in spool : f.conv \in Convs /\ f.time \in Nat /\ f.stem \in Nat
  BY UpdateFields DEF Typed, WorldTypeOK
<1>4. Quiet' \subseteq Quiet
  BY <1>1 DEF Quiet
<1>5. \A g \in spool : g.conv \in Quiet' => g \in batch' \cup spool'
  BY <1>1 DEF Quiet
<1>6. \A f : Beaten(f) => Beaten(f)'
  BY <1>2 DEF Beaten, Known
<1>7. SpoolOrdered'
  <2> SUFFICES ASSUME NEW f \in kept, f.conv \in Quiet', f \notin open[f.conv], ~Beaten(f)'
               PROVE  \E g \in spool' : g.conv = f.conv /\ g.time >= f.time /\ g.stem > f.stem
    BY <1>1, <1>2 DEF SpoolOrdered
  <2>1. PICK g \in spool : g.conv = f.conv /\ g.time >= f.time /\ g.stem > f.stem
    BY <1>1, <1>4, <1>6 DEF OrderInv, SpoolOrdered
  <2>2. ~SameTime(f)
    BY <1>1 DEF Quiet
  <2>3. g.time # f.time
    BY <1>1, <1>3, <2>1, <2>2 DEF SameTime
  <2>4. g \notin batch'
    BY <1>1, <1>3, <2>1, <2>3 DEF Beaten
  <2> QED BY <1>5, <2>1, <2>4
<1>8. BatchOrdered'
  <2> SUFFICES ASSUME NEW f \in batch', f.conv \in Quiet', f \notin open[f.conv], ~Beaten(f)'
               PROVE  \E g \in batch' \cup spool' : /\ g.conv = f.conv /\ g.time >= f.time
                                                    /\ g \in spool' \/ g.stem > f.stem
    BY <1>2 DEF BatchOrdered
  <2>1. PICK g \in spool : g.conv = f.conv /\ g.time >= f.time /\ g.stem > f.stem
    BY <1>1, <1>4, <1>6 DEF OrderInv, SpoolOrdered
  <2> QED BY <1>5, <2>1
<1>9. TasksOrdered'
  <2> SUFFICES ASSUME NEW c \in Quiet', Known(c)
               PROVE  \/ \E e \in open[c] : Shows(c, e)
                      \/ \E g \in batch' \cup spool' : g.conv = c /\ g.time >= tasks[c].time
    BY <1>2 DEF TasksOrdered, Known, Shows
  <2> QED BY <1>2, <1>4, <1>5 DEF OrderInv, TasksOrdered
<1> QED BY <1>7, <1>8, <1>9

(* Ingesting the earliest update of the batch: what counted on it comes    *)
(* before it, and is no longer there.                                      *)
LEMMA IngestOrders ==
  ASSUME Typed, OrderInv, NEW u \in batch, Ingest(u)
  PROVE  SpoolOrdered' /\ BatchOrdered' /\ TasksOrdered'
<1>0. /\ UNCHANGED <<spool, open>> /\ batch' = batch \ {u} /\ Earliest(u)
      /\ Quiet' = Quiet /\ Quiet \subseteq Convs
  BY DEF Ingest, TakeFromBatch, files, trouble, Quiet
<1>1. /\ batch \subseteq Update /\ spool \subseteq Update /\ u \in Update
      /\ tasks \in [Convs -> Tasks]
  BY DEF Typed, WorldTypeOK, PollerTypeOK
<1>2. \A f \in batch \cup spool : f.time \in Nat /\ f.stem \in Nat /\ f.conv \in Convs
  BY <1>1, UpdateFields
<1>6. ASSUME NEW f \in batch \cup spool, Beaten(f)
      PROVE  Beaten(f)'
  BY <1>6, IngestKeepsBeaten DEF Typed
<1>3. SpoolOrdered'
  BY <1>0, <1>6 DEF OrderInv, SpoolOrdered
<1>4. BatchOrdered'
  <2> SUFFICES ASSUME NEW f \in batch, f # u, f.conv \in Quiet, f \notin open[f.conv], ~Beaten(f)
               PROVE  \E g \in batch' \cup spool : g.conv = f.conv /\ g.time >= f.time
                                                   /\ (g \in spool \/ g.stem > f.stem)
    BY <1>0, <1>6 DEF BatchOrdered
  <2>1. PICK g \in batch \cup spool : g.conv = f.conv /\ g.time >= f.time
                                      /\ (g \in spool \/ g.stem > f.stem)
    BY DEF OrderInv, BatchOrdered
  <2>2. CASE g \in spool BY <2>1, <2>2
  <2>3. CASE g \notin spool
    <3>1. g # u
      BY <1>0, <1>2, <2>1, <2>3 DEF Earliest
    <3> QED BY <1>0, <2>1, <3>1
  <2> QED BY <2>2, <2>3
<1>5. TasksOrdered'
  <2> SUFFICES ASSUME NEW c \in Quiet, Known(c)'
               PROVE  \/ \E e \in open[c] : Shows(c, e)'
                      \/ \E g \in batch' \cup spool : g.conv = c /\ g.time >= tasks'[c].time
    BY <1>0 DEF TasksOrdered
  <2>1. CASE c = u.conv /\ Accepts(u)
    <3>1. tasks'[c].time = u.time /\ tasks'[c].state = u.state
      BY <1>1, <2>1, IngestedType DEF Ingest, Typed
    <3>2. CASE u \in open[c]
      BY <3>1, <3>2 DEF Shows
    <3>4. CASE Beaten(u)
      <4>1. Known(c) => tasks[c].time \in Nat /\ tasks[c].time <= u.time
        BY <1>0, <1>1, <2>1 DEF Accepts, Tasks
      <4>2. PICK g \in batch : g.conv = c /\ g.time > u.time
        BY <1>2, <2>1, <3>4, <4>1 DEF Beaten
      <4> QED BY <1>0, <1>2, <3>1, <4>2
    <3>3. CASE u \notin open[c] /\ ~Beaten(u)
      <4>1. PICK g \in batch \cup spool : g.conv = c /\ g.time >= u.time
                                          /\ (g \in spool \/ g.stem > u.stem)
        BY <2>1, <3>3 DEF OrderInv, BatchOrdered
      <4>2. g \in batch' \cup spool
        BY <1>0, <1>2, <4>1
      <4> QED BY <3>1, <4>1, <4>2
    <3> QED BY <3>2, <3>3, <3>4
  <2>2. CASE ~(c = u.conv /\ Accepts(u))
    <3>1. tasks'[c] = tasks[c]
      <4>1. CASE Accepts(u)
        BY <1>0, <1>1, <2>2, <4>1, IngestedType DEF Ingest, Typed
      <4>2. CASE ~Accepts(u)
        BY <4>2 DEF Ingest
      <4> QED BY <4>1, <4>2
    <3>2. CASE \E e \in open[c] : Shows(c, e)
      BY <3>1, <3>2 DEF Shows
    <3>3. CASE \E g \in batch \cup spool : g.conv = c /\ g.time >= tasks[c].time
      <4>1. PICK g \in batch \cup spool : g.conv = c /\ g.time >= tasks[c].time
        BY <3>3
      <4>2. tasks[c].time \in Nat
        BY <1>0, <1>1 DEF Tasks
      <4>3. CASE g # u \/ g \in spool
        BY <1>0, <3>1, <4>1, <4>3
      <4>4. CASE g = u
        BY <1>2, <2>2, <4>1, <4>2, <4>4 DEF Accepts
      <4> QED BY <4>3, <4>4
    <3> QED BY <3>1, <3>2, <3>3 DEF OrderInv, TasksOrdered, Known
  <2> QED BY <2>1, <2>2
<1> QED BY <1>3, <1>4, <1>5

LEMMA PollOrders ==
  ASSUME Typed, OrderInv, Poll
  PROVE  OrderInv'
<1>0. Quiet' \subseteq Quiet
  BY DEF Poll, Drain, Ingest, TakeFromBatch, ReadSignature, ReadTitles, ReadTitlesFails,
         Publish, trouble, Quiet
<1>1. EventsInOrder'
  BY <1>0, PollUntouched DEF OrderInv, EventsInOrder, Overtakes, Resolved
<1>2. CASE Drain
  BY <1>1, <1>2, DrainOrders DEF OrderInv
<1>3. ASSUME NEW u \in batch, Ingest(u) PROVE OrderInv'
  BY <1>1, <1>3, IngestOrders DEF OrderInv
<1>4. CASE ReadSignature \/ ReadTitles \/ ReadTitlesFails \/ Publish
  <2>1. UNCHANGED <<batch, spool, open, lost, disturbed>> /\ Quiet' = Quiet /\ Quiet \subseteq Convs
    BY <1>4 DEF ReadSignature, ReadTitles, ReadTitlesFails, Publish, files, trouble, Quiet
  <2>2. \A c \in Convs : tasks'[c].state = tasks[c].state /\ tasks'[c].time = tasks[c].time
    BY <1>4, RefreshedType
       DEF ReadSignature, ReadTitles, ReadTitlesFails, Publish, Typed
  <2>5. \A f \in batch \cup spool : Beaten(f) => Beaten(f)'
    BY <2>1, <2>2, UpdateFields DEF Beaten, Known, Typed, WorldTypeOK, PollerTypeOK
  <2>3. SpoolOrdered' /\ BatchOrdered'
    BY <2>1, <2>5 DEF OrderInv, SpoolOrdered, BatchOrdered
  <2>4. TasksOrdered'
    BY <2>1, <2>2 DEF OrderInv, TasksOrdered, Known, Shows
  <2> QED BY <1>1, <2>3, <2>4 DEF OrderInv
<1> QED BY <1>2, <1>3, <1>4 DEF Poll

LEMMA OrderInductive ==
  ASSUME Typed, StemInv, OrderInv, [Next]_vars
  PROVE  OrderInv'
<1> USE DEF OrderInv, SpoolOrdered, BatchOrdered, TasksOrdered, Known, Shows, Quiet, Beaten, trouble
<1>1. CASE Tick
  <2>1. now' = now + 1 /\ UNCHANGED <<files, poller>> BY <1>1 DEF Tick
  <2>2. EventsInOrder'
    <3>1. /\ \A c \in Convs : \A e \in open[c] : e.time \in Nat
          /\ \A p \in Hooks : hook[p].at # "idle" => hook[p].update.time \in Nat
          /\ now \in Nat
      BY ProcessFields, UpdateFields DEF Typed, WorldTypeOK
    <3>2. Quiet' = Quiet /\ Quiet \subseteq Convs
      BY <2>1 DEF poller
    <3> HIDE DEF Quiet
    <3> QED BY <2>1, <3>1, <3>2 DEF EventsInOrder, Overtakes, Resolved, files
  <2> QED BY <2>1, <2>2 DEF files, poller
<1>7. CASE SetClockBack
  <2>1. Quiet' = {}
    BY <1>7 DEF SetClockBack
  <2>2. /\ \A f \in spool' \cup batch' : f.conv \notin Quiet'
        /\ \A p \in Hooks : hook'[p].update.conv \notin Quiet'
    BY <2>1
  <2> HIDE DEF Quiet
  <2> QED BY <2>1, <2>2 DEF EventsInOrder
<1>2. ASSUME NEW c \in Convs, NameThread(c) PROVE OrderInv'
  BY <1>2 DEF NameThread, files, poller, EventsInOrder, Overtakes, Resolved
<1>3. ASSUME NEW p \in Hooks, HookProcess(p) PROVE OrderInv'
  <2>1. EventsInOrder' BY <1>3, HookEvents
  <2>2. CASE RenameFile(p) BY <2>1, <2>2, RenameOrders
  <2>3. CASE ~RenameFile(p)
    <3>1. UNCHANGED <<spool, open, batch, tasks, lost, disturbed>>
      BY <1>3, <2>3 DEF HookProcess, StartHook, ResolveTitle, HookDies, poller
    <3> QED BY <2>1, <3>1
  <2> QED BY <2>2, <2>3
<1>4. CASE Poll BY <1>4, PollOrders
<1>5. CASE Restart
  <2>1. /\ batch' = {} /\ tasks' = [c \in Convs |-> Absent] /\ UNCHANGED <<now, files, lost>>
        /\ disturbed' = disturbed \cup
             {u.conv : u \in {v \in spool : v \notin open[v.conv] /\ Beaten(v)}}
    BY <1>5 DEF Restart, FreshRuntime
  <2>5. Quiet' \subseteq Quiet
    BY <2>1
  <2>2. EventsInOrder' BY <2>1, <2>5 DEF EventsInOrder, Overtakes, Resolved, files
  <2>3. \A c \in Convs : ~Known(c)'
    BY <2>1 DEF Absent
  <2>4. SpoolOrdered'
    <3> SUFFICES ASSUME NEW f \in spool, f.conv \in Quiet', f \notin open[f.conv]
                 PROVE  \E g \in spool : g.conv = f.conv /\ g.time >= f.time /\ g.stem > f.stem
      BY <2>1 DEF files
    <3>1. ~Beaten(f)
      <4> HIDE DEF Beaten
      <4> QED BY <2>1
    <3> QED BY <2>5, <3>1
  <2>6. BatchOrdered' /\ TasksOrdered'
    BY <2>1, <2>3 DEF files
  <2> QED BY <2>2, <2>4, <2>6
<1>6. CASE UNCHANGED vars
  <2>1. UNCHANGED <<now, files, poller>> BY <1>6 DEF vars
  <2>3. Quiet' = Quiet BY <2>1 DEF poller
  <2>2. EventsInOrder'
    <3> HIDE DEF Quiet
    <3> QED BY <2>1, <2>3 DEF EventsInOrder, Overtakes, Resolved, files
  <2> QED BY <2>1, <2>2 DEF files, poller
<1> QED BY <1>1, <1>2, <1>3, <1>4, <1>5, <1>6, <1>7 DEF Next

THEOREM OrderHolds == Spec => []OrderInv
<1>1. Init => OrderInv
  BY DEF Init, OrderInv, EventsInOrder, SpoolOrdered, BatchOrdered, TasksOrdered, Known,
         Absent, Nothing, Quiet
<1>2. StemsInOrder => StemInv BY DEF StemsInOrder
<1>3. Typed <=> WorldTypeOK /\ PollerTypeOK BY DEF Typed
<1> QED BY <1>1, <1>2, <1>3, OrderInductive, StemsHold, PTL DEF Spec

(* Whatever order files appear in, and whatever was left over from earlier *)
(* polls, between two polls every task of a quiet conversation shows an    *)
(* event that no later one has overtaken.                                  *)
THEOREM LaterEventWinsHolds == Spec => []LaterEventWins
<1>1. OrderInv /\ PollerTypeOK => LaterEventWins
  BY DEF OrderInv, TasksOrdered, LaterEventWins, PollerTypeOK, Shows, Quiet
<1> QED BY <1>1, OrderHolds, StemsHold, PTL

-----------------------------------------------------------------------------
(* A known title is kept by every step that keeps the task.                *)
THEOREM TitleKeptHolds == Spec => TitleKept
<1> DEFINE Kept == \A c \in Convs :
             tasks[c].title = "named" /\ Known(c)' => tasks'[c].title = "named"
<1>1. ASSUME PollerTypeOK, [Next]_vars
      PROVE  [Kept]_vars
  <2>1. ASSUME NEW u \in batch, Ingest(u) PROVE Kept
    <3>1. u \in Update BY <1>1 DEF PollerTypeOK
    <3>2. ASSUME NEW c \in Convs, tasks[c].title = "named"
          PROVE  tasks'[c].title = "named"
      <4>1. CASE c = u.conv /\ Accepts(u)
        BY <1>1, <2>1, <3>2, <4>1 DEF Ingest, Ingested, KeptTitle, PollerTypeOK
      <4>2. CASE c # u.conv /\ Accepts(u)
        BY <1>1, <2>1, <3>1, <3>2, <4>2, IngestedType DEF Ingest
      <4>3. CASE ~Accepts(u)
        BY <2>1, <3>2, <4>3 DEF Ingest
      <4> QED BY <4>1, <4>2, <4>3
    <3> QED BY <3>2
  <2>2. CASE ReadTitles
    BY <1>1, <2>2, RefreshedType DEF ReadTitles
  <2>3. CASE Restart
    BY <2>3 DEF Restart, FreshRuntime, Known, Absent
  <2>4. CASE UNCHANGED tasks
    BY <2>4
  <2>5. \/ \E u \in batch : Ingest(u)
        \/ ReadTitles \/ Restart \/ UNCHANGED tasks
    BY <1>1 DEF Next, Tick, SetClockBack, NameThread, HookProcess, StartHook, ResolveTitle, RenameFile,
                HookDies, Poll, Drain, ReadSignature, ReadTitlesFails, Publish, poller, vars
  <2> QED BY <2>1, <2>2, <2>3, <2>4, <2>5
<1>2. Kept => \A c \in Convs : tasks[c].title = "named" /\ Known(c)' => tasks'[c].title = "named"
  OBVIOUS
<1> QED BY <1>1, StemsHold, PTL DEF Spec, TitleKept

-----------------------------------------------------------------------------
(* The flag of a poll covers every change of the board: while it is down,  *)
(* and whenever no poll runs, the board is the published one.              *)
ShownInv == poll = "idle" \/ ~changed => published.board = Board

LEMMA BoardKept ==
  ASSUME UNCHANGED tasks
  PROVE  Board' = Board
<1>1. Waiting' = Waiting
  BY DEF Waiting
<1>2. \A c, d \in Convs : Before(c, d)' <=> Before(c, d)
  BY DEF Before
<1>3. Latest' = Latest
  <2>1. \A c \in Convs :
          {d \in Waiting : Before(d, c)}' = {d \in Waiting : Before(d, c)}
    BY <1>1, <1>2 DEF Waiting
  <2> QED
    BY <1>1, <2>1 DEF Latest, Waiting
<1> QED
  BY <1>1, <1>3 DEF Board, Known

LEMMA EmptyBoard ==
  ASSUME tasks = [c \in Convs |-> Absent]
  PROVE  Board = <<>>
<1>1. {d \in Convs : Known(d)} \ (Waiting \ Latest) = {}
  BY DEF Known, Absent
<1> QED
  BY <1>1 DEF Board

LEMMA ShownInductive ==
  ASSUME PollerTypeOK, ShownInv, [Next]_vars
  PROVE  ShownInv'
<1> USE DEF ShownInv
<1>1. CASE Drain \/ ReadSignature \/ ReadTitlesFails
  <2>1. UNCHANGED <<tasks, published>> /\ poll' # "idle" /\ (poll = "idle" \/ changed' = changed)
    BY <1>1 DEF Drain, ReadSignature, ReadTitlesFails
  <2> QED
    BY <2>1, BoardKept
<1>2. ASSUME NEW u \in batch, Ingest(u)
      PROVE  ShownInv'
  <2>1. poll' # "idle" /\ UNCHANGED published
    BY <1>2 DEF Ingest, TakeFromBatch
  <2>2. CASE Accepts(u)
    BY <1>2, <2>1, <2>2 DEF Ingest
  <2>3. CASE ~Accepts(u)
    <3>1. UNCHANGED <<tasks, changed>>
      BY <1>2, <2>3 DEF Ingest
    <3> QED
      BY <2>1, <3>1, BoardKept
  <2> QED
    BY <2>2, <2>3
<1>3. CASE ReadTitles
  <2>1. poll' # "idle" /\ UNCHANGED published
    BY <1>3 DEF ReadTitles
  <2>2. CASE Untitled # {}
    BY <1>3, <2>1, <2>2 DEF ReadTitles, PollerTypeOK
  <2>3. CASE Untitled = {}
    <3>1. TitlesRefreshed = tasks
      BY <2>3 DEF TitlesRefreshed, PollerTypeOK
    <3>2. UNCHANGED <<tasks, changed>>
      BY <1>3, <2>3, <3>1 DEF ReadTitles, PollerTypeOK
    <3> QED
      BY <2>1, <3>2, BoardKept
  <2> QED
    BY <2>2, <2>3
<1>4. CASE Publish
  <2>1. UNCHANGED tasks /\ changed' = changed
    BY <1>4 DEF Publish
  <2>2. CASE changed
    BY <1>4, <2>1, <2>2, BoardKept DEF Publish
  <2>3. CASE ~changed
    BY <1>4, <2>1, <2>3, BoardKept DEF Publish
  <2> QED
    BY <2>2, <2>3
<1>5. CASE Restart
  <2>1. tasks' = [c \in Convs |-> Absent] /\ published'.board = <<>>
    BY <1>5 DEF Restart, FreshRuntime
  <2>2. (tasks = [c \in Convs |-> Absent] => Board = <<>>)'
    BY EmptyBoard, PTL
  <2> QED
    BY <2>1, <2>2
<1>6. CASE UNCHANGED <<poll, changed, tasks, published>>
  BY <1>6, BoardKept
<1> QED
  BY <1>1, <1>2, <1>3, <1>4, <1>5, <1>6
     DEF Next, Tick, SetClockBack, NameThread, HookProcess, StartHook, ResolveTitle, RenameFile, HookDies,
         Poll, poller, vars

(* Between two polls the last snapshot is the board of the reducer.        *)
THEOREM SnapshotMatchesHolds == Spec => []SnapshotMatches
<1>1. Init => ShownInv
  BY EmptyBoard DEF Init, ShownInv
<1>2. ShownInv => SnapshotMatches
  BY DEF ShownInv, SnapshotMatches
<1> QED
  BY <1>1, <1>2, ShownInductive, StemsHold, PTL DEF Spec
=============================================================================
