---------------------------- MODULE TaskPipeline ----------------------------
(***************************************************************************)
(* From a Codex Hook to the task snapshot the Windows host publishes:      *)
(* windows-native/src/hook.rs and TaskReducer of windows-native/src/lib.rs.*)
(*                                                                         *)
(* Every Hook event runs a short process of its own that leaves one file   *)
(* in the spool directory. The host polls the directory, ingests the files *)
(* into its in-memory reducer and publishes a snapshot when that changed   *)
(* something. Titles come from ChatGPT's session index, which the hook     *)
(* process reads for its event and the host reads again when its length or *)
(* modification time changed. Hook processes, ChatGPT and the host share   *)
(* only files; a poll is spread over the steps between which those change. *)
(*                                                                         *)
(* The index is the set of conversations it has a title for. It is only    *)
(* appended to, so that its length and time tell its contents apart.       *)
(***************************************************************************)
EXTENDS Naturals, FiniteSets

CONSTANTS
  Convs,       \* conversations, ordered like their identifiers
  Indexed,     \* those that ChatGPT lists in its index sooner or later, if ever
  Hooks,       \* hook processes that can run at the same time
  Kinds,       \* the task states that events bring about
  MaxWaiting,  \* waiting tasks in a snapshot: 10 in phone_tasks
  MaxTime,     \* bound on the clock
  MaxEvents,   \* bound on the hook events
  MaxRestarts, \* bound on the restarts of the host
  MaxFaults    \* bound on failing drains and on the clock being set back

States == {"running", "needs_authorization", "waiting_for_review"}

ASSUME PipelineAssumption ==
  /\ Convs \subseteq Nat /\ IsFiniteSet(Convs) /\ Indexed \subseteq Convs
  /\ Kinds \subseteq States
  /\ MaxWaiting \in Nat /\ MaxTime \in Nat /\ MaxEvents \in Nat /\ MaxRestarts \in Nat
  /\ MaxFaults \in Nat

VARIABLES
  now,        \* the wall clock in ms: several events may share a reading
  index,      \* session_index.jsonl: the conversations it names
  hook,       \* the hook processes
  events,     \* how many events there were
  stems,      \* how many file stems were handed out: they sort by time
  spool,      \* the .json files of the spool directory
  poll,       \* where HookTaskRuntime::poll is
  batch,      \* the updates it has drained and not ingested yet
  changed,    \* its flag of that name
  seen,       \* thread_index_signature
  tasks,      \* TaskReducer.tasks
  published,  \* the last snapshot returned, with its sequence number
  restarts,   \* how often the host was restarted
  faults,     \* how often a drain failed in part, or the clock was set back
  lost,       \* history: conversations of which an unread file was removed
  disturbed,  \* history: those for which times do not tell the order of files
  open        \* history: events of a conversation no later one is done after

files  == <<hook, events, stems, spool, open>>
trouble == <<faults, lost, disturbed>>
poller == <<poll, batch, changed, seen, tasks, published, restarts, trouble>>
vars   == <<now, index, files, poller>>

Titles == {"generic", "named"}

Absent == [state |-> "none", title |-> "generic", time |-> 0]
Tasks  == [state : States \cup {"none"}, title : Titles, time : 0..MaxTime]
Update == [conv : Convs, state : States, title : Titles, time : 0..MaxTime, stem : Nat]

Nothing  == [at |-> "idle"]
Process  == [at : {"started", "resolved"}, update : Update, after : SUBSET Update]

Known(c) == tasks[c].state # "none"

WorldTypeOK ==
  /\ now \in 0..MaxTime /\ index \subseteq Convs
  /\ hook \in [Hooks -> Process \cup {Nothing}]
  /\ events \in 0..MaxEvents /\ stems \in Nat
  /\ spool \subseteq Update
  /\ open \in [Convs -> SUBSET Update]

PollerTypeOK ==
  /\ poll \in {"idle", "ingesting", "reading", "publishing"}
  /\ batch \subseteq Update /\ (poll # "ingesting" => batch = {})
  /\ changed \in BOOLEAN
  /\ seen \subseteq index
  /\ tasks \in [Convs -> Tasks]
  /\ published.sequence \in Nat
  /\ restarts \in 0..MaxRestarts /\ faults \in 0..MaxFaults
  /\ lost \subseteq Convs /\ disturbed \subseteq Convs

(* The stem of a file is its identity: create_new would fail otherwise.    *)
StemsUnique == \A u, v \in spool \cup batch : u.stem = v.stem => u = v

TypeOK == WorldTypeOK /\ PollerTypeOK /\ StemsUnique

-----------------------------------------------------------------------------
(* TaskReducer::phone_tasks: everything active and the latest of what      *)
(* waits for review; earlier identifiers first among equals.               *)

Waiting == {c \in Convs : tasks[c].state = "waiting_for_review"}

Before(c, d) ==
  \/ tasks[c].time > tasks[d].time
  \/ tasks[c].time = tasks[d].time /\ c < d

Latest == {c \in Waiting : Cardinality({d \in Waiting : Before(d, c)}) < MaxWaiting}

Board == [c \in {d \in Convs : Known(d)} \ (Waiting \ Latest) |-> tasks[c]]

(* HookTaskRuntime::new: the reducer lives in memory only.                 *)
FreshRuntime ==
  /\ poll' = "idle" /\ batch' = {} /\ changed' = FALSE /\ seen' = {}
  /\ tasks' = [c \in Convs |-> Absent]
  /\ published' = [sequence |-> 0, board |-> <<>>]

Init ==
  /\ now = 0 /\ index = {}
  /\ hook = [p \in Hooks |-> Nothing]
  /\ events = 0 /\ stems = 0 /\ spool = {}
  /\ poll = "idle" /\ batch = {} /\ changed = FALSE /\ seen = {}
  /\ tasks = [c \in Convs |-> Absent]
  /\ published = [sequence |-> 0, board |-> <<>>]
  /\ restarts = 0 /\ faults = 0 /\ lost = {} /\ disturbed = {}
  /\ open = [c \in Convs |-> {}]

-----------------------------------------------------------------------------
(* The world: time passes, ChatGPT names a thread in its index.            *)

Tick ==
  /\ now < MaxTime
  /\ now' = now + 1
  /\ UNCHANGED <<index, files, poller>>

(* The user or a time service sets the clock back.                         *)
SetClockBack ==
  /\ faults < MaxFaults
  /\ faults' = faults + 1
  /\ now > 0 /\ now' \in 0..(now - 1)
  /\ disturbed' = Convs
  /\ UNCHANGED <<index, files, poll, batch, changed, seen, tasks, published, restarts, lost>>

NameThread(c) ==
  /\ c \notin index
  /\ index' = index \cup {c}
  /\ UNCHANGED <<now, files, poller>>

-----------------------------------------------------------------------------
(* A hook process: ingest_hook_event takes the time first, reads its input *)
(* and the index, and renames a complete temporary file into the spool.    *)

StartHook(p, c, s) ==
  /\ hook[p].at = "idle"
  /\ events < MaxEvents
  /\ events' = events + 1
  /\ hook' = [hook EXCEPT ![p] =
       [at     |-> "started",
        update |-> [conv |-> c, state |-> s, title |-> "generic", time |-> now, stem |-> 0],
        after  |-> open[c]]]
  /\ UNCHANGED <<now, index, stems, spool, open, poller>>

Titled(u, stem) ==
  [u EXCEPT !.title = IF u.conv \in index THEN "named" ELSE "generic", !.stem = stem]

ResolveTitle(p) ==
  /\ hook[p].at = "started"
  /\ stems' = stems + 1
  /\ hook' = [hook EXCEPT ![p] =
       [at |-> "resolved", update |-> Titled(hook[p].update, stems'), after |-> hook[p].after]]
  /\ UNCHANGED <<now, index, events, spool, open, poller>>

RenameFile(p) ==
  LET u == hook[p].update IN
  /\ hook[p].at = "resolved"
  /\ hook' = [hook EXCEPT ![p] = Nothing]
  /\ spool' = spool \cup {u}
  /\ open' = [open EXCEPT ![u.conv] = (@ \ hook[p].after) \cup {u}]
  /\ UNCHANGED <<now, index, events, stems, poller>>

(* Codex kills the hook, or its I/O fails: no file, at most a leftover     *)
(* temporary one that no drain looks at.                                   *)
HookDies(p) ==
  /\ hook[p].at # "idle"
  /\ hook' = [hook EXCEPT ![p] = Nothing]
  /\ UNCHANGED <<now, index, events, stems, spool, open, poller>>

-----------------------------------------------------------------------------
(* HookTaskRuntime::poll, every 200 ms: drain_updates reads and removes    *)
(* the files, ingest_update takes them by time, and by name where times    *)
(* are equal; refresh_titles follows, then the snapshot if anything        *)
(* changed.                                                                *)

(* A file that cannot be read is removed nevertheless, one that cannot be  *)
(* removed is there again in the next poll: after an event of the same     *)
(* millisecond it is then taken a second time.                             *)
SameTime(u) == \E v \in spool : v # u /\ v.conv = u.conv /\ v.time = u.time

Drain ==
  /\ poll = "idle"
  /\ poll' = "ingesting"
  /\ changed' = FALSE
  /\ \E unread, kept \in SUBSET spool :
       /\ batch' = spool \ unread /\ spool' = kept
       /\ faults' = IF unread \cup kept = {} THEN faults ELSE faults + 1
       /\ faults' <= MaxFaults
       /\ lost' = lost \cup {u.conv : u \in unread \ kept}
       /\ disturbed' = disturbed \cup {u.conv : u \in {v \in kept : SameTime(v)}}
  /\ UNCHANGED <<now, index, hook, events, stems, open, seen, tasks, published, restarts>>

Earliest(u) ==
  \A v \in batch : u.time < v.time \/ (u.time = v.time /\ u.stem <= v.stem)

(* ingest_update: an older update is dropped, a known title is kept.       *)
Accepts(u) == Known(u.conv) => tasks[u.conv].time <= u.time
Ingested(u, title) == [tasks EXCEPT ![u.conv] = [state |-> u.state, title |-> title, time |-> u.time]]
KeptTitle(u) == IF tasks[u.conv].title = "named" THEN "named" ELSE u.title

TakeFromBatch(u) ==
  /\ poll = "ingesting"
  /\ u \in batch /\ Earliest(u)
  /\ batch' = batch \ {u}
  /\ UNCHANGED <<now, index, files, poll, seen, published, restarts, trouble>>

(* Mutants: a tie counts as older; an older update is taken like any; the  *)
(* generic title of an event replaces the known one; an update does not    *)
(* count as a change.                                                      *)
IngestDropsTies(u) ==
  /\ TakeFromBatch(u)
  /\ IF Known(u.conv) => tasks[u.conv].time < u.time
       THEN tasks' = Ingested(u, KeptTitle(u)) /\ changed' = TRUE
       ELSE UNCHANGED <<tasks, changed>>

IngestTakesOlder(u) ==
  /\ TakeFromBatch(u)
  /\ tasks' = Ingested(u, KeptTitle(u)) /\ changed' = TRUE

IngestForgetsTitle(u) ==
  /\ TakeFromBatch(u)
  /\ IF Accepts(u)
       THEN tasks' = Ingested(u, u.title) /\ changed' = TRUE
       ELSE UNCHANGED <<tasks, changed>>

IngestSilently(u) ==
  /\ TakeFromBatch(u)
  /\ IF Accepts(u) THEN tasks' = Ingested(u, KeptTitle(u)) ELSE UNCHANGED tasks
  /\ UNCHANGED changed

Ingest(u) ==
  /\ TakeFromBatch(u)
  /\ IF Accepts(u)
       THEN tasks' = Ingested(u, KeptTitle(u)) /\ changed' = TRUE
       ELSE UNCHANGED <<tasks, changed>>

(* refresh_titles: the signature is remembered before anything is read.    *)
ReadSignature ==
  /\ poll = "ingesting" /\ batch = {}
  /\ seen' = index
  /\ poll' = IF seen = index THEN "publishing" ELSE "reading"
  /\ UNCHANGED <<now, index, files, batch, changed, tasks, published, restarts, trouble>>

Untitled == {c \in index : Known(c) /\ tasks[c].title = "generic"}
TitlesRefreshed ==
  [c \in Convs |-> IF c \in Untitled THEN [tasks[c] EXCEPT !.title = "named"] ELSE tasks[c]]

(* Mutant: the refresh overwrites the flag instead of adding to it.        *)
ReadTitlesOverwrites ==
  /\ poll = "reading"
  /\ poll' = "publishing"
  /\ tasks' = TitlesRefreshed
  /\ changed' = (Untitled # {})
  /\ UNCHANGED <<now, index, files, batch, seen, published, restarts, trouble>>

ReadTitles ==
  /\ poll = "reading"
  /\ poll' = "publishing"
  /\ tasks' = TitlesRefreshed
  /\ changed' = (changed \/ Untitled # {})
  /\ UNCHANGED <<now, index, files, batch, seen, published, restarts, trouble>>

(* Another process has the index locked, or it is too large.               *)
ReadTitlesFails ==
  /\ poll = "reading"
  /\ poll' = "publishing"
  /\ UNCHANGED <<now, index, files, batch, changed, seen, tasks, published, restarts, trouble>>

Publish ==
  /\ poll = "publishing"
  /\ poll' = "idle"
  /\ IF changed
       THEN published' = [sequence |-> published.sequence + 1, board |-> Board]
       ELSE UNCHANGED published
  /\ UNCHANGED <<now, index, files, batch, changed, seen, tasks, restarts, trouble>>

(* A later event was taken, or is about to be: the reducer will refuse u.  *)
Beaten(u) ==
  \/ Known(u.conv) /\ tasks[u.conv].time > u.time
  \/ \E v \in batch : v.conv = u.conv /\ v.time > u.time

(* The host exits or crashes and is started again. The new reducer cannot  *)
(* know that an overtaken file that was not removed is one.                *)
Restart ==
  /\ restarts < MaxRestarts
  /\ restarts' = restarts + 1
  /\ FreshRuntime
  /\ disturbed' = disturbed \cup {u.conv : u \in {v \in spool : v \notin open[v.conv] /\ Beaten(v)}}
  /\ UNCHANGED <<now, index, files, faults, lost>>

-----------------------------------------------------------------------------
HookProcess(p) ==
  \/ \E c \in Convs, s \in Kinds : StartHook(p, c, s)
  \/ ResolveTitle(p) \/ RenameFile(p) \/ HookDies(p)

Poll ==
  \/ Drain
  \/ \E u \in batch : Ingest(u)
  \/ ReadSignature \/ ReadTitles \/ ReadTitlesFails \/ Publish

Next ==
  \/ Tick \/ SetClockBack
  \/ \E c \in Indexed : NameThread(c)
  \/ \E p \in Hooks : HookProcess(p)
  \/ Poll \/ Restart

Spec == Init /\ [][Next]_vars

(* The 200 ms tick never stops, and a poll runs to its end.                *)
FairSpec == Spec /\ WF_vars(Poll)

-----------------------------------------------------------------------------
(* Properties.                                                             *)

(* Files may appear late, out of order and share a timestamp: between two  *)
(* polls a task still shows an event that no later event of the            *)
(* conversation, begun after its end, has overtaken. That a file was left  *)
(* over from an earlier poll does not change that, but for files of the    *)
(* same millisecond and after a restart (disturbed).                       *)
LaterEventWins ==
  \A c \in Convs \ (lost \cup disturbed) :
    poll = "idle" /\ Known(c) /\ (\A u \in spool : u.conv # c)
      => \E e \in open[c] : e.state = tasks[c].state /\ e.time = tasks[c].time

(* Between two polls the last snapshot is the board of the reducer: no     *)
(* path through the flags of a poll leaves a change unpublished.           *)
SnapshotMatches == poll = "idle" => published.board = Board

(* A conversation that has its title keeps it: an event whose process read *)
(* the index before the title was there does not take it away again.       *)
TitleKept ==
  [][\A c \in Convs :
       tasks[c].title = "named" /\ Known(c)' => tasks'[c].title = "named"]_vars

(* An event whose file is complete reaches the published board, whatever   *)
(* the clock does, unless a file of the conversation cannot be read, the   *)
(* host is restarted again or newer waiting tasks fill the board.          *)
EventsAreShown ==
  \A c \in Convs, t \in 0..MaxTime :
    (restarts = MaxRestarts /\ \E u \in spool : u.conv = c /\ u.time = t)
      ~> \/ c \in lost
         \/ /\ published.board = Board /\ tasks[c].time >= t
            /\ c \in DOMAIN published.board \/ c \in Waiting \ Latest

(* hook.rs: "Refreshes generic task titles when ChatGPT updates its local  *)
(* index after the Hook event." A generic title of a conversation the      *)
(* index names is replaced, or the host restarts. The code does not keep    *)
(* this: no run has it, see the README.                                    *)
TitlesArrive ==
  \A c \in Convs, r \in 0..MaxRestarts :
    (restarts = r /\ Known(c) /\ c \in index)
      ~> (restarts > r \/ tasks[c].title = "named")
=============================================================================
