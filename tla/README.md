# Codex quota: models and proofs

This directory keeps TLA+ models of the Codex quota system beside its code: a
Windows tray program that watches Codex and serves one paired phone
(`windows-native/`), and the Android app that shows the tasks and the quota
(`android-app/`), and the archived AstroBox path beside them
(`astrobox-plugin/`, `src/server/`). TLC checks the models on small instances; the theorems in the
`*_proofs` modules hold for every value of the constants and are checked by
TLAPS.

    tlc -workers 2 -config Pairing.cfg MCPairing     # one run, see "Runs"
    tlapm Host_proofs.tla                      # one module's proofs

`PROJECT.json` lists the components, the runs, mutants for every property of a
passing run, the source lines behind every definition, the findings, the
hazards of the code and the theorems.

## 1. The system

    ChatGPT / Codex ──hook processes──> spool directory ─┐
          │                                              │ poll, 200 ms
          └── session_index.jsonl (titles) ──────────────┤
                                                         v
      quota files, upstream HTTP ──5 s / 15 min──> publishing loop ── latest ──> /sync tasks
                                                                                   │ WSS
      tray (pair, revoke, exit) ── pairing lock ── /pair handlers                  v
                │                       │                          SyncWebSocketClient (phone)
                v                       v                                          │
          token hash file <── monitor, 500 ms                        SyncStreamSession, one per
                                                                     connection
                                                                                   │
                                                                     RuntimeStateRepository
                                                                       │        │        │
                                                                     screen   alerts   band

| Component | State it keeps | Operations | Hard parts | What makes it correct |
|---|---|---|---|---|
| Pairing and credential persistence (`lib.rs` PairingManager, `host.rs`, `storage.rs`) | the offer, the one token hash in memory, its file, what the monitor believes is in the file | begin, complete, revoke, save, load, shutdown | three threads, the file written outside the lock, failed writes, crashes | an offer works once, within its attempts and lifetime; the file follows memory |
| WSS service and publishing loop (`network.rs`, `start_quota_monitor`) | the latest payload, three watch channels, one task per connection | accept, authenticate, greet, send, close, publish, refresh | subscription races, revocation during the handshake, blocked peers | no stream of a dead token, no lost update |
| Hook ingress and task reducer (`hook.rs`, TaskReducer) | spool files, tasks, index signature | enqueue, drain, ingest, refresh titles, publish | processes overtake each other, equal time stamps, two paths set one flag | the later event wins, a title stays, every change is published |
| Phone sync session and repository (`SyncStreamSession.kt`, `RuntimeStateRepository.kt`, `TaskVisibilityStore.kt`) | connection id and sequence per session; one snapshot, online flag, task sequence and removal markers for all | hello, snapshot, heartbeat, disconnect, ingest, remove | late frames and callbacks of a cancelled connection, restarts of either side, clocks | nothing older is shown, removals hold, the board converges |
| Phone sync client (`SyncWebSocketClient.kt`) | the connection loop, the active socket and session, the back-off, the watchdog | start, refresh, reconnect, stop | two threads replace the loop, an old connection's end clears the new one's references | one loop, for the current computer; refreshes over their own connection; online in the end |
| Phone pairing client and stores (`PairingClient.kt`, `PairingCredentialStore.kt`, `ConnectionIdentityStore.kt`) | credentials and endpoint, two records | pair, save, load | a lost answer, a process killed between the saves | the stored token and endpoint are of one computer, the one that accepts them |
| Quota collection and freshness (`quota.rs`, `start_quota_monitor`, `confirm_upstream_now`) | usage, inventory and freshness files, cached snapshot; what is published, shown and trusted | refresh by two threads, collect, save, reload | overlapping read-modify-write of files written in place, torn files, three writers of one snapshot | no success that never was; the last values stay; what is shown is what the files say |
| Quota types, wire contracts and other pure rules (`quota.rs`, `lib.rs`, `network.rs`, `hook.rs`; the phone's `protocol/`) | none | normalise, choose a source, validate, negotiate, sanitise, plan alerts, merge hooks | edges of numbers and of two copies of each rule | sources are not mixed; what the host sends the phone takes |
| Tray program and its windows (`codex_quota_windows.rs`) | the mutex, two registry values, menus, message boxes, windows, the confirmation flag | start, choose, show, confirm, exit | nested modal loops over other threads' state, failing starts, kills | one instance; the choice to start with Windows holds; windows tell the truth |
| Hook tools (`codex_quota_windows.rs`, `hook.rs`) | hooks.json, the diagnostics file | install, remove, record an event | processes without locks that are killed at any time | other products' hooks stay; "accepted" means queued |
| AstroBox plugin and its server (`plugin.rs`, `quota-server.js`, `token-store.js`) | offer, tokens and their file; the plugin's credentials and page | pair, revoke, persist, answer the band | overlapping handlers with awaits between check and use, lost replies | a code is worth one token; revoked is revoked; the page shows the state |
| Task alerts (`TaskAlertCoordinator.kt`, `NotificationPolicy.kt`) | the last state of each task, foreground, settings | ingest a snapshot, set the foreground, set the policy | reconnects, suppressed alerts, tasks that come back | one decision for each state of a task |
| Band 8 notifications (`Band8QuotaNotifications.kt`) | the last confirmed signal, the mode | ingest a UI state, switch the mode, push | skipped states, gaps between two quotas, two threads | the note tells of the current cycle and thresholds |
| Wearable bridge (`XiaomiWearableBridge.kt`) | the connected node and its permission | callbacks of the SDK | callbacks in any order | the last payload reaches the band |

`PROJECT.json` lists these and the rest (foreground query, user interfaces,
release check, band application, legacy desktop program, spikes), each with the reason it is modelled, partly
modelled or left out.

The parts interact in three ways only: shared memory under a lock within one
process (pairing, `latest`, the repository), files (token hash, spool, index,
freshness, hooks.json), and the frames of one WebSocket. The models are cut along these
lines.

## 2. Modules

| Module | Models | Composes |
|---|---|---|
| `Pairing` | PairingManager, PhoneTokenHashStore, monitor_phone_token_hash, the tray's pair, revoke and exit | |
| `SyncServer` | handle_sync, publish, request_upstream_refresh, the arms of start_quota_monitor | the credential as `Pairing` leaves it: a token that changes and a notice that follows |
| `HostServer` | one run of the host's process | `Pairing` and `SyncServer`, which share the token; it is proved that the first does what the second assumes |
| `TaskPipeline` | ingest_hook_event, the spool, HookTaskRuntime::poll, TaskReducer | |
| `PhoneSync` | SyncStreamSession, RuntimeStateRepository, TaskVisibilityStore, the removal dialog | the frames of `SyncServer` on several connections, the snapshots of `TaskPipeline` |
| `SyncClient` | SyncWebSocketClient, AutomaticRefreshSchedule, PairingClient, the two stores, the callers in CodexQuotaApplication | computers as `Pairing` and `SyncServer` leave them: a code works once, a token while it is valid; it decides which connections `PhoneSync` has |
| `QuotaFreshness` | the refresh, the three direct files, `collect`, the arms of the monitor that publish, `confirm_upstream_now`, the start from what was cached | the monitor of `SyncServer` and the user's thread; values are times here and data in `QuotaData` |
| `TrayApp`, which extends `HookTools` | `run`, the single instance, the start preference, menus, dialogs, windows, the confirmation, shutdown; editing hooks.json and `--hook-event` | an offer as `Pairing` begins it, a freshness as `QuotaFreshness` publishes it, both as numbers |
| `PhoneAlerts` | TaskAlertCoordinator, Band8QuotaNotifications, the UI state RuntimeStateRepository publishes of a quota, their wiring in CodexQuotaApplication | the snapshots `PhoneSync` accepts, in their order; the plan of `HostMessages` |
| `LegacyBridge` | every handler of `plugin.rs`; pairing, revocation, snapshots and persistence of `quota-server.js` and `token-store.js` | server and plugin over a link that loses replies |
| `QuotaData`, `HostMessages`, `Sorting` | pure functions of the host and, beside each, the phone's or the plugin's counterpart, as operators | |
| `HostData` | nothing: calls of these operators, and what is checked of each | host and phone sides of one rule |
| `TaskFeed` | nothing in the code: the promise of `PhoneSync`, implemented by it | |
| `MC*` | nothing: instances for TLC | |
| `*_proofs` | nothing: theorems and proofs; `Host_proofs` has those of `Pairing`, `SyncServer`, `HostServer` and `HostData` | |

One step of a model ends where another thread or task can run: at an `await`,
at the release of a lock, at the end of a file operation. What a lock holds
together is one step.

### Pairing

`offer`, `phoneToken` and `minted` are `PairingManager`; a token is the number
of the pairing that minted it, since 256 random bits never repeat. `Begin`,
`RevokeMemory`/`RevokeDisk` and `RequestShutdown` are the tray thread under the
`host` mutex (`TrayFree`). `SubmitExpired`, `SubmitWrong` and `SubmitRight` are
the three outcomes of `complete` under the pairing lock. The monitor reads
memory under that lock (`MonitorRead`) and writes later (`MonitorSave`), so the
tray can remove the file between the two. `Exit`, `Crash` and `Restart` lose
the memory and load the file. `offers`, `failures`, `shownAt` and `revoked` are
history.

### SyncServer

Of a tokio watch channel a receiver knows one thing, whether something was sent
since it last looked. `authDirty`, `snapDirty` and `refreshDirty` are that bit:
`subscribe` clears it, `send_replace` sets it for the subscribed, `changed()`
waits for it and clears it. `pc` follows `handle_sync` from await to await;
`publisher` is between writing `latest` and bumping the revision. Payloads are
numbered, so "the phone has it" is a comparison. A closed connection can be
reopened with any token. Frame numbers and heartbeats touch nothing shared and
are in `PhoneSync`.

### HostServer

`Pairing` calls the shared token `phoneToken`, `SyncServer` calls it
`pairedToken`. A step of the process is `TokenChange` (`SubmitRight` or
`RevokeMemory`, with the notice it owes), any other step of `Pairing` or any other
step of `SyncServer`, with the other side unchanged. A connection presents a token
that was minted, or one that fits nothing. A crash or exit ends the behaviour, with
every connection; `HostInit` is a process started from whatever file an earlier
one left.

### TaskPipeline

A hook process takes the time, reads the index, picks a stem and renames a
finished file into the spool, in three steps of `hook[p]`; a poll is `Drain`,
`Ingest` of the batch in its sorting order, `ReadSignature`, `ReadTitles` and
`Publish`. The clock may stand still between events, so that equal time stamps
happen. The index is the set of conversations it names. `open` is history: the
events of a conversation that no later one (begun after their end) is done
after; it is what "the later event" means when processes overlap. A drain may fail
for any of its files: one that cannot be read is removed all the same (`lost`),
one that cannot be removed is there again in the next poll. Such a leftover is
refused by the reducer if it was overtaken, except where times cannot tell
(`disturbed`): by an event of the same millisecond, by a reducer that is new after
a restart, or when the clock is set back. Both exceptions are needed: without
either TLC finds an overtaken event that wins.

### PhoneSync and TaskFeed

Each connection has its host side (`server`, `seq`, `last`), its frames in
flight (`pipe`), its socket's fate (`cancelled`, `refused`, `ended`,
`finished`) and its session (`greeted`, `nextSeq`, `stage`, `hand`). All share
the repository (`connected`, `source`, `taskFloor`, `hidden`, ...). A session
applies a frame in the steps between which it does not hold the repository's
lock. `Reconnect` only cancels: the old reader may still hold a frame, and both
`LastCallback` and `FinallyBlock` call `disconnect` later. Snapshots are named
by their number in the history `log`. `TaskFeed` is the abstract promise: the
phone shows nothing or a snapshot at least as new as all it has shown before;
`Feed == INSTANCE TaskFeed WITH published <- Len(log), showing <- source`.

### SyncClient

`main` and `pair[p]` are the threads that call the client: the main thread
(`Boot`, `RefreshReconnects`, `MainLaunch`) and one coroutine per opened pairing
link, which asks, saves the credentials, saves the endpoint and starts. A call of
`start` or `refresh` that replaces the loop is two steps, `closeActiveConnection`
and the launch; the constant `Overlaps` says whether another call may come
between them, which the code does not prevent. `loop[l]`, `conn[l]` and
membership in `cancelled`, `dead` and `greeted` are one launched job, its
`connectOnce`, its socket and its session. They all write `activeWebSocket` and
`activeSession`, the fields from which `SendRefresh` builds its request. A token
and an endpoint bear the number of the pairing they came from, so that a pair of
two computers is seen. `used` and `valid` are what the computers do, external to
this module; `misdirected` is history. `stop` is left out, nothing calls it.

### QuotaFreshness

`pc[w]` and `job[w]` are a refresh by `"user"` or `"monitor"` between two file
operations; `arm` and `draft` are the monitor's turn of its loop and the
snapshot `collect` is building. A stored value is the number of the refresh that
fetched it; `Unreadable` is a file between truncation and write, or a torn one.
`current`, `trusted` and `shared` are the monitor's current quota (which is what
it publishes), its last trusted one and `quota_state`, which the windows read.
Mishaps (a failed read or write, a lost task, an exit) and refreshes are bounded
together. `saved` and `troubled` are history.

### TrayApp and HookTools

`proc[p]` follows an instance through `run`; `mutex` and `port` are what Windows
gives one of them, `runKey` and `configured` the two registry values. `modal` is
the stack of menus and message boxes, `ui` what the thread does between two
messages: looking at a state takes four reads (`ActiveConnections` ...
`LookAtConfirmation`), between which other threads run. `qrs` is what the pairing
windows were opened for and `qrData` the map they paint from. In `HookTools` an
editor of hooks.json reads, opens (truncates) and writes in three steps, a hook
process records, enqueues and records again; any of them fails or is killed in
between. A handler of another product is a name in the file. `owed`, `wish`,
`finished` and `disturbed` are history.

### PhoneAlerts

`IngestTasks` is one step, for the coordinator holds its lock over a snapshot; a
task is in `board` with the state the host gives it and whether its snapshots list
it. `rings` and `silenced` are history: what was decided about the present state.
`quota` and `ui` are the repository's quota and StateFlow, `emitted` that the
collector has not taken the value yet; intermediate values that show the same
quota are one. `collector` and `main` are the two threads that decide on a Band 8
note under the lock and dispatch it outside. `troubled` becomes true when they
overlap or a note is not permitted; without that exception TLC refutes
`NoteIsCurrent`: the main thread reads the state, the collector decides on and
shows a newer one, and the main thread's older note, or the decision not to
repeat, comes last.

### LegacyBridge

`handler[s]` is a `/v1/pair` request between two awaits; `revoke` is a
revocation between the steps of its write. `task` is the one event handler of
the plugin that runs, with the endpoint it is trying, and `shown` what `render`
drew last: `configure` and `forget_credentials` do not draw. `troubled` becomes
true when handlers overlap, a save fails or a revocation is cut short, which the
code does not guard against; `TokensAreKept` and `CodeIsGuarded` are claimed for
the rest.

### QuotaData, HostMessages and HostData

Operators, one for one with the functions named in `PROJECT.json`: windows and
cards, the choice among direct, cached and session sources, the reload,
Chromium's block files, the three wire versions and the phone's decoder of each;
greetings, offers, codes, titles, alert policies, hooks.json and the plugin's
link. A behaviour of `HostData` is any sequence of calls with inputs at the
edges of the conditions, and each invariant compares input and answer with a
reference definition or with the other side's rule. Widths are constants, so
that the smallest overflowing number is in the inputs: `U32` for the host's
minutes and counts, `I32` for the phone's. `None` is an option's absence; no
input that stands for a window or for what reading one of them yields is `None`.

## 3. Runs

| Run | Instance | Distinct states | Shows |
|---|---|---|---|
| `pairing` | 2 codes, 3 attempts, lifetime 1, clock 0..3, 3 offers, 3 tokens | 69,790 | under every interleaving of tray, `/pair` handlers, monitor, failed saves, crashes and restarts: one token per offer, within attempts and lifetime; the monitor's belief is right; an orderly exit forgets a revoked phone; the file catches up |
| `pairing_revoked_returns` | the same | | finding: a revoked token returns after a crash |
| `sync_server` | 1 connection reopened at will, 2 tokens, 2 payloads, 1 pending notice | 15,216 | a connection misses no token change and no payload of its loop; revoked connections close; with the quota tick every payload reaches the stream or a later one does |
| `task_pipeline` | 2 conversations for 1 waiting slot, 2 hook processes, 2 states, 2 events, clock 0..1, 1 conversation in the index, 1 restart, 1 fault: a drain that fails in part or a clock set back | 386,000 | no overtaken event wins, no title is lost; between two polls the snapshot is the board; every complete file is shown in the end |
| `phone_sync` | 2 connections, 2 frames in flight, 3 snapshots, clock 1..3, removals, restarts of both sides | 749,000 | online only with a session; removals hold; `NeverGoesBack`, the refinement of `TaskFeed` |
| `phone_sync_live` | 2 connections, 1 frame in flight, 2 snapshots, clock set back once, the quota tick | 243,000 | on a connection that stays up the phone comes online and to the host's latest snapshot |
| `sync_client` | 2 pairings, 1 endpoint, 2 loops, 1 network failure, 1 end of the process, refresh due every 2 ticks, no overlapping calls | 446,000 | one live loop, for the current pairing; a refresh request carries its own connection's id; a phone whose pairing stays valid comes online |
| `quota_freshness` | 2 refreshing threads, 2 refreshes and mishaps, 2 fallback results | 704,000 | no success is invented, the last values are kept, a trusted snapshot is as new as it says; a confirmation ends and what is on disk is what is shown |
| `tray_app` | 2 instances, 2 window handles, 2 nested modal loops, 2 editors, 1 other product, 2 hook processes, 4 things that users and others start | 361,000 | one instance past the mutex, the start preference holds, windows tell the truth, other products' hooks are kept, "accepted" is queued; starts and shutdowns end, diagnostics catch up |
| `legacy_bridge` | 2 overlapping handlers, 2 endpoints, 2 attempts, 2 offers, 2 tokens, 1 restart or failure | 220,000 | a code is worth one token and its attempts, tokens agree with revocations on disk and in memory, the page shows the state, every handler ends |
| `host_data` | inputs of `MCHostData`: 3 times, every window of 4 lengths, 5 percentages and 4 resets, up to 3 cards, and so on | 62,000 | the quota is what its sources said; host and phone agree on snapshots, greetings, titles and alerts; offers, codes and links can be used; other products' hooks survive the merge |
| `phone_alerts` | 1 task, quotas of 2 windows on both sides of 1 threshold, of 2 cycles and unconfirmed, 2 settings, clock 0..1, 4 events | 689,000 | a task rings at most once for a state, never after it was passed over; the Band 8 note covers the confirmed quota when the phone is at rest, and it comes to rest |

Every property of a passing run has a mutant, and one for each of its named
parts where it is a conjunction: a plausible bug of the code that the run finds,
such as a dropped bump, a flag overwritten instead of or-ed, an order swapped, a
marker not persisted.

`TypeOK` of the modules with a `TypeCorrect` theorem is not in their cfgs: it is
proved for every value of the constants, and TLC passed it before the proofs
were written. The others have theirs as a part of another property:
`PluginIsSound`, `QuotaIsWhatSourcesSaid`, `WindowsTellTheTruth` and
`OneDecisionPerState`.

### Why the bounds are enough

- **Pairing.** Three offers and tokens give a replaced, a current and a later
  phone; lifetime 1 on a clock of 3 lets an offer expire before, between and
  after attempts. The only comparison of times is with `expires`.
- **SyncServer.** Connections touch only the shared token, `latest` and the
  cooldown, and never each other, so a property of each connection is a property
  of one; the proofs hold for any number. Two payloads make "between two
  snapshots" happen; two tokens and none make replacement and revocation happen.
  `MaxBumps` bounds the notices that are due at once: more of them set the same
  bit.
- **TaskPipeline.** Two processes overtake each other once, in one conversation
  or two, before and after a poll. Two conversations compete for one waiting slot,
  as eleven do for the ten of the code. Equal and different times both occur. A
  third event with one or two faults (1 conversation, 2.8 million states) was
  checked for safety too, and the proofs hold for any number. One conversation
  gets its title from the index, sooner or later; the other never does.
- **PhoneSync.** Two connections are the new one and one that still lingers; a
  third would linger like the second. `MaxSeq` is where frame numbers stop being
  told apart: a frame number only has to grow within its connection, and with 0
  or 1 the numbers of a session still start again after the hello. The pipe
  bounds what is in flight, so a frame can be applied late with another behind
  it. `Republishes` is off where safety is checked, which drops a repeated
  payload (by the tick or a refresh in the cooldown) that the repository would
  recognise as the one shown; it is on where convergence rests on it.
- **SyncClient.** Two loops are the current one and the one it replaced, whose
  callbacks still come; a third would linger like the second, and the proofs hold
  for any number. Two pairings are the same computer paired again or another one.
  A failed pairing is one whose only endpoint failed: a second endpoint brings
  1.5 million states and nothing but another try (the proofs are for any number). `Due` is 9
  ticks in the code; 2 tells a tick that waits from one that is due.
- **QuotaFreshness.** Two events are two overlapping refreshes, a refresh and a
  fault, or two faults in one; three are out of reach of a short run.
  `Elsewhere` has a fallback that works and none.
- **TrayApp.** Two instances race for the mutex; a third would wait like the
  second. A menu under a message box and a box under a menu need a depth of 2.
  Two handles let one be reused while another window is open. `MaxOps` bounds
  what is begun, not what follows from it.
- **LegacyBridge.** Two handlers overlap, or a handler and a revocation; the
  second endpoint is tried after the first reply was lost; the second attempt is
  the last one.
- **PhoneAlerts.** Tasks are decided about one by one, so one stands for all (the
  proof is for any number). A state comes, is missed and comes back, or a quota is
  confirmed, lost and confirmed lower, with four events. `MaxAge` is where a
  confirmation counts as old: with 0 it does after one tick. The first payload's
  five-hour window ends at the tick; two windows and one threshold tell every
  reason to notify apart.
- **HostData.** Inputs sit on both sides of every comparison of the code; a list
  is at most one longer than the code's limit or, where there is none, than the
  first length at which order matters.
- Deadlock is not checked: every counter is bounded, so that every model stops (`HostData` alone never does, and is
  checked for it).

### Fairness

No pairing, revocation, restart, event, user action or network failure is ever
owed. What is assumed:

- Pairing: WF of the monitor's read and save. It is a task of the runtime with
  a 500 ms ticker.
- SyncServer: WF of the bumps that follow a change in the same function, of the
  5 s quota tick (where a collector was found and a quota collected), and of a
  connection's own steps: the wait for the ClientHello has a timeout and a write
  succeeds or its peer fails. SF of the two notice arms: `select!` polls its
  ready branches in random order. The 15-minute arm is not counted on.
- TaskPipeline: WF of the poll; the 200 ms tick never stops.
- PhoneSync: WF of both ends' work on a connection and of a refused connection's
  loss (the host answers the close; the client pings every 15 s), SF of the
  host's snapshot for the same reason as above. The phone's 45 s refresh is not
  counted on: outside the 10 s cooldown it only asks the publishing loop, which
  publishes nothing without a collector.

- SyncClient: WF of calls under way, of the watchdog, of each pairing's next step
  (an endpoint answers or times out after 10 s), of each coroutine and of each
  socket: it connects, is answered or refused, and a cancelled one gets its last
  callback (OkHttp promises one). A failure of the network is never owed.

- QuotaFreshness: WF of the user's confirmation and of the monitor's task, whose
  HTTP requests have a time-out, and of the five-second tick.
- TrayApp: WF of an instance's start and shutdown, of a setting, of the reads of
  a window, of an edit by the tray, and of the diagnostics window's timer and
  painting, which Windows delivers while any loop pumps. Users, hooks and other
  products owe nothing.
- LegacyBridge: WF of a handler's and a revocation's next step (Node runs what is
  ready) and of the plugin's handler: its request is answered or fails.
- PhoneAlerts: WF of the collector coroutine, which is resumed while the StateFlow
  has a value it has not seen, and of what the main thread has begun.
- HostData: none, it has no liveness.

## 4. Proofs

Assumptions on the constants are named in the modules (`PairingAssumption`,
`ServerAssumption`, `PipelineAssumption`, `PhoneAssumption`, `ClientAssumption`,
`QuotaAssumption`, `TrayAssumption`, `HookToolsAssumption`, `AlertsAssumption`,
`BridgeAssumption`) and say only that
the bounds are numbers, the sets are finite or not empty where the code needs
it, and the absent token is no token. `AlertsAssumption` adds that
percentages are integers and that no note looks like the absence of one.

`HostData` has three: `QuotaDataAssumption` (the phone's integers are no wider
than the host's; `None` is no integer), `HookAssumption` (hooks.json has names
and handlers from the constants, and a file that is absent or not an object is
none with hooks) and `DataAssumption` (an input has the type that the parser in
front of the function gives it, and times are not before 1970). They do not
bound anything: the four theorems about `HostData` are about answers, files and
logs of any length with values of any size.

| Theorem | Says | Argument |
|---|---|---|
| `Host_proofs!PairingTypeCorrect` | `[]TypeOK` | inductive |
| `OneTokenPerOffer` | `[]OfferSingleUse` | a live offer implies that fewer tokens were minted than offers shown; without that part a pairing could overtake the count |
| `PairingWithinBudget` | `GuessBudget` | from `OfferInv`: wrong codes tried and attempts left add up to `MaxAttempts` while an offer is live, and `expires` is `shownAt + Lifetime` |
| `MonitorNeverMisses` | `[]MonitorBeliefSound` | `BeliefInv`: the file holds `persisted` or nothing, and if it holds nothing although `persisted` is a token, then memory has another token. Tokens never return, so the belief cannot become true again by accident |
| `CleanExitForgets` | `[]CleanExitForgetsRevoked` | `LastSaveInv`: the last read happens only when the process is stopping, from when on the tray cannot revoke; a pairing that comes after it makes the claim void |
| `Host_proofs!SyncTypeCorrect` | `[]TypeOK` | inductive |
| `RevocationIsNoticed` | `[]NoUnnoticedRevocation`, for any number of connections | inductive with `TypeOK`: the subscription comes before the check of the token |
| `NoUpdateLost` | `[]NoUpdateLostInLoop` | `FeedInv`: wherever a stream is in its loop, it has sent `latest`, holds it, or has a mark, unless the bump is still to come |
| `PairingDrivesSync` | `HostSpec => SyncSpec`, the tokens of the one being the numbers of the other's | `HostInv`: the two hold the same token and no connection holds one that was not minted, so that a new one is `Fresh`, the guard of `PairPhone` that stands for the randomness of tokens |
| `RevokedPhonesAreTold` | `HostSpec => []RevokedAreTold` | `HostInv` has, besides, that the phone's token is never a withdrawn one: between the two halves of a revocation there is no offer. With `RevocationIsNoticed` through the refinement |
| `TaskPipeline_proofs!TypeCorrect` | `[]TypeOK`, with file stems distinct | `StemInv`: stems are bounded and distinct over spool, batch and processes |
| `LaterEventWinsHolds` | `[]LaterEventWins` | `OrderInv`, about conversations neither `lost` nor `disturbed`: what the host holds of one, in the spool, the batch or the reducer, is an event nobody overtook, or what overtook it comes after it, or the reducer refuses it (`Beaten`, which its growing times keep) |
| `TitleKeptHolds` | `TitleKept` | an action property; from type correctness |
| `SnapshotMatchesHolds` | `[]SnapshotMatches` | `ShownInv`: the flag `changed` is up whenever the reducer's board is not the published one; without it the steps inside a poll could lose a change |
| `PhoneSync_proofs!TypeCorrect` | `[]TypeOK` | inductive |
| `OnlineHasSessionHolds` | `[]OnlineHasSession` | `OnlineInv`: a session with a frame in hand is greeted, so that every method that sets the flag is called by a live session |
| `NeverGoesBackHolds` | `Spec => Feed!Spec`, if the clock is not set back | `OrderInv`: the log is ordered by time and, within a process of the host, by sequence; what the repository shows is at least as new as `newest`. Initial states map to initial states and every step to a step of `TaskFeed` or a stutter |
| `RemovedStaysRemovedHolds` | `[]RemovedStaysRemoved`, if the clock is not set back | `RemovedInv` on top of `OrderInv`: a task's versions grow along the log but for a restarted host that shows nothing of it at first; a removed version is still hidden by its marker or was overtaken by a greater version that was shown |
| `SyncClient_proofs!TypeCorrect` | `[]TypeOK`, whether calls overlap or not | inductive |
| `OneCurrentLoopHolds` | `~Overlaps => (Spec => []OneCurrentLoop)` | `LoopInv`: a live loop is `connectionJob`, which is null inside a call; the connection a call is about to launch is `saved`; one call at a time; the loops not launched yet are not cancelled either |
| `RefreshIsOnOwnSocket` | `~Overlaps => (Spec => []RefreshOnOwnSocket)` | `SocketInv` on top of `LoopInv`: a socket that is up has a loop that waits for it or is cancelled, and then the socket is dead; `activeSession` of a cancelled loop has no open socket. So a session that can send is the live loop's, and an active socket that is not its own is dead |
| `QuotaFreshness_proofs!TypeCorrect` | `[]TypeOK` | inductive, one part of `TypeOK` and one kind of step at a time |
| `NoInventedSuccessHolds` | `[]NoInventedSuccess` | `Honest`: besides what is shown, the freshness in a job, in the draft and in the cached snapshot has success times of `saved` only, and a job that will claim a success has saved it; without the jobs and the files a late write or a restart could bring an invented time in |
| `LastValuesKeptHolds` | `[]LastValuesKept` | `KeptInv`: undisturbed, at most one refresh is at work, and each of its stages says which dataset it has stored and which is still as it was when it began |
| `TrustedIsAsNewHolds` | `[]TrustedIsAsNewAsItSays` | `TrustInv` on top of `Honest` and `KeptInv`: undisturbed, a stored value that can be read is the newest saved, and the freshness a refresh has read names a time at which something was saved |
| `OneInstanceHolds` | `[]OneInstance`, for any number of instances | every active instance holds the mutex, and no other instance past it does unless it found the mutex taken |
| `ChoiceHoldsHolds` | `[]ChoiceHolds` | a choice known to be made implies `configured`, so that no start sets the default over it; during a setting by the interface thread it counts as unknown |
| `QrCodesMatch` | `[]QrCodesMatchWindows`, a part of `WindowsTellTheTruth` | inductive |
| `IdleShowsLatestHolds` | `[]IdleShowsLatest`, a part of `WindowsTellTheTruth` | `PictureInv`: what is over never exceeds what is published, and a look notes what is over before it reads what is published |
| `WindowsTellTheTruthHolds` | `[]WindowsTellTheTruth`, with `TypeOK` | `TypeInv`: without a running instance the screen is empty, and a step that will open another layer has been given room for it (`DepthInv`) |
| `OthersKeptHolds` | `[]OthersKept` | undisturbed, at most one editor is at work, what it is about to write has the handlers owed, and the file has them unless it is between truncation and write |
| `AcceptedIsQueuedHolds` | `[]AcceptedIsQueued` | a call past `Enqueue` is in the spool |
| `OneDecisionPerStateHolds` | `[]OneDecisionPerState`, for any number of tasks and settings | `DecisionKept`: a state that was alerted or passed over is the one `previousStates` remembers, whether the task is in the snapshots or not; without it a snapshot could decide again |
| `NoteIsCurrentHolds` | `[]NoteIsCurrent`, for any quotas, thresholds and settings | `NoteInv`: undisturbed, at most one thread has something in hand, and it is about the present state unless a newer one is still to be taken; the present signal was decided about or will be, and what was decided about is told or about to be |
| `PluginIsSoundHolds` | `[]PluginIsSound`, for any number of handlers, endpoints and restarts | `BridgeInv`: what each stage of a handler, a revocation and the plugin's task is made of; a page that is drawn shows the state but while `configure` registers devices |
| `CodeIsGuardedHolds` | `[]CodeIsGuarded` | `CodeInv` on top of `Alone` (undisturbed, one handler at a time and none beside a revocation): an offer that has minted its token is gone or its handler is still saving, and a handler that has yet to read its body found attempts left |
| `TokensAreKeptHolds` | `[]TokensAreKept` | `StoreInv`: what memory has over the file is the token being saved, what the file has over memory is being revoked, at every stage of both; `TrustInv`: the credential the plugin has, or has a reply with, is in the file or was revoked |
| `Host_proofs!OthersHooksSurviveHolds` | `[]OthersHooksSurvive` | `KeptIsClean` and `CleanIsKept`: filtering the handlers, then the groups, leaves a file as it is exactly if nothing of it is the host's; `WithOwn`: what installing adds comes last, so that removing it gives the first file back. Selecting from a sequence is taken through `Picked`, the one listing of a finite set in a strict order |
| `OffersCanBeUsedHolds` | `[]OffersCanBeUsed` | `SortedIsInOrder` for the addresses, the uniqueness of quotient and remainder for the codes, `DistinctUrlsNamesEachOnce` for the plugin's endpoints |
| `PhoneAgreesWithHostHolds` | `[]PhoneAgreesWithHost` | windows and cards that fit stay so through choosing a source, collecting, storing and reloading (`CollectFits`, `LoadedFits`); `NegotiatedIsGreatest`; the length of a title is a function that is defined up to each word, by a least counterexample; of session lines one wins, since they are finitely many in a strict order |
| `QuotaIsWhatSourcesSaidHolds` | `[]QuotaIsWhatSourcesSaid` | `PickedMoves` and `SortingMoves`: filtering and sorting are one-to-one, so that as many cards are due at each time after as before; `LimitsAreFound`: the windows shown are those of exactly one source; `WholeIsKept`: a window the code takes is the one upstream gave; a block read from the cache lies inside its file |

Model-checked only: all liveness (`DiskCatchesUp`, `StreamsKeepUp`,
`EventsAreShown`, `PhoneCatchesUp`, `ComesOnline`, `ConfirmationsAreShown`,
`TrayComesToRest`, `PluginComesBack`, `NoteComes`), which is out of the prover's
reach. Every invariant and every action property of a passing run is stated by a
theorem. The composition `HostServer` is proved about and has no run of its own. The proofs are about the bounded
models: a bound such as `MaxOffers` is any number.

## 5. Findings

Where the code does something else than a document or a comment says. One has a
run whose counterexample shows it:

1. `host.rs:248`: the monitor can write back a hash the tray has just removed; a
   crash before the next tick brings the revoked phone back, against
   docs/architecture.md:213. The same window after a replacement costs the new
   phone its pairing (CONTEXT.md:203).

Four are stated as properties of a module that TLC refutes; they are no runs,
because nothing else depends on them. To see the counterexample, put the
property and the constants in a cfg of the module:

2. `hook.rs:277`: the index's signature is stored before the index was read and
   applied, so that a title can be passed over (`TitlesArrive` under `FairSpec`
   of `TaskPipeline`; 1 conversation, 1 hook, 1 event, no restart).
3. `CodexQuotaApp.kt:632`, `RuntimeStateRepository.kt:96`: a removal hides the
   version of the moment, not the one in the dialog (`RemovesWhatWasShown` of
   `PhoneSync`; 1 connection, 3 snapshots, `Removes`).
4. `SyncWebSocketClient.kt:144`: the last callback of a cancelled connection sets
   `activeSession` and `activeWebSocket` to null although they are the next
   connection's; the refresh every 45 s (docs/architecture.md:145) then stops on a
   healthy connection (`RefreshesWhileConnected` of `SyncClient`; 1 pairing, 2
   endpoints, 2 loops, no failures).
5. `SyncWebSocketClient.kt:51`: `reconnect` is not locked; a refresh that overlaps
   the end of a pairing leaves the old computer's loop alive, against CONTEXT.md:207
   (`OldComputerIsLeft` of `SyncClient`; 2 pairings, 3 loops, `Overlaps`).

Further disagreements are recorded as hazards, with their lines:

- `network.rs:263`: a phone revoked while it is in the handshake still gets one
  complete snapshot (docs/architecture.md:213).
- `network.rs:262`: the first payload is cloned and sent before the stream
  subscribes; `HasCollector = FALSE` and `Collects = FALSE` in `SyncServer.cfg`
  make TLC show that an update in between can stay unsent.
- `RuntimeStateRepository.kt:126`: the task sequence belongs to the repository and
  not to a connection; `Republishes = FALSE` in `PhoneSyncLive.cfg` makes TLC show
  a board that stays behind.
- Tasks do not survive a restart of the host (CONTEXT.md:276 says they do).
- `hook.rs:249`: the result of `remove_file` is ignored; a file left over is taken
  and published again by every poll, and wins over the event that overtook it if
  both are of one millisecond or the host is restarted (`disturbed`).
- After the host's clock was set back the phone refuses newer boards until it has
  caught up, which `BoardConverges` excepts as `AheadOfHost`.
- `SyncWebSocketClient.kt:57`: the back-off of up to 30 s never gets past its first
  second, since `connectOnce` ends normally when a connection fails.

- `lib.rs:1010`: `sanitize_title` keeps control characters, for which the phone
  refuses the whole frame (`TaskWireContract.kt:47`); `TitlesFitThePhone` is about
  the other titles.
- `quota.rs:714`: the host takes a window of any number of minutes that an
  unsigned 32-bit number holds, and the phone reads a signed one, so that a longer
  window makes it refuse the whole frame; `PhoneTakesEverySnapshot` is about the
  other windows.
- `quota.rs:967`: the usage and freshness files are truncated in place, although
  the comment at quota.rs:304 promises that the last values stay;
  `LastValuesKept` excepts refreshes that are cut short.
- `codex_quota_windows.rs:289`: a cached snapshot shown at the start gives way to
  "unavailable" at the first tick that finds no source (docs/architecture.md:247).
- `quota-server.js:158`: a handler uses the code up only after its awaits, so that
  two overlapping requests are given two tokens.

## 6. Not modelled

- Durations. A tick or timeout happens at some time; that a hook event waits for
  an HTTP request of another arm (the 2 s of CONTEXT.md:183) is a hazard without
  a property.
- TLS, certificates, DPAPI, HTTP upgrade, parsing and formatting. Their outcome
  is a choice: accepted or not.
- Sizes: the 64 KiB limit of a snapshot, the size limit of the index.
- Win32 drawing, layout and labels, the tutorial of the pairing window, the icon;
  the Kotlin user interface but for the removal dialog.
- Chromium's header lines and compression, the search for the ChatGPT package, and
  the retries of HTTP: a cached answer is what they yield.
- The wearable bridge (`XiaomiWearableBridge.kt`), which is next in the plan: it
  subscribes to the node's status after it has asked for it, and does not register
  its listeners again for another node.
- What a note or an alert says, and the notification channels.
- The components marked `not_modelled` in `PROJECT.json`, for the reasons there.

## 7. Plan

Done: `Pairing`, `SyncServer`, `TaskPipeline`, `PhoneSync`/`TaskFeed`,
`SyncClient`, `QuotaFreshness`, `HookTools`/`TrayApp`, `LegacyBridge`,
`QuotaData`/`HostMessages`/`HostData`, `PhoneAlerts`, with their safety proved as
said above, that of the operators of `QuotaData` and `HostMessages` included.
Left, in this order:

1. `WearableBridge`: the SDK's callbacks in any order; the last payload wins.
2. The cooldown of `network.rs:323` under a clock that is set back.
