# Fleetmates: a verification project

Fleetmates is two programs in one repository. The **plugin** (`src/scripts/`)
takes a written plan, runs its tasks with coding agents in sandboxes, and
collects, verifies, reviews and integrates what they leave. The **hub**
(`src/hub/`) is a server that shows every Claude process of the owner on one
page, and lets the owner answer their questions from there. This project models
the parts of both where the order of events decides the outcome, checks the
models with TLC, and proves some of them with TLAPS.

Contents: [1 the system](#1-the-system), [2 the modules and the
code](#2-the-modules-and-the-code), [3 the runs](#3-the-runs), [4 fairness](#4-fairness),
[5 what is proved](#5-what-is-proved), [6 disagreements with the
documents](#6-disagreements-with-the-documents), [7 observations](#7-observations),
[8 what is not modelled](#8-what-is-not-modelled),
[9 the plan](#9-the-plan), [10 running it](#10-running-it).

## 1 The system

### The plugin

Every command is a Node process of its own. They share a repository, its refs
and a directory of files; there is no daemon. So whatever is hard is hard
because **two commands overlap** or because **one is killed** and a later one
has to make sense of what is left.

| Component | State it keeps | Operations | Hard behaviour | What makes it correct | Modelled in |
|---|---|---|---|---|---|
| Driver lock, `driver.mjs` 280–373 | `driver.lock`, `driver.lock.takeover` | `acquireLock`, `readPid`, `releaseLock` | stale holders, takeovers that overlap, reused pids, a kill at any await | one dispatch drives a run; a takeover removes only the lock it judged | `DriverLock`, proved |
| Strict task, `driver.mjs` 421–689 | journal, session record, task ref of the host, sandbox | dispatch, invoke, collect, verify, clean up | a kill between an act and its record; a ref that somebody else moves | the model never runs over an unknown outcome; what is verified is what was retained | `DriverTask` |
| Pool, `driver.mjs` 690–913 | `status.json` | `dispatchPhase` | deadlines that race an action | every task ends in a recorded state | – |
| Storage lock, `execution-artifacts.mjs` 104–245 | `.lock` directories, reclaim tokens | `withStorageLock`, `reclaimLock` | paths are looked up again at every step; a reclaimer may die itself | one writer; no living writer's lock is moved away; nobody waits for ever | `StorageLock` |
| Artifact store, `execution-artifacts.mjs` 246–336 | content-addressed files | retain, prune | prune beside an append | what the journal refers to is in the store | `WorkflowStep`, in part |
| Journal, `execution-journal.mjs` | one file per event | append, read | readers take no lock | an append under way disturbs no reader; what a killed writer left goes | `JournalStore` |
| Workflow controller, `workflow-controller.mjs` | journal events of a run | execute, resume, guarded steps | overlapping controllers, killed ones whose agents go on; reuse of what an earlier one did | agents never run twice at a time nor over valid work; what is integrated was reviewed and gated as it is | `WorkflowStep`, `Phase` |
| Recovery, `execution-recovery.mjs` | – | report, resolve | an operator judges an attempt while it may still run | a resolution never contradicts an outcome | `WorkflowStep`, `Phase`, in part |
| Gate runner, `gate-runner.mjs` | results | run configured checks, aggregate a verdict | time-outs, harness failures, overrides | a verdict is no better than its worst check | `Phase`, in part |
| Run state, `state.mjs`, `event-ledger.mjs`, `phases.mjs`, `fix-loop.mjs` | `status.json`, ledger | read, change, write back | no lock | no update is lost; phases respect dependencies; fix rounds are bounded | `Phase`, in part |
| Reviewed integration, `reviewed-integration.mjs` | receipts, the run branch | gate, integrate | git commands killed half way, branches and checkout that move | what is integrated is what was tested; a failure tells what it did | `Integration` |
| Lifecycle, `workflow-lifecycle.mjs` | refs | suspend, resume, abandon | compare-and-swap of refs | an abandoned run does not come back | – |
| Harness adapters, `harnesses/` | a child process each | launch, collect | – | seen through the driver | – |

They interact through files. The driver (under the driver lock) and the
controller append to the journal; an append takes the storage lock; journal
events refer to artifacts; `workflow-prune` removes artifacts; the recovery
report reads all of it.

### The hub

| Component | State it keeps | Operations | Hard behaviour | What makes it correct | Modelled in |
|---|---|---|---|---|---|
| Hook client and ingestion, `hook/deck-hook.mjs`, `ingest/` | spool files, reorder buffer, keys seen | stamp, send, spool, drain, reorder | late, repeated and reordered events, partial failure of a batch | every event is applied once; what is spooled is applied in the end | `Ingest`, `Feed` |
| Client replay, `ws/hub.mjs`, `web/src/state/` | sequence numbers, a store per tab | snapshot, replay, publish, resync | publication between snapshot and replay, slow sockets, restarts | a client misses nothing and never goes back | `EventHub`, `Feed` |
| Session machine, `machines/session.mjs`, `projector.mjs` | `sessions` rows | apply hook, create, exits, ticks | events older than the row's clock | one live session for a process; it needs its owner exactly while a request is open | `Session` |
| Request machine, `machines/request.mjs` | `requests` rows | open, close, expire, settle late | a request that was answered before it was heard of | a prompt that waits is shown, one that was answered is not | `Session`, `Deliver` |
| Delivery, `approvals/deliver.mjs` | `delivery` and `answer` of a row, audit, rule counts | answer, send, verify, late watch, recover | an answer is keys in a terminal: nothing but a later screen or hook shows that it landed | the audit says what the row says; what is credited to the deck was typed | `Deliver` |
| Tiers and rules, `approvals/tiers.mjs`, `rules.mjs`, `shell.mjs` | rules | classify, match, count | a tier rises while an answer is in flight | the checks hold for the tier when the keys leave | `Deliver`, in part |
| deckd, PTY link, terminal bridge, `deckd/`, `pty/link.mjs`, `pty-bridge/` | PTYs, rings, watched set, tabs | output, attach, detach, screen, reconnect | requests that overlap, output that is dropped, a connection lost | an attached tab shows no gap; deckd streams exactly while a tab reads | `Terminal` |
| Recorder, `meetings/` | its view of scribed, `meetings` rows, a watch per meeting | poll, subscribe, start, stop, sync | an external source of truth that other clients change; answers that arrive late | every meeting's row is followed until its summary is there | `Recorder` |
| Ask engine, `ask/` | rows, entries, queue, `running.json` | ask, cancel, finish, close, reap | processes that outlive the server | bounded processes, none unknown; a stored answer stays | `Ask`, proved |
| Notifications, counts, archive | derived rows | – | timers | they say what the rows say | – |
| HTTP, setup, launch, web rendering, replay tool | – | validation, rendering | – | – | – |

The server is one JavaScript thread over one SQLite database. Its steps are
what runs between two awaits, and what is atomic is a transaction. Hooks come
from processes of their own through a socket, or through spool files when the
server is down; keys go out through deckd, another process, which survives the
server.

## 2 The modules and the code

Every module has a header comment that says what it stands for. A step of a
model is what the code does between two awaits; where a step is bigger than
that, the header says so.

| Module | Models | Checked and proved by |
|---|---|---|
| `DriverLock` | `acquireLock`, `readPid`, `releaseLock` of `driver.mjs` | `MCDriverLock`, `DriverProofs` |
| `DriverTask` | `processStrictTask` of `driver.mjs` | `MCDriverTask`, `DriverProofs` |
| `StorageLock` | `withStorageLock` and all it calls, `execution-artifacts.mjs` | `MCStorageLock`, `StorageLockProofs` |
| `JournalStore` | `appendExecutionEvent`, `readExecutionEvents`, `execution-journal.mjs` | `MCJournalStore`, `StorageLockProofs` |
| `WorkflowStep` | one agent step of `workflow-controller.mjs`, with `workflow-resolve` and `workflow-prune` | `MCWorkflowStep`, `WorkflowStepProofs` |
| `Integration` | `executeGate` and `integrate` of `reviewed-integration.mjs` on the branches and the checkout | within `Phase`, `PhaseProofs` |
| `Phase` (an instance of `Integration`) | `runPhase` of `workflow-controller.mjs` with its repair rounds, and the commands it calls | `MCPhase`, `PhaseProofs` |
| `Deliver` | `approvals/deliver.mjs` with the closing rules of `request.mjs` | `MCDeliver`, `DeckProofs` |
| `Session` | `session.mjs`, `request.mjs`, `projector.mjs` for the hooks of one process | `MCSession`, `SessionProofs` |
| `Ingest` | `deck-hook.mjs`, `ingest/socket.mjs`, `reorder.mjs`, `spool.mjs` | within `Feed`, `FeedProofs` |
| `EventHub` | `ws/hub.mjs` and the tab's connection and store | within `Feed`, `FeedProofs` |
| `Feed` (instances of both) | `main.mjs`, where it joins them | `MCFeed`, `FeedProofs` |
| `FeedPromise` | what `Feed` is shown to implement | as a property of `MCFeed`, its `Safety` in `FeedProofs` |
| `Terminal` | output, attach and detach between `deckd/main.mjs`, `pty/link.mjs`, `pty-bridge/bridge.mjs` and a tab | `MCTerminal`, `DeckProofs` |
| `Recorder` | `meetings/recorder.mjs`, `post-watch.mjs`, `history.mjs` | `MCRecorder`, `RecorderProofs` |
| `Ask` | `ask/service.mjs`, `ask/engine.mjs` | `MCAsk`, `RecorderProofs` |

The plugin's modules form layers, and each takes the layer below as one step:
`Phase` takes an agent step's effect as one step, which `WorkflowStep` takes
apart; `WorkflowStep` appends in one step, which `JournalStore` takes apart into
its files; `JournalStore` locks in one step, which `StorageLock` takes apart;
`DriverTask` has one dispatch at a time, which is what `DriverLock` shows. The
conditions under which a lower layer keeps its promise (sections 3 and 7) are
conditions of the layer above. In the hub, `Feed` shows that each hook event is
applied once and in any order, which is what `Session` assumes of its events.

**DriverLock.** `lock` and `token` are the pids in the two files. A process is
its pid and `Start` after `Die` is a new process with an old pid, as kernels do.
`LinkLock`, `ReadHolder`, `ProbeHolder`, `ClaimToken`, `ReadUnder`, `ProbeUnder`,
`RemoveStale`, `DropToken` are the awaits of `acquireLock` in order;
`ReleaseRead` and `ReleaseRemove` those of `releaseLock`. Reading a pid and probing
it are two steps. `Die` kills at any of them.

**DriverTask.** The journal is three sequences of attempts (`harness`,
`collections`, `verifs`), each with an end that may be missing. `record` is the
session file, `host` the task ref, `sandbox` the tip in the sandbox, `worker`
the model process, `mem` what a kill loses. `Dispatch`, `ReconcileFresh` and
`ReconcileResult` decide where a dispatch resumes; `StartAttempt` … `RetainResult`
are `invoke`; `StartCollection` … `PersistCollected` and `StartVerify` … `Cleanup`
are `collectAndVerify` and what follows it. `Throw` is `orphanThrow` at any await,
`Crash` a kill, `Stray` somebody else who moves a ref. Commits are numbers, and
a later commit descends from an earlier one.

**StorageLock.** Directories are inodes: `place` says where an inode is, `owner`
which pid is written in it, `tokens` which reclaim tokens are in it. Each step
looks `.lock` up again. `old` stands for an mtime beyond `STALE_TEMPORARY_MS`.

**JournalStore.** A temporary is in the directory while `young` or `old`, and
`linked` once its record's name exists. A reader lists, looks a linked name up
again and stats it (`List`, `LookUp`, `Stat`), as `readEvents` does. `Recorders`
are the processes whose command appends without reading first.

**WorkflowStep.** `att[n]` is what the journal says of the attempt `<step>.<n>`:
its effect, its resolution, its end, and whether an artifact is referred to.
`agent[n]` is what became of the agents. A controller goes through `Begin`,
`StartEffect`, `Spawn`, `Await`, `Settle`, `Validate`, `Retain`, `End`; a resumed
one decides by `Decision` and may `Revalidate`. The rules of the journal
(`MayStart`, `MayStartEffect`, `Settled`) are guards of the appends. They are
the last line: weakening `Decision` alone is caught by them.

**Integration.** A commit id is the history it ends, first parents only; a task
branch is linear and its tip is the number of its commits. `call` is the gate or
integration under way, its `pc` the next git command: the two snapshots, the
preview's merges and its checks (`executeGate`), then the merges, the test run and
the last comparison (`integrate`). A command may be killed before or after it
moved the branch. `SnapshotRun` and `SnapshotTasks` say where a call goes when
everything is as it was. `Outside` (commits and resets of task branches and of the
run branch, changes of the checkout) happens between any two commands, each one
of `MaxFaults`.

**Phase.** `journal` maps a step (name, round and, for the record steps of a
repair round, task) to its attempts as their events show them. `ctl` is the
controller: `choose` decides for the next step between running, reusing and
blocking (`Choice`, from `Reusable`: `completedDecision` and the checks on what the
step left), the step runs, and `Finish` appends its end. A failure of category
`code` leads through the fix decision to the next round, whose `plan` it names.
`Crash` ends the controller at any point; the next one starts from the journal
(`Resume`), after the operator's `Resolve` where an effect is unknown. The record
steps of a round come in some fixed order of its tasks: each spends a round of its
own task, so the order tells nothing.

**Deliver.** One request row (`state`, `delivery`, `answer`, `tier`), its audit
rows and its rule count, all of which survive a crash; the calls of `attempt` in
flight and the watch of `verify`, which do not. deckd's write is accepted or
refused, and `typed` records what was accepted. `Hook` is a hook that closes the
row at any step, `Expire` the expiry, `RaiseTier` the extension scan.

**Session.** A life of one process is a sequence of events it could send
(`Lives`), each sent once and applied once, in any order (`Apply`); `Late` is an
event whose stamp is before the row's clock. `Create` is the row deckd's spawn
makes; the rest of `Next` is what the server notices by itself. `idle` stands
for `done` and `reviewed` as well and `over` for every state of an ended
session.

**Ingest, EventHub, Feed.** `Ingest` follows the hooks of one session, named by
their hook time, from `SendSocket` or `Spool` through `seen` (the socket's memory
of keys), `pending` (the reorder buffer) and the drain's awaits (`DrainRead`,
`DrainApply` or `DrainFails`, `DrainRemove`, `DrainEnd`) to `log`, the events in the database.
A refused row, a stop of the server and a broken connection are faults.
`EventHub` follows one tab: `conn` is the server's socket (open, building a
snapshot, ready), `down` the wire, `tab` the store with its cursor, its buffer
while it syncs, and the events it reflects. `Feed` joins them: what a step of
ingestion appends is published in the same step. `FeedPromise` knows only the
log and what a tab shows.

**Terminal.** Output is counted in chunks, and a snapshot stands for all chunks
up to its own. `chain` is the serial chain of a PTY's requests to deckd, `wire`
what deckd has sent, `conn` deckd's side (streaming, a drop episode and its write
callbacks), `session` and the tabs' records the bridge. `OnOutput`, `OnDropped`,
`OnExit` and `OnReply` handle what arrives, `AfterRequest` and `AfterScreen` are
what runs after an await, `ScreenTimeout` settles a request without its reply, and
`Down` and `Up` are the connection. One read of the socket may hold several messages:
its events are handled at once, its replies settle promises, whose continuations all
run (`running`) before anything else does.

**Recorder.** `scribed` and `disk` are the external recorder and the meeting
files; the module says with them only what `recorder.mjs` relies on. `poll`,
`starts`, `stop`, `sub`, `sync` are the requests under way, each sent, answered
and applied in steps of their own. `rows` are the database's, `watch` the
meetings `post-watch.mjs` follows, `boot` the order in which a started server
probes, syncs and polls.

**Ask.** `row` is the database, `disk` holds `running.json`, `child` the claude
processes, which survive a kill; `server`, `service` and `engine` variables are
memory. `Pump` is `pump` inlined at every place that calls it. `listed` and
`stray` tell the processes named in `running.json` from those that a failed or
late write left out.

## 3 The runs

A bound is named in the module's constants and given in the configuration.

| Run | Asks | Bounds | Shows |
|---|---|---|---|
| `driver_lock` | does one dispatch drive a run, with processes killed anywhere and pids reused? | 4 pids, 2 rounds, symmetric pids, `PromptSpec` | yes, while no process exits inside a takeover's read-to-probe window |
| `driver_task` | does every crash point leave a task that can be resumed, and is no result paid for twice? | 3 attempts, 2 commits, 1 ref moved by somebody else, any number of kills and throws | yes |
| `storage_lock` | one writer, no living owner reclaimed, nobody waits for ever? | 3 pids, 4 inodes, 2 deaths, 1 ageing | yes, with fresh inode numbers |
| `journal_store` | do readers survive appends, and do leftovers go? | 4 processes, 3 of them recorders, 3 temporaries, 2 deaths | yes, and no deadlock |
| `workflow_step` | do overlapping, killed and refused controllers ever run agents twice or lie in the journal? | 2 controllers, 2 attempts, 2 kills, 1 refused write, 1 move of the branches | no, with prune run only while no controller does |
| `workflow_step_live` | does a step whose request is recorded settle? | 2 controllers, 2 attempts, 1 kill, 1 move, no refused write | yes |
| `phase` | is what is integrated what was reviewed, gated and tested, through repairs, kills and outside changes? | 2 tasks of up to 2 commits, 2 invocations, 1 repair round, 2 disturbances of any kind | yes |
| `deliver` | do row, audit and count agree through three answers, and does each delivery end? | 2 calls, 3 answers, 1 crash, 1 screen retry | yes |
| `session` | what do events in any order make of sessions and requests? | every legal life of up to 4 events over one permission, one question, one subagent; at most 4 events and signals together | the five properties below |
| `feed` | does ingestion, hub and tab together keep `FeedPromise`? | 3 hooks, one of them in the database already; a socket buffer of 3, a memory of 1 key, replays of 2 rows; 1 failure, 1 lost connection | yes |
| `terminal` | what do tabs show through attaches, drops, timeouts and a lost connection? | 2 symmetric tabs, 2 chunks, 3 attaches, failures and repairs | no gap in an attached tab (6.6); all there is at rest, but for section 6.5 |
| `recorder` | is every meeting followed to its summary, whoever starts and stops it? | 2 meetings, 1 start of the deck, 1 fault | yes |

`PROJECT.json` holds the same list with the properties. All configurations not in it
are extra ones, for questions next to a run's or for the answer "no":

| Configuration | TLC shows |
|---|---|
| `MCDriverLockGap` | `MutualExclusion` fails without the prompt exit (6.1) |
| `MCDeliverCrash` | `AnsweredIsAudited` fails (6.2) |
| `MCWorkflowStepPrune` | `ReferencedIsStored` fails when prune runs beside a controller (6.3) |
| `MCSessionVanish` | `VanishedIsEnded` fails (6.4) |
| `MCTerminalOutage` | `AttachedIsCurrent` fails after an outage (6.5) |
| `MCTerminalGap` | `NeverTorn` fails before the attach is answered (6.6) |
| `MCAsk` | the properties of `Ask` hold of three asks in three threads (875,571 states); with two of them in one thread too |

**Why the bounds are enough.** Four pids are the smallest number at which a
stale holder, two takeovers and a fresh dispatch overlap, and a pid returns
any number of times; two rounds are the smallest number at which a takeover is
followed by a retry. (The proof of section 5 removes both bounds.) Three
attempts are a first run, a refusal round and a fix round; two commits tell
"moved", "not moved" and "moved again" apart. In `StorageLock` two deaths are the
holder and its reclaimer, and four inodes are one per process and one spare. In
`JournalStore` two deaths leave two leftovers and one temporary for the living.
In `WorkflowStep` two attempts and two kills are one run and one run again; a
third would repeat the second, since a decision looks at the last attempt. In
`Phase` two tasks tell apart one that a repair names and one it does not, and a
merge that is done and one that is pending; two disturbances are one that a step
misses and one more before the next check, and a second round would repeat the
first.
Three answers to a request are one that does not land, a Try again, and
another. Four events in any order cover each pair of an opening and its settling
with an event of a new conversation between them and one late event after it;
every property of `Session` relates at most three events. What the server notices by
itself (a signal) is checked beside up to three events, and twice beside two: a signal acts on
the state of the row, its clock and its open requests, and three events are enough for
an opening, what settles it and one of them late around the signal. In `Feed`
three events are one that is on its way, one that overtakes it and one the
database had; a memory of one key and replays of two rows make both caps bind. In
`Terminal` two tabs are one that goes and one that comes, and two chunks are one
before and one after a seam; with one tab the same holds of three chunks, and the proof of
section 5 removes the bounds. In `Recorder` two meetings are the deck's and another
client's, in both orders. In `Ask` three asks in three threads are one more than
the engine runs.

**The properties.**

* *DriverLock.* `MutualExclusion`: no two processes drive. `RemovesOnlyStale`: the
  rm of a takeover hits the lock that was judged. `StrandedTokenStays`: a dead
  process's token is never removed or overwritten.
* *DriverTask.* `VerifiedIsRetained`, `DoneIsVerified`: what was verified and what
  is done is the result that was retained (the first with the types and limits of
  the module). `ResumeAccepted`: as long as nobody
  else touches the refs, no crash point makes a later dispatch refuse.
  `KnownBeforeLaunch`: the model is launched only when every earlier outcome is
  known, and a retained result is not run again, but for a fix round
  or a refusal of its own. `DispatchEnds`: a dispatch ends, with a result or orphaned.
* *StorageLock.* `HolderInPlace`: whoever holds the lock has its directory in
  place under its pid, which implies that one holds it at a time.
  `ReclaimsOnlyDead`: a reclaimer moves only a dead owner's directory.
  `EveryoneServed`: a process that wants the lock and is not killed gets it or
  is told it is busy.
* *JournalStore.* `LiveAppendsHarmless`: no reader fails because of a living
  writer. `LeftoverGoes`: what a killed writer left is removed in the end.
* *WorkflowStep.* `OneAgent`: agents of a step run once at a time. `CompletedIsWork`:
  a completed attempt left valid work. `ReferencedIsStored`: what the journal refers to
  is in the store. `NoWorkRepeated`: no agents are spawned while an
  attempt's work is there and validates, unless its command is known to have failed.
  `StepSettles`: a step is completed in the end, or its attempts are used up.
* *Phase.* `PhaseProven`: when a phase is complete its tips were implemented, reviewed
  and gated as they are. `RoundSpentOnce`: a task has no more rounds on record than
  rounds whose record step began, and its round is on record when its repair runs. `CompleteIsTested`: an integration that is complete has put the reviewed tips, in
  the plan's order, on the tip it was given, and its tree is the one the checks passed. `ReceiptTells`: the receipt of a failed integration says which
  merges the run branch has taken.
* *Deliver.* `BooksAgree`: one audit row that says what the row says, at most
  one count, and an answer credited to the deck was typed.
  `SettledIsFinal`: what is settled does not change. `SentUnderRules`: the tier's checks hold when the keys leave, not
  only when the owner clicked. `DeliveryEnds`: no delivery is left under way.
* *Session.* `NeedsOwner`: a session needs its owner exactly while a request of its
  own is open. `OneSession`: one live session for a process. `OpenPromptsAgree`: a
  prompt of the session's conversation that nothing settled is open, and one that its
  own conversation answered is not. `NewestConversation`: late events restore neither
  an old conversation nor a returned agent. `SettledOnce`: a request opens once.
* *Feed.* `SpooledIsKept`: a spooled hook is in the spool until it is in the
  database. `SpooledIsApplied`: and it gets there: again and again there is no
  spooled hook that is not in the log. `KeepsPromise`: the composition implements
  `FeedPromise`.
* *Terminal.* `Untorn`: no tab whose attach was answered shows output with a gap in it,
  or a chunk twice. `StreamFollowsTabs`: at
  rest deckd streams exactly while a tab reads. `QuietIsCurrent`: a tab at rest
  shows all there is, unless it was dropping when the connection went.
* *Recorder.* `RowsFollow`: a meeting whose row says `recording` is the one shown or
  the lost one a start may still close, and one that stopped is watched until its
  summary is there. `StoppedIsTrue`: no late status hands a meeting over to the watch
  while scribed records it. `MeetingsSettle`: a row stops saying `recording` once
  scribed does not record it, and says `synthesized` once the summary is written.

Each module has one type invariant, `TypeOK`, which also carries the limits of its
counters. In most runs it is the first conjunct of a safety invariant.

The conditions under which `OpenPromptsAgree` and `NewestConversation` are stated
are part of their text: the server noticed nothing by itself, deckd's row did not adopt
one a hook had made, and the process has had one session; for the conversation, that
the process has had one session, which was found at work, and at most two conversations; for agents, that what has
arrived is what happened so far and no start or end of a conversation comes after the agent.
That an answered prompt does not come back needs no condition. Section 7 says what
happens outside them.

**The refinement.** `FeedPromise` has two variables, the log and what the tab shows,
and two steps: the log grows by events it does not hold (`Grow`), and the tab
shows a longer prefix of it (`CatchUp`), which happens in the end whenever there is something
to show. `Feed` maps `shown` to the events its tab reflects; the log is
the same variable. Every step of a hook, of the drain, of the hub, of the wire
and of the tab is then a step of the promise or a stutter, restarts and
replays included, and the fairness of `Feed` yields that of the promise.

**Deadlock** is checked in `driver_lock`, `driver_task`,
`journal_store`, `workflow_step` and `workflow_step_live`. The others may
stop: each storage writer takes the lock once, a delivery ends once its answers
are spent, a life has a last event, a phase ends complete or blocked when its
invocations are spent, and hooks, output, meetings and asks are finitely many.

## 4 Fairness

* `DriverTask!FairSpec`: a dispatch that does not wait for its model takes its next step or
  throws, since every promise of it settles, and
  the worker exits or is killed by the driver's time limit (`waitForExit`).
  Crashes and stray moves are not fair, nor is a throw while it waits.
* `StorageLock!FairSpec`: every process that was not killed takes its steps. A
  waiting process gives up after `LOCK_WAIT_MS`, so there is no assumption that the
  lock is ever free when it looks.
* `JournalStore!FairSpec`: time passes, and each living process goes on running
  commands. `LeftoverGoes` needs somebody who appends.
* `WorkflowStep!FairSpec`: agents end, an operator resolves what is left unknown, prune
  finishes, and each controller takes a step that is possible again and again
  (strong fairness, because a step is disabled while prune runs). An operator who
  never answers leaves a step blocked.
* `Deliver!Fairness`: the server's continuations run, its polls and timers fire, and
  it is restarted after a crash.
* `Feed!Spec`: the server's own steps (`Working`) and those of tab and socket
  (`Connects`, `Following`) run, since a timer or an event of Node is behind each
  of them: the flush timer, the spool interval, the client's reconnection. Hooks
  need not come and nothing has to fail; a server that stopped is started again.
* `Recorder!FairSpec`: requests are answered or time out, polls and the watch's timers fire, a
  scribed that went comes back (strong fairness, as a server may be down at the
  time), and recordings are stopped by somebody.

`Recorder!Prompt` restricts the steps and is not fairness: the status that opens a
subscription is applied before scribed answers anything else, and the view does
not change while a sync lists the directory. `WorkflowStep!QuietSpec` and
`Deliver!PromptSpec` are of the same kind: prune is run while no controller
runs, and the late watch reads the
screen within its last 250 ms poll interval. `StorageLock!FreshSpec` is the
assumption about inode numbers of section 7.

## 5 What is proved

### DriverProofs

*The lock.* `DriverLock` names its specification `LockSpec`, its types `LockTypeOK` and so
on, so that one module can be about both modules of the driver. For **any** set of pids and any number of
rounds, from `NoPidAssumption` (an absent file names no pid) and
`RoundsAssumption` (there is a round).

| Theorem | States |
|---|---|
| `MutualExclusionHolds` | `PromptSpec => []MutualExclusion` |
| `HolderIsNamedHolds` | `PromptSpec => []HolderIsNamed`: the file names the driving process as long as it drives |
| `RemovesOnlyStaleHolds` | `PromptSpec => []RemovesOnlyStale` |
| `StrandedTokenStaysHolds` | `LockSpec => StrandedTokenStays` |
| `LockTypeOKHolds` | `LockSpec => []LockTypeOK` |

`MutualExclusion` is not inductive: in a state where a takeover is about to rm the
file of a driving process, the next step breaks it, and nothing in
`MutualExclusion` says that this state is not reached. The invariant `LockInv`
adds, to the types, what excludes it:

* `RoundsLeft`: a process in the loop has a round left;
* `TokenNamesTaker`: whoever is inside a takeover is the one the token names, so
  there is one at a time;
* `HolderIsNamed`: the lock file names a process that drives, so two of them
  would have the same pid;
* `DeadPidStillThere`: a pid that was read under the token and has died since is
  still what the file says, because only the reader could have removed it;
* `RemovalIsSafe`: what is about to be removed is in the file and drives nothing.

Under `LockNext` alone `DeadPidStillThere` fails: the holder releases and exits after
it was read, and another process links its own lock. `PromptNext` excludes
exactly that step, which is why the theorems are about `PromptSpec` and why
`MCDriverLockGap` fails. For the last two theorems the smaller `TakerInv` (types,
rounds, `TokenNamesTaker`) is inductive under `LockNext`.

*The strict task.* For **any** number of attempts, commits, stray ref moves, kills and failed writes, from
`AttemptsAssumption`, `BoundsAssumption` and `NoTipAssumption`.

| Theorem | States |
|---|---|
| `DriverTaskInvariant` | `Spec => []IInv` |
| `KnownBeforeLaunchHolds` | `Spec => KnownBeforeLaunch` |
| `VerifiedIsRetainedHolds` | `Spec => []VerifiedIsRetained` |
| `DoneIsVerifiedHolds` | `Spec => []DoneIsVerified` |
| `ResumeAcceptedHolds` | `Spec => []ResumeAccepted` |

None of the properties says anything of a dispatch half way, so none is inductive.
`JournalInv` says what the dispatch knows of the harness journal: it is at the newest
attempt, the earlier ones completed, a running model belongs to the open attempt and was
not launched for it before (`OneWorker`), and a result is worked over only with a reason
(`Justified`). `VerifiedInv` says what each entry rests on. `OneVerificationEach` is why
the verification bound holds although it is compared with a count read when the dispatch
began: each verification follows a completed collection of its own, and the collections
are bounded by a fresh count. `NotYetDone` excludes a record that says done beside
an attempt or a verification under way. `Undisturbed` is about `strays = 0`: the ref is
where the dispatch saw it, and where the newest attempt began or its result is.

### StorageLockProofs

For **any** processes, inodes, kills and ages, from `NoneAssumption` and
`BoundsAssumption`, and on a file system that gives a new directory no inode number a
waiting process still remembers (`FreshSpec`).

| Theorem | States |
|---|---|
| `StorageLockInvariant` | `FreshSpec => []IInv` |
| `HolderInPlaceHolds` | `FreshSpec => []HolderInPlace` |
| `ReclaimsOnlyDeadHolds` | `FreshSpec => ReclaimsOnlyDead` |
| `LiveAppendsHarmlessHolds` | `JournalBounds => (J!Spec => []J!LiveAppendsHarmless)` |

Neither property is inductive: both say nothing of how many processes are about to
move the lock. `IInv` says why that is one. `SawDirectory` and `SawDead` keep what a
reclaimer remembers true: the directory it saw does not come back, and its pid is dead
for good. `TokenIsThere`: past its claim a reclaimer's token is in the directory.
`Supersedes` and `Comparable` are about the names of tokens: a name begins
with every token it superseded, whose claimers are dead, and of two names one
begins with the other. Two reclaimers with a token in one directory would therefore have
the same name, or the shorter one's claimer would be dead (`OneReclaimer`): one
reclaimer is left, so what it found again under its token stays until it moves it
(`FoundAgain`). The reuse of an inode number breaks `SawDirectory`; that is the step
`FreshNext` excludes.

The last part of the module is about the journal files that are written under this lock,
`J == INSTANCE JournalStore` with variables of its own, for **any** processes and
temporaries; `JournalBounds` is what `JournalStore` assumes of its constants.
`LiveAppendsHarmless` by itself does not exclude that a temporary is about to get old
under a live writer, or that a name a reader did not find appears later; `JournalInv`
adds that the lock is held by whoever is past it, that while nobody was killed every
temporary belongs to an append under way and is young, and that a second name not
found stays away.

### WorkflowStepProofs

For **any** controllers, attempts, crashes and refused writes, from
`BoundsAssumption`, about `QuietSpec` (`workflow-prune` is not run beside a controller;
`MCWorkflowStepPrune` shows what happens when it is).

| Theorem | States |
|---|---|
| `OneAgentHolds` | `QuietSpec => []OneAgent` |
| `NoWorkRepeatedHolds` | `QuietSpec => NoWorkRepeated` |
| `CompletedIsWorkHolds` | `QuietSpec => []CompletedIsWork` |
| `ReferencedIsStoredHolds` | `QuietSpec => []ReferencedIsStored` |

`OneAgent` alone does not exclude a controller that is about to spawn beside a running
agent. `DispatchInv` ties the processes to the journal: a controller is alone at
its attempt (`Own`); while one is about to spawn, every other attempt has failed, was
resolved not-started, or dispatched nothing (`SpawnsAlone`); a running agent belongs to
an attempt whose effect has no outcome or an unknown one (`RunningIsOpen`), which
is what the append under the lock refuses to start over. `WorkInv` carries what a
controller saw to the record it writes, and `StoreInv` what is about to be referred to, and
that prune has read all that is.

### FeedProofs

For **any** finite set of hooks, any limits of the key memory, the wire, the buffer and the
replay, any number of refused rows, stops and lost connections, from `HooksAssumption` and
`CapsAssumption`.

| Theorem | States |
|---|---|
| `FeedInvariant` | `Spec => []IInv` |
| `SpooledAlwaysKept` | `Spec => []SpooledIsKept` |
| `PromiseIsKept` | `Spec => Promise!Safety`: every step of `Feed` is a step of `FeedPromise` or a stutter |

`SpooledIsKept` breaks at the `rm` of a drain, three steps after the flush that should have
applied the rows. `IngestInv` says what must hold in between: the files a drain is about to
remove have been applied, and a key that is remembered is of a hook that waits in the
reorder buffer or is in the log. Without the second a hook that is read again from the
spool would be passed over as seen and its file removed; a refused row that kept its
key would bring that about. The log is injective, because `applyHooks` skips the rows
whose keys the database has.

The refinement is about the other half, and the promise says nothing of what is on its
way. `TabInv`: a tab shows `1..seq` and has nothing buffered. `ConnInv`: what a socket
that is replaying keeps pending follows its snapshot without a gap. `WireInv`: the
frames on the wire follow one another, the first goes on where the tab is, and the last one
of a socket that is ready is where the log ends. A step of the tab then adds the
events up to a later position, and a new event goes behind a frame it follows. The first
frame after a `hello` may be a snapshot from before the tab's position only if
the log went back, and it does not.

The operators of the two components (`Place`, `Rows`, `Received`, `Without`, `Newer`) are
written with cardinalities and a recursive function rather than sorts and folds over
sequences, which the provers cannot open.

### RecorderProofs

*The recorder.* For **any** number of meetings, starts and faults, from the assumptions of
`Recorder`.

| Theorem | States |
|---|---|
| `RecorderInvariant` | `FairSpec /\ [][InTurn]_vars => []IInv` |
| `RowsAlwaysFollow` | `FairSpec /\ [][InTurn]_vars => []RowsFollow` |
| `StoppedIsAlwaysTrue` | `FairSpec /\ [][InTurn]_vars => StoppedIsTrue` |
| `RowsFollowOneStart`, `StoppedIsTrueOneStart` | the two under `FairSpec`, for `MaxStarts <= 1` |

`RowsFollow` is about rows, and what a step does to a row depends on what the deck takes to
be so: its view, the answers on their way to it, and the list a sync has read. `IInv`
says how old each of these may be. An answer on its way was true when it was sent, and its
meeting is one that is known (`Ages`, `HeardIsBorn`); a start or a stop that is still waiting keeps
its meeting (`StartWaits`, `MeetingIsLive`, `StopWaits`); the list of a sync is of
now, as `Prompt` has it (`ListIsNow`); a refused poll comes from a scribed that is
down (`RefusedIsDown`); and the status that opens a subscription, or an answered command,
tells what scribed does (`StatusTells`, `StopTells`, `StartTells`). `RowsOK` is then inductive.

`InTurn` is the only condition: the owner does not start again before the start before was
handled. It is needed. With two starts that overlap TLC finds `RowsFollow` violated: the
first is answered and not handled yet, scribed goes down, a refused poll makes the view
`unavailable`, the owner starts again, the first start's continuation shows its
meeting, and the failure of the second one (`settle` and what follows it, `recorder.mjs:601`–645) turns the view to idle
and forgets that meeting without the mark `lost`: its row goes on
saying `recording`. The run `recorder` has one start, so it meets neither this nor
the condition; with `InTurn` as a constraint TLC checked the invariant for two and three meetings,
starts and faults up to two. The API refuses a second start while the recorder is
`starting` but not once it is `unavailable` (`recorder.mjs:588`).

*The ask engine*, through `A == INSTANCE Ask`. For **any** set of asks and any assignment of them to threads, through any number
of kills and restarts; no assumption on the constants is needed.

| Theorem | States |
|---|---|
| `BooksAreKept` | `A!Spec => []` of the engine's books: `active` is the number of runs that have a process or wait for its end, the queue holds the waiting runs once each, nothing waits while there is room, every run is entered in the service, a thread has one ask |
| `NoUnknownProcess` | a claude process belongs to a run of this server or is named in `running.json`, or is one whose naming failed (`stray`) |
| `ProcessesAreBounded` | a thread has at most one process and the vault two, strays aside, across kills |
| `StoredAnswersStay` | an answer once stored is not overwritten |

The inductive invariant is `EngineInv /\ ProcessesKnown /\ LeftBehind`. `EngineInv`
is about memory. `ActiveCounts` alone is not inductive: that `active` falls exactly when a
run ends needs that the run was among those counted, and that `pump` raises it by
what it starts needs that the queue holds waiting runs, each once
(`QueueIsWaiting`), none of them with a process or a result (`WaitingHasNone`,
`ResultIsDone`), and entered in the service under a thread of its own
(`RunsAreEntered`, `EnteredIsOpen`, `OneAskPerThread`). `ProcessesKnown` relates
processes to `running.json`. While a server is up its processes are
those of its runs, and `EngineInv` bounds them; a kill empties memory and leaves the
processes, so `LeftBehind` carries the bounds over to the next start, which
reaps before it takes a question.

### DeckProofs

*Deliver.* For **any** set of concurrent calls and any number of answers, refused or torn
writes, retries, expiries and restarts, from `BoundsAssumption` (the bounds are numbers).

| Theorem | States |
|---|---|
| `DeliveryInvariant` | `Spec => []IInv` |
| `BooksAlwaysAgree` | `Spec => []BooksAgree` |
| `SettledStays` | `Spec => SettledIsFinal` |
| `SentUnderTheRules` | `Spec => SentUnderRules` |
| `PromptIsDelivery` | `PromptSpec => Spec`, so that all of it holds of the behaviours whose liveness is checked |

`BooksAgree` says that a deck credited with an answer typed it. It is not inductive: it
says nothing of the answers that may be credited later, and there are five places
they wait in. `CreditIsTyped` names them: an answer sent and being verified, the two
endings a write prepares before deckd has answered, the watch that may still prove a late
answer, and the earlier answer that an attempt keeps to put back when it fails. What a call
keeps across its awaits is a second copy of the row, made before other hooks ran;
`CallsAgree` says that it is still what the row said, or that the row has left `sending`.
`OneCall`, `DownIsQuiet` and `WatchAgrees` exclude a second answer beside a call or a live watch,
and `Booked` that an answer is counted both by its hook and by the watch.

*Terminal.* For **any** set of tabs, any number of chunks, attaches, detaches, losses of the
connection and timeouts, from `TerminalBounds` (the bounds are numbers).

| Theorem | States |
|---|---|
| `TerminalInvariant` | `TerminalSpec => []TermInv` |
| `UntornHolds` | `TerminalSpec => []Untorn` |
| `StreamFollows` | `TerminalSpec => []StreamFollowsTabs` |
| `QuietHolds` | `TerminalSpec => []QuietIsCurrent` |

What a tab shows depends on everything that is under way, so none of the three is inductive.
`TermInv` says what is under way.

* *The chain* (`ChainInv`). While the session runs, attach, detach and watch go round in the chain
  (`Cycle`), its last request is what the tabs want (`Ends`), and deckd's side is what its
  last executed request left (`Streams`, `Executed`). This gives `StreamFollowsTabs`. Without
  `Ends` a tab could wait for an attach that nobody sends, and without `Watched` a refused detach
  could drop a request that is not its watch.
* *The exit* (`ExitInv`). It is the last thing deckd tells of a PTY but for refusals, so a tab
  that waits after it is removed and never gets ready.
* *Screens* (`TurnInv`). A request has a turn no other request under way has, is answered once,
  and a tab that syncs has one under way. So a snapshot of an old sync is never taken for the
  new one's, and at rest no tab still syncs.
* *Continuity* (`FollowInv`). `Follows(i, n)` says that what comes on the wire after position
  `i` goes on from chunk `n`: the next output is `n + 1` unless a `dropped` stands before it, and
  with nothing on the wire and no episode that still has to tell of dropped bytes, `n` is
  the last chunk of all. It holds of every output since the attach, of a snapshot under way to its
  tab, of a snapshot that has arrived together with the buffered chunks after its seam, and of what
  a live tab shows that is not dropping. An episode that ends with a second `dropped`, and
  the `more` that demands it, are what keeps it true through `EndEpisode`.

`AfterScreen` is the step at which all of it meets: the snapshot's number, the buffer and the seam
come from three different moments, and `LateFollows` says that they fit.

### SessionProofs

For **any** keys, questions and agents, lives of **any** length, hooks that arrive in **any**
order, and the server's own signals between any two of them, from `KeysAssumption` and
`BoundsAssumption` (the bounds are numbers).

| Theorem | States |
|---|---|
| `SessionInvariant` | `Spec => []IInv` |
| `OwnerIsNeeded` | `Spec => []NeedsOwner` |
| `SessionIsOne` | `Spec => []OneSession` |
| `SettledForGood` | `Spec => SettledOnce` |
| `PromptsInvariant` | `Spec => [](IInv /\ LInv)` |
| `PromptsAgree` | `Spec => []OpenPromptsAgree` |
| `NewestIs` | `Spec => []NewestConversation` |

Every handler of the code computes a row and its requests apart from each other, and they
must agree at the end. `Fits` is that agreement for one row. The lemmas follow a hook through
the code: what it tells of the conversation (`IdentifiedIs`), what it opens and closes
(`RequestHookIs`, `MissingIs`), what the session makes of it (`MovedIs`), and what becomes of
it when it is late (`LateIs`); `OutcomesIs` puts them together as `applyHooks` does. The path
that comes closest to breaking `Fits` is the late hook that closes the last open
request of a row without a move of its own: it is the second look of `Outcomes` at the
open requests that mends the state, and the proof shows that it looks in every such case.

`NeedsOwner` is about one row, so the proof needs that no step touches the requests of
another (`Turned`). `Turned` also says that a request is never made twice, which is
`SettledOnce`. It needs `RequestsInv`, that every request is stamped with a hook its
row has seen: a hook that is new therefore opens a new request, and what is made up for
is compared with all there are. `OneSession` needs that a row is made only when
none is alive (`ResolveIs`); that `resolveSession` finds a row at all is that its two
searches, for the newest event and for the newest session, end (`GreatestIs`).
`RowsCounted` bounds the rows by the hooks applied.

The last two compare what a session shows with everything the process did, so their
invariant `LInv` says, for each session that lives, what it made of the hooks it was **told**
of, in whatever order they came:

* `Clocked`: the clock of a row is past every prompt, answer and counted agent, so what an
  event that is *not* late takes away was older than it.
* `Shown`, `Unanswered`: a prompt that waits is open, or is of another conversation, which
  the session has left or which came before its name; none is open that its own
  conversation answered. A prompt that comes late is made up for if nothing known
  settles it (`MissingOpens`), and only then (`MissingMadeUp`).
* `Named`, `Newest`: the name of a session stands from the event that gave it, and
  that event is in the log. A restart that comes late therefore finds either that it
  is older than the name, or that it names the session (`NamedMoves`, `NewestMoves`).
* `Counted`, `Unheeded`: the agents at work are those started since the last start or
  end that was heeded and not back, and an agent that was not heeded is of another
  conversation or came before that. `Working` recounts them from the log at
  each of the two events, and the proof shows that this is enough: nothing else moves the count
  but a new conversation, which empties it.

`Moves` and `Prompts` say what one hook can do to a row and to its open requests; each part of
the invariant follows from them alone, and only `OutcomeRow` and `OutcomeReqs` look into the
handlers. The parts about names and agents hold while the process has had one session that
was not adopted (`Alone`), `Shown` while the server has noticed nothing by itself, `Newest`
under the conditions of its property: outside them they may fail, as section 7 tells,
and the steps out of them (a signal, an adoption, a second row) are proved to be such. What a
life is (`LifeInv`: conversations follow one another, each after a restart, and an end is the
last event) is proved of the initial states and does not change.

### PhaseProofs

For **any** set of tasks in any merge order, any number of tips, budgets, rounds, runs
and faults, from `OrderAssumption` (the merge order is a finite sequence that names each
task once), `TipAssumption` and `BudgetAssumption` (the bounds are numbers).

| Theorem | States |
|---|---|
| `PhaseInvariant` | `Spec => []IInv` |
| `CompleteIntegrations` | `Spec => []CompleteIsTested` |
| `ReceiptsTell` | `Spec => []ReceiptTells` |
| `DonePhasesAreProven` | `Spec => []PhaseProven` |
| `RoundsAreSpentOnce` | `Spec => []RoundSpentOnce` |

The invariant has two halves. `Kept` is so whether or not a controller runs: it is what a
killed controller leaves, and so what the next one starts from. `ControllerInv` is what the
running one knows.

* **The calls of git** (`Looked`, `Placed`, `Told`). `CompleteIsTested` speaks of the end
  of an integration only. `Placed` says where each call is on its way there: the tip it
  goes by is the run tip it was given with the merges made so far on top. `Told` says
  the same of the receipt: a merge that was made is in it, or pending, at every step.
  `Looked` (each task is ahead of the run branch) is why the commits of a task in the
  result are exactly the reviewed ones.
* **The gate** (`StepInv`, `JournalProven`). That a finished phase is proven says nothing of
  a phase whose integration is reused from the journal by a later controller, perhaps
  after another repair round was begun. `JournalProven` says that every integration
  the journal calls completed was judged and gated; `StepInv`, that the tips the
  controller goes by were judged once it is past the collection and gated once it is past the
  gate, although the branches themselves may have moved since.
* **The rounds** (`Begun`, `Spent`, `RoundIs`, `Recorded`). A record step that is killed
  between the write of `status.json` and its journal entry is run again, and must
  then find its round recorded. That needs the plan, which names for each task the
  round after its last: the fix decision of a round is in the journal before any step of
  that round, and of the newest round each task has spent its named round or the one before
  it (`PlanRuns`). That no round is spent twice then follows from counting the rounds
  whose record steps began (`PlanFits`).

`Spec` has the faults of every kind in it, so the theorems hold through kills between any two
steps, branches that move between any two git commands, and refused merges.

`LiveAppendsHarmless` is proved in `StorageLockProofs` of an instance of `JournalStore`, because
the names of `StorageLock` and of `JournalStore` clash. In the same way the theorems
about `Ask` are in `RecorderProofs`.

**Only model-checked.** Liveness and `ENABLED` (`DispatchEnds`, `EveryoneServed`, `LeftoverGoes`, `StepSettles`,
`DeliveryEnds`, `SpooledIsApplied`, `MeetingsSettle` and the liveness of
`KeepsPromise`), which the prover does not handle; and anything that needs induction
over data.

## 6 Disagreements with the documents

Each has a configuration in which TLC finds it; the property it breaks states what the
document says.

1. **Two dispatches may drive one run** (`MCDriverLockGap`; `driver.mjs:337`). The
   comment at `driver.mjs:287` says that nobody can install over a stale lock between
   the re-read and the rm. The pid is read, and probed an await later. When its process was
   alive at the reading, released the lock and exited before the probe, and
   a third linked its own lock in between, the probe finds the old pid dead and the rm
   deletes the new lock.
2. **An answer may never be audited** (`MCDeliverCrash`; `deliver.mjs:699`). A hook that
   closes a request in `verifying` leaves the audit row and the rule count to
   the next poll. A server killed before that poll never writes them: `recover`
   looks at pending and `sending` rows only. `docs/deck/07-approvals.md:581` says every
   decision is recorded.
3. **Prune may remove what the journal refers to** (`MCWorkflowStepPrune`; `cli.mjs:3618`).
   It reads the references without a lock and removes later; an artifact that was
   retained before and referred to after the reading is lost.
   `docs/reference/execution.md:312` says it never is.
4. **A killed observed process keeps its session** (`MCSessionVanish`;
   `projector.mjs:516`). The signal `pid_gone` is handled, and nothing sends it.
   `docs/deck/interaction/state-machines.md:132` says the server probes.
5. **A tab that was dropping when the link went stays silent** (`MCTerminalOutage`;
   `bridge.mjs:247–283`). Neither the `down` nor the `up` listener resets
   `tab.dropping`, so the tab that is attached again gets its fresh snapshot and no output
   after it. The comment at `bridge.mjs:244` and `docs/deck/05-api.md:393` and
   `:413` say that tabs are attached again with a fresh snapshot and go on.
6. **A tab may show a gap before its attach is answered** (`MCTerminalGap`;
   `bridge.mjs:230–232`). The `dropped` listener syncs every tab of the PTY, also one that still
   waits for `pty.ready`. A tab is detached and attached again while a `dropped` event of its
   first attach is on the way: the event makes it sync while deckd's connection does not
   stream. Its snapshot lacks the chunk written between the two attaches, and output that comes
   in one read with the attach's reply is shown right behind it. The attach's own sync then sends a
   fresh snapshot, so the gap does not last. `docs/deck/05-api.md:393` says that a
   snapshot is sent and output streamed after it, and `docs/plans/2026-10-01-deck-m2.md:309` that no
   byte is lost or doubled at the seam.

## 7 Observations

Met while modelling, and contradicted by no document plainly enough for section 6.

*Plugin.*

* `reclaimLock` tells directories apart by inode and pid (`execution-artifacts.mjs:194`).
  A file system that gives a new directory the number of the removed one defeats
  it, so the runs assume fresh numbers (`FreshSpec`).
* A temporary older than 60 s makes every command that reads first fail
  (`execution-journal.mjs:210`); only a command that appends first removes it. Hence
  the `Recorders` of `JournalStore`.
* Two refused writes block a step for good (`workflow-controller.mjs:750`), so the
  liveness run has none.
* A controller killed between the two records of a request leaves a journal that
  execute refuses and resume cannot use (`workflow-controller.mjs:1030`).
  `StepSettles` starts at a recorded request.
* A task that fails before its first record gets an orphaned record without an
  execution, and is refused from then on (`driver.mjs:460`, `887`).
* An action that loses against a deadline goes on (`bounded`, `driver.mjs:434`); its late
  append is not in `DriverTask`.
* An integration's failure is of unknown effect only when a merge is on record or the
  branch cannot be read (`workflow-controller.mjs:653`). A merge command that was killed after it
  moved the branch gives category `policy`, which lets the step run again, and that run is
  refused ("task ownership identity mismatch"). A controller killed between a merge and
  the step's end blocks as unknown effect, with no effect record to resolve.
* A verdict FAIL without a failed verified result (all of them empty) makes
  `decideFix` decide `none`; the controller then stops with
  `fix-decision-none-for-a-failed-verdict`.
* `dispatch-reviews` returns 0 without all findings files when the review is not
  captured by the host; `collect` is what notices.

*Hub.*

* Two follow-up texts that overlap are both typed (`deliver.mjs:649`).
* `Session`: a launched session whose first hook belongs to a later conversation takes
  the old conversation's name back when a late first `SessionStart` comes
  (`session.mjs:629`). A `SessionStart` that is not late renames a session without the
  check of the last boundary (`session.mjs:754`): where a third conversation's ignored
  `Stop` had named the session, it goes back to the second. In both cases an opening of
  the conversation the session has left is not made up for, and one of the conversation it
  went back to is, without the answers of the newer one being counted. A name is an alias
  once for all sessions (`session.mjs:633`): a second session of the process that leaves a
  conversation the first had left already records no boundary, and a late hook of that conversation
  takes its name back. A hook stamped before a session was found that arrives after that
  session is over opens a session of its own. `create`, adopting a row a hook
  made, clears `joined_mid_life`, so openings from before are dropped. A late
  `idle_prompt` expires nothing. A `SessionEnd` and a `SessionStart` of a cleared
  conversation that are both late leave its requests open. A late `Stop` leaves
  `running`. And late openings do change the state, where rule 2 at
  `docs/deck/interaction/state-machines.md:151` says a late event never does.
* `Feed`: a drain whose flush fails drops the rows of the socket that were in the buffer, with their keys,
  so an event that came by the socket is lost (one from the spool is read again). An
  orderly `close` clears the reorder buffer and loses hooks of the last 250 ms. A
  first drain that throws fails the start of the server. The client ignores the
  `seq` of heartbeats. `snapshot` reads rows and `seq` first and other fields after awaits
  (`api.mjs:165`); a label filled in later is published in a microtask of its own (`main.mjs:322`).
* A PTY spawned after `list` was answered and before the rows are reconciled has its
  row ended as lost (`link.mjs:259`). The run has no reconciliation.
* `Recorder`: the subscription's status is guarded by no epoch (`recorder.mjs:537`), so one
  that waits while a command is answered can undo it; `Prompt` excludes that. A stop may
  stop another client's newer session. A failed stop of a meeting that goes on leaves its row
  `stopping`. A sync while the view is `unavailable` (an outage, or a first probe that timed
  out at boot, against the comment at `main.mjs:759`) lists the recorded meeting as stopping and has it
  watched; joining it later does not unwatch it, so the watch turns the row back to
  `stopping`. A meeting started between a sync's listing and its writing loses its row.
  Of two starts that overlap across an outage the later one that fails forgets the meeting of
  the other (`recorder.mjs:594`; section 5, RecorderProofs).
* `Ask`: the SIGKILL timer of a cancel is not cleared when the run settles, so a reused
  pid may be hit. A server killed between the spawn and the write of `running.json`
  leaves a process nobody kills (`stray`). Without `/proc` `reapOrphans` kills nothing, unlike
  `10-memory-and-research.md:207`. A failed write of a finished answer leaves its row
  open until the next start, and `reapOrphans` itself is not guarded against a failing write.

## 8 What is not modelled

* Pure I/O and text: the command line, configuration, git plumbing, the shell
  parser and tier table (the repository tests them over many inputs), HTTP
  validation, rendering, the replay tool.
* Harness adapters, the artifact digests and the size limits of store and journal.
* The parts of the modelled files named in their components' notes: compaction,
  working directory and activity text of a session; elicitation; bulk answers and
  follow-ups; several phases of one run; the list reconciliation of the link.
* Everything in section 9.

Most of the repository's lines are of the first kind: of some 71,000 lines about half are
rendering, routes, parsers and their data. The model covers the files in which two
actors, or an actor and a kill, can meet.

## 9 The plan

What is left, in this order.

1. **`Exclusion`**, an abstract lock that names one holder, implemented by `DriverLock`
   and by `StorageLock` under refinement mappings.
2. **The link's reconciliation** with deckd's exit records, the guarded write with its
   revision, and follow-up text; the ring as a pure algorithm against "the last n bytes".
3. **The rest of the plugin**: the pool, run state without a lock, the lifecycle's
   compare-and-swap of refs, verdict and fix decision as functions.
4. **Notifications**: one bell for an episode, history beside popup.

A run is kept per question. When a module's question is answered by a stronger one
(a refinement, or a merged configuration), the weaker run is retired and its
configuration stays as an extra one.

## 10 Running it

```
tlc -workers 2 -config MCDriverTask.cfg MCDriverTask
tlapm FeedProofs.tla
```

`PROJECT.json` names, for each definition, the lines of the source it stands for, for
each property a change of the model that breaks it (`mutants`, the operators next to
the definitions they change), and the hazards of the code each property is for. The
longest runs (`phase`, `driver_task`, `storage_lock`, `session`, `feed`) take one to two
minutes each, and the longest proof (`DeckProofs`) some ten minutes.
