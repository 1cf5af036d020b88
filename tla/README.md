# Verification of the server monitoring system

TLA+ models of the monitoring platform in this repository (a Laravel backend, a
Go agent that runs on every monitored machine, a React dashboard), the TLC runs
that check them on small instances, and TLAPS proofs about them.

| File | What it is |
| --- | --- |
| `AgentLifecycle.tla` | which agent monitors which server: every write to the lifecycle columns of `servers`, `agents`, `provision_tokens` |
| `OfflineBoard.tla` | one server going offline and coming back, and its row on the action board |
| `AuditQueue.tla`, `AuditDelivery.tla` | the agent's durable audit queue, and the promise it is shown to keep |
| `HeartbeatChannel.tla` | commands, acknowledgements and self-updates, which ride on the heartbeat |
| `AlertBranch.tla` | one branch of an alert graph: queue workers, timer sweeps, latch, phase, task index, board row |
| `BrowserSession.tla` | the tabs of one browser and the login sessions behind them: refresh-token rotation |
| `GraphEditor.tla` | the alert graph editor: graph, undo history, settings panel, query cache, stored configs |
| `ServerPage.tla` | the live page of one server: what is announced, heard, fetched, cached and shown |
| `*Proofs.tla` | theorems about the module each is named after, for every value of its constants |
| `MC*.tla`, `*.cfg` | the instances TLC checks |
| `PROJECT.json` | components, runs, mutants, the map from definitions to source lines, findings, hazards, theorems |

To check: `tlc -config <run>.cfg <module>.tla` for a run listed in
`PROJECT.json`, `tlapm <module>Proofs.tla` for the proofs of a module.

## 1. Inventory

One agent process runs on a machine and reports to the backend by HTTP
heartbeats; the backend pushes configuration and update notices to it over a
websocket. The backend keeps its state in the database (and a cache), and works
in HTTP handlers, queue jobs and scheduled commands, several of which run at
once on the same rows. Users act through the dashboard's API.

### Agent lifecycle - `ProvisioningService`, `AgentController`, `ServerController`
- State: `servers` (status, agent_id, agent_deleted, deleted_at), `agents`
  (status, server_id, last_seen_at), `provision_tokens` (status, expires_at).
- Operations: generate, regenerate and force a token; token expiry and cleanup;
  register; heartbeat; detach by agent and by user; uninstall; deregister; archive.
- Hard: all of them read rows, decide, and write later; only some lock what they
  read. An agent may own several servers, a server may move between agents, and
  an agent that was cut off goes on sending heartbeats.
- Correct when: nothing that left the lifecycle is monitored again without a new
  registration, one install command works at a time, revoking an agent takes all
  its servers, archiving is final, every active agent has a primary server.

### Health transitions and action board - `MonitorServer`, `ServerData`, `DashboardController`
- State: servers.status, the disconnect event of an outage, the `server_offline`
  row of `action_items` and who claimed it.
- Operations: heartbeat recovery, the monitor job (dispatched for every server
  with an active agent each minute), page views that notice silence themselves,
  board reads that resolve what is fixed, claim, complete.
- Hard: four writers of one row, each working on what it read before.
- Correct when: an offline server is on the board, a recovered one is not left
  there, a claim is lost to users and new outages only, an outage is recorded for
  what it was.

### Audit queue - `eventqueue.go`, `client.go`, `AuditController`
- State: the queue file, the offset file and the offset in memory, the batch
  being sent; the backend's tables with their unique uuid.
- Operations: enqueue, drain (read, post file events, post lifecycle events,
  requeue the failed, advance, compact), restart.
- Hard: the agent dies between any two file operations, the disk refuses what it
  should take back, answers get lost, events are appended while a batch is under way.
- Correct when: an accepted event is stored in the end, through crashes and lost
  answers; duplicates do no harm.

### Commands and acknowledgements - `HeartbeatService`, `main.go`, `commands.go`
- State: `agent_commands.status`, `command_results`; in the agent the commands of
  the last answer, the executed identifiers, the results not yet delivered (the
  last two bounded, all of it in memory).
- Hard: a lost answer, a request that arrives after its sender gave up, a restart
  with results undelivered, a full buffer.
- Correct when: no command runs twice, "answered" means it ran, a result is kept
  until the backend has it, a command that was sent is not forgotten.

### Self-update - `util.go`, `main.go`, `ws.go`, `AgentVersionSync`
- State: the version in the bootstrap file, the executable and its `.old` copy, the
  cooldown after a failure; the newest release, the version the backend believes.
- Hard: two goroutines may update at once, over several file operations, in a
  process that may be killed and that restarts itself by exiting.
- Correct when: there is always a binary to start, the agent does not update for
  ever, a failed update is tried again.

### Alert rules engine and task scheduler - `app/NodeConfig`
- State: compiled rule graph, per-server node states, the branch latch, delayed
  tasks in one cache key, the alert's row on the action board.
- Operations: evaluate a branch on a heartbeat, arm and release the latch,
  schedule sustained / repeat / check-after timers, fire due tasks, cancel.
- Hard: the scheduler reads, changes and writes its index with no lock, from
  every worker and from sweeps that may overlap; the latch is read and armed in
  two statements; timers re-check a condition that may have changed; due tasks are
  removed before they are processed.
- Correct when: an incident that lasts raises its alert, a condition that stays
  clear leaves nothing behind, repeats end at their cap.

### Sessions - `RefreshTokenRotationService`, `SessionManager`, `JwtGuard`, `JwtAuthContext.tsx`, `tokenManager.ts`
- State: per login session the current and the previous refresh token, the grace
  period, revocation; in the browser one cookie jar for all tabs, in each tab an
  access token and the user it shows.
- Operations: page load, login, refresh, logout, logout of all, revoke, permanent
  deletion, password reset.
- Hard: tabs share a cookie and refresh without knowing of one another, a rotated
  token may be lost with the answer, answers overtake one another.
- Correct when: an honest client stays logged in, an ended session stays ended, a
  tab that goes on asking notices that its session has ended.

### Alert graph editor - `NodeConfigEditor.tsx`, `useNodeConfigs.ts`, `NodeConfigController`
- State: nodes and edges on the canvas, undo history and the timers that feed it,
  the settings panel and its copy of a node, the saved snapshot, the query cache;
  in the backend one stored graph per scope.
- Operations: load, switch scope, every edit from canvas, panel, node body and
  keyboard, undo and redo, save, the fetch after it; saves of other users.
- Hard: a change enters the history 300 ms later unless a frame callback suppresses
  it; the panel works on a copy; fetches, saves and scope switches overlap.
- Correct when: graphs stay whole, undo leads back, "no changes" is true.

### Server page - `detail.tsx`, `useServerSocket.ts`, `useServer.ts`
- State: the websocket channel and which of its events are bound, the query cache
  with one entry per time span, the fetch of each.
- Operations: open, leave, select a span, hear an event, fetch, join and rejoin,
  the page's own requests; on the other side every change of the server.
- Hard: an event only says that something changed and is sometimes sent before
  the commit; the fetch for it overlaps others; which events are listened to
  depends on what was fetched.
- Correct when: what was heard is shown in the end, the page never goes back.

### The agent's own session and runtime - `AgentAuthService`, `client.go`, `runtime.go`, `ws.go`
- State: installation key, short-lived token, the mutex around authentication,
  the configuration, which servers the agent monitors, the markers by which
  detach and uninstall scripts talk to the process.
- Hard: everything shares one mutex that is held over network calls; config
  pushes may arrive late; the markers are files two processes write.
- Correct when: a session comes back after it expires, a revoked server stays
  out of the heartbeats, a requested detach is carried out once. Not modelled,
  apart from the update notice (section 6).

### Smaller parts
- File watcher (`fswatch*.go`): pairs rename halves per directory, drops events
  when its buffer is full. Upload intents: attach against an expiry sweep. Not
  modelled (section 6).
- Metric ingestion, data cleanup, port ping, metrics collectors, broadcasting,
  record keeping of clients, users and settings, reports, password reset, the
  other pages of the frontend, docs, install scripts: single statements, pure
  I/O or presentation. `PROJECT.json` gives the reason for each.

### How they interact
Registration (lifecycle) gives an agent its identity; heartbeats carry health,
metrics, acknowledgements and the agent's version up, and revoked servers,
commands and the update notice down, in one transaction. Health transitions open
and clear the board and call the alert engine, which opens board rows of its
own and queues notifications; the graphs the engine evaluates are the configs the
editor saves. The audit queue posts on its own, with the same session as the
heartbeat. The browser asks with the access token its tab holds, refreshes it
against the session rows, and listens on the websocket for what the lifecycle
and health handlers broadcast. The lifecycle model is about all servers and
agents and abstracts time; the other models look at one server, one agent or one
browser and refine one aspect.

## 2. How the models correspond to the code

`PROJECT.json` maps every definition that stands for code to its lines. This
section says how to read them together and what each model leaves out.

### AgentLifecycle
One function per column (`status`, `owner` for `agent_id`, `deleted`, `trashed`;
`agentStatus`, `primary`, `lastSeen`; `tokenOf`, `lapsed`), one action per
endpoint, job or page that writes one of them. `lastSeen` is the age of
`last_seen_at` against the offline threshold. A token that was used, revoked or
cleaned up frees its identity, because the code asks of a token only whether it
is active; so two tokens stand for any number issued one after the other.

A handler that reads before it writes has an atomic form and a form in two steps
(`...Begin`, `...End`) between which anything else may happen: heartbeat, monitor
job, page view, registration, the requests for a token, expiry, detach of one
server, revocation with all servers, archive. `Overlapping` turns the second form
on; `request` holds what was read. One request at a time is overtaken this way,
the others run in one piece: enough for every hazard found by reading, all of
which are one request against complete ones. Activity rows, broadcasts, host
metadata and configuration rows are left out.

A request for a token may be overtaken before its revocation, or between the
revocation and the creation (`again` tells which): forced tokens use no
transaction, and the one around the others does not help, since PostgreSQL at its
default level reads committed rows and the revocation does not see a token that
another transaction creates meanwhile. Of the row it writes the columns that differ
from what it read (`WriteMinted`); detaches and revocations write every column in
the model, where the code leaves out one that it read with its new value.
The cache lock of one minute around the status write of a page (`ServerData`) keeps
a second page from it, not the first from being overtaken; a page that it stops is
one that did not begin. `ServerController::detachFromAgent` is not an action: it
names `ServerStatus` without importing it and throws before it writes (section 5).

`CheckTokenExpiration` is the action of a page that shows the server. The
monitor sweep calls the same method, but only for servers that have an active
agent (`SystemMonitor.php`), while the method acts on servers that wait for an
installation: those have one only if their revoked owner was registered again.
Nothing scheduled expires the token of a server that waits for its first
agent, so the model gives the action no fairness.

### OfflineBoard
One server attached to an active agent. `heard` says whether a heartbeat came
within the offline threshold, `cause` as what this outage was recorded,
`item` is the row on the board. The monitor job, a page that renders the server
(`ServerData::fromModel`) and a reader of the board may each be overtaken between
their steps (`job`). The cache lock of one minute that keeps two page views from
marking the same server is covered by letting page views happen or not.

Two stale writes are possible and real: a job opens the row of a server that has
come back, or deletes the row of one that has gone again. They are repaired by the
next sweep, heartbeat or outage, except that an offline server whose row was
deleted stays off the board for the rest of this outage (the monitor job opens a
row on a transition only). A claim ends where the next outage opens the same row
again, without an assignee: the row is unique per server, and the recovery from
that outage deletes it. `ClaimIsKept` follows a claim up to there. `outdated` is a
history variable that remembers such a write happened; the safety properties say
what holds as long as it has not, `StaleRowIsCleared` holds regardless.

### AuditQueue, AuditDelivery
The file is a sequence of events and the offset counts lines instead of bytes. A
drain runs through the program points `pc`; points at which `Drain` holds the
mutex admit no `Enqueue`. `CrashAt` lists the points at which the agent may die,
`MaxCrashes` how often, `MaxLength` bounds how far failing sends grow the file.
The disk may refuse to take some of the failed events back: `Requeue` then skips
them and the offset moves all the same (`eventqueue.go:176-179`), and `refused`
remembers them. It may also fail the sync after it (`SyncFails`): `Drain` returns
before the offset moves and the copies stay. `MaxFaults` bounds both together.
After a crash the offset file may be empty (`saveOffset` truncates, then writes)
and only part of the failed events may have been appended again. Retried posts
that were stored are `PartUnanswered`. Left out: partial lines (a torn append
makes the next line unreadable with it), a `saveOffset` that fails without a crash
(the offset in memory has moved by then, so a later start reads what a crash
before the save would make it read, inside a compaction the one of section 5), the
import of a `.sending` file of older agents, the part of the ingest that skips
events of servers the agent does not own, the time of the events.

`AuditDelivery` is the abstract promise: an accepted event is pending until it
is stored, or until the disk refused it. The refinement maps `pending` to what a
start at this moment would still send and the disk did not refuse,
`Unsent \ refused`. What a post carries is a set of positions of the batch
(`Part`), because the batch may hold an event twice; `Ascending` puts the failed
ones back in the order of the batch.

### HeartbeatChannel
The backend's part of `processAgent` (acknowledge, claim, version) is one action
because it is one transaction. The agent's part follows `sendHeartbeatStep`:
send, retry, give up when the next tick is due, receive, install, execute. A
heartbeat the agent no longer waits for stays in `late` and may arrive after its
successors. `updateBinary` is four steps in each of the two goroutines. A partial
download counts as no binary. What a command does is abstracted to a count of
its executions, `ran`. The agent has a primary server: for one that has none the
activity row of an acknowledgement violates `activities.server_id`, which is not
null, and its heartbeats roll back from then on (section 5 says how an agent
gets there). `claimPendingCommands` selects and updates without a lock; the model
claims in one step, since the only heartbeat that can overlap another of the
same agent is one whose answer nobody reads any more.

`torn` is a history variable for the two situations in which the agent may be
left with no executable: both goroutines inside `updateBinary`, or the process
killed between the rename and the end of the download. In both the machine
needs a new installation; `BinaryIsThere` says they are the only ones.

### AlertBranch
One branch, metric -> condition -> sustained (with the repeat capability) ->
notification, on every server. A worker takes a job from the queue and goes
through `pc`: read the latch, look for an active evaluation, arm or release,
load the stored phase, evaluate, schedule or cancel. A sweep (`fireDue` of
`node-tasks:process`) reads the index, removes what is due, then checks the live
condition and the window for each task, and schedules the repeat or notifies.
Each read and each write of the cache or the database is one step, the release of
the latch and the clean-up of the board after it among them (`Release`, `Tidy`), as
the cancellation and the states it resets (`Cancelled`, `Forget`); only the body of
a task goes with its entry in the index. A writer of the index writes back the copy
it read (`copy`, `Copied`, `Overwritten`).

`holds` is whether the latest sample meets the condition; whether the samples of a
window confirm it is a choice of `Verify`. History: `mishap` are the servers whose
evaluation was lost, refused, left over from before, or written over by one that
had read the phase earlier (`Outdated`, which takes two workers); `orphans` those whose
row opened after the release, outlived a reset, or was left when the process died
between release and clean-up; `sent` counts notifications
since the latch was armed. Left out: chains of sustained nodes, check-after,
repeats of post-actions, the logic inside conditions, the compiler, the lifetime
of a cache entry, retries of the notification job.

### BrowserSession
Tabs of one browser and the sessions of one user. A tab is its access token and
whether it shows a user; all share the cookie jar. A refresh takes four steps:
sent with the cookie of that moment, read (`findByRefreshToken` and the checks on
what it returns), written (`rotateRefreshToken`, token columns only), answered. A
login or logout and its answer are one step. A session that is over keeps its
tokens, as its row does: the current one is refused, the one before marks the
session compromised, since every way to fail the grace check of
`RefreshTokenRotationService` (36-57) leads there, a revoked or expired row
included. Token names are used again when nobody holds them. `Polling` are the
tabs left in front on the dashboard, the only page that asks at intervals
(`useDashboard.ts:43`). Reading `/me` after a page load is part of `Deliver`. A
reload while the backend is between read and write is left out: its effect is the
one of a reload just after.

`mishap` remembers what the properties except: "race" (two refreshes read one row,
an answer crossed a login, a later rotation or a reload, a third tab sent the
cookie while the answers to two rotations were on their way, the network failed) and
"slow" (the grace period ended while somebody still held the token before).
`rounds` bounds page loads and lapses of tokens of an active session.

### GraphEditor
The editor between its user, the query cache and the stored configs of the scopes.
A setting of a node is on, off or absent: a new node has all the defaults of its
type, a stored or seeded one the keys it was stored with, and the seeded sustained
node has no repeat key. An edit in the panel sends the panel's whole copy, which
is merged into the node (`Merged`), so a key the copy lacks stays on the node. A
new node takes an identity nobody uses. `timer` is the snapshot due 300 ms after a
change, `frame` the callbacks of the next animation frame, while which changes do
not start the timer; `panel` is the copy of the node the settings panel works on.
A save, its answer, the fetch after it and a fetch on mount are separate steps per
scope; an answer whose editor was closed or whose scope was switched still
arrives. History: `missed` (a change no snapshot will pick up), `drifted` (the
panel's node changed behind its back, and no edit of the panel has made them agree
again, which takes a copy that has every key of the node, `Lacks`), `apart` (why
the snapshot of "no changes" and the stored graph differ). Left out: positions and
drags that only move, selection, sidebar, validation messages, preview.

### ServerPage
The stored server is a version, a status and whether it has an active token; each
change gets the next version. An announcement carries only the version of the
change and whether it was sent inside the open transaction (`early`). `rows` is
the query cache per time span, `invalid` its stale marks, `fetch` and `answer` the
request under way; `live` says whether the running effect bound the status
events, which depends on the data (`ProvisionLive`), and changing it leaves and
joins the channel. `Shown` is what the page has: the data of the span, or while
their first fetch runs those of the span before (`Recent`), and nothing once that
fetch failed. The two broadcasts of a registration or a detach are one message;
generating a token is one step; a request of this page whose answer is lost counts
as somebody else's; the answer to one that runs in a transaction comes after the
commit. `due` is a history variable: the newest change a
span was told of after its commit. Left out: rollbacks, archiving, forced
reinstallation, garbage collection of cache entries after five minutes, metrics
events. Stale writes of the backend itself are in `AgentLifecycle`.

## 3. What each run checks

| Run | Instance | Checks | Shows |
| --- | --- | --- | --- |
| `lifecycle` | 2 servers, 2 agents, 2 tokens, requests in turn, symmetry | `LiveServerIsOwned`, `OneTokenPerServer`, `RevocationTakesEveryServer`, `ArchivedIsFinal` | served in turn, the guards of all handlers fit together |
| `lifecycle_overlap` | 1 server, 2 agents, 2 tokens, one overtaken request | `TypeOK`, `SilentServerGoesOffline`, `RecoveredServerComesOnline` | whatever overtakes what, the sweep finds silence and recovery |
| `resurrection` | 2 servers, overtaken requests | `NoResurrection` violated | a detach inside a heartbeat brings a decommissioned server back online |
| `board` | 2 users | `TypeOK`, `OfflineIsOnBoard`, `ClaimIsKept`, `StaleRowIsCleared` | the board follows the server through all overtaken jobs, with the exception above; a claim is lost to a user or a new outage only |
| `audit_queue` | 3 events, batches of 2, 2 crashes anywhere but inside a compaction, 1 failure of the disk | `TypeOK`, `NoLoss`, `ImplementsDelivery`, `EventuallyStored` | the queue keeps its promise for all events but those the disk refused |
| `heartbeat_channel` | 2 commands, buffers of 1, 2 versions | `TypeOK`, `AtMostOnce`, `AnsweredMeansExecuted`, `BinaryIsThere`, `ResultIsKept`, `ResultArrives`, `UpdatesEnd` | commands and updates survive loss, delay, repetition and restarts as far as the code means them to |
| `alert_branch` | 1 server, 1 worker, 1 sweep, 1 page; a repeat cap of 1; 3 changes of the condition, 1 mishap | `TypeOK`, `PhaseHasTask`, `AlertComes`, `Settles` | an incident that lasts alerts unless its evaluation was lost in a named way; a condition that stays clear brings the branch to rest, whatever happened, but for the board rows in `orphans` |
| `repeats_are_capped` | a cap of 2, 1 incident, no mishap | `RepeatsAreCapped` violated | the repeats of one incident do not end at their cap |
| `browser_session` | 2 tabs, one of them polling, 2 logins, 8 tokens, 2 page loads or lapses | `TypeOK`, `TurnedAwayForCause`, `CompromiseNeedsDelay`, `EndedStaysEnded`, `EndedSessionSignsOut` | tabs that share a rotating token harm each other only after a named mishap; what is ended stays ended and is noticed by the tab that polls |
| `graph_editor` | 1 scope, 2 nodes, 2 settings, one of which the first node lacks, 4 edits, no saves | `TypeOK`, `NoDanglingEdges`, `HistoryShowsGraph`, `PanelShowsNode` | edits, undo, snapshots and frames in any order keep graphs whole and the history in step |
| `graph_saving` | 2 scopes, 1 node, 1 edit, 2 saves | `CleanMeansStored` | "no changes" is wrong only after one of five named events |
| `server_page` | 2 spans, 1 mishap, 2 visits or selections; 2 changes of a server that waits for its installation, 1 of an offline one | `TypeOK`, `HeardIsFetched`, `HeardIsShown`, `NeverGoesBack` | what the page heard after the commit is fetched and shown; no cache entry goes back |

Every property of a passing run has a mutant in `PROJECT.json`: a plausible
wrong version of one definition under which TLC finds that property violated.

### Bounds, and why they are enough
- Lifecycle: two servers are needed for "has another server", two agents for
  displacement, two tokens for an old and a new install command; no handler
  looks at a third of anything. Time is abstracted, so the state space is
  finite without further bounds. The overlap run has one server because its
  liveness properties are about one server and symmetry may not be used.
- Board: one server, because rows are keyed by server; two users, for one who
  takes a row over from another.
- Audit queue: three events of both kinds against batches and compaction of two
  lines make partly read files, split batches and compaction of a file with
  unread lines; two crashes let the second hit what the first left behind, and a
  failure of the disk meets both.
- Heartbeat: two commands against buffers of one make the buffers overflow; two
  versions make one update, which both goroutines may attempt, one after the
  other or at once. `More` stops
  counting at two, which is all `AtMostOnce` asks.
- Alerts: three changes make an incident, its end and another incident; a cap
  of one makes a first notification and one repeat, two is the least cap at
  which the defect shows. One worker is what `compose.yaml` starts; with a sweep
  and a page there are three writers of the index. Two servers share nothing but
  that index; `TypeOK` and `PhaseHasTask` are proved for any number of servers,
  workers, sweeps and pages, the liveness properties are checked for one server
  and one worker.
- Browser: a refresh involves one row and at most two tabs that read it; two
  logins make an old and a new session; eight tokens are never all in use, so none
  is ever lacking. One tab polls and one does not. What a third tab adds is in the
  model (`Behind`) and covered by the theorems, which hold for any number of tabs;
  the run has two, for the liveness property's sake.
- Editor: two nodes make an edge and two settings let panel and node body change
  different ones; four edits build a graph, connect it and take it apart. Saving
  does not look into the graph, so its run has the least one, and two scopes to
  switch between.
- Page: two spans and two changes are the least in which a fetch for one overlaps
  an event about the other.

Deadlock is checked for the board. The other models may stop: when every server
is archived, every event is stored, the agent has no executable to start, or
the bounds on what users and the environment do are used up.

### Fairness, and why the code justifies it
- `AgentLifecycle`, `OfflineBoard`: weak fairness of the monitor job, which the
  scheduler dispatches for each server every minute whatever else happens, and
  of a job that has started. None for heartbeats (the agent may be dead), pages,
  users and board reads.
- `AuditQueue`: weak fairness of the drain, which a ticker starts every five
  seconds, and strong fairness of a successful post of either kind: the network
  and the session come back again and again, not for good, and file events and
  lifecycle events go to the backend in posts of their own. Crashes and failures of
  the disk are bounded; enqueueing is not fair. `EventuallyStored` excepts what the
  disk refused, and `Doubled`: after a crash or a failed sync the lines still to be
  read hold an unsent event twice, and a batch with both is refused for ever.
- `HeartbeatChannel`: weak fairness of the ticker (`Send`), the retry loop, the
  execution of commands and of each goroutine inside an update; strong fairness
  of the backend handling, and the agent reading, a heartbeat that is sent again
  and again. None for downloads to succeed, broadcasts, the cooldown, releases or
  crashes.
- `AlertBranch`: weak fairness of heartbeats, of time (a task comes due) and of the
  next step of every process: the worker runs for ever, the scheduler starts the
  sweep every five seconds. None for the condition, saves, resets or crashes.
- `BrowserSession`: weak fairness, per tab, of what answers a refresh or lets the
  access token lapse, which lives for fifteen minutes; for the tabs in `Polling` also
  of asking for the refresh, because the dashboard polls while it is in front. A tab
  on any other page sends nothing until its user does, and may show an ended session
  for ever. None for the user, the network, or the grace period.
- `ServerPage`: weak fairness of the commit of an open transaction, of hearing what
  is on the wire, and of reading and delivering a fetch. None for joining the
  channel, for users or for the server to change.
- `GraphEditor` has safety properties only.

## 4. What is proved

`AgentLifecycleProofs` holds for every set of servers, agents and tokens, given
only that the two null values are not agents and servers (`NullAssumption`) and
that `Overlapping` is a Boolean.

- `TypeCorrect`: `Spec => []TypeOK`, with overtaken requests too. One lemma per
  group of actions; `TypeOK` is inductive because a half-done request holds
  typed data.
- `OneWorkingToken` (`OneTokenPerServer`) assumes `~Overlapping`: every action either
  clears tokens or is `MintToken`, which clears all other tokens of its server. With
  overlap two requests may each create a token after both have revoked;
  `OnlyOvertakenMintsDuplicate` proves that nothing else gives a server a second one:
  no registration, expiry or detach, and no request that was overtaken before it
  revoked.
- `LiveServersAreOwned` and `ArchivedServersStayArchived` assume
  `~Overlapping`. `LiveServerIsOwned` is not inductive alone: a heartbeat or
  revocation that ends could bring anything, and an archived server whose status
  were online would pass the monitor's guards. `SerialInv` adds that no request
  is half done and that a soft-deleted server has status archived; with it each
  handler's own guard is enough. The theorem about archived servers is an action
  property from the same invariant.
  Without the assumption `LiveServerIsOwned` is false: the run `resurrection`
  shows one way.
- `RevocationsAreComplete` (`RevocationTakesEveryServer`, again for
  `~Overlapping`): only a registration, an uninstall and a deregistration revoke;
  the last two take every monitored server, the first revokes an owner that has
  no other one.
- `OnlyLateWritesDisown`, `OnlyLateRevocationsLeaveServers` and
  `OnlyLateWritesUnarchive` say what is left of the three when requests overlap,
  from the types alone. What `LiveServerIsOwned` says of a server becomes false
  only by the late write of a heartbeat, a monitor job, a page that shows the
  server, a detach or a revocation (`LateWrite`); only a late revocation leaves a
  monitored server with the agent it revokes; a deleted server stays deleted, and
  only a late write takes its status from "archived" (`LateWrite`, or
  `LateStatus`: a registration, an expiry, a request for a token). A registration
  reads outside its transaction as well, but what it read decides neither: the
  server it writes gets an active agent or keeps the one it has, and whether the
  displaced agent has another server is asked inside the transaction
  (`RegisterKeepsOwned`, `RegisterLeavesNone`). Requests for a token, expiries and
  archives may be overtaken as well and disown no live server. So the handlers to
  lock are named, and the list is complete for the model, in which one request at
  a time is half done.

`OfflineBoardProofs` holds for every set of users that does not contain the null
assignee (`NobodyAssumption`), with overtaken jobs.

- `TypeCorrect`: `Spec => []TypeOK`.
- `OfflineServersAreOnBoard`: `Spec => []OfflineIsOnBoard`. The property speaks of
  states with no job under way, so it says nothing about the steps in between.
  `BoardInv` adds them: as long as `outdated` is false, a server that is offline
  although it is heard, or offline and not on the board, has just been marked by
  the overtaken job, which is about to open the row. A job that ends in any other
  situation either finds the board as it should be or sets `outdated`.
- `ClaimsAreKept`: `Spec => ClaimIsKept`. `Cleared` and `Settled` keep a row with an
  assignee; a board read that resolves by primary key deletes one only if it was
  claimed after it was read, which sets `outdated`. What else takes the assignee
  away opens the row for an outage that begins, or for the one the overtaken job has
  marked (`AboutToOpen`); another late opening sets `outdated`.

`AuditQueueProofs` holds for any events, batch size, compaction threshold and
number of crashes and of failures of the disk.

- `TypeCorrect` assumes nothing about where the agent dies. `Places` goes with it:
  what of the batch and of the failed events lies behind the offset fits the
  file at each program point.
- `NothingIsLost` (`NoLoss`) and `QueueDelivers` (`ImplementsDelivery`) assume
  `"renamed" \notin CrashAt`: the agent does not die between the two steps of a
  compaction. The invariant `Content` says where an accepted event is at each
  program point: still behind the offset, in the part of the batch not yet
  posted, stored, among the failed ones that the drain has appended or is
  about to, or refused by the disk. With it every step of the queue accepts, stores,
  refuses, or leaves what is owed (`Owed`) as it was, which is the refinement. The last
  assumption is needed: section 5 says what happens without it.

`HeartbeatChannelProofs` holds for every finite set of commands
(`CommandAssumption`), any buffer size and any number of releases.

- `TypeCorrect`, together with the fact that neither buffer holds a command twice.
- `CommandsRunOnce` (`AtMostOnce`) and `AnsweredCommandsRan`
  (`AnsweredMeansExecuted`) follow from `CommandInv`: an identifier is in one place
  at a time (`PlaceOf`: pending at the backend, in an answer, to be executed, executed),
  and moves forward only. That a full buffer forgets an identifier does no harm
  because the backend sends each one once.
- `BinaryStays` (`BinaryIsThere`): only a goroutine between rename and download can
  be without an executable, and as long as it is alone the old copy exists.
- `ResultsAreKept` (`ResultIsKept`): a request carries what the buffer held when it
  was sent, so when a reply is under way the backend has all of it.

`BrowserSessionProofs` (any tabs, logins, tokens): `TypeCorrect`; `EndedStays`
(`EndedStaysEnded`), whose point is the write of a refresh that read the row
before the session was ended: it updates the token columns and leaves the
status alone; and a login takes a row nobody used.

- `CompromiseIsSlow` (`CompromiseNeedsDelay`), from `TokenInv`. `TokensApart`: a token
  is in one row at most, and a refresh that was read holds a token no other row
  has, so that a rotation cannot copy it elsewhere. `GraceInv`: unless the mishap
  is "slow", nobody holds the former token of a row whose grace period is over.
  The read that marks an active row compromised is one that was sent such a token.
  A row that was revoked or has expired is marked by the token before its last
  without any delay, which the property says.
- `NoTabTurnedAway` (`TurnedAwayForCause`), from `TokenInv` and `CalmInv`: as long as
  the browser remembers an active session and nothing went wrong, every refresh
  under way carries a token its row knows, and the cookie is the current token, or
  the former one with the current one in an answer, or two answers are under way
  (`Behind`) - which is why a refresh sent just then is a mishap.

`GraphEditorProofs` (any nodes, settings and scopes): `TypeCorrect`;
`EdgesEndAtNodes` (`NoDanglingEdges`), proved with the types because a graph moves
between canvas, history, snapshot, cache, requests and store, and all of them
must be whole; `HistoryIsUpToDate` (`HistoryShowsGraph`), whose invariant relates
the current entry to the canvas for each reason a snapshot may still come;
`PanelIsUpToDate` (`PanelShowsNode`); `CleanIsStored` (`CleanMeansStored`). Behind the
last is `CleanInv`: at most one save belongs to the editor as it is now, and the
snapshot is the stored graph, except between the moment that save is stored and
its answer, when the stored graph is the one the save carries. An answer makes
the graph sent the snapshot, so both agree again.

`ServerPageProofs` (any spans and bounds): `TypeCorrect`; `HeardStaysFetched`
(`HeardIsFetched`) and `CacheMovesForward` (`NeverGoesBack`) from one invariant,
which adds `Ordered`: no cached state is newer than the answer under way for its
span, and no answer, announcement of something committed or `due` newer than the
server.

`AlertBranchProofs` (any servers, workers, sweeps, pages):

- `TypeCorrect`, which contains that a server never has two tasks of one branch,
  however the writers of the index interleave.
- `PhaseKeepsItsTask` (`PhaseHasTask`). The property speaks of servers nobody is at
  work on; `PhaseInv` says what holds meanwhile. While nothing has gone wrong with
  a server, one process at most is at its incident (`OneEngaged`): it starts the
  window, on an idle phase and with no task in the cache (`StartsAfresh`), or it
  has the task in its hands, and the cache has none (`CarriesTask`). With nobody at
  it, a phase that is not idle has its task in the index, and a task in the index
  has its body and its phase (`TaskSomewhere`, `TaskHasPhase`). All of this may
  fail for a server whose task somebody is cancelling (`Cancelling`); when the
  cancellation is done, the server is either in order again or has had a mishap.
  `Handy` says what a process holds at each program point. An action
  of one process disturbs other servers only by writing back a whole index, and
  the lemmas about `Copied` and `Overwritten` say that this is a mishap of every
  server it changes against what was read.

Every safety property of a passing run, state invariant or action property, is
the subject of a theorem. Only model-checked are the liveness properties, which are
beyond the proof system (as is `ENABLED`): `SilentServerGoesOffline`,
`RecoveredServerComesOnline`, `StaleRowIsCleared`, `EventuallyStored`,
`ResultArrives`, `UpdatesEnd`, `AlertComes`, `Settles`, `EndedSessionSignsOut` and
`HeardIsShown`. The theorems are about safety under the assumptions named above;
those that except a mishap do not say how often it happens. No module declares a
recursive operator.

## 5. What the models found

Two statements of the repository are refuted by a run; each finding in
`PROJECT.json` quotes the statement.

1. A heartbeat that passed the no-resurrection guard before a detach committed
   brings the decommissioned server online, for good (`resurrection`).
2. The repeats of an alert do not end at their cap: every repeat task carries the
   `repeat_count` of the first fire, which wins over the stored one
   (`NodeConfigEngine.php:505`, against `DocsUserGuideContent.tsx:1028`;
   `repeats_are_capped`).

The models reach the following as well; no run is kept for them.

Lifecycle and health:

- A registration can leave its displaced agent active and without a primary
  server (`AgentController.php:548`). From then on an acknowledgement violates
  `activities.server_id` and every heartbeat with one rolls back
  (`HeartbeatService.php:880`).
- A page view that notices silence first marks the server offline without a
  disconnect event (`ServerData.php:369`): the monitor job finds nothing to do,
  and the outage is missing from the audit trail and from the alerts.
- `forceReinstallToken` clears `agent_deleted` when the token is minted; a detach
  before it is used sets it again, `register` does not clear it, and the server
  then neither accepts heartbeats nor is monitored.
- A server whose owner was revoked keeps `agent_id`; after a new token for it is
  generated, a registration of that same installation for another server makes
  its heartbeats acceptable for this one as well.
- `register` reads the token outside its transaction: two registrations with one
  token both succeed.
- Two requests for a token of one server that both revoke before either creates leave
  two install commands that work (`ProvisioningService.php:36-51`, `:143-159`).
- A page view keeps the agent it read and writes offline on that reading
  (`ServerData.php:361`): a detach or an archive in between is overwritten, as by the
  monitor job.
- `ServerController::detachFromAgent` always fails: the class does not import
  `ServerStatus`, which it names before its first write (`:687`, `:700`).
- `MonitorServer` turns a server that waits for its first heartbeat offline;
  `ServerData` takes care not to.
- The claimed rows that `MonitorServer` and `HeartbeatService` would complete on
  recovery have status in_progress, and both look for open ones: `Cleared`
  leaves them, and a board read completes them later.
- `DashboardController::updateStatus` raises for every status but completed.

Agent:

- A crash inside a compaction, between renaming the new file and saving the new
  offset, makes the next start read from the old offset in the shorter file: the
  undelivered events before it are skipped (`eventqueue.go:266`). With `CrashAt =
  {"renamed"}` TLC finds `NoLoss` violated; it is the assumption of
  `NothingIsLost`.
- A crash after the failed events were appended and before the offset is saved
  can leave one uuid twice in one batch, which `AuditController.php:71` refuses,
  again and again. So can a failed sync, after which `Drain` returns with the offset
  where it was. `PartDelivered` has the guard; `EventuallyStored` excepts it.
- A failed event that the disk does not take back is lost: `eventqueue.go:176-179`
  logs "event may redeliver late", and the offset moves past the original all the
  same.
- Commands are not sent again once they are marked sent (`HeartbeatService.php:570`),
  whatever ADR 0005 (lines 29-30) says: one whose answer was lost is forgotten.
- `main.go:885` writes the new version into the configuration before the update is
  tried, so a failed one is reported as done and not advertised again, although
  `util.go:356-358` counts on "every heartbeat" advertising it.
- A repeated heartbeat stores a second `command_results` row.
- An update by broadcast does not write the version, so the next heartbeat
  advertises it once more and the agent restarts twice.

Alert rules:

- Saving a configuration cancels the tasks and leaves latch and phase, unlike a
  change of scope: an incident under way then never alerts. `AlertComes` excepts it.
- A failed check at timer fire leaves the latch armed until the condition clears, so
  the incident is not evaluated again.
- The code that re-arms a chain on a stale phase (about lines 614-632 of
  `NodeConfigEngine.php`) cannot be reached while the latch is armed.
- "latch releases only when ... no evaluation is in flight" (lines 186-190) fails
  while a sweep holds the task it removed: the notification is then sent after
  the release and its row stays (`orphans`).
- A process that dies between the release of the latch and the clean-up of the board
  (`NodeConfigEngine.php:196`, `:197`) leaves the row open; no later heartbeat finds a
  latch to release (`orphans`, excepted by `Settles`).
- An index entry without a body makes `schedule` skip: nothing is scheduled.
- With two queue workers, an evaluation that read the idle phase and saw the
  condition end may save "idle" over the "pending" of one that saw it hold: the
  task comes due without a phase (`NodeConfigEngine.php`, the save after
  `onHeartbeat`). With two workers and without `Outdated` in `Evaluate`, TLC finds
  `PhaseHasTask` violated. `compose.yaml` starts one worker; nothing in the code
  says that it must.
- Every repeat takes the board row away from whoever was assigned to it.

Sessions:

- Two tabs that refresh at the same time and read the same row both rotate; if
  their answers arrive in the other order the cookie holds a token the backend
  no longer knows, and every tab signs out although the session is active. The
  docs promise a "30-second grace window (multi-tab safety)"
  (`DocsTechnicalContent.tsx`, about line 952); it covers only the refresh that
  comes after the other was written.
- With three tabs no lost answer is needed: two refresh in turn, the third sends
  the cookie before either answer has arrived, and its token is two rotations old.
  It is refused and signed out, seconds after the token was current.
- Two lost answers in a row strand a session: only one earlier token is accepted.
- Permanent deletion removes the row, and `JwtGuard` asks only for rows that are
  revoked or compromised: the access token of a deleted session is accepted
  until it lapses.
- A session that was revoked or has expired is marked compromised as soon as
  somebody presents the token before its last, which an honest tab does whose
  refresh is overtaken by another tab's and then by a logout:
  `RefreshTokenRotationService.php:36-57` asks for "active" and for the grace
  period in one condition and takes everything else for reuse.
- A tab on any page but the dashboard sends nothing by itself and goes on showing the
  account of a session that has ended.
- A logout whose request fails signs out in the browser only. A tab goes on
  showing the old account when another tab logs in elsewhere.
- The comment on reuse in `JwtAuthContext.tsx:121-125` is older than the grace period.

Graph editor:

- Edits in the body of a node never enter the undo history, and those made in the
  frame after an undo or a deletion do not either (`missed`).
- The settings panel works on the copy it took when the node was clicked and
  writes all of it back: an edit in the body or an undo in between is lost. It is
  merged, so a key that the copy lacks survives on the node, and panel and node then
  differ even after the panel's edit (`drifted`): store a sustained node without repeat
  keys, switch repeats on, undo, open the panel, redo, edit in the panel.
- An undo within the 300 ms of a pending snapshot drops the edit.
- A lost answer to a save followed by an undo disables Save although the backend
  holds the edited graph; a save answered after the scope was switched declares
  the other scope clean (`apart`).
- A remount within the stale time loads the old cached graph, and a save then
  overwrites a newer one.
- The fetch of an emptied scope copies the global graph into it
  (`NodeConfigController.php:171`), against `DocsUserGuideContent.tsx:1092`.
- `measured` and `selected` take part in the comparison that decides whether
  there are changes (about line 920), so the editor is practically always dirty.

Server page:

- `useServerSocket.ts:188-190` says of the uninstall event "It must always be heard
  so an online server flips to agent_uninstalled in realtime". It is sent inside the
  transaction (`AgentController.php:383`, `:487`), as are
  those of registration and recovery (`ProvisioningService.php:430`,
  `HeartbeatService.php:510`): a page that fetches before the commit keeps the old
  state.
- An event heard while the first data are loading joins that fetch, which may
  have been answered before the change (`detail.tsx:277` means to miss none).
- Events during a rejoin or a dropped connection are lost and nothing fetches
  afterwards; no page listens to `ProvisionTokenGenerated`.
- Switching the time span, or returning within two minutes, may show an older
  state of the server, since each span has an entry of its own.
- A background fetch that fails shows "Server not found." until the next event.

## 6. Not modelled

- The agent's own session: challenge, short-lived token, one re-authentication
  on 401 behind a mutex held over network calls (`client.go:81`). `AuditQueue` and
  `HeartbeatChannel` take it as a session that comes back. A model would state
  that no goroutine keeps the mutex for good, which rests on HTTP timeouts alone.
- A configuration push that arrives after a newer one (`runtime.go:76`): the agent
  takes the last it hears; the backend decides what a heartbeat may change.
- The file watcher's correlation of rename halves (`fswatch.go:216`, `:274`): what
  the operating system delivers, and in which order, is outside the repository.
- Detach and uninstall markers (`main.go:380`): files shared with shell scripts; the
  backend's half is in `AgentLifecycle`.
- Upload intents: `CleanupExpiredUploadIntents.php:32` against an attach of the
  same intent. Two writers of one row and one stored file.
- Torn lines in the queue file (`eventqueue.go:122`): `AuditQueue` appends whole events.
- Of the alert engine: chains, check-after, repeats of post-actions, the rules
  inside conditions, the graph compiler; tasks of an hour or more, which leave the
  cache before they are due (`NodeTaskScheduler.php:67`); the fallback update without
  a server (`NodeConfigEngine.php:1215`), whose unique violation needs more than the
  one worker `compose.yaml` starts. Two workers that both find the latch open
  (`NodeConfigEngine.php:203`) are in the model, where the second `Arm` is a mishap,
  and not in the run.
- Online seconds (`HeartbeatService.php:471`): a sum of times, abstracted everywhere.
- Everything `PROJECT.json` lists as pure I/O, presentation or single statements.

What would add most next: a model of the agent's session and its mutex; upload
intents.
