# DokeBrowser in TLA+

DokeBrowser keeps many browser profiles apart. A desktop console (`src/src/app`, Qt/QML with an
SQLite database) edits profiles, owns a pool of proxies and tells a separate agent process
(`src/src/agent`) over a local socket (`src/src/shared/ipc`) to start and stop browsers, to test
proxies and to run OpenVPN. The agent starts Chromium, one process per profile, each with its own
data directory, proxy mapper, extension and CDP connection.

This directory holds specifications of both programs, the TLC configurations that check them on small
instances, and TLAPS proofs of their safety properties for every instance. `PROJECT.json` says which
lines each definition stands for. Paths below are relative to `src/` of the repository.

- [1 The system](#1-the-system)
- [2 The modules](#2-the-modules)
- [3 What the runs check](#3-what-the-runs-check)
- [4 Fairness](#4-fairness)
- [5 What is proved](#5-what-is-proved)
- [6 Findings](#6-findings)
- [7 What is left out](#7-what-is-left-out)
- [8 Plan](#8-plan)

## 1 The system

Both programs have one thread, an event loop. A handler, a Qt signal or a timer callback runs to its
end before the next one, so each is one atomic action here. What interleaves is the order of client
messages, of the operating system's processes, of network replies and of single-shot timers, and two
*processes* that share the database file.

| Component | State | Operations | Hard behaviours |
|---|---|---|---|
| Browser processes (`ProfileRuntimeManager`, `SystemChromeEngine`) | process table, stop requests, five tables of launch resources, timers | profile.start, profile.stop, QProcess started / finished / errorOccurred, 1200 ms kill timer, 900 ms check, compatibility relaunch, CDP polling, destructor | callbacks that name a process by profile, resources released too early or never, relaunch against stop |
| Proxy pool check (`AppController`) | batch id, queue, slots with request ids, 200 ms timer, waiting assignment | test all, cancel, result, tick, connection lost or back, assign | late, lost and reordered answers, timeouts, replaced batches |
| Profile proxy tests (`AppController`) | the same for profiles, and the single test that joins a batch | test checked, test selected, result, tick, cancel, delete | the same profile twice in one batch, deletion meanwhile |
| Geo lookup (`AppController::applyProxyGeoToProfile`) | per lookup: attempt counter, open requests, "sent" | attempt, answer, refusal, timeout | a timeout advances twice, overlapping lookups |
| Database (`ProfileRepository`) | eight SQLite tables | save, remove, import, assign, rotate, release, history rows with retention | transactions of several statements, failures between them, a second console |
| Proxy test runner (agent) | attempt, reply, timer | start, answer, timeout | double advance after `abort()` |
| OpenVPN (agent) | process and password-file tables | start, stop, signals, destructor | failed starts, leaked password files |
| IPC (`FramedJsonSocket`, `IpcServer`, `IpcClient`) | read buffers, one current peer, retry timer | connect, replace, send, receive, disconnect, retry | torn frames, a second client takes over and comes again, the agent dies, nothing is sent again |
| HTTP proxy mapper (agent) | per connection: header buffer, upstream | accept, header, connect, bytes | bytes before the upstream is connected |
| CDP client (agent) | its socket | connect, page attached, socket closed | pages that open, close and navigate while commands to them are on their way |
| Console profiles (`AppController`) | list, selection, checked set and its copies, statuses, rows in the database | create, start, stop, delete, check, edit, one or many; status messages | memory beside database rows, statuses written ahead of the agent, refused writes |
| Launch configuration and engine choice | none kept | executable, probe, what is native and what is left to the agent | a probe that fails, a profile that claims too much |
| Fingerprint metadata, list models, QML, tools, Chromium patches | (no protocol of their own) | | |

How they interact. The console sends `profile.*`, `vpn.*` and `proxy*.test` frames through
`IpcClient`; `IpcServer` calls the managers of the agent and sends their reports to the peer that is
current, proxy test results to the peer that asked. A test's success makes the console start a geo
lookup of its own over HTTP. Assignments are made in the database and read back into the list; a
save writes the item in memory to the database. A change of status is written to the history tables.

What makes each part correct:

- *Browser processes*: one browser per data directory; what a launch was given lives exactly as long
  as its browser; "stopped" is true; a stop ends the browser, is answered, and hits no other browser.
- *Test batches*: bounded and used slots, no late answer overwrites a newer one, every batch ends.
- *Geo lookup*: writes at most once, tries every provider, follows the newest exit address.
- *Database*: an operation happens at once or not at all and its answer is true; a proxy has at most
  one profile; history is bounded.
- *IPC*: a request is answered to its asker, a status reaches whoever is connected, framing neither
  loses nor invents a message, a console that lost its agent gets one again.
- *OpenVPN*: one process per profile, password files accounted for, a kill hits only what was stopped.
- *Proxy test*: answered once and only to its asker, whichever attempts overlap.
- *Console profiles*: a status at rest is no lie, the database has what is shown, bulk operations reach what
  is shown as checked.
- *Launch, CDP*: a fingerprint field that the browser does not fake itself is left to the agent and is in
  force for the pages shown.
- *Mapper*: bytes keep their order and the credentials come first.

The hazards are listed line by line in `PROJECT.json`, each with the property that watches it or the
reason why none does.

## 2 The modules

| Module | What it is |
|---|---|
| `ProfileRuntime` | the agent's browser processes |
| `ProfileRuntimeProofs` | its theorems |
| `ProxyPoolBatch`, `ProxyPoolBatchProofs` | the health check of the proxy pool and the assignment that waits for it |
| `GeoLookup`, `GeoLookupProofs` | the geo lookup of a profile |
| `ProxyTestBatch`, `ProxyTestBatchProofs` | proxy tests of profiles; extends `GeoLookup`: a success begins a lookup |
| `ProfileStore` | abstract: what the database promises to its consoles |
| `ProfileRepository`, `ProfileRepositoryProofs` | the transactions that implement it, statement by statement |
| `OpenVpn` | the agent's OpenVPN processes and their password files |
| `FramedJsonSocket` | one direction of a connection: frames in a byte stream |
| `ProxyTestRunner` | a proxy test in the agent |
| `ProxyTestCall` | abstract: what the agent promises to whoever asks for a test |
| `Agent`, `AgentProofs` | composes the three: server, client, console and a second client; implements `ProxyTestCall` |
| `ProfileConsole`, `ProfileConsoleProofs` | the profiles in the console, against the agent |
| `BrowserLaunch` | what is decided for a launch, as operators |
| `CdpClient` | the DevTools client and the browser it talks to; extends `BrowserLaunch` |
| `HttpProxyMapper` | one connection of the proxy mapper |
| `BrowserSession`, `BrowserSessionProofs` | one launch: composes `BrowserLaunch`, `CdpClient`, `HttpProxyMapper` and the process |
| `MC…` | the instances for TLC, each with its `.cfg` |

### ProfileRuntime

`proc` is `m_processByProfileId`, `stopReq` is `m_stopRequested`. The five resource tables (mapper,
extension directory, runtime.json, CDP client, debug port) are one function `table[p][k]`, which holds
the launch an entry belongs to; `live[k]` holds the launches whose resource of that kind exists,
whether a table still names it or not, so that a lost resource is a state that can be seen.
`cleanupProfileResources` takes the entries and releases what they name; `Start` calls it before it
inserts, as the code does. `ExtensionDir` and `runtime.json` are files (`FileKinds`), the rest objects.

A `Proc` is a `QProcess` object: a launch takes a fresh one, and the compatibility relaunch starts the
*same* object again (`FinishedRetry`). `owner` is the profile id its lambdas captured. `signals` is
what was sent to the OS process that runs; a relaunch clears it. `KillTimer(p)` looks the process up
by profile when it fires, as lines 200–205 of `ProfileRuntimeManager.cpp` do. A profile.start has one action
per way `handleMessage` ends: already running, refused, runtime.json not written, launched (and then
spawned or failed at once, inside the handler).

### ProxyPoolBatch and ProxyTestBatch

A request is a proxy (or profile), the batch it was made for and a number that stands for its UUID.
`wire` holds what was sent and not answered; an answer may come in any order, late or never.
`Pump` is `pumpProxyPoolTestQueue` / `pumpProxyTestQueue`: it drops expired slots, fills slots from
the queue and ends a batch that has neither queue nor slots. Every handler that pumps in the code pumps
in its action. Time is left out: a tick may find any slots expired. The queue is a set, because no property
depends on its order. In `ProxyPoolBatch` an assignment without a healthy free proxy is remembered
(`pending`), starts a batch if none runs, and is made when a batch ends. In `ProxyTestBatch` the
selected profile may be put into the running batch; profiles may be deleted at any time.

### GeoLookup

The lookup of test `t` of profile `p`: `used` is the shared attempt counter, `open` the requests
without a reply, `settled` the shared "sent" flag. `Timeout` runs `doAttempt` twice, because `abort()`
emits `finished` before it returns and the timer's handler then advances as well. `geoOf` is a history
variable: the test whose exit address the profile's language, timezone and position belong to.

### ProfileStore and ProfileRepository

`ProfileStore` has the committed state `db` (listed profiles, their proxy configuration, assignments,
the pool, how many history rows each has) and the last answer each console got. An operation changes
the state at once and answers "ok", or changes nothing and answers "failed".

`ProfileRepository` has one action per SQL statement, for consoles that have the same file open:
nothing in `app/main.cpp` keeps a second one from being started, and both name the same file. A call
is the record `call[c]` with its next statement. `Begin` is the early part of every call, with the
reopening of the connection by `ensureSchema`. `assignNextAvailableProxyToProfile` picks its proxy
*outside* the transaction and checks it again inside; `rotateProxyForProfile` picks inside. Any
statement may fail (`StatementFails`, followed by the rollback the code calls). A commit may fail
(`CommitFails`): the code returns without a rollback, so lock and open transaction stay until the next
call reopens the connection. A console may be killed between two statements (`Killed`).

SQLite is external, modelled from how it is used: deferred transactions, a private copy from the first
read, one writer at a time, a commit that needs everyone else out of the file, rollback when a
connection is lost, the foreign keys and the unique index of the schema. A statement that cannot get
its lock fails or, in the model, is not taken; both are covered because it may always fail.

### Agent, with OpenVpn, FramedJsonSocket, ProxyTestRunner

`conn` lists the connections in the order they were made; the server's `peer` and the client's `socket` are
indices into it, and each has a stream in either direction. A stream is the bytes on the wire and the reader's
buffer; a byte is the message it belongs to and its place in the frame, so that a frame may be cut
anywhere (`readAll(stream, k)`). `onReadyRead` reads what is there and then takes out whole frames one after the
other: while a side has a whole frame in its buffer, nothing else of that process runs (`AgentIdle`,
`ConsoleIdle`). A new connection replaces the peer; the old one is closed when its `deleteLater` runs.
Statuses go to the peer of the moment (`toPeer`), a test result to the connection that was the peer when the request
was read (`toAsker`: the code's `QPointer`).

A launch of OpenVPN is a number; `launch[n]` says whose it is and how its process is, `vpnProcess` and
`vpnFile` are the manager's tables, `files` what is on the disk. What an action reports is its parameter `said`, which the action that
composes it sends. A failed start leaves its table entries, as the code does. `ProxyTestRunner` keeps the state that `doAttempt` shares with its
callbacks: `flying` may have two attempts, because `abort()` emits `finished` before it returns.

The agent may die (`stopAgent` of the console ends in `kill()`): tables and timers are gone, processes and files
are not. `CallsSettled` is the refinement: `ProxyTestCall` with `call` read off the streams, the runner and the console's counters.

The other client may be a tool, which connects once, or a second console, which has the same `IpcClient` and connects again as soon as
it is replaced. Both are `otherConnects`, which is possible whenever the agent is up, as often as `MaxEvents` lets it. Connections have
numbers, so without a bound there is no end of states; the safety properties are proved for every bound. The one property that depends on an end
of the visits, `Reconnects`, says so in its premise (`OthersStayAway`; section 4).

### ProfileConsole

A row is an id and a status ("ended" stands for stopped, crashed and error); `stored` is the database, which may
refuse any write, with whether the rest of a row is as it is shown. The agent side (`proc`, `stopReq`) is the
process table of `ProfileRuntime`, one process per profile, reduced to what it reports. The checked set is there four
times, as in the code: `checkedSet`, `checkedIds`, and the filter's two. Every handler ends with the
calls the code ends with (`emitCheckedProfileIds`, the selection clamped to the list). Reports of a
profile find its row by id or find none. The connection may be replaced by another client, break, or be
closed with the console, which reads everything from the database when it starts again.

### BrowserSession, with BrowserLaunch, CdpClient, HttpProxyMapper

A launch is decided from a request and a *world*: which executables there are, what the binary can do,
whether its probe answers, whether runtime.json and the extension can be written and a port be had.
`plan(r, w)` is what comes out: which fields are left to CDP, to the extension and to arguments, whether there is a CDP client and a mapper. A request says
which fields it sets, not to what.

`CdpClient` sends a page that is attached its commands, in the code's order, and then reload or navigate; the browser runs
them in order, and meanwhile pages open, close and navigate. Of a page the model keeps the overrides in force and those its document was
loaded under. `HttpProxyMapper` is one connection, whose data arrives in pieces: one `buffer` holds first what
came with the request and then the answer to the CONNECT, as in the code.

`BrowserSession` adds the process, with its compatibility relaunch, and the polling of the DevTools port, which goes on across
the relaunch but is not started again.

## 3 What the runs check

| Run | Instance | Shows |
|---|---|---|
| `profile_runtime` | 1 profile, 2 launches, a file and an object resource, 2 kill timers | `OneBrowserPerProfile`, `ResourcesTracked`, `StoppedMeansGone`, `DestroyLeavesNoFile`; `BrowserKeepsItsResources`, `StoppedIsNotRelaunched`; `StopEndsBrowser` |
| `profile_runtime_stale_kill` | same | `KilledOnlyIfStopped` is violated |
| `profile_runtime_stop_answered` | same | `StopIsAnswered` is violated |
| `proxy_pool_batch` | 3 proxies, 2 slots, 2 batches, 1 profile | `BatchAtWork`, `OnlyNewestTestCounts`, `BatchEnds` |
| `proxy_pool_assign_waits` | same | `WaitsForCheck` is violated |
| `proxy_test_batch` | 2 profiles, 1 slot, 2 batches, 2 tests each, 2 providers | `BatchAtWork`, `OnlyNewestTestCounts`, `GeoOfRecordedTest`, `BatchEnds` |
| `geo_lookup` | 1 profile, 3 overlapping lookups, 3 providers | `WritesOnce`, `AsksEveryProvider`, `LookupEnds` |
| `geo_lookup_order` | 1 profile, 2 lookups | `GeoFollowsNewestTest` is violated |
| `agent` | 1 profile, 1 test of 3 URLs, 1-byte header and body, 3 events (requests, second clients, deaths of the agent) | `OneOpenVpn`, `PasswordFiles`, `FramesWhole`, `ResultToAsker`, `RunningIsRunning`; `KillsOnlyStopped`; `CallsSettled`, `Reconnects` |
| `profile_console` | profiles, requests, losses and restarts together 4; 2 reports on the way; 1 row behind | `QuietStatusIsTrue`, `StoredAsShown`, `ViewsAgree` |
| `browser_session` | 15 launches (`MCOffered`), 2 pages, another target, 2 polls | `PagesCovered`, `MapperInOrder`; `PageSettles` |
| `profile_repository` | 2 consoles, 2 profiles, 2 proxies, 1 row kept | `TypeOK` (with the promises of the store), `ImplementsStore` |

Each run also checks its module's type invariant.

Why the bounds are enough. Profiles do not touch each other in `ProfileRuntime`: one is enough, and two
launches let everything the first leaves behind (timer, check, attach chain, stop request, table
entries) meet the second. Two kill timers are two stops of one launch. In the batches there are
fewer slots than candidates, so the queue is used, and two batches let a replaced or cancelled one
answer into its successor; two tests of a profile are an old and a new answer. Three lookups with the
code's three providers overlap in every order, three answers deep. Two consoles and two proxies for two profiles are a conflict
over one proxy, a pool that runs out and a rotation that finds something or nothing; keeping one row
makes the second row trimmed. The named bounds are `MaxKillTimers`, `MaxBatches`, `MaxRequests`, `Procs`
(launches) and `Keep`, which is 100 or 500 in the code.

In `agent`, one profile is enough for OpenVPN, whose tables have one entry per profile; three events are, for
example, a start, a stop and a start again, or a test, a client that takes the peer's place and an agent that dies. Frames of two bytes can
be cut in the header's end and the body's; larger ones were not found to add anything. Three URLs let a double
advance skip one and still fail with one to go. In `profile_console`, four events are one profile that is started, stopped and started again with
two reports behind, or two profiles with two requests. `MCOffered` has a launch for each branch of the decision: Chrome, with
extension or port denied; Doke Chromium that can do everything, nothing, or one thing, whose probe
fails, whose runtime.json cannot be written; each way to have no executable; a profile that declares nothing; a proxy with and
without a mapper. Two pages are one that is covered while the other comes and goes. The named bounds are
`MaxEvents`, `MaxReports`, `MaxBehind` and `MaxPolls` (25 in the code).

`profile_repository` uses the symmetry of consoles, profiles and proxies: no definition tells two of
them apart and neither of its properties is a liveness property; `profile_console` likewise that of
profiles. Deadlock checking is off in the passing runs whose system stops: `profile_runtime` after the destructor or the last launch the bound allows,
`geo_lookup` after the last lookup, `browser_session` after the launch, and `agent`
when the user asks for nothing more.

## 4 Fairness

Only what the platform does by itself is fair:

- `KillTimer`, `RunCheck`: Qt's event loop delivers an active single-shot timer.
- `Started \/ FailedToStart`: `QProcess::start` ends in one of the two signals.
- `KilledEnds`: a process that got SIGKILL ends. One that got SIGTERM may ignore it: it has no fairness, and
  `StopEndsBrowser` therefore rests on the kill timer.
- `EndingTick`: the 200 ms timer fires while it is active and, as time passes, finds an expired slot
  or a lost connection. Answers have no fairness: the agent may be silent.
- `Timeout` of a geo request: its 5 s timer fires if no reply came.

- In `Agent`: socket events and timers of both processes, the 500 ms retry timer, and for a test the end of each fetch,
  by itself or by its timer. Not the user, OpenVPN, the other client, or the start of an agent. `CallsSettled`
  does not depend on an end of the visits of other clients: a test is on its way over one connection, and a visit ends that for good.
  `Reconnects` does, and supposes it (`OthersStayAway`), besides an agent that stays up. The bound makes visits end in every
  behaviour of the instance; in the program nothing does. Two consoles that stay at one agent replace each other for ever, and there
  `Reconnects` without the premise would be false (section 6).
- In `BrowserSession`: the browser runs the commands it gets and announces its pages, the client handles what it
  is told. The port may never answer: `PageSettles` speaks of a client that is connected.

Clients and users have none. `ProfileConsole` has no liveness property and no fairness.

## 5 What is proved

Every invariant that a passing run checks is a theorem, and so is every action property. They hold for all
values of the constants, of which this is assumed:

- the bounds are natural numbers, and positive where a bound of 0 would leave nothing to do;
- values that stand for "nothing" or "root" are not also names (`ConstantsDistinct`, `NoneIsNoProxy`,
  `NoneIsNoProfile`, `ConfigsDistinct`); a page is not one of the other targets, and neither is the root session
  of a CDP client (`TargetsAssumption`), since the protocol gives each target a session id of its own;
- where slots, rows or profiles are counted or gone through one after the other there are finitely many
  (`ProfilesFinite`, `PoolFinite`): they are rows of a table;
- a frame has a header of at least one byte and a body of at least one (`FrameAssumption`): the header ends in a
  blank line and the body is a JSON object.

| Theorem | Says |
|---|---|
| `ProfileRuntimeProofs!TypeCorrect`, `OneBrowser`, `NoResourceLost`, `StoppedIsTrue`, `CleanDestruction` | the five invariants of `ProfileRuntime` |
| `ProfileRuntimeProofs!ResourcesOutliveBrowser`, `StoppedStaysStopped` | its two action properties |
| `GeoLookupProofs!GeoTypeCorrect`, `AsksEveryProviderHolds`, `WritesOnceHolds` | the two invariants of the lookup and its action property |
| `ProxyTestBatchProofs!TypeCorrect`, `BatchStaysAtWork` | the invariants of the batch |
| `ProxyTestBatchProofs!NewestTestCounts`, `GeoBelongsToRecordedTest` | its action properties |
| `ProxyPoolBatchProofs!TypeCorrect`, `BatchStaysAtWork`, `NewestTestCounts` | the same three of the check of the pool |
| `ProfileRepositoryProofs!StoreIsSafe` | every behaviour of the abstract store keeps `StoreOK` |
| `ProfileRepositoryProofs!TypeCorrect` | so does every behaviour of the transactions, with their types |
| `ProfileRepositoryProofs!Implements` | the transactions implement the abstract store |
| `AgentProofs!TypeCorrect`, `OneOpenVpnPerProfile`, `PasswordFilesKept`, `NoTornFrames`, `ResultsGoToAsker`, `ShownRunningIsRunning` | the invariants of `Agent` and the modules in it |
| `AgentProofs!KillsOnlyWhatWasStopped` | its action property |
| `AgentProofs!CallsAnsweredOnce` | every step of `Agent` is one of `ProxyTestCall` or leaves its tests alone: `CallsSettled` without its liveness |
| `ProfileConsoleProofs!TypeCorrect`, `ViewsStayInStep`, `StoredIsShown`, `QuietStatusHolds` | the invariants of `ProfileConsole` |
| `BrowserSessionProofs!TypeCorrect`, `FingerprintCovered`, `RelayedInOrder` | the invariants of `BrowserSession` and `HttpProxyMapper` |

In each module the argument is one inductive invariant `IInv`, true of the initial states and kept by each
action, one lemma per action or per conjunct. TLC checked each `IInv` on the instance of its run before it was proved.

**ProfileRuntime.** `IInv` is the conjunction of the invariants with `Owned` (what a profile's tables name was launched for that profile, and a `Proc`
that was never launched does nothing) and `StopRemembered` (only a live browser has
signals, and one that was asked to terminate is one whose stop is remembered). Without `Owned` a callback's profile might be
anyone; `StopRemembered` is what keeps the relaunch from bringing a stopped browser back. One lemma per
conjunct, one step per action.

**ProxyTestBatch.** `IInv` adds to `TypeOK` and `BatchAtWork`: `NewestHeld` (a slot holds the newest
request of its profile, and no recorded outcome is newer), `QueueHasRoom` (what is queued has requests
left within the bound), `BatchNamed` (a running batch has an id), `GeoRecorded` (an open lookup of a listed
profile belongs to a test whose outcome was recorded). Lemmas about `Pump` carry the cardinalities of slots, so each handler only has to say
what it gives to the pump.

**ProxyPoolBatch.** The same but for the assignments that a batch ends with: `NewestHeld` (with verdicts for outcomes),
`OncePerBatch` (a proxy is asked for once in a batch at most, and what is queued not yet in this one) and
`BatchNamed`. `AssignAll` goes through the waiting profiles in any order, by a recursive function on the
set of those that are done. That this function exists and gives total assignments is shown by
well-founded induction over finite sets, on their cardinality.

**GeoLookup.** The two invariants are inductive as they stand; `WritesOnce` needs only the types.

**ProfileRepository.** `IInv` says what the open transaction of each call has written so far:
the committed state *as it is now* with the effect of the statements before the next one (`InCall`, one
disjunct per kind of call). It is inductive because a commit needs every other connection to be out
of the file (`OthersKeep`): a transaction that has read or written anything saw the state it will
replace. A commit then is the abstract operation (`CommitIsAnOperation`), and every other step
leaves state and answer alone or begins, fails or kills a call (`StepImplements`). The reopening of the
connection at the beginning of a call is needed here: with it, `Begin` reaches a call without
transaction. Mutating it away breaks `ImplementsStore`.

**Agent.** `IInv` has one part for each thing the two programs keep. `VpnInv`: the tables of the OpenVPN manager name launches of
the profile they are filed under, which is what makes a second process impossible and a late kill hit its own launch
only. `StreamsInv`: what is buffered and on the wire of a stream are, together, whole frames (`Whole`); lemmas about `Frames` and
`Waiting` say what sending, reading any number of bytes and taking out a frame do to the messages still to be
delivered, for every length of frame, so that the other parts speak of messages and not of bytes. `ConnInv`: who is open, pending
or peer, and that a console that is not connected has no open connection. `TestInv`: a test is in
one place only: a request on one wire, run, or one result on the wire to its asker. `ReportsInv`: while
the console's first connection lasts, what it will show as running when it has read everything has a process.
`RunningIsRunning` speaks only of empty streams and would not be inductive without looking at what is on them.

`CallsAnsweredOnce` then goes through the actions again: each moves a test from one place to the next (`Ask`, `Answer`), takes a
connection with all that was to come over it (`Lose`), or changes no test. Most add no request and no result to a queue
(`NothingAdded`) and need only that. `AskerInv` (an asker's connection is one that the agent has taken) is the one fact beside `IInv`.

**ProfileConsole.** `StoredAsShown` and `ViewsAgree` are inductive with the types. `QuietStatusIsTrue` says nothing while a
report is on its way, so `IInv` has `LastReportIsTrue`: what the *last* report on its way says, or the row if there is
none, is no lie about the browser. A new profile starts with nothing, because agent, connection and console
remember only profiles that were listed once (`OnlyOfKnown`). Removing checked rows from the list one by one (`without`) is shown to leave
the others, each once, by induction on the rows.

**BrowserSession.** `PagesCovered` is about pages that are done; what makes them so is still queued some steps earlier. `Ordered`
says that no load of a page is queued before the overrides the page needs and does not have; `Unknown`, that
nothing is queued about a page that has not been announced, which is why a page that opens anew
starts clean; `Sound`, that a plan leaves no field to nobody, for every request and world. `MapperInv` says where each piece that was
read is at each stage: in the buffer, or written, and in what order; `MapperInOrder` alone would not
know what is in the buffer when the upstream connects.

Model-checked only: the liveness properties `StopEndsBrowser`, `BatchEnds` (of both batches), `LookupEnds`, `Reconnects`,
`PageSettles` and `Settles` in `CallsSettled`. Neither fairness nor `ENABLED` is within the prover's reach. The theorems of
the library that take an operator as a parameter, induction among them, cannot be used with the provers at hand either; where a proof above needs induction, it takes a
least counterexample from the well-foundedness of the numbers.

## 6 Findings

Each is a run in which TLC finds the property violated.

1. `KilledOnlyIfStopped` — the 1200 ms timer of a stop looks its process up by profile id. Stop, the browser
   ends, start within 1200 ms: the new browser gets SIGKILL (`agent/core/ProfileRuntimeManager.cpp:200`).
   `docs/DETECTION_BASELINE.md:115` documents that sequence as usual.
2. `StopIsAnswered` — a stop that meets a browser which then fails to start is answered "stopping" and
   never more (`agent/core/SystemChromeEngine.cpp:667`); `tools/doke_detection_baseline.py:1050` waits for
   "stopped" or "error".
3. `WaitsForCheck` — an assignment asked for without a connection is remembered although no check is
   started (`app/core/AppController.cpp:2099`); `HANDOVER.md:225` says that one is.
4. `GeoFollowsNewestTest` — the slow answer of an older lookup overwrites the newer exit address
   (`app/core/AppController.cpp:639`); `HANDOVER.md:91`.

Seen in the code while it was modelled, and not the subject of a run:

- Two consoles at one agent come to no rest. Nothing in `app/main.cpp` keeps a second console from being started, and a console whose own agent was
  stopped finds the other's by the common name. `onNewConnection` replaces the peer (`agent/core/IpcServer.cpp:57`), the
  replaced console reads the end of its connection, connects again at once (`app/core/IpcClient.cpp:81`) and replaces the other, which does
  the same. `HANDOVER.md:223` says only that the connection can be made again. In `Agent` each turn of this is an `otherConnects`
  and an `onDisconnected`; a run of it without end is excluded by `OthersStayAway`, not by the code.
- The compatibility relaunch starts no CDP poll (`agent/core/SystemChromeEngine.cpp:696`). If the port of the first browser had answered, the
  pages of the second get no CDP client, while `HANDOVER.md:134` has the CDP layer inject into every page target. In
  `BrowserSession` this is `browserRelaunched`, which leaves `polls` as it is; `PagesCovered` then speaks only of what arguments and extension carry.
- `HANDOVER.md:131` has credentials for http and https given by a temporary
  extension; the code starts the mapper first and falls back to the extension (`proxyMapper`, `enableProxyAuth`).

## 7 What is left out

Of the modelled components:

- `ProfileRuntime`: command lines, fingerprints, the texts of extension and runtime.json; of a request only
  which resources it needs. After the agent is *killed* its browsers live on; the model ends with the
  destructor.
- Batches: queue order, texts, timings, the history rows of tests; of an outcome only success or not, and
  whose. In `ProxyPoolBatch` the ranking of free proxies is "healthy ones first", ties are open.
- `GeoLookup`: the three JSON forms are "usable or not".
- `ProfileRepository`: `updateProxyHealth`, contents and order of rows (so not *which* row retention drops),
  the OpenVPN row a save writes third, log lines of no profile, the disabled flag (no operation of the
  console sets it), migrations, and the queries, which change nothing. `upsertMany` is a sequence of `upsert`.

- `Agent`: hello and log frames, the sizes of messages and a header that announces nonsense, `removeServer`
  by which a second agent would take the name, the agent's own browsers (`ProfileRuntime` has them).
- `ProfileConsole`: what the user edits (only whether the database has it), the text filters (any set of hits),
  groups (any set of profiles), the pool beside the list. That the next `updateAt` writes an
  assignment back over a newer one is not there: assignments are in `ProfileRepository`.
  A report of "running" 900 ms after a launch may come from the timer of an earlier launch of the same
  `QProcess` (`agent/core/SystemChromeEngine.cpp:640`); `ProfileRuntime` has the action, no line promises more.
- `BrowserSession`: one launch; the next has nothing of it left, by `ProfileRuntime`'s properties. Values of fields, the
  texts of inject.js, init script, runtime.json and arguments; `native_proxy` and `native_humanize`, which decide
  nothing yet. Overrides are kept by the browser while the client is connected.
- `HttpProxyMapper`: one connection, since connections share nothing. A body that is read while the upstream connects is
  written *before* the rewritten header (line 255); the model does so too, and `MapperInOrder` exempts
  it, because no document speaks of it. A second request on a kept-alive connection gets no credentials.
  A `Conn` is deleted when the browser hangs up, while the upstream socket still has handlers that
  name it; the model takes the upstream as closed from then on.

Not modelled: fingerprint metadata, the list models of pool and log, QML, the tools and the Chromium patches. They
are string functions, views, clients or another program. Of `AppController`: the loading and export of history and log,
the getters of the selected profile, `randomizeSelectedFingerprint` and the status of an engine probe.

Known, and without a property: a probe's late answer may put back the engine status of a changed configuration
(`AppController.cpp:374` after line 461); a second assignment during a batch replaces the list of the first (line 2077);
a deleted profile leaves its name in the view of the pool until the next refresh (line 2370).

## 8 Plan

1. Action properties beside the invariants, where an invariant does not tell what a step did: that an assignment of
   `ProxyPoolBatch` takes no proxy from a profile that is not one of those that wait, and that a reload of `ProfileConsole` never
   undoes a write that succeeded.
2. `ProfileRuntime` as an implementation of the agent side of `ProfileConsole`, which is the same process table reduced to
   what it reports.
3. That what `ProfileRuntime` names and what `BrowserSession` has for one launch are the same resources, so that a sequence of
   launches needs no argument in words (section 7).
4. Consoles, agents and the name of the socket without the messages, in a module that gives connections no numbers and is finite without a
   bound: there two consoles that take turns for ever, and one that is left alone, can both be stated for any number of visits.
