# sync-monitor in TLA+

sync-monitor is the daemon that keeps the calendars of online accounts in
sync with the Evolution Data Server (EDS): it collects requests of clients,
accounts and EDS in a queue, configures SyncEvolution for one account at a
time, runs a SyncEvolution session for it and reports the results. This
directory holds a TLA+ model of that logic, the runs of TLC that check it on
small instances, and proofs that TLAPS checks for every instance. Source paths
below are relative to the repository.

## The system

The daemon is one process with one Qt event loop. Nothing runs in parallel,
and yet very little is atomic: every answer of another process (signond, the
web service, `syncevolution`, the SyncEvolution D-Bus server, powerd) is an
event of its own, a signal is a synchronous call of its slots in the middle of
the handler that emits it, and a deleted QObject lives and stays connected
until the loop runs again.

| component | state | operations | modelled in |
|---|---|---|---|
| `SyncQueue`, `SyncJob` (`src/sync-queue.*`) | the list of jobs; a job is an account, sources or ALL, and a flag for paid connections | push (sources, job, queue), popNext, remove, clear, contains | `SyncQueue`, `TwoQueues` |
| `SyncDaemon` (`src/sync-daemon.*`) | two queues, current job, `m_syncing`, timer, accounts, `lastError` of each; the log of results, on disk | sync, cancel, continueSync, network changes, slots of the accounts; saveSyncResult, clearResultForSource, cleanupLogs | `SyncDaemon`, abstractly in `Scheduler`; the log in `SyncLog`, with `SyncResults` |
| `SyncAccount` (`src/sync-account.*`) | `m_state`, `m_config`, `m_currentSession`, wanted sources, sources on sync, results; `m_remoteSources` | sync, cancel, configure, continueSync, session statuses, setFinished; fetchRemoteSources; syncMode | `SyncAccount`; `AccountControl` for the daemon; the fetches in `SyncFetch`, the modes in `SyncLog` |
| `SyncConfigure` (`src/sync-configure.*`) | how far a configuration is; the stored sources of the peers and the local sources, the EDS collections | configure, configurePeer, continuePeerConfig, removeAccountConfig | its outcomes in `SyncAccount`, what it stores in `SyncConfigure`, the list it hears of in `SyncFetch` |
| `SyncAuth` (`src/sync-auth.*`) | a signon session | authenticate | its outcomes, in `SyncAccount` and `SyncFetch` |
| SyncEvolution proxies (`src/syncevolution-*-proxy.*`) | the server proxy, and the sessions as its children | openSession, destroy, statuses | `SyncAccount`, `SyncDaemon` (`dangling`) |
| `EdsHelper` (`src/eds-helper.*`) | frozen, enabled, the timer after a sync, pending calendars; collections | freeze, unfreeze, flush, setEnabled, calendarChanged; createSource, sourceByRemoteId, removeSource | `SyncDaemon`; `SyncConfigure` |
| `SyncNetwork` (`src/sync-network.*`) | offline, partially online, online | stateChanged | `SyncDaemon` (any change at any time) |
| `PowerdProxy` (`src/powerd-proxy.*`) | the wake lock | lock, unlock | `SyncDaemon` |
| `SyncDBus` (`src/sync-dbus.*`) | the published state; lambdas that wait for a list of calendars | attach, syncAll, syncAccount, cancelAll; listCalendarsByAccount | `SyncDaemon`; `SyncFetch` |
| `upstart/sync-monitor.conf.in` | | respawn | `SyncDaemon` |
| `NotifyMessage`, `ProviderTemplate`, `main.cpp`, QML client, `authenticator/`, account plugins, D-Bus types, templates | | | not modelled: user interface, static data, marshalling |

What calls what: SyncDBus, EdsHelper, SyncNetwork, the accounts library and the
timer call SyncDaemon; SyncDaemon pushes to the queues and calls `sync()` and
`cancel()` of one account; the account creates a SyncConfigure, then a session,
and answers by the signals syncStarted, syncError, syncFinished and
enableChanged, whose slots are in SyncDaemon; the daemon then starts the next
job, possibly of the same account, while the emitting handler is still running.

What makes it hard, and what should hold all the same:

* **Nested calls.** `syncFinished` is emitted in the middle of
  `setFinished()`; its slot may call `sync()` on the same account, which may
  fail at once and emit again. A sync must not see what the last one left
  (`NothingCarriedOver`, `ReportsWhatItStarted`).
* **Late messages.** A cancelled session is neither disconnected nor deleted at
  once; its statuses arrive in whatever the account does next. The account
  must keep state, configuration and session consistent
  (`SessionMatchesState`, `ConfiguringHasConfig`).
* **Partial failures.** A session that does not open, a call that starts the
  sync and fails, a server that stops, a configuration that is not saved, a
  program that does not start, a source that is never reported running. Each either ends the sync or is a named way to lose it, and
  nothing leads a sync that goes on back to where it was (`SyncEnds`,
  `SyncComesNearer`, `ComesToRest`).
* **One job at a time, of many requests.** Requests are merged, wait in two
  queues, move between them with the network and are repeated after some
  errors. Each is taken in whole (`RequestsAreHeard`), none is lost on the way
  (`RequestsAreKept`, `NamedJobsAreCarriedOver`, `WaitingIsKept`), none replaces
  a job that runs (`RequestsWait`), none runs on a connection it may not use
  (`MobileIsAllowed`), and the accounts take turns in the order in which they
  asked (`ImplementsScheduler`).
* **Stored configuration.** A configuration changes three places one after the
  other -- the peer, the collections, the local sources that all accounts share
  -- and each step may fail or be the last one of the process. Names of sources
  may collide. Whatever happens, the other accounts keep what is theirs
  (`OthersAreKept`), no calendar the service still lists is deleted with its
  events (`CalendarsStay`), and a configuration that was spared all of this has
  done what it should (`DoneIsConfigured`).
* **Resources around a sync.** Wake lock, frozen notifications, timer and
  published state go with the job on all paths (`JobIsCovered`,
  `IdleHoldsNothing`), and whatever ends, moves or fails, something goes on
  with the jobs that are left (`OnlyCancelsStrand`). Retries, jobs that move
  between the queues and changes that EDS flushes all lead to further syncs;
  left alone, the daemon must run out of them (`WorkRunsOut`, `ComesToRest`).
* **What the log decides.** The result of a sync, written to disk or dropped for
  a retry, chooses the mode of the next one, and one mode throws away what was
  changed on the device. Restarts, cancels, removals and retries must not turn
  a calendar that was synced into one that was not, nor the other way round
  (`LogIsLast`, `ModesFollowOutcomes`, `RetriesAlternate`).
* **One list, many who ask.** The configuration and any number of clients ask
  for the calendars of an account; each fetch clears and fills the one list,
  and an answer does not say whose it is. A client gets a list that was one,
  a sync the list of its configuration, and whoever waits is told
  (`AnswersAreLists`, `TakesWhatItListed`, `NobodyWaitsForNothing`,
  `FetchesAnswerAll`, `AnswersArrive`).

`PROJECT.json` lists these hazards with their lines, those that no property
covers yet among them.

## The modules

`SyncQueue` -- SyncJob and SyncQueue as operators on values. A job is a record,
a queue a sequence; a list of sources is a set, since no caller depends on its
order and none puts a source in it twice. `Remove` is `remove()` to the letter:
the jobs are edited in one list and looked up in a copy made before.

`TwoQueues` -- the daemon's two queues, one action per method, in every order.
This is the interface the daemon uses; what is shown here needs nothing of the
daemon.

`SyncAccount` -- one account and its environment. `calls` is the stack of
handlers that wait for the slots of a signal to return: `"slot"` and `"clear"`
for the rest of `setFinished()`, `"resume"` for the rest of
`continuePeerConfig()`. No event is handled while it is not empty, but the
daemon's slot of syncFinished may call `sync()`. `session` is
`m_currentSession`; `late` is a cancelled session that is not deleted yet. A
session is `lost` when its `Sync` call has failed, which
`SyncEvolutionSessionProxy::sync()` only logs (`ContinueSync`), or the server has
stopped (`SessionIsLost`): the account waits for it like for any other, but nobody
owes its end.
`tainted` is a history variable: a cancel has left something in the maps that
the next sync may find. `out` and `reported` are what the last step emitted.
`fault` names what stops the process: the assertion of `attachSession()`, a
null session, a deleted session.

`SyncFetch` -- the list of calendars of one account and everybody who asks for
it. A fetch is where it is (`phase`: waiting for signond, for the service, or
with an answer, `carries`); `remote` is `m_remoteSources`, `listed` what the
configuration has heard, `asked` the clients whose lambda is connected and
`answer` their first reply, as D-Bus drops the others. `Ends` emits
remoteSourcesAvailable(): the order of the connections matters when the slot of
the configuration starts the next fetch before the clients behind it are called
(`EmitAndConfigure`, `early`). `loose` is the queued session of
`configurePeer()`, destroyed and still connected; a further status then uses a
null interface (`stopped`). History variables: `ever` and `always` are what the
service listed while a client waited, at some time and all the time; `cleared`
that a client has cleared the list under a queued configuration.

`SyncResults`, `SyncLog` -- `SyncResults` has what `onAccountSyncFinished()`
makes of a list of results, as operators that `SyncDaemon` and `SyncLog` share:
which results it gets to, whether it asks for a new sync, and what `lastError()`
is. `SyncLog` is one account with its log on disk: each way a sync ends
(`SetFinished`), what is logged of it (`Logged`), the modes and calendars of the
next one (`SyncMode`, `Taken`), and what clears the log (`OnAccountSourceRemoved`,
`CleanupLogs` in `Restart`). A configuration is seen by what it leaves. History
variables: `last` is the code reported last for a calendar, `dropped` the
calendars whose last code was not logged, `retries` the syncs in a row that the
daemon has asked for again.

`AccountControl` -- what the daemon can observe of an account, as operators
from a control state to the possible outcomes: next control state and emitted
signals. `AccountInterface` is the specification made of these outcomes, and
`SyncAccount` is checked and proved to implement it (`ImplementsInterface`, by a
refinement mapping of its variables to a control state, `Visible`). `SyncDaemon` is
composed with `AccountControl`, one control state per account, so that its runs
do not carry the maps of every account.

`SyncDaemon` -- the daemon with its accounts, EDS, network, wake lock and
published state. `pending` holds the signals not delivered yet, the innermost
first; events are handled when it is empty. `ContinueSync` is `continueSync()`
with everything it calls: popping, parking in the offline queue, the flush of
EDS (whose changes come back as requests through `onDataChanged()`), the
removal from the offline queue, the wake lock, the published state and
`sync()` of the account. `Detached` is `SyncEvolutionServerProxy::destroy()`:
it deletes the sessions of all accounts, not only of the one that has finished.

`Scheduler` -- what the daemon promises to those who ask, without jobs,
calendars, collaborators or control states of accounts: who has the turn, who is
in line or parked, whether the timer is due, and what state is published.
Accounts join a line only at its end (`Joined`); only the first in line gets the
turn; nobody leaves the lines but for a turn, for a cancel or with the whole
process; those who are parked or resumed together all are, and whoever was ahead
of another stays ahead, the account that had the turn before those in line
(`NoneOvertaken`); and the published state, when it
changes, changes to the truth. `SyncDaemon` is checked and proved to implement
it (`ImplementsScheduler`): the lines are the accounts of the jobs in the two
queues.

`SyncConfigure` -- what the configurations of all accounts do to what is
stored. `ContinuePeerConfig` is `continuePeerConfig()` as one step with its
choices: which collections EDS creates or removes, whether the peer and
`@default` are saved, and whether the function stops half way, for a local
session that is queueing or with the process (`stuck`, which only a `Restart`
ends). A calendar stands for its remote id and URL, a collection is known by
account and remote id as in `sourceByRemoteId()`, and EDS never gives the id of
a removed collection again, so that a local source whose collection is gone is
bound to `NoCollection`. `Restart` includes what start-up removes of accounts
that are gone. `disturbed` is a history variable: the accounts one of whose
configurations failed somewhere or lost a collection.

`MCTwoQueues`, `MCSyncAccount`, `MCSyncDaemon` add the symmetry sets for TLC:
accounts and sources are only compared for equality. The runs of liveness
properties use no symmetry. `MCSyncConfigure` defines the names of the sources;
`MCSyncLog` and `MCSyncFetch` are instances without definitions of their own.

Operators that a comment calls a mutant are not used by the specifications.
Each states a plausible mistake in the definition after it; with the mistake
in its place TLC finds the property named in `PROJECT.json` violated.

## The runs

| run | instance | shows |
|---|---|---|
| `queues` | 2 accounts, 2 sources, up to 2 jobs when something is pushed | `TypeOK`, `NamedJobsAreCarriedOver`, `RequestsAreHeard`, `RequestsAreKept`, `RequestsShareAJob` |
| `queues_remove` | the same | counterexample, see Findings |
| `account` | 2 sources, one error code, calls nested 2 deep | `TypeOK`, `SessionMatchesState`, `ConfiguringHasConfig`, `OverOnlyForOpenSource`, `NothingCarriedOver`, `ReportsWhatItStarted`, `SyncComesNearer` |
| `account_live` | 1 source | `SyncEnds` under fairness; `ImplementsInterface` |
| `account_attach` | as `account` | counterexample |
| `daemon` | 2 accounts, 1 source, 4 external events | `TypeOK`, `JobIsCovered`, `IdleHoldsNothing`, `RequestsWait`, `MobileIsAllowed`, `WaitingIsKept`, `OnlyCancelsStrand`, `WorkRunsOut`, `ImplementsScheduler` |
| `daemon_live` | 2 accounts, syncs of all sources only, 3 external events, results of 2 sources | `ComesToRest` under fairness |
| `daemon_state` | as `daemon` | counterexample |
| `configure` | 2 accounts, 2 calendars, 2 names | `TypeOK`, `DoneIsConfigured`, `OthersAreKept`, `CalendarsStay` |
| `configure_unchanged` | the same | counterexample |
| `log` | 2 calendars, the codes 200, 500 and 404 | `TypeOK`, `LogIsLast`, `RetriesAlternate`, `ModesFollowOutcomes` |
| `fetch` | 2 messages of clients, 2 calendars, 2 fetches at a time | `TypeOK`, `TakesWhatItListed`, `NobodyWaitsForNothing`, `AnswersAreLists`, `FetchesAnswerAll`; `AnswersArrive` under fairness |

Bounds. `MaxJobs` = 2 is a queue with two jobs of one account or one of each,
and a third by a queue that is pushed while it has one; what is proved holds
without it. `MaxCalls` = 2 lets a sync that fails at once be started from the
slot of one that failed at once; every further level repeats it. `MaxEvents`
counts only what comes from outside (requests, cancels, network, EDS, accounts):
answers, timers and signals are not counted. Four events are enough for a job
of one account, a job of the other behind it, a change of the network and a
request or a cancel in between. `MaxResults` bounds the list of results of one
sync; two are needed for an error that is overwritten by the code of the next
source in `lastError`.

`SyncConfigure` needs no bound. Its names are chosen so that the interesting
cases are there at once: both calendars of one account and one of the other
share a name, the fourth calendar has its own.

`SyncLog` has one code of each kind: 200 is a success that is not the number 0
and so leaves a last error, 500 is retried, 404 is an error that refreshes; the
codes that make the next sync slow differ from 404 only in the mode. With two
calendars a result behind a retried one is dropped, and a wanted source has one
behind it. `SyncFetch` needs two fetches for one to clear the list under the
other and a second client for an answer that was meant for somebody else; two
calendars are enough for a mixture of two lists. `Fetches` is the only bound,
and what is proved holds for any number.

Deadlock is checked for `TwoQueues` and `SyncConfigure`. It is not for `SyncAccount`, where the
process may stop at a fault, nor for `SyncDaemon`, where nothing happens after
the last external event once the daemon is at rest, nor for `SyncLog` and
`SyncFetch`: an account that is gone has no more syncs, and a daemon that has
stopped answers nobody.

### Fairness

`SyncAccount!Fairness`: calls return; a configuration gets its answers; the
server ends a session whose `Sync` call it has taken; the event loop deletes what
it has to. Answers that may never come in the code are not assumed: a program
that does not start, a local session that is queueing and a server that stops have
actions of their own (`FetchIsLost`, `LocalQueued`, `SessionIsLost`) without
fairness, a `Sync` call that fails leaves a session that `ServerEnds` is not about,
and their results are exceptions of `SyncEnds`. A failed call may have been
carried out after all (a reply that comes too late is an error too), so that a lost
session may still send its statuses; it need not.

`SyncDaemon!Fairness`: signals are delivered (the call returns), the one-shot
timer runs out, upstart restarts a stopped daemon (`respawn`), and an account
that waits for an answer it is owed gets one: of its configuration
(`AccountConfigures`), or of a session that is not lost (`OwedStatus`). An account's
answers need not end its sync, which is why `ComesToRest` names the accounts that
never call back or whose session is over or lost, and configurations that go on
after an error for ever (see Findings). Clients,
the network, EDS and the user owe the daemon nothing.

`SyncFetch!Fairness`: signond, the service and the process that are asked
answer or fail, as long as the daemon has not stopped. A program that does not
start (`FetchIsLost`) is never reported and is an exception of `AnswersArrive`.
Nobody has to ask, and no session has to send a status.

## Findings

The runs that end in a counterexample each check one statement of the
repository about itself; `PROJECT.json` quotes it.

* `remove(account)` does not remove a job that names its sources (`queues_remove`).
* The last status of a cancelled session can end the next sync while that configures, and leaves its configuration at work. The sync after it finds "Account already configured" and attaches a session at once; the end of the old configuration attaches another, and `Q_ASSERT(m_currentSession == 0)` does not hold (`account_attach`).
* A cancel between `sync()` and the first status of the session, and a session that does not open, leave the published state at "syncing" (`daemon_state`).
* A configuration whose local part failed, or whose process ended after the peer was saved, is never repaired: the next one finds the peer unchanged and stops there (`configure_unchanged`).

Some behaviour that surprises has no statement in the repository that it would
contradict; the models have it as the code does:

* A job for all sources that is pushed as an object, when parked or resumed, is dropped if the queue has any job of the account (`PushJob`); `NamedJobsAreCarriedOver` is about the other jobs.
* A request for some calendars also syncs those that sort behind the last of them (`MayStart` in `SyncAccount`, `Taken` in `SyncLog`).
* A retry drops the results behind the one that is retried, so that a first sync that succeeded is not logged and the next one refreshes again (`dropped` in `SyncLog`).
* A client that lists the calendars while the session of a configuration is queueing clears what the sync is going to take (`cleared` in `SyncFetch`).
* A further status of that session uses a null interface (`LateStatus` in `SyncFetch`).
* A `Sync` call that fails, or a server that stops, is not noticed: the account stays in AboutToSync or Syncing with a session nobody ends, until it is cancelled (`lost` in `SyncAccount`).
* A configuration that was not saved and goes on after its error ends its sync twice: the end that comes with the error has no results and resets `lastError`, so that the other end is retried however often this happens (`GoesOnUnsaved` in `SyncDaemon`).

## The proofs

| module | theorems |
|---|---|
| `SyncQueueProofs` | lemmas on the operators of `SyncQueue` |
| `TwoQueuesProofs` | `QueuesAreTyped`, `RequestsAreTaken`, `RequestsStayQueued`, `RequestsAreMerged`, `NamedJobsResume` |
| `SyncDaemonProofs` | `Invariance`, `DaemonIsTyped`, `JobsAreCovered`, `IdleDaemonsHoldNothing`, `RunningJobsStay`, `PaidConnectionsAreAllowed`, `WaitingJobsStay`, `CancelsAloneStrand`, `DaemonRunsOutOfWork` |
| `SyncDaemonRefinement` | `DaemonSchedules`: `SyncDaemon` implements `Scheduler` |
| `SyncLogProofs` | `Invariance`, `LogIsTyped`, `LogHasLastResults`, `NoTwoRetries`, `ChangesAreNotThrownAway` |
| `SyncAccountProofs` | `Invariance`, `AccountIsTyped`, `SessionsMatch`, `ConfigurationsAreHeld`, `OverSessionsWait`, `SyncsAreSeparate`, `SourcesAreReported`, `SyncsComeNearer`; `AccountImplements`: `SyncAccount` implements `AccountInterface` |
| `SyncFetchProofs` | `Invariance`, `FetchIsTyped`, `SyncsTakeTheirList`, `WaitersAreTold`, `ClientsGetLists`, `FetchesGoOn` |
| `SyncConfigureProofs` | `ConfigurationsTyped`, `ConfigurationsKeepOthers`, `ListedCalendarsStay`, `DoneMeansConfigured` |

Every safety property that a passing run checks is proved: invariants, action
properties and both refinements.

Assumptions: the null account is no account and ALL is no source
(`QueueConstants`), `MaxJobs` is positive (`MaxJobsAssumption`); the empty name
of a configuration error is no source, "no entry" is neither a code nor a
source state, 0 is no error, `MaxCalls` is a number (`AccountConstants`); a
source name is a function of account and calendar, and "no source" and "no
collection" are two values, neither of them a collection nor the first a
calendar (`ConfigureConstants`); accounts and sources of the daemon are finite sets
(`DaemonConstants`); the codes of the log are among those the model tells apart,
and "no entry" is none of them (`LogConstants`); "no list" is no list
(`FetchConstants`).

*Queues.* `PushQueue` and `Remove` go through a queue with a recursive
function. That it has the value of its defining equation at every index is the
lemma `IterationExists`, by the library's theorem on recursive functions over
the naturals; what holds of every prefix is shown by the least index at which
it fails (`LeastNatural`, `UpTo`), so that no induction scheme with an operator
parameter is needed. From there: pushing a job keeps what the queue wants and,
if the job names its sources, adds it; pushing a queue does so for each of its
jobs; removing only shortens a queue, so that it never gives an account a
second job. `RequestsAreTaken` says what a request does exactly: afterwards the
queue wants of every account what it wanted before, of the one that asks also
what it asks for, and nothing else (`PushAsks`); for an account with a job for
all sources this is nothing new, and a request for all sources makes one.
`QueuesAreTyped` is inductive by itself; the action properties are shown from it
step by step.

*Account.* The properties are not inductive. `SessionMatchesState` is broken by
a status of a late session unless it is known that a late session comes with a
tainted account and that no handler waits while one is attached;
`NothingCarriedOver` needs to know what the maps hold while the slots run, and
that an account without a session has booked nothing. `Inv` adds: a late
session taints (`LateTaints`); the calls wait in the order the handlers make
them (`CallsInOrder`); an untainted account without a session has empty maps
(`CleanWithoutSession`); one with a session has on sync exactly the sources it
was started for, and results exactly for those that are done
(`BookedWithSession`). `Inv` was first checked with TLC on the instance of the
run `account`. The proof has one step per action and part; handlers that share
a part (`SetFinished`, `ContinueSync`) share its lemma.

*Configuration.* `OthersAreKept` follows from the types: what
`ConfigureLocal()` removes has the account of the configuration, and a local
source is created only where there was none (`LocalStep`). `CalendarsStay`
needs the invariant `NamesMatch`: every source, of a peer or local, has the name
of the calendar it is bound to. With it a listed calendar whose name is its own
has a source that is wanted (`OwnNameIsWanted`), and the collections that are
removed are those of unwanted sources (`LocalRemoves`). Nothing is assumed of
the names: where they collide, the theorem says nothing.

That a configuration which is done has done what it should
(`DoneMeansConfigured`) needs to know that the two sides agree: of each calendar
of an undisturbed account, the peer has a source, the local sources have one and
EDS has its collection, or none of the three is there (`Linked`). A
configuration links what it gets to (`LinkedByConfigure`); those of other
accounts leave it alone (`OthersStayLinked`), for a local source of another name
is not theirs (`OwnNames`); and the peer of an account that is done has what the
list had (`DoneHasList`). As above, calendars whose names collide are excepted.

*Daemon.* `Inv` has three parts. `SyncOK` is about the current job and the
queues: their types, that a current job is covered (`JobHolds`) and that a
daemon which is not syncing holds nothing (`IdleHolds`). `AccountsOK` is about
the accounts and the signals to deliver, among which an error is followed by
the end of the same sync (`PendingEnd`): the slot of the error gives up the job,
and what waits goes on only with the slot of the end. `RestOK` has the types of
the rest. The steps are made of few parts
(`SyncFinishedOK`, `StartJobOK`, `ContinueSyncOK`, `RequestOK`, `CancelOK`); one
lemma for each kind of action says everything the properties need to know of a
step, so that each is looked at once. What the queues do is taken from
`SyncQueueProofs`: among it, that removing the job or the account of one leaves
the others what they want, which `WaitingIsKept` is about. Nothing is used of
the accounts but `AccountControl`, and no bound on events or results.

*The daemon as a scheduler.* `DaemonSchedules` maps a queue to the accounts of
its jobs. What the operators of `SyncQueue` do to that line is shown in
`SyncQueueProofs`: a push adds behind (`AddsBehind`); pushing a queue keeps the
order of the line that the two queues make one behind the other (`KeepsLine`,
`PushQueueOrder`: the same accounts wait, and of any two the same one first); a
removal takes out jobs of one account and leaves the others in their order
(`LeavesOut`); and popping takes the first. Parking puts the job that runs before
the queue, so that `NoneOvertaken` follows for parking and resuming alike
(`LineKept`, `LinePushed`). Who ended and is still to be heard of (`reported`) is read off the
signals to deliver; `Inv` of the daemon bounds what these can be. One lemma for
each kind of action shows which step of `Scheduler` it is. Where no step sets the
published state it stays what it was, even if that is no longer true: the run
`daemon_state` shows how that happens.

*Refinement.* `AccountImplements` is what lets the daemon be composed with
outcomes: whatever calendars, answers and errors a `SyncAccount` meets, and
however its calls are nested, each of its steps is a step or a stutter of
`AccountInterface`. It needs `Inv` of the account -- an idle account has no
session, so that sync() cannot run into the assertion; only the outermost call
can be the rest of a configuration, so that this is gone once it has been
taken -- and that an account has a configuration exactly while that is in a
phase (`HeldByPhase`). One lemma for each action shows its outcome; those for
`setFinished()`, `continueSync()` and the end of a configuration
(`FinishedVisible`, `ContinueVisible`, `ErrorVisible`, `ConfiguredVisible`) are
shared by the handlers that call them.

*Progress.* That a sync ends is a temporal property, but all that is about the
code in it is a safety property, and proved. At every moment of a sync that is
under way something is due (`Due`): the rest of a handler, the deletion of a late
session, an answer to the configuration, the end of the session by a server that
has taken its `Sync` call.
`SyncComesNearer` says that whoever owes it can do it (`DueIsAwaited`), that
doing it lowers a natural number (`Distance`: the calls that wait, the answers
that are left and a late session), and that no other step raises the number, or
changes what is due without lowering it. Clients that call `sync()` and
`cancel()` at any time, late statuses and failures are among the other steps.
What remains of `SyncEnds` is that fairness does what is due. `FetchesAnswerAll`
is the same of `AnswersArrive`: no step leads a fetch back as long as somebody
waits, and the end of any fetch answers all who wait; with
`NobodyWaitsForNothing` there is always such a fetch.

The safety part of `ComesToRest` is `WorkRunsOut`. `Workload` is a natural
number (`WorkloadIs`): a request to deliver counts 5, since it may become a job;
a queued job and a change that EDS holds back count 4, since each may become a
sync with one end; an end that an account has left counts 3, and an account
without a last error 2. An end that takes the error of its account away costs
less than it brings (2 for 3). A retry makes a new job out of an end, but only
when there was no last error, and it leaves one: it is paid for by the account
that is no longer without an error (4 for 3 + 2). The parts of the handlers have a lemma each (`DeliverWork`, `StartJobWork`,
`ContinueSyncWork`, `RequestWork`), and so has every kind of action
(`FinishedFalls`, `SyncsFall`, `TimerFalls` and the others). Each request that
is handled, job that is started and end that is heard lowers the number, and no
step of the daemon raises it, but the error of a configuration that goes on
afterwards. The theorem holds for any number of accounts, jobs, results and
changes; what remains of `ComesToRest` is that a daemon with no such step left
is at rest, stranded or stuck, and that fairness takes those steps.

*Log.* `LogIsLast` is inductive with the types, as `Logged` and `dropped` share
the results between them. `RetriesAlternate` needs that a sync that is asked for
again leaves a last error (`RetryLeavesError`), which stops the next retry.
`ModesFollowOutcomes` follows from `LogIsLast` when a sync starts.

*Fetches.* A client's answer may be any list that comes back while it waits, so
that `AnswersAreLists` needs of the one list, and of every answer on its way,
that it lies between what was listed all the time and what was listed at all
since each client asked (`Between`). `TakesWhatItListed` needs that only a new
fetch takes calendars out of the list while a configuration is queued
(`ListIsKept`).

*Only model-checked:* the liveness properties `SyncEnds`, `ComesToRest` and
`AnswersArrive`, which need fairness and `ENABLED` and are out of the prover's
reach. Of each the safety part is proved (*Progress*).

## Not modelled, and why

* `m_wentOffline`: `onOnlineStatusChanged()` sets it and calls `continueSync()`, which resets it in `syncFinishedImpl()` before any other handler runs. It never is set when it is read.
* The setting for mobile connections is a free choice at every request: the user may change it at any time.
* `retrySync()` is always true: nothing in the program sets it to false.
* powerd answers every call: a refused lock is a sync without one, a refused unlock leaves it set, and neither changes what the daemon does.
* `isFirstSync()`, notifications, the question to authenticate again, the dates in the log: nothing in the control depends on them.
* Collections from before accounts had ids, the sync config of a peer, the files of removed sources, templates: what a source holds beside its database.
* `SyncConfigure` assumes of EDS and the SyncEvolution server that ids of collections have the prefix `sourceById()` is called with, and that stored sources have the backend the code compares with.
* `SyncNetwork` waits three seconds before it looks at the network; the model changes the state at any time, which allows more.
* `detach()` and the number of clients: nothing reads it but the first `attach()`.
* The QML client and `authenticator/` are user interfaces of other processes. Getters, D-Bus marshalling, headers, the text of the licence and logging make up the larger part of what no definition maps in `src/src`; `src/3rd_party` has a copy of a test framework, far longer than the program, that is not part of it.
* `quit()` and the destructor: they run when the process ends, and keep nothing.

## Plan

In this order:

1. `SyncQueue`, `TwoQueues`: the queues, checked and proved. Done.
2. `SyncAccount`: checked and proved; `AccountControl`, `AccountInterface`. Done.
3. `SyncDaemon` composed of both: checked. Done.
4. `SyncConfigure`, the stored configuration: checked and proved. Done.
5. `SyncLog`, the log of results and the modes that follow from it: checked and proved. Done.
6. `SyncDaemonProofs`: all safety properties of the daemon. Done.
7. The refinement of `SyncAccount` to `AccountInterface`: proved. Done.
8. `SyncFetch`, the list of calendars beside a configuration: checked and proved. Done.
9. `Scheduler`, what the daemon promises, and the refinement of `SyncDaemon` to it: checked and proved. Done.
10. The safety parts of `SyncEnds`, `AnswersArrive` and `ComesToRest` -- what brings a sync, a fetch and the daemon nearer to their ends: checked and proved. Done.
11. `EdsHelper` and `SyncNetwork` as modules of their own, with the timers that collect their events; shown to allow no more than what `SyncDaemon` assumes of them. Left.
12. `SyncConfigure` run a second time by a late status of its session (`LateStatus` of `SyncFetch`), on what is stored. Left.
