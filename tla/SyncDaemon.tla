----------------------------- MODULE SyncDaemon -----------------------------
(***************************************************************************)
(* The daemon (src/src/sync-daemon.cpp): which job runs, which ones wait in*)
(* the two queues, and what the clients, the accounts, the network, the    *)
(* calendar database (EDS) and the timers do to them.  The accounts are    *)
(* those of AccountControl, one control state per account; the queues are  *)
(* those of SyncQueue.  With them go the collaborators the daemon switches *)
(* at the beginning and the end of a sync: the notifications of EdsHelper, *)
(* the wake lock of PowerdProxy and the state that SyncDBus publishes.     *)
(*                                                                         *)
(* Everything runs on one event loop.  A signal calls its slots at once:   *)
(* `pending' holds the signals that are not delivered yet, the innermost   *)
(* first, and no event is handled before it is empty.                      *)
(*                                                                         *)
(* Left out: notifications to the user and isFirstSync(); the log of       *)
(* results, which module SyncLog has; the queries of clients, for which see*)
(* SyncFetch; and m_wentOffline, which is set and reset within             *)
(* onOnlineStatusChanged(), so that no other slot reads it set.  powerd    *)
(* answers every call.  SyncAccount::setRetrySync() has no caller: every   *)
(* account is to be retried.                                               *)
(***************************************************************************)
EXTENDS SyncQueue, AccountControl, SyncResults, FiniteSets

SeqExt == INSTANCE SequencesExt

CONSTANTS
  MaxResults,   \* bound: the longest list of results an account reports
  MaxEvents     \* bound: how often something outside the daemon starts an event

ASSUME DaemonConstants ==
  /\ MaxResults \in Nat /\ MaxEvents \in Nat
  /\ IsFiniteSet(Accounts) /\ IsFiniteSet(Sources)

NetworkStates == {"Offline", "Partial", "Online"}

\* m_currentSyncResults, in the order of its keys.  The codes are one of each
\* kind that onAccountSyncFinished() tells apart.
ResultLists == UNION {[1 .. n -> {"0", "200", "500", "404"}] : n \in 0 .. MaxResults}

VARIABLES
  syncQueue,     \* m_syncQueue
  offlineQueue,  \* m_offlineQueue
  currentJob,    \* m_currentJob
  syncing,       \* m_syncing
  timer,         \* m_timeout is active
  network,       \* m_networkStatus->state()
  attached,      \* a client has attached since the start: not m_firstClient
  presence,      \* "none", "known" (in m_accounts), or "removed" and kept alive
  enabled,       \* isEnabled() of the account
  failed,        \* lastError() of the account is not 0
  ctl,           \* the control state of the account
  dangling,      \* accounts whose session was deleted with its server proxy
  pending,       \* signals to deliver
  frozen,        \* EdsHelper: m_freezed
  quiet,         \* EdsHelper: m_timeoutTimer is active
  changes,       \* EdsHelper: m_pendingCalendars, by account and source
  wakelock,      \* PowerdProxy: m_currentLock is set
  published,     \* SyncDBus: m_state
  events         \* the external events so far

queues == <<syncQueue, offlineQueue, currentJob>>
eds == <<frozen, quiet, changes>>
accountVars == <<presence, enabled, failed, ctl, dangling>>
vars == <<queues, syncing, timer, network, attached, accountVars, pending, eds,
          wakelock, published, events>>

\* run(): the accounts of the manager are added without a sync.
Init ==
  /\ syncQueue = <<>> /\ offlineQueue = <<>> /\ currentJob = NoJob
  /\ syncing = FALSE /\ timer = FALSE
  /\ network = "Offline" /\ attached = FALSE
  /\ presence \in [Accounts -> {"none", "known"}]
  /\ enabled \in [Accounts -> BOOLEAN]
  /\ failed = [a \in Accounts |-> FALSE]
  /\ ctl = [a \in Accounts |-> NewAccount]
  /\ dangling = {} /\ pending = <<>>
  /\ frozen = FALSE /\ quiet = FALSE /\ changes = {}
  /\ wakelock = FALSE /\ published = "idle"
  /\ events = 0

Alive == \A a \in Accounts : ctl[a] # Dead

\* The event loop runs.
Ready == Alive /\ pending = <<>>

\* Something outside the daemon starts an event.
External == Ready /\ events < MaxEvents /\ events' = events + 1

Signal(name, account, results) == [name |-> name, from |-> account, results |-> results]

-----------------------------------------------------------------------------
(* Parts of handlers.  Those that run after others of the same handler take*)
(* what these have changed as arguments: the queues, the control states    *)
(* `c', the accounts `d' with a deleted session, the `rest' of pending.    *)

\* updateState() while no job is being synced.
WaitingState(q) == IF q = <<>> THEN "idle" ELSE "pending"

\* EdsHelper::unfreezeNotify(); changes are ignored for a while.
Unfreeze == changes' = {} /\ frozen' = FALSE /\ quiet' = TRUE

\* EdsHelper::freezeNotify(), after a flush().
Freeze == changes' = {} /\ frozen' = TRUE /\ UNCHANGED quiet

\* PowerdProxy::lock() and unlock()
Lock == wakelock' = TRUE
Unlock == wakelock' = FALSE

\* Mutants of SyncFinished: the job stays; the timer stays.
SyncFinishedWithJob(q) ==
  /\ syncQueue' = q
  /\ Unfreeze /\ Unlock
  /\ timer' = FALSE
  /\ currentJob' = currentJob
  /\ syncing' = FALSE
  /\ published' = WaitingState(q)

SyncFinishedWithTimer(q) ==
  /\ syncQueue' = q
  /\ Unfreeze /\ Unlock
  /\ timer' = timer
  /\ currentJob' = ClearJob(currentJob)
  /\ syncing' = FALSE
  /\ published' = WaitingState(q)

\* syncFinishedImpl(), with q for the queue it leaves alone.
SyncFinished(q) ==
  /\ syncQueue' = q
  /\ Unfreeze /\ Unlock
  /\ timer' = FALSE
  /\ currentJob' = ClearJob(currentJob)
  /\ syncing' = FALSE
  /\ published' = WaitingState(q)

\* An outcome of account a: its next control state, and its signals before
\* the rest.  onAccountSyncStart() does nothing but notify the user, and the
\* signal comes alone.
Deliver(a, outcome, results, c, d, rest) ==
  LET next == outcome.next
      heard == IF outcome.signals = <<"syncStarted">> THEN <<>> ELSE outcome.signals
      signals == [i \in DOMAIN heard |-> Signal(heard[i], a, results)]
  IN  /\ ctl' = IF next = Dead THEN [b \in Accounts |-> Dead] ELSE [c EXCEPT ![a] = next]
      /\ dangling' = IF next.session = "none" THEN d \ {a} ELSE d
      /\ pending' = signals \o rest

\* Closing a session that was deleted with its server proxy may stop the
\* process.
OrStops(a, d, outcomes) ==
  outcomes \cup {Silent(Dead) : outcome \in {o \in outcomes :
                                             a \in d /\ o.next.session = "none"}}

\* The sync of an account that cannot sync reports a code of the configuration
\* or, without a source to sync, nothing.
ConfigResults(outcome) ==
  IF "syncError" \in {outcome.signals[i] : i \in DOMAIN outcome.signals}
  THEN {<<"404">>, <<"0">>} ELSE {<<>>}

\* onDataChanged() for a change that EdsHelper::flush() still has: m_syncing
\* is set and the request is not for now, so that it only goes to the queue.
Flushed(q, order, mobile) ==
  LET after[i \in 0 .. Len(order)] ==
        LET a == order[i][1]
            s == order[i][2]
            ignored == \/ presence[a] # "known"
                       \/ ~enabled[a]
                       \/ JobContains(currentJob, a, {s})
                       \/ Contains(after[i - 1], a, {s})
        IN  IF i = 0 THEN q
            ELSE IF ignored THEN after[i - 1]
            ELSE Push(after[i - 1], a, {s}, mobile)
  IN  after[Len(order)]

-----------------------------------------------------------------------------
(* continueSync() *)

\* The job starts: EDS is flushed and frozen, the job leaves the offline queue,
\* and the account syncs.  q is what the queue holds without the job.
StartJob(job, q, off, c, d, rest) ==
  /\ \E order \in SeqExt!SetToSeqs(changes), mobile \in BOOLEAN :
       syncQueue' = Flushed(q, order, mobile)
  /\ offlineQueue' = RemoveJob(off, job)
  /\ currentJob' = job
  /\ syncing' = TRUE
  /\ Freeze /\ Lock
  /\ published' = "syncing"
  /\ \E outcome \in OrStops(job.acc, d, SyncOutcomes(c[job.acc])) :
       \E results \in ConfigResults(outcome) :
         Deliver(job.acc, outcome, results, c, d, rest)

\* Mutant of IsOnLine: any connection will do.
IsConnected(job) == network # "Offline"

IsOnLine(job) == network = "Online" \/ (network = "Partial" /\ job.paid)

\* Mutants of Parked: the rest of the queue is dropped; the last one goes first.
ParkedFirst(off, q) == IF q = <<>> THEN off ELSE PushJob(off, Head(q))
ParkedBackwards(off, q) == PushQueue(off, SeqExt!Reverse(q))

\* The job that was taken out goes to the offline queue, and then the others.
Parked(off, q) == PushQueue(off, q)

\* The first job of q starts if the network allows it.  Otherwise the queue is
\* parked, when it is the network's fault, and the sync is over.  timerAfter is
\* what a caller whose job starts has done to the timer.
ContinueSync(q, off, timerAfter, c, d, rest) ==
  LET job == PopNext(q)
      starts == IsValid(job) /\ IsOnLine(job)
  IN  \/ /\ starts
         /\ StartJob(job, AfterPop(q), off, c, d, rest)
         /\ timer' = timerAfter
      \/ /\ ~starts
         /\ offlineQueue' = IF IsOnLine(job) THEN off ELSE Parked(off, q)
         /\ SyncFinished(<<>>)
         /\ ctl' = c /\ dangling' = d /\ pending' = rest

-----------------------------------------------------------------------------
(* sync() and cancel() of an account. *)

NeverSyncing == FALSE   \* mutant of IsSyncing
IsSyncing == syncing /\ IsValid(currentJob)

\* sync(account, sources, runNow, syncOnMobile): the setting of the user may
\* allow mobile connections at any time.
Request(a, sources, runNow, syncOnMobile, rest) ==
  LET new == {s \in sources : ~Contains(syncQueue, a, {s})}
      taken == /\ enabled[a]
               /\ ~JobContains(currentJob, a, sources)
               /\ sources # {} => new # {}
  IN  \/ /\ ~taken
         /\ pending' = rest
         /\ UNCHANGED <<queues, syncing, timer, ctl, dangling, eds, wakelock, published>>
      \/ /\ taken
         /\ \E setting \in BOOLEAN :
              LET q == Push(syncQueue, a, new, syncOnMobile \/ setting)
              IN  \/ /\ runNow /\ ~IsSyncing
                     /\ ContinueSync(q, offlineQueue, FALSE, ctl, dangling, rest)
                  \/ /\ ~runNow /\ ~syncing
                     /\ syncQueue' = q
                     /\ syncing' = TRUE /\ timer' = TRUE
                     /\ Lock /\ published' = "pending"
                     /\ pending' = rest
                     /\ UNCHANGED <<offlineQueue, currentJob, ctl, dangling, eds>>
                  \/ /\ IF runNow THEN IsSyncing ELSE syncing
                     /\ syncQueue' = q
                     /\ pending' = rest
                     /\ UNCHANGED <<offlineQueue, currentJob, syncing, timer, ctl, dangling,
                                    eds, wakelock, published>>

\* cancel(account, {}): the slot of syncError, if the account emits it, ends
\* the sync whichever account it is of.
Cancel(a) ==
  LET q == Remove(syncQueue, a, {})
  IN  \E outcome \in OrStops(a, dangling, {CancelOutcome(ctl[a])}) :
        /\ Deliver(a, Silent(outcome.next), <<>>, ctl, dangling, <<>>)
        /\ \/ /\ outcome.signals # <<>> \/ (currentJob.acc # a /\ q = <<>>)
              /\ SyncFinished(q)
           \/ /\ outcome.signals = <<>>
              /\ currentJob.acc = a \/ q # <<>>
              /\ syncQueue' = q
              /\ currentJob' = IF currentJob.acc = a THEN ClearJob(currentJob) ELSE currentJob
              /\ UNCHANGED <<syncing, timer, eds, wakelock, published>>
        /\ UNCHANGED offlineQueue

-----------------------------------------------------------------------------
(* Slots *)

Slot(name) == Alive /\ pending # <<>> /\ Head(pending).name = name
From == Head(pending).from

OnAccountSyncError ==
  /\ Slot("syncError")
  /\ SyncFinished(syncQueue)
  /\ pending' = Tail(pending)
  /\ UNCHANGED <<offlineQueue, network, attached, accountVars, events>>

\* The server proxy is deleted and its sessions with it: nothing comes from
\* them any more, nor does a SyncConfigure that waits for one call back.
Detached(c) ==
  LET busy == {b \in Accounts : c[b].config = "busy"}
  IN  { [b \in Accounts |->
           [c[b] EXCEPT !.session = IF @ = "none" THEN "none" ELSE "over",
                        !.late = FALSE,
                        !.config = IF b \in lost THEN "lost" ELSE @]] :
        lost \in SUBSET busy }

WithSession(c) == {b \in Accounts : c[b].session # "none"}

OnAccountSyncFinished ==
  /\ Slot("syncFinished")
  /\ LET results == Head(pending).results
         q == IF Retries(failed[From], results) THEN Push(syncQueue, From, {}, FALSE) ELSE syncQueue
     IN  /\ failed' = [failed EXCEPT ![From] = LastError(failed[From], results)]
         /\ \E c \in Detached(ctl) :
              ContinueSync(q, offlineQueue, timer, c, dangling \cup WithSession(ctl),
                           Tail(pending))
  /\ UNCHANGED <<network, attached, presence, enabled, events>>

\* The next account of syncAll().
OnRequest ==
  /\ Slot("request")
  /\ Request(From, {}, TRUE, TRUE, Tail(pending))
  /\ UNCHANGED <<network, attached, presence, enabled, failed, events>>

\* The end of a configuration of `from' that has changed the configuration:
\* the server proxy is deleted before done() is emitted.
ConfiguredAnew(from, rest) ==
  \E c \in Detached(ctl) :
    \E outcome \in Configured(c[from]) :
      Deliver(from, outcome, <<>>, c, dangling \cup WithSession(ctl), rest)

\* SyncConfigure goes on after a configuration that was not saved.
OnResume ==
  /\ Slot("resume")
  /\ \/ ConfiguredAnew(From, Tail(pending))
     \/ \E outcome \in {Silent(ctl[From]), Silent(Dead)} :
          Deliver(From, outcome, <<>>, ctl, dangling, Tail(pending))
  /\ UNCHANGED <<queues, syncing, timer, network, attached, presence, enabled, failed,
                 eds, wakelock, published, events>>

-----------------------------------------------------------------------------
(* Events: clients *)

Known == {a \in Accounts : presence[a] = "known"}
NotByRequests == <<network, attached, presence, enabled, failed>>

\* SyncDBus::syncAll(), and syncAllNowAndOnMobile().
SyncAll ==
  /\ External
  /\ \E order \in SeqExt!SetToSeqs(Known) :
       pending' = [i \in DOMAIN order |-> Signal("request", order[i], <<>>)]
  /\ UNCHANGED <<queues, syncing, timer, network, attached, accountVars,
                 eds, wakelock, published>>

\* SyncDBus::syncAccount()
SyncOne(a, sources) ==
  /\ External /\ a \in Known
  /\ Request(a, sources, TRUE, FALSE, <<>>)
  /\ UNCHANGED NotByRequests

\* SyncDBus::attach(), which onClientAttached() heeds the first time only; so it
\* needs no bound.
ClientAttaches ==
  /\ Ready /\ ~attached
  /\ attached' = TRUE
  /\ UNCHANGED <<queues, syncing, timer, network, accountVars, pending,
                 eds, wakelock, published, events>>

\* SyncDBus::cancelAll(): cancel(0) calls cancel() of the null account.
CancelAll ==
  /\ External /\ Known # {}
  /\ ctl' = [a \in Accounts |-> Dead]
  /\ UNCHANGED <<queues, syncing, timer, network, attached, presence, enabled, failed,
                 dangling, pending, eds, wakelock, published>>

(* Events: the network *)

\* SyncNetwork::setState() emits stateChanged() for another state only.
SetState(state) == network # state /\ network' = state

\* A job that runs is parked and its account cancelled, the queue is parked,
\* and the sync is over.  With the account, its slot of syncError changes
\* nothing that the rest does not.
GoesOffline ==
  /\ External /\ SetState("Offline")
  /\ LET valid == IsValid(currentJob)
         off == IF valid THEN PushJob(offlineQueue, currentJob) ELSE offlineQueue
     IN  /\ offlineQueue' = Parked(off, syncQueue)
         /\ \/ /\ valid
               /\ \E outcome \in OrStops(currentJob.acc, dangling,
                                        {CancelOutcome(ctl[currentJob.acc])}) :
                    Deliver(currentJob.acc, Silent(outcome.next), <<>>, ctl, dangling, <<>>)
            \/ ~valid /\ UNCHANGED <<ctl, dangling, pending>>
  /\ SyncFinished(<<>>)
  /\ UNCHANGED <<attached, presence, enabled, failed>>

\* Mutant of GoesOnline: no timer is started for them.
GoesOnlineSilently ==
  /\ External /\ SetState("Online")
  /\ syncQueue' = PushQueue(syncQueue, offlineQueue)
  /\ offlineQueue' = <<>>
  /\ UNCHANGED <<attached, currentJob, syncing, timer, accountVars, pending, eds, wakelock,
                 published>>

\* onOnlineStatusChanged(): the parked jobs are taken back.
GoesOnline ==
  /\ External /\ SetState("Online")
  /\ syncQueue' = PushQueue(syncQueue, offlineQueue)
  /\ offlineQueue' = <<>>
  /\ LET starts == ~syncing /\ syncQueue' # <<>>
     IN  syncing' = (syncing \/ starts) /\ timer' = (timer \/ starts)
  /\ UNCHANGED <<attached, currentJob, accountVars, pending, eds, wakelock, published>>

GoesPartial ==
  /\ External /\ SetState("Partial")
  /\ UNCHANGED <<queues, syncing, timer, attached, accountVars, pending,
                 eds, wakelock, published>>

(* Events: timers and EDS *)

\* The time to collect requests is over: continueSync().
Timeout ==
  /\ Ready /\ timer
  /\ ContinueSync(syncQueue, offlineQueue, FALSE, ctl, dangling, <<>>)
  /\ UNCHANGED <<NotByRequests, events>>

\* EdsHelper stops ignoring changes, some time after the last sync.
QuietEnds ==
  /\ Ready /\ quiet
  /\ quiet' = FALSE
  /\ UNCHANGED <<queues, syncing, timer, network, attached, accountVars, pending,
                 frozen, changes, wakelock, published, events>>

\* EdsHelper::calendarChanged() for a calendar of a known account, which EDS is
\* asked to report once a client has attached (setEnabled).
CalendarChanged(a, s) ==
  /\ External /\ attached /\ a \in Known /\ ~quiet
  /\ \/ /\ frozen
        /\ changes' = changes \cup {<<a, s>>}
        /\ UNCHANGED <<queues, syncing, timer, ctl, dangling, pending,
                       frozen, quiet, wakelock, published>>
     \/ /\ ~frozen
        /\ Request(a, {s}, FALSE, FALSE, <<>>)
  /\ UNCHANGED NotByRequests

(* Events: accounts *)

\* addAccount() of a new account.
AddAccount(a) ==
  /\ External /\ presence[a] = "none"
  /\ presence' = [presence EXCEPT ![a] = "known"]
  /\ \E on \in BOOLEAN :
       /\ enabled' = [enabled EXCEPT ![a] = on]
       /\ pending' = IF on THEN <<Signal("request", a, <<>>)>> ELSE <<>>
  /\ UNCHANGED <<queues, syncing, timer, network, attached, failed, ctl, dangling,
                 eds, wakelock, published>>

\* removeAccount(): the account is cancelled and forgotten, not deleted.  A
\* deleted account of the system is not enabled.
RemoveAccount(a) ==
  /\ External /\ a \in Known
  /\ presence' = [presence EXCEPT ![a] = "removed"]
  /\ enabled' = [enabled EXCEPT ![a] = FALSE]
  /\ Cancel(a)
  /\ UNCHANGED <<network, attached, failed>>

\* onAccountEnableChanged(): an account that is disabled as a whole is ignored.
EnableAccount(a) ==
  /\ External /\ a \in Known /\ ~enabled[a]
  /\ enabled' = [enabled EXCEPT ![a] = TRUE]
  /\ pending' = <<Signal("request", a, <<>>)>>
  /\ UNCHANGED <<queues, syncing, timer, network, attached, presence, failed, ctl, dangling,
                 eds, wakelock, published>>

DisableAccount(a, whole) ==
  /\ External /\ a \in Known /\ enabled[a]
  /\ enabled' = [enabled EXCEPT ![a] = FALSE]
  /\ IF whole
     THEN UNCHANGED <<queues, syncing, timer, ctl, dangling, pending,
                      eds, wakelock, published>>
     ELSE Cancel(a)
  /\ UNCHANGED <<network, attached, presence, failed>>

\* A step of the configuration of an account.
AccountConfigures(a) ==
  /\ Ready
  /\ \/ \E outcome \in OrStops(a, dangling, ConfigOutcomes(ctl[a])) :
          \E results \in ConfigResults(outcome) :
            Deliver(a, outcome, results, ctl, dangling, <<>>)
     \/ ConfigOutcomes(ctl[a]) # {} /\ ConfiguredAnew(a, <<>>)
  /\ UNCHANGED <<queues, syncing, timer, network, attached, presence, enabled, failed,
                 eds, wakelock, published, events>>

\* A status of the session of an account, or of one it has cancelled.  SyncDBus
\* updates its state when a source starts.
AccountSyncs(a) ==
  /\ Ready
  /\ \E outcome \in SessionOutcomes(ctl[a]) \cup LateOutcomes(ctl[a]) :
       LET ends == "syncFinished" \in {outcome.signals[i] : i \in DOMAIN outcome.signals}
       IN  \E results \in IF ends THEN ResultLists ELSE {<<>>} :
             Deliver(a, outcome, results, ctl, dangling, <<>>)
  /\ published' \in {published,
                     IF IsSyncing THEN "syncing" ELSE WaitingState(syncQueue)}
  /\ UNCHANGED <<queues, syncing, timer, network, attached, presence, enabled, failed,
                 eds, wakelock, events>>

\* upstart starts the daemon again; the objects of removed accounts are gone.
Respawn ==
  /\ ~Alive
  /\ syncQueue' = <<>> /\ offlineQueue' = <<>> /\ currentJob' = NoJob
  /\ syncing' = FALSE /\ timer' = FALSE
  /\ network' = "Offline" /\ attached' = FALSE
  /\ presence' = [a \in Accounts |-> IF presence[a] = "known" THEN "known" ELSE "none"]
  /\ failed' = [a \in Accounts |-> FALSE]
  /\ ctl' = [a \in Accounts |-> NewAccount]
  /\ dangling' = {} /\ pending' = <<>>
  /\ frozen' = FALSE /\ quiet' = FALSE /\ changes' = {}
  /\ wakelock' = FALSE /\ published' = "idle"
  /\ UNCHANGED <<enabled, events>>

-----------------------------------------------------------------------------
Slots == OnAccountSyncError \/ OnAccountSyncFinished \/ OnRequest \/ OnResume

NetworkChanges == GoesOffline \/ GoesOnline \/ GoesPartial

AccountProgress == \E a \in Accounts : AccountConfigures(a) \/ AccountSyncs(a)

Next ==
  \/ Slots
  \/ AccountProgress
  \/ Timeout \/ QuietEnds \/ Respawn
  \/ SyncAll \/ CancelAll \/ ClientAttaches
  \/ NetworkChanges
  \/ \E a \in Accounts :
       \/ \E sources \in SUBSET Sources : SyncOne(a, sources)
       \/ \E s \in Sources : CalendarChanged(a, s)
       \/ AddAccount(a) \/ RemoveAccount(a) \/ EnableAccount(a)
       \/ \E whole \in BOOLEAN : DisableAccount(a, whole)

Spec == Init /\ [][Next]_vars

\* A status somebody owes.  A lost session need not send any.
OwedStatus(a) ==
  /\ ctl[a].session # "lost" \/ ctl[a].late
  /\ AccountSyncs(a)

\* The event loop delivers signals and timeouts, upstart restarts the daemon,
\* and an account that is waiting for an answer it is owed gets one, though not
\* always one that ends its sync.
Fairness ==
  /\ WF_vars(Slots)
  /\ WF_vars(Timeout)
  /\ WF_vars(Respawn)
  /\ \A a \in Accounts :
       /\ WF_vars(AccountConfigures(a))
       /\ WF_vars(OwedStatus(a))

FairSpec == Spec /\ Fairness

-----------------------------------------------------------------------------
TypeOK ==
  /\ syncQueue \in Seq(Jobs) /\ offlineQueue \in Seq(Jobs)
  /\ currentJob \in Jobs \cup {[NoJob EXCEPT !.paid = paid] : paid \in BOOLEAN}
  /\ syncing \in BOOLEAN /\ timer \in BOOLEAN
  /\ network \in NetworkStates /\ attached \in BOOLEAN
  /\ presence \in [Accounts -> {"none", "known", "removed"}]
  /\ enabled \in [Accounts -> BOOLEAN] /\ failed \in [Accounts -> BOOLEAN]
  /\ ctl \in [Accounts -> Controls]
  /\ dangling \subseteq Accounts
  /\ pending \in Seq([name : Signals \cup {"request"}, from : Accounts,
                      results : Seq(ResultCodes)])
  /\ frozen \in BOOLEAN /\ quiet \in BOOLEAN
  /\ changes \subseteq Accounts \X Sources
  /\ wakelock \in BOOLEAN
  /\ published \in {"idle", "pending", "syncing"}
  /\ events \in 0 .. MaxEvents

JobRuns == Alive /\ IsValid(currentJob)

(* While a job is current the daemon counts as syncing, EDS is frozen, the *)
(* wake lock is held and SyncDBus says so; whatever ends the sync early    *)
(* (the error of another account, a cancel, the network) gives up the job  *)
(* with them (continueSync, syncFinishedImpl, cancel).                     *)
JobIsCovered ==
  JobRuns => syncing /\ frozen /\ wakelock /\ published = "syncing"

(* A daemon that is not syncing holds nothing back: no job, no timer, no   *)
(* wake lock, and the changes of EDS pass (syncFinishedImpl).              *)
IdleHoldsNothing ==
  Alive /\ ~syncing =>
    ~IsValid(currentJob) /\ ~timer /\ ~wakelock /\ ~frozen /\ published # "syncing"

(* No request replaces the job that runs, not even one that is to run now: *)
(* another job becomes current only when an account has finished, or when  *)
(* the timer that was started before runs out (sync, isSyncing).           *)
RequestsWait ==
  [][ IsValid(currentJob) /\ IsValid(currentJob') /\ currentJob' # currentJob =>
        (pending # <<>> /\ Head(pending).name = "syncFinished") \/ timer ]_vars

(* A job that may not use a paid connection starts on none, whatever way it*)
(* came into the queue; the job of a retry is one (continueSync).          *)
MobileIsAllowed ==
  [][ IsValid(currentJob') /\ currentJob' # currentJob =>
        network = "Online" \/ (network = "Partial" /\ currentJob'.paid) ]_vars

(* What waits for an account, in either queue, stays there until it starts *)
(* or the account itself is cancelled: going offline and online, the end of*)
(* other jobs and the cancel of other accounts do not lose it.             *)
WaitingIsKept ==
  [][ \A a \in Accounts :
        /\ Alive
        /\ Waits(syncQueue \o offlineQueue, a)
        /\ ~Waits(syncQueue' \o offlineQueue', a)
        => \/ currentJob'.acc = a
           \/ enabled[a] /\ ~enabled'[a]
           \/ presence'[a] # presence[a] ]_vars

\* Whatever waits or is being synced, something will go on with it: the timer, the
\* job, or the slot of a sync that has finished.
Driven ==
  Alive /\ (syncing \/ syncQueue # <<>>) =>
    \/ timer \/ IsValid(currentJob)
    \/ \E i \in 1 .. Len(pending) : pending[i].name = "syncFinished"

(* Only the cancel of an account leaves the daemon behind with work and    *)
(* nothing that would go on with it: neither the end of a job nor an error,*)
(* neither the network nor a request does (syncFinishedImpl, continueSync, *)
(* onOnlineStatusChanged; cancel does not continue the queue).             *)
OnlyCancelsStrand ==
  [][ ~Driven' => ~Driven \/ enabled' # enabled \/ presence' # presence ]_vars

(* The state SyncDBus publishes is what SyncMonitorQml documents: "syncing"*)
(* says that the service is running a sync.  It fails when the session of  *)
(* the account does not open, and when a cancel finds the account before   *)
(* its sync has started: nothing is updated then, and nothing ends.        *)
SyncingIsTrue ==
  Ready /\ published = "syncing" =>
    \E a \in Accounts : ctl[a].state \in {"Configuring", "AboutToSync", "Syncing"}

\* What a cancel leaves behind: m_syncing or the queue stays, and nothing goes on
\* with it.
Stranded == (syncing \/ syncQueue # <<>>) /\ ~timer /\ ~IsValid(currentJob)

\* A job whose account does not call back.
Stuck ==
  /\ IsValid(currentJob)
  /\ LET c == ctl[currentJob.acc]
     IN  c.state = "Invalid" \/ c.config = "lost" \/ c.session \in {"lost", "over"}

\* A configuration that was not saved is about to go on after its error.
GoesOnUnsaved == \E i \in 1 .. Len(pending) : pending[i].name = "resume"

(* Left alone, the daemon comes to rest and stays there: its retries end,  *)
(* however often the server answers with an error of the white list, every *)
(* queued job gets its turn, and only a cancelled sync or an account that  *)
(* never calls back keeps it syncing.  Configurations that go on after     *)
(* their error are excepted: such a sync ends twice, with an error that    *)
(* resets lastError() and one that is retried, and so for ever             *)
(* (onAccountSyncFinished, setLastError).                                  *)
ComesToRest ==
  <>[]((~syncing /\ syncQueue = <<>>) \/ Stranded \/ Stuck) \/ []<>GoesOnUnsaved

\* The signals to deliver of one name.
Heard(name) == {i \in 1 .. Len(pending) : pending[i].name = name}

\* How often an account may end a sync without being asked for another one.
EndsLeft ==
  Cardinality({a \in Accounts : ctl[a].config = "busy"})
  + Cardinality({a \in Accounts : ctl[a].session \in MaySend})
  + Cardinality({a \in Accounts : ctl[a].late})
  + Cardinality(Heard("syncFinished")) + Cardinality(Heard("resume"))

\* What the daemon can still do by itself.  A request may become a job, as a change
\* of EDS may; a job may end once; and an end may be retried, when it leaves an
\* error, or take the error away.
Workload ==
  5 * Cardinality(Heard("request"))
  + 4 * (Len(syncQueue) + Cardinality(changes))
  + 3 * EndsLeft
  + 2 * Cardinality({a \in Accounts : ~failed[a]})

\* The step handles a request or the end of a sync, or starts a job.
Works ==
  \/ pending # <<>> /\ Head(pending).name \in {"request", "syncFinished"}
  \/ IsValid(currentJob') /\ currentJob' # currentJob

LeftAlone == Alive /\ Alive' /\ events' = events

(* Left alone, the daemon has less to do with every request it handles,    *)
(* every job it starts and every sync that ends, and nothing it or an      *)
(* account does gives it more, the retries and the changes that EDS flushes*)
(* included: it cannot work for ever.  Only a configuration that goes on   *)
(* after its error adds work (onAccountSyncFinished, continueSync, sync,   *)
(* onDataChanged).                                                         *)
WorkRunsOut ==
  [][ LeftAlone =>
        /\ Workload' <= Workload \/ (GoesOnUnsaved' /\ ~GoesOnUnsaved)
        /\ Works => Workload' < Workload ]_vars

-----------------------------------------------------------------------------
(* What Scheduler sees of the daemon. *)

\* The accounts of the jobs of a queue, in their order.
Line(q) == [i \in 1 .. Len(q) |-> q[i].acc]

MayAsk == {a \in Accounts : enabled[a]}

Ended(signals) ==
  {a \in Accounts : \E i \in 1 .. Len(signals) :
     signals[i].name = "syncFinished" /\ signals[i].from = a}

Promise ==
  INSTANCE Scheduler WITH
    alive    <- Alive,
    known    <- Known,
    enabled  <- MayAsk,
    running  <- currentJob.acc,
    queued   <- Line(syncQueue),
    parked   <- Line(offlineQueue),
    due      <- timer,
    reported <- Ended(pending),
    shown    <- published

(* The daemon gives accounts their turns, one after the other and first    *)
(* come first served, as Scheduler promises it: whatever ends, fails, is   *)
(* cancelled, parked, resumed or asked for again, nobody is overtaken, none*)
(* gets a turn who did not ask, and what a client reads was true when it   *)
(* was last changed (sync, continueSync, syncFinishedImpl, cancel,         *)
(* onOnlineStatusChanged, updateState).                                    *)
ImplementsScheduler == Promise!Spec
=============================================================================
