----------------------------- MODULE SyncAccount -----------------------------
(***************************************************************************)
(* One SyncAccount (src/src/sync-account.cpp): the life of a sync from     *)
(* sync() over the configuration of SyncEvolution (sync-configure.cpp,     *)
(* seen here by its outcome) and the session to syncFinished, with         *)
(* cancel() and the enabling of the account in between.                    *)
(*                                                                         *)
(* The daemon, the online-accounts library, the SyncEvolution server and   *)
(* the remote service are the environment: they call, answer or fail in    *)
(* any order the event loop allows.                                        *)
(*                                                                         *)
(* A signal is a synchronous call of its slots.  `calls' holds what is left*)
(* to do once the slots of a signal have returned:                         *)
(*   "slot"    syncFinished is being delivered, and its slot has not called*)
(*             sync() on this account; then results are cleared            *)
(*   "clear"   the same, after its slot has called sync()                  *)
(*   "resume"  a SyncConfigure has reported a failed save and goes on *)
(* No event is handled while a call is pending.                            *)
(***************************************************************************)
EXTENDS Integers, Sequences

CONSTANTS
  Sources,         \* the calendars of the account
  NoSource,        \* the empty name a configuration error is filed under
  SessionErrors,   \* error codes of a session or of a source
  None,            \* no entry in a QMap
  MaxCalls         \* bound on the nesting of calls; the jobs in the daemon's
                   \* queue bound it in the program

OK == "0"

\* The codes remoteSourcesAvailable() and SyncConfigure::error() carry.
NotAuthenticated == "304"
Forbidden == "403"
BadContent == "20007"
ConfigFailed == "-1"

Codes == {OK, NotAuthenticated, Forbidden, BadContent, ConfigFailed} \cup SessionErrors

States == {"Configuring", "AboutToSync", "Syncing", "Idle", "Invalid"}
SourceStates == {"Starting", "Running", "Done"}
Phases == {"none", "auth", "fetch", "peer", "lost"}
CallNames == {"slot", "clear", "resume"}
Faults == {"none", "assertion", "null pointer", "deleted session"}
SignalNames == {"syncStarted", "syncError", "syncFinished", "enableChanged"}

ASSUME AccountConstants ==
  /\ NoSource \notin Sources
  /\ None \notin Codes \cup SourceStates
  /\ OK \notin SessionErrors
  /\ MaxCalls \in Nat

VARIABLES
  state,      \* m_state
  config,     \* m_config is set
  phase,      \* how far m_config is, or that it will not call back: "lost"
  session,    \* m_currentSession, with the sources it was started for,
              \* whether the server has reported it done, and whether it is
              \* lost: its Sync call has failed or the server has stopped, so
              \* that nobody owes its end, though statuses may come all the same
  late,       \* a cancelled session that is not deleted yet, still connected
  toSync,     \* m_sourcesToSync; empty for every source
  onSync,     \* m_sourcesOnSync
  results,    \* m_currentSyncResults
  enabled,    \* the calendar service of the account is enabled
  calls,      \* pending calls, the innermost first
  fault,      \* what has stopped the process, if anything has
  out,        \* the signals the last step emitted
  reported,   \* the results the last syncFinished carried
  tainted     \* what a cancelled session left or sends may be in the maps

control == <<state, config, phase, session, late, toSync, onSync>>
vars == <<state, config, phase, session, late, toSync, onSync,
          results, enabled, calls, fault, out, reported, tainted>>

NoSession == [live |-> FALSE, flags |-> {}, over |-> FALSE, lost |-> FALSE]
Session(flags, lost) == [live |-> TRUE, flags |-> flags, over |-> FALSE, lost |-> lost]

NoneOnSync == [s \in Sources |-> None]
NoResults == [s \in Sources \cup {NoSource} |-> None]

Init ==
  /\ state = "Idle"
  /\ config = FALSE /\ phase = "none"
  /\ session = NoSession /\ late = NoSession
  /\ toSync = {} /\ onSync = NoneOnSync /\ results = NoResults
  /\ enabled \in BOOLEAN
  /\ calls = <<>> /\ fault = "none"
  /\ out = <<>> /\ reported = NoResults /\ tainted = FALSE

Alive == fault = "none"

\* The event loop runs: no call is pending and the process is alive.
Ready == calls = <<>> /\ Alive

-----------------------------------------------------------------------------
(* Parts of handlers.  `rest' is what stays pending behind the part. *)

\* Mutant of SetFinished: the state is not set back.
SetFinishedInState(res, signals, lateAfter, rest) ==
  /\ state' = state
  /\ onSync' = NoneOnSync /\ toSync' = {}
  /\ session' = NoSession
  /\ results' = res /\ reported' = res
  /\ late' = lateAfter /\ tainted' = lateAfter.live
  /\ out' = Append(signals, "syncFinished")
  /\ calls' = <<"slot">> \o rest

\* setFinished() with the results so far: the session is disconnected, a late
\* one with it, and syncFinished delivered; results are cleared afterwards.
SetFinished(res, signals, lateAfter, rest) ==
  /\ state' = "Idle"
  /\ onSync' = NoneOnSync /\ toSync' = {}
  /\ session' = NoSession
  /\ results' = res /\ reported' = res
  /\ late' = lateAfter /\ tainted' = lateAfter.live
  /\ out' = Append(signals, "syncFinished")
  /\ calls' = <<"slot">> \o rest

\* What releaseSession() leaves of the late session's connections.
LateAfterRelease == IF session.live THEN NoSession ELSE late

\* The sources continueSync() may start a session for.  It goes through the
\* calendars of the configuration in the order of their names, takes each one
\* out of m_sourcesToSync, and takes every calendar while the list is empty:
\* all of them without wanted sources, and also those behind the last wanted
\* one.  A wanted source without a calendar keeps the list from being empty.
MayStart(wanted) ==
  IF enabled
  THEN {flags \in SUBSET Sources : flags \subseteq wanted \/ wanted \subseteq flags}
  ELSE {{}}

\* continueSync() for the sources in `wanted'.  The session opens or it does
\* not, and is started for the sources `flags'.  attachSession() asserts that
\* there is no session yet.  SyncEvolutionSessionProxy::sync() only logs a Sync
\* call that fails, as it may for a session that is still queueing: the account
\* waits as if the server had taken it.
ContinueSync(wanted, opened, flags, rest) ==
  LET asserted == opened => ~session.live
  IN  /\ fault' = IF asserted THEN fault ELSE "assertion"
      /\ \/ /\ ~asserted
            /\ state' = "AboutToSync"
            /\ toSync' = wanted /\ calls' = rest /\ out' = <<>>
            /\ UNCHANGED <<session, late, onSync, results, reported, tainted>>
         \/ /\ ~opened
            /\ state' = "Invalid"
            /\ toSync' = wanted /\ calls' = rest /\ out' = <<>>
            /\ UNCHANGED <<session, late, onSync, results, reported, tainted>>
         \/ /\ opened /\ asserted /\ flags = {}
            /\ SetFinished(results, <<>>, NoSession, rest)
         \/ /\ opened /\ asserted /\ flags # {}
            /\ state' = "AboutToSync"
            /\ \E lost \in BOOLEAN : session' = Session(flags, lost)
            /\ onSync' = [s \in Sources |-> IF s \in flags THEN "Starting" ELSE onSync[s]]
            /\ toSync' = {} /\ calls' = rest /\ out' = <<>>
            /\ UNCHANGED <<late, results, reported, tainted>>

\* onAccountConfigureError(code)
OnAccountConfigureError(code, rest) ==
  /\ config' = FALSE /\ phase' = "none"
  /\ SetFinished([NoResults EXCEPT ![NoSource] = code], <<"syncError">>,
                 LateAfterRelease, rest)
  /\ UNCHANGED <<enabled, fault>>

\* onAccountConfigured(): m_config is given up, whichever object it is.
OnAccountConfigured(rest) ==
  /\ config' = FALSE /\ phase' = "none"
  /\ \E opened \in BOOLEAN, flags \in MayStart(toSync) :
       ContinueSync(toSync, opened, flags, rest)
  /\ UNCHANGED enabled

-----------------------------------------------------------------------------
(* Calls of the daemon. *)

\* configure(): SyncAuth::authenticate() asks signond for a token.
AuthRequested(wanted, rest) ==
  /\ state' = "Configuring" /\ config' = TRUE /\ phase' = "auth"
  /\ toSync' = wanted /\ calls' = rest /\ out' = <<>>
  /\ UNCHANGED <<session, late, onSync, results, enabled, fault, reported, tainted>>

\* configure(): authenticate() refuses, as the account, its service, its identity
\* or a session of signond is missing, or the service is not enabled.
AuthRefused(rest) == OnAccountConfigureError(NotAuthenticated, rest)

\* sync(): from an event, or from the slot of syncFinished.  Only an idle
\* account takes it; configure() goes straight on when there is a m_config.
Sync(wanted) ==
  LET rest == IF calls = <<>> THEN <<>> ELSE <<"clear">> \o Tail(calls)
  IN  /\ Alive
      /\ calls # <<>> => Head(calls) = "slot" /\ Len(calls) < MaxCalls
      /\ \/ /\ state # "Idle"
            /\ calls' = rest /\ out' = <<>>
            /\ UNCHANGED <<control, results, enabled, fault, reported, tainted>>
         \/ /\ state = "Idle" /\ config
            /\ \E opened \in BOOLEAN, flags \in MayStart(wanted) :
                 ContinueSync(wanted, opened, flags, rest)
            /\ UNCHANGED <<config, phase, enabled>>
         \/ /\ state = "Idle" /\ ~config
            /\ AuthRequested(wanted, rest) \/ AuthRefused(rest)

\* cancel(): without a session there is nothing it does.  The session is not
\* disconnected and the maps of the run stay as they are.
Cancel ==
  /\ Ready
  /\ IF session.live
     THEN /\ late' = [session EXCEPT !.lost = FALSE]
          /\ session' = NoSession
          /\ out' = IF state = "Syncing" THEN <<"syncError">> ELSE <<>>
          /\ state' = "Idle"
          /\ tainted' = TRUE
     ELSE out' = <<>> /\ UNCHANGED <<state, session, late, tainted>>
  /\ UNCHANGED <<config, phase, toSync, onSync, results, enabled, calls, fault, reported>>

\* Mutant of Return: the results stay.
ReturnWithResults ==
  /\ Alive
  /\ calls # <<>> /\ Head(calls) \in {"slot", "clear"}
  /\ calls' = Tail(calls)
  /\ out' = <<>>
  /\ UNCHANGED <<control, results, enabled, fault, reported, tainted>>

\* The rest of setFinished() once the slots of syncFinished have returned.
Return ==
  /\ Alive
  /\ calls # <<>> /\ Head(calls) \in {"slot", "clear"}
  /\ calls' = Tail(calls)
  /\ results' = NoResults
  /\ out' = <<>>
  /\ UNCHANGED <<control, enabled, fault, reported, tainted>>

-----------------------------------------------------------------------------
(* The configuration: SyncConfigure and what it asks of the account. *)

\* An answer of another process, asked for in a later pass of the event loop
\* than the one that deletes a cancelled session.
ConfigStep(from) == Ready /\ ~late.live /\ phase \in from

\* onAuthSucess(): the list of remote calendars is requested.
AuthSucceeds ==
  /\ ConfigStep({"auth"})
  /\ phase' = "fetch" /\ out' = <<>>
  /\ UNCHANGED <<state, config, session, late, toSync, onSync,
                 results, enabled, calls, fault, reported, tainted>>

\* onAuthFailed()
AuthFails == ConfigStep({"auth"}) /\ OnAccountConfigureError(Forbidden, <<>>)

\* onReplyFinished() or fetchRemoteCalendarsProcessDone() without a calendar:
\* the service has refused, answered nonsense, or has none (error 0).
FetchFails ==
  /\ ConfigStep({"fetch"})
  /\ \E code \in {Forbidden, BadContent, OK} : OnAccountConfigureError(code, <<>>)

\* QProcess does not emit finished() for a program that does not start.
FetchIsLost ==
  /\ ConfigStep({"fetch"})
  /\ phase' = "lost" /\ out' = <<>>
  /\ UNCHANGED <<state, config, session, late, toSync, onSync,
                 results, enabled, calls, fault, reported, tainted>>

\* Mutant of PeerQueued: the account is asked for its token once more.
PeerAskedAgain ==
  /\ ConfigStep({"fetch"})
  /\ phase' = "auth" /\ out' = <<>>
  /\ UNCHANGED <<state, config, session, late, toSync, onSync,
                 results, enabled, calls, fault, reported, tainted>>

\* The peer session is not active yet; configurePeer() waits for its status.
PeerQueued ==
  /\ ConfigStep({"fetch"})
  /\ phase' = "peer" /\ out' = <<>>
  /\ UNCHANGED <<state, config, session, late, toSync, onSync,
                 results, enabled, calls, fault, reported, tainted>>

\* A session that does not open: configurePeer(), and continuePeerConfig() for
\* the local one, call its methods without a look at the pointer.
PeerNotOpened ==
  /\ ConfigStep({"fetch", "peer"})
  /\ fault' = "null pointer" /\ out' = <<>>
  /\ UNCHANGED <<control, results, enabled, calls, reported, tainted>>

PeerFails == ConfigStep({"peer"}) /\ OnAccountConfigureError(ConfigFailed, <<>>)

\* continuePeerConfig() gets to its end, with or without a change to save.
ConfigDone == ConfigStep({"fetch", "peer"}) /\ OnAccountConfigured(<<>>)

\* The peer configuration is not saved: error(-1), and the function goes on.
SaveFails ==
  /\ ConfigStep({"fetch", "peer"})
  /\ OnAccountConfigureError(ConfigFailed, <<"resume">>)

\* The local session is queueing: continuePeerConfig() returns silently.  Or the
\* server has stopped, and the status configurePeer() waits for does not come.
LocalQueued ==
  /\ ConfigStep({"fetch", "peer"})
  /\ phase' = "lost" /\ out' = <<>>
  /\ UNCHANGED <<state, config, session, late, toSync, onSync,
                 results, enabled, calls, fault, reported, tainted>>

\* The end of continuePeerConfig() after a failed save: silent, or done().  The
\* daemon has deleted the server proxy in a slot and the session with it, so
\* that session->destroy() may as well stop the process.
Resume ==
  /\ Alive
  /\ calls # <<>> /\ Head(calls) = "resume"
  /\ \/ OnAccountConfigured(Tail(calls))
     \/ /\ calls' = Tail(calls) /\ out' = <<>>
        /\ UNCHANGED <<control, results, enabled, fault, reported, tainted>>
     \/ /\ fault' = "deleted session" /\ out' = <<>>
        /\ UNCHANGED <<control, results, enabled, calls, reported, tainted>>

-----------------------------------------------------------------------------
(* The session: onSessionStatusChanged(). *)

\* m_sourcesOnSync.value(): a source that is not in the map counts as Starting.
StateOf(s) == IF onSync[s] = None THEN "Starting" ELSE onSync[s]

\* The statuses of the sources in one message: those it calls running, and
\* those it calls done with their codes.  Idle sources and other words are
\* skipped.  A source goes from Starting to Running to Done and nowhere else.
Statuses(flags) ==
  [run : SUBSET flags, fin : [flags -> {None, OK} \cup SessionErrors]]

WellFormed(m) == \A s \in m.run : m.fin[s] = None

IsFinished(m, s) ==
  s \in DOMAIN m.fin /\ m.fin[s] # None /\ StateOf(s) = "Running"

OnSyncAfter(m) ==
  [s \in Sources |->
     CASE s \in m.run /\ StateOf(s) = "Starting" -> "Running"
       [] IsFinished(m, s) -> "Done"
       [] OTHER -> onSync[s]]

\* Mutants of ResultsAfter: the status is filed for the code; only errors are.
StatusesAfter(m) ==
  [s \in DOMAIN results |-> IF IsFinished(m, s) THEN "done" ELSE results[s]]

ErrorsAfter(m) ==
  [s \in DOMAIN results |->
     IF IsFinished(m, s) /\ m.fin[s] # OK THEN m.fin[s] ELSE results[s]]

ResultsAfter(m) ==
  [s \in DOMAIN results |-> IF IsFinished(m, s) THEN m.fin[s] ELSE results[s]]

\* The sources that are on sync and not done, after the statuses of m.
OpenBefore(m) == {s \in Sources : onSync[s] \notin {None, "Done"}}   \* mutant
OpenAfter(m) == {s \in Sources : OnSyncAfter(m)[s] \notin {None, "Done"}}

StartedAnew == TRUE   \* mutant of Started: every status starts the sync
Started == state = "AboutToSync"
StateAfter == IF Started THEN "Syncing" ELSE state

\* Messages come from the current session or from the late one.
Origins == {"session", "late"}
Origin(from) == IF from = "session" THEN session ELSE late
Sending(from) == Ready /\ Origin(from).live /\ ~Origin(from).over

\* A status other than "done".
StatusChanged(from, m) ==
  /\ Sending(from)
  /\ state' = StateAfter
  /\ onSync' = OnSyncAfter(m) /\ results' = ResultsAfter(m)
  /\ out' = IF Started THEN <<"syncStarted">> ELSE <<>>
  /\ UNCHANGED <<config, phase, session, late, toSync,
                 enabled, calls, fault, reported, tainted>>

\* The session is over.  An error is filed for the sources that are not done,
\* reported, and ends the sync; otherwise every source has to be done.
SessionDone(from, m, error) ==
  LET open == OpenAfter(m)
      res == [s \in DOMAIN results |->
                IF error # OK /\ s \in open THEN error ELSE ResultsAfter(m)[s]]
  IN  /\ Sending(from)
      /\ IF error # OK \/ open = {}
         THEN SetFinished(res, IF error # OK THEN <<"syncError">> ELSE <<>>,
                          IF from = "late" THEN NoSession ELSE LateAfterRelease, <<>>)
         ELSE /\ onSync' = OnSyncAfter(m) /\ results' = res /\ out' = <<>>
              /\ session' = [session EXCEPT !.over = @ \/ from = "session"]
              /\ late' = IF from = "late" THEN NoSession ELSE late
              /\ UNCHANGED <<state, toSync, calls, reported, tainted>>
      /\ UNCHANGED <<config, phase, enabled, fault>>

\* The server stops before the session is over.  Nothing watches the name it has
\* on the bus: the account is not told.
SessionIsLost ==
  /\ Ready /\ session.live /\ ~session.over /\ ~session.lost
  /\ session' = [session EXCEPT !.lost = TRUE]
  /\ out' = <<>>
  /\ UNCHANGED <<state, config, phase, late, toSync, onSync,
                 results, enabled, calls, fault, reported, tainted>>

\* The deferred deletion of a cancelled session: nothing comes from it any more.
LateDeleted ==
  /\ Ready /\ late.live
  /\ late' = NoSession /\ out' = <<>>
  /\ UNCHANGED <<state, config, phase, session, toSync, onSync,
                 results, enabled, calls, fault, reported, tainted>>

\* onAccountEnabledChanged(), for the whole account or its calendar service.
EnabledChanged ==
  /\ Ready
  /\ enabled' = ~enabled
  /\ out' = <<"enableChanged">>
  /\ UNCHANGED <<control, results, calls, fault, reported, tainted>>

-----------------------------------------------------------------------------
Configure ==
  \/ AuthSucceeds \/ AuthFails
  \/ FetchFails \/ PeerQueued \/ PeerFails
  \/ ConfigDone \/ SaveFails

SessionStep ==
  \E from \in Origins :
    \E m \in Statuses(Origin(from).flags) :
      /\ WellFormed(m)
      /\ \/ StatusChanged(from, m)
         \/ \E error \in {OK} \cup SessionErrors : SessionDone(from, m, error)

Next ==
  \/ \E wanted \in SUBSET Sources : Sync(wanted)
  \/ Cancel
  \/ Configure \/ FetchIsLost \/ PeerNotOpened \/ LocalQueued
  \/ SessionStep \/ SessionIsLost \/ LateDeleted
  \/ Resume \/ Return
  \/ EnabledChanged

Spec == Init /\ [][Next]_vars

\* The server ends a session of the account whose Sync call it has taken.
ServerEnds ==
  /\ ~session.lost
  /\ \E m \in Statuses(session.flags), error \in {OK} \cup SessionErrors :
       WellFormed(m) /\ SessionDone("session", m, error)

\* Every process that is asked for something answers: the calls return, the
\* configuration gets its answers, the server ends a session it has taken, and
\* the event loop deletes what is to be deleted.  A server that has refused the
\* Sync call, or has stopped, owes nothing.  Nothing makes a client call again.
Fairness ==
  /\ WF_vars(Return) /\ WF_vars(Resume)
  /\ WF_vars(Configure)
  /\ WF_vars(ServerEnds)
  /\ WF_vars(LateDeleted)

FairSpec == Spec /\ Fairness

-----------------------------------------------------------------------------
PartialResults == [Sources \cup {NoSource} -> Codes \cup {None}]
SessionsOf == [live : BOOLEAN, flags : SUBSET Sources, over : BOOLEAN, lost : BOOLEAN]

TypeOK ==
  /\ state \in States
  /\ config \in BOOLEAN /\ phase \in Phases
  /\ session \in SessionsOf /\ late \in SessionsOf
  /\ toSync \in SUBSET Sources
  /\ onSync \in [Sources -> SourceStates \cup {None}]
  /\ results \in PartialResults /\ reported \in PartialResults
  /\ enabled \in BOOLEAN /\ tainted \in BOOLEAN
  /\ calls \in Seq(CallNames)
  /\ fault \in Faults
  /\ out \in Seq(SignalNames)

(* An account that syncs has a session, and one that is idle or configuring*)
(* has none: no path through setFinished, cancel, a session that does not  *)
(* open or a late status leaves a session behind that nothing would close, *)
(* or a state that waits for a session that is gone (attachSession,        *)
(* releaseSession, cancel, setState).                                      *)
SessionMatchesState ==
  /\ state \in {"AboutToSync", "Syncing"} => session.live
  /\ session.live => state \notin {"Idle", "Configuring"}

(* A configuring account waits for a SyncConfigure that is still its       *)
(* m_config: none was given up behind its back, by a second configuration  *)
(* or a status that ended the sync (configure, onAccountConfigured).       *)
ConfiguringHasConfig ==
  state = "Configuring" => config /\ phase # "none"

(* A session that is over keeps the account waiting only for a source that *)
(* is not done: one of which the "running" status never arrived            *)
(* (onSessionStatusChanged, status "done").                                *)
OverOnlyForOpenSource ==
  session.over /\ ~tainted => \E s \in Sources : onSync[s] \in {"Starting", "Running"}

\* The step ends a sync without an error, and reports the sources it was for.
SourcesReported ==
  session.live /\ ~tainted /\ out' = <<"syncFinished">> =>
    {s \in DOMAIN reported' : reported'[s] # None} = session.flags

(* A sync that no cancel came before reports, when it ends without an      *)
(* error, exactly the sources it was started for (m_sourcesOnSync,         *)
(* m_currentSyncResults, setFinished).                                     *)
ReportsWhatItStarted == [][SourcesReported]_vars

(* An idle account that was not cancelled carries nothing over from the    *)
(* last sync into the next: its maps are empty once all slots have returned*)
(* (setFinished clears the results after its slots, which may start a sync)*)
NothingCarriedOver ==
  calls = <<>> /\ state = "Idle" /\ ~tainted =>
    results = NoResults /\ onSync = NoneOnSync /\ toSync = {}

(* "Q_ASSERT(m_currentSession == 0)" in attachSession: a session is attached*)
(* only to an account that has none.                                       *)
AttachAsserted == fault # "assertion"

\* A sync has begun, and has neither ended nor been lost.
UnderWay ==
  ~( \/ state \in {"Idle", "Invalid"} \/ phase = "lost"
     \/ session.over \/ session.lost \/ ~Alive )

(* A sync that has begun comes to an end, syncFinished or cancelled, but for*)
(* the ways it is lost: the session cannot be opened (Invalid), the        *)
(* configuration never calls back, the session is over with a source that  *)
(* is not done, or the server has not taken the Sync call, of which there  *)
(* is but a line in the log, or stops (continueSync,                       *)
(* SyncEvolutionSessionProxy::sync, onSessionStatusChanged).               *)
SyncEnds == UnderWay ~> ~UnderWay

\* What a sync under way waits for.
Due ==
  CASE calls # <<>> /\ Head(calls) = "resume" -> "Resume"
    [] calls # <<>> /\ Head(calls) # "resume" -> "Return"
    [] calls = <<>> /\ late.live -> "LateDeleted"
    [] calls = <<>> /\ ~late.live /\ state = "Configuring" -> "Configure"
    [] OTHER -> "ServerEnds"

\* Somebody has been asked for it, and its handler would do something.
DueIsAwaited ==
  /\ Due = "Configure" => config /\ phase \in {"auth", "fetch", "peer"}
  /\ Due = "ServerEnds" => session.live /\ ~session.over /\ ~session.lost

DueHappens ==
  \/ Due = "Resume" /\ Resume
  \/ Due = "Return" /\ Return
  \/ Due = "LateDeleted" /\ LateDeleted
  \/ Due = "Configure" /\ Configure
  \/ Due = "ServerEnds" /\ ServerEnds

\* The answers a configuration asks for until it is done.
AnswersLeft ==
  CASE phase = "auth" -> 3 [] phase = "fetch" -> 2 [] phase = "peer" -> 1 [] OTHER -> 0

\* How much of it is left: the calls that wait, a cancelled session that is not
\* deleted and the answers of the configuration.
Distance == Len(calls) + AnswersLeft + IF late.live THEN 1 ELSE 0

ComesNearer ==
  UnderWay =>
    /\ DueIsAwaited
    /\ UnderWay' => /\ Distance' < Distance \/ (Distance' = Distance /\ Due' = Due)
                    /\ DueHappens => Distance' < Distance

(* A sync under way always waits for something that was asked for, and     *)
(* nothing that happens meanwhile -- a request, a cancel, a late status,   *)
(* the account enabled or disabled -- sets it back or replaces what it     *)
(* waits for; when that comes, the sync is nearer to its end (sync(),      *)
(* cancel(), onSessionStatusChanged(), SyncConfigure).                     *)
SyncComesNearer == [][ComesNearer]_vars

-----------------------------------------------------------------------------
\* The control state the daemon sees of this account.
Control ==
  [state   |-> state,
   config  |-> CASE ~config -> "none"
                 [] config /\ phase = "lost" -> "lost"
                 [] OTHER -> "busy",
   session |-> CASE ~session.live -> "none"
                 [] session.live /\ session.over -> "over"
                 [] session.live /\ ~session.over /\ session.lost -> "lost"
                 [] OTHER -> "open",
   late    |-> late.live /\ ~late.over]

\* The same once the process has stopped, and whether the rest of a
\* configuration is pending.
Visible ==
  IF Alive THEN Control
  ELSE [state |-> "Dead", config |-> "none", session |-> "none", late |-> FALSE]

Resuming == Alive /\ \E i \in DOMAIN calls : calls[i] = "resume"

Interface ==
  INSTANCE AccountInterface WITH ctl <- Visible, sig <- out, resuming <- Resuming

(* The account does, towards the daemon, only what AccountInterface allows:*)
(* each handler ends in one of the outcomes SyncDaemon is composed with.   *)
ImplementsInterface == Interface!Spec
=============================================================================
