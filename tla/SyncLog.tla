------------------------------ MODULE SyncLog ------------------------------
(***************************************************************************)
(* The log of results and what follows from it: SyncDaemon keeps the last  *)
(* result of every calendar (saveSyncResult, clearResultForSource,         *)
(* cleanupLogs in src/src/sync-daemon.cpp), and SyncAccount chooses the    *)
(* mode of the next sync by it (syncMode, continueSync in                  *)
(* src/src/sync-account.cpp): two-way, slow, or refresh-from-remote, which *)
(* throws away what was changed on the device.                             *)
(*                                                                         *)
(* One account.  The log is on disk; what the account has of a sync is not.*)
(* Calendars are numbered in the order of their source names, which is the *)
(* order of the maps they are kept in; 0 is the empty name that the error  *)
(* of a configuration is filed under.  A configuration is seen by what it  *)
(* leaves: which calendars the service lists, and which of them are        *)
(* writable (module SyncConfigure has the rest).                           *)
(*                                                                         *)
(* Left out: the dates, but whether there is one of a success; what the    *)
(* user is told; and a session that does not open, after which the account *)
(* does nothing any more (SyncAccount).                                    *)
(***************************************************************************)
EXTENDS SyncResults

CONSTANTS
  NCalendars,   \* the calendars of the account
  Codes,        \* the codes sources end with, and beside "0" the sessions
  None          \* no entry

Sources == 1 .. NCalendars
NoSource == 0

ASSUME LogConstants ==
  /\ NCalendars \in Nat
  /\ Codes \subseteq ResultCodes
  /\ None \notin ResultCodes

VARIABLES
  log,       \* ACCOUNT_LOG_LAST_SYNC_RESULT of each calendar
  dated,     \* calendars with an ACCOUNT_LOG_LAST_SUCCESSFUL_DATE
  presence,  \* "known" (in m_accounts), "removed", or "gone" with a restart
  enabled,   \* isEnabled()
  failed,    \* lastError() is not 0
  session,   \* m_currentSession is set
  late,      \* a cancelled session is not deleted yet
  onSync,    \* m_sourcesOnSync: open, done or no entry
  results,   \* m_currentSyncResults
  modes,     \* the flags of the session
  writable,  \* the calendars of the flags that m_remoteSources calls writable
  last,      \* the last code reported for a calendar, since its log was cleared
  dropped,   \* calendars whose last code was not logged
  retries    \* how many syncs in a row the daemon has asked for again, up to 2

logVars == <<log, dated>>
sessionVars == <<session, late, modes, writable>>
history == <<last, dropped, retries>>
vars == <<logVars, presence, enabled, failed, sessionVars, onSync, results, history>>

NoneOnSync == [s \in Sources |-> None]
NoResults == [s \in {} |-> None]

Init ==
  /\ log = [s \in Sources |-> None] /\ dated = {}
  /\ presence = "known" /\ enabled \in BOOLEAN /\ failed = FALSE
  /\ session = FALSE /\ late = FALSE
  /\ onSync = NoneOnSync /\ results = NoResults
  /\ modes = NoResults /\ writable = {}
  /\ last = [s \in Sources |-> None] /\ dropped = {} /\ retries = 0

Runs == presence # "gone"

\* r, and what q has beside it.
And(r, q) == [s \in DOMAIN r \cup DOMAIN q |-> IF s \in DOMAIN r THEN r[s] ELSE q[s]]

-----------------------------------------------------------------------------
(* The log *)

\* Mutant of SyncMode: no status is the number 0.
SyncModeOfNumber(status) ==
  CASE status \in OkCodes \cup {None, "500"} -> "two-way"
    [] status = "404" -> "refresh-from-remote"
    [] OTHER -> "slow"

\* syncMode()
SyncMode(status) ==
  CASE status \in OkCodes \cup {"500"} -> "two-way"
    [] status \in {None, "404"} -> "refresh-from-remote"
    [] OTHER -> "slow"

\* Mutant of Logged: the empty name is logged, too.
LoggedWithNoName(res) == IF enabled THEN Reached(failed, res) ELSE {}

\* The results that are logged: those the loop gets to, of a named source and of
\* an account that is enabled.
Logged(res) == IF enabled THEN Reached(failed, res) \ {NoSource} ELSE {}

\* syncFinished with the results res, of which the daemon logs what it should;
\* the account clears them afterwards.
Finished(res) ==
  /\ log' = [s \in Sources |-> IF s \in Logged(res) THEN res[s] ELSE log[s]]
  /\ dated' = dated \cup {s \in Logged(res) : res[s] \in OkCodes}
  /\ failed' = LastError(failed, res)
  /\ last' = [s \in Sources |-> IF s \in DOMAIN res THEN res[s] ELSE last[s]]
  /\ dropped' = (dropped \cup (DOMAIN res \ {NoSource})) \ Logged(res)
  /\ retries' = IF ~Retries(failed, res) THEN 0 ELSE IF retries = 0 THEN 1 ELSE 2
  /\ results' = NoResults

NoSession == session' = FALSE /\ modes' = NoResults /\ writable' = {}

\* setFinished(): releasing the session that is attached disconnects every
\* session, a cancelled one too; without one nothing is disconnected.
SetFinished(res, attached) ==
  /\ Finished(res)
  /\ onSync' = NoneOnSync
  /\ late' = (late /\ ~attached)
  /\ NoSession

-----------------------------------------------------------------------------
(* The account *)

\* The sources continueSync() starts for the wanted ones, of those that are
\* configured: it takes a wanted source out of the list, and takes every source
\* once the list is empty.
Taken(wanted, configured) ==
  {s \in configured : \/ s \in wanted
                      \/ wanted \subseteq {w \in configured : w < s}}

\* sync() and a configuration that finds these calendars, of which the service
\* says which ones may be written; then continueSync().
Sync(wanted, configured, mayWrite) ==
  LET flags == IF enabled THEN Taken(wanted, configured) ELSE {}
  IN  /\ Runs /\ ~session
      /\ \/ flags = {} /\ SetFinished(results, TRUE) /\ UNCHANGED <<presence, enabled>>
         \/ /\ flags # {}
            /\ session' = TRUE
            /\ writable' = flags \cap mayWrite
            /\ modes' = [s \in flags |-> IF s \in mayWrite THEN SyncMode(log[s])
                                         ELSE "refresh-from-remote"]
            /\ onSync' = [s \in Sources |-> IF s \in flags THEN "open" ELSE onSync[s]]
            /\ UNCHANGED <<logVars, presence, enabled, failed, late, results, history>>

\* sync() and a configuration that fails: onAccountConfigureError().
ConfigureFails(code) ==
  /\ Runs /\ ~session
  /\ SetFinished([s \in {NoSource} |-> code], FALSE)
  /\ UNCHANGED <<presence, enabled>>

\* A source of the session, or of one that was cancelled, is done.
SourceDone(s, code) ==
  /\ Runs /\ (session \/ late)
  /\ onSync[s] = "open"
  /\ onSync' = [onSync EXCEPT ![s] = "done"]
  /\ results' = And([k \in {s} |-> code], results)
  /\ UNCHANGED <<logVars, presence, enabled, failed, sessionVars, history>>

\* A session is done: an error is filed for every source that is not; without
\* one the sync is not finished before they all are.
SessionDone(error) ==
  LET open == {s \in Sources : onSync[s] = "open"}
  IN  /\ Runs /\ (session \/ late)
      /\ error # NoError \/ open = {}
      /\ SetFinished(And([s \in open |-> error], results), session)
      /\ UNCHANGED <<presence, enabled>>

\* SyncAccount::cancel(): the session is destroyed, and deleted later; what there
\* is of the sync stays for the next one.
Cancelled == IF session THEN late' = TRUE /\ NoSession ELSE UNCHANGED sessionVars

Cancel ==
  /\ Runs /\ session /\ Cancelled
  /\ UNCHANGED <<logVars, presence, enabled, failed, onSync, results, history>>

LateDeleted ==
  /\ Runs /\ late /\ late' = FALSE
  /\ UNCHANGED <<logVars, presence, enabled, failed, session, modes, writable,
                 onSync, results, history>>

-----------------------------------------------------------------------------
(* The daemon and its surroundings *)

\* Mutant of ClearResultForSource: the entry is looked for under another key.
ClearNothing(s) == UNCHANGED logVars

ClearResultForSource(s) ==
  /\ log' = [log EXCEPT ![s] = None]
  /\ dated' = dated \ {s}

\* onAccountSourceRemoved(): a configuration has removed the calendar.
OnAccountSourceRemoved(s) ==
  /\ Runs /\ ~session
  /\ ClearResultForSource(s)
  /\ last' = [last EXCEPT ![s] = None]
  /\ dropped' = dropped \ {s}
  /\ UNCHANGED <<presence, enabled, failed, sessionVars, onSync, results, retries>>

\* The calendar service is switched on or off.  The sync is cancelled when it is
\* switched off, but not with the whole account (onAccountEnableChanged).
EnabledChanged ==
  /\ presence = "known" /\ enabled' = ~enabled
  /\ (enabled /\ Cancelled) \/ UNCHANGED sessionVars
  /\ UNCHANGED <<logVars, presence, failed, onSync, results, history>>

\* removeAccount(): the object lives on, with an account that is not enabled.
RemoveAccount ==
  /\ presence = "known" /\ presence' = "removed" /\ enabled' = FALSE
  /\ Cancelled
  /\ UNCHANGED <<logVars, failed, onSync, results, history>>

\* cleanupLogs(): the log of an account that is not known any more goes.
CleanupLogs ==
  IF presence = "known" THEN UNCHANGED logVars
  ELSE log' = [s \in Sources |-> None] /\ dated' = {}

\* The daemon stops at any point and starts again: setupAccounts, cleanupLogs.
Restart ==
  /\ Runs
  /\ presence' = IF presence = "known" THEN "known" ELSE "gone"
  /\ CleanupLogs
  /\ failed' = FALSE /\ retries' = 0
  /\ onSync' = NoneOnSync /\ results' = NoResults
  /\ late' = FALSE /\ NoSession
  /\ IF presence = "known" THEN UNCHANGED <<last, dropped>>
     ELSE last' = [s \in Sources |-> None] /\ dropped' = {}
  /\ UNCHANGED enabled

Next ==
  \/ \E wanted, configured \in SUBSET Sources :
       \E mayWrite \in SUBSET configured : Sync(wanted, configured, mayWrite)
  \/ \E code \in Codes \cup {NoError} : ConfigureFails(code) \/ SessionDone(code)
  \/ \E s \in Sources :
       OnAccountSourceRemoved(s) \/ \E code \in Codes : SourceDone(s, code)
  \/ Cancel \/ LateDeleted
  \/ EnabledChanged \/ RemoveAccount \/ Restart

Spec == Init /\ [][Next]_vars

-----------------------------------------------------------------------------
Modes == {"two-way", "slow", "refresh-from-remote"}

TypeOK ==
  /\ log \in [Sources -> Codes \cup {None}]
  /\ dated \in SUBSET Sources
  /\ presence \in {"known", "removed", "gone"}
  /\ enabled \in BOOLEAN /\ failed \in BOOLEAN
  /\ session \in BOOLEAN /\ late \in BOOLEAN
  /\ onSync \in [Sources -> {"open", "done", None}]
  /\ DOMAIN results \subseteq Sources
  /\ \A s \in DOMAIN results : results[s] \in Codes
  /\ DOMAIN modes \subseteq Sources
  /\ \A s \in DOMAIN modes : modes[s] \in Modes
  /\ writable \in SUBSET Sources
  /\ last \in [Sources -> Codes \cup {None}]
  /\ dropped \in SUBSET Sources
  /\ retries \in 0 .. 2

(* The log says of a calendar what its last sync has come to, whatever was *)
(* cancelled, restarted or removed in between, unless the daemon has       *)
(* dropped the result; and it has a date of a success if that was one      *)
(* (saveSyncResult, clearResultForSource, cleanupLogs).                    *)
LogIsLast ==
  \A s \in Sources \ dropped :
    /\ log[s] = last[s]
    /\ last[s] \in OkCodes => s \in dated

\* The calendars a step starts a session for.
Started == IF ~session /\ session' THEN DOMAIN modes' ELSE {}

(* What was changed on the device is not thrown away: a writable calendar  *)
(* whose last sync had no error, and whose result was not dropped, is      *)
(* synced two-way; and one without a result is refreshed, so that it never *)
(* counts as synced before (syncMode, continueSync).                       *)
ModesFollowOutcomes ==
  [][ \A s \in Started \ dropped :
        /\ s \in writable' /\ last[s] \in OkCodes => modes'[s] = "two-way"
        /\ last[s] = None => modes'[s] = "refresh-from-remote" ]_vars

(* An error of the white list drops results once: the next sync of the     *)
(* account that ends, if the daemon is not restarted in between, is logged *)
(* and not asked for again (lastError in onAccountSyncFinished).           *)
RetriesAlternate == retries <= 1
=============================================================================
