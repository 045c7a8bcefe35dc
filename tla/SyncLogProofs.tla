---------------------------- MODULE SyncLogProofs ----------------------------
(***************************************************************************)
(* Theorems of SyncLog for any number of calendars and every set of codes: *)
(* all the properties that the run checks.                                 *)
(*                                                                         *)
(* LogIsLast is inductive with the types.  RetriesAlternate is with what   *)
(* stops a second retry: after a sync that is asked for again the account  *)
(* has a last error (RetryLeavesError).                                    *)
(***************************************************************************)
EXTENDS SyncLog, TLAPS

RetryLeavesError == retries \in {0, 1} /\ (retries = 1 => failed)

Inv == TypeOK /\ LogIsLast /\ RetryLeavesError

-----------------------------------------------------------------------------
\* Results are codes of calendars, or of the empty name.
ResultsOK(res) ==
  /\ DOMAIN res \subseteq Sources \cup {NoSource}
  /\ \A s \in DOMAIN res \ {NoSource} : res[s] \in Codes

LEMMA Domains ==
  /\ None \notin OkCodes /\ None \notin WhiteList /\ None # "404"
  /\ NoSource \notin Sources
BY LogConstants DEF OkCodes, NoError, WhiteList, ResultCodes, OtherErrors, NoSource, Sources

LEMMA Empty == DOMAIN NoResults = {}
BY DEF NoResults

LEMMA ModesOf ==
  /\ \A status \in OkCodes : SyncMode(status) = "two-way"
  /\ SyncMode(None) = "refresh-from-remote"
<1>1. \A status \in OkCodes : SyncMode(status) = "two-way"
  BY Domains DEF SyncMode, OkCodes, NoError
<1>2. None # "500" /\ None \notin OkCodes
  BY Domains DEF WhiteList
<1>3. SyncMode(None) = "refresh-from-remote"
  BY <1>2 DEF SyncMode
<1> QED BY <1>1, <1>3

LEMMA InitInv == Init => Inv
<1> SUFFICES ASSUME Init PROVE Inv
  OBVIOUS
<1>1. TypeOK
  <2>1. /\ DOMAIN results = {} /\ DOMAIN modes = {} /\ retries = 0
        /\ log = [s \in Sources |-> None] /\ last = [s \in Sources |-> None]
        /\ onSync = [s \in Sources |-> None]
    BY Empty DEF Init, NoneOnSync
  <2>2. /\ [s \in Sources |-> None] \in [Sources -> Codes \cup {None}]
        /\ [s \in Sources |-> None] \in [Sources -> {"open", "done", None}]
    OBVIOUS
  <2>3. 0 \in 0 .. 2
    OBVIOUS
  <2> QED BY <2>1, <2>2, <2>3, Zenon DEF Init, TypeOK
<1>2. LogIsLast
  BY Domains DEF Init, LogIsLast
<1> QED BY <1>1, <1>2 DEF Inv, Init, RetryLeavesError

(* The end of a sync: what is logged is what was reported, and what was    *)
(* not logged is dropped (onAccountSyncFinished).                          *)
LEMMA FinishedStep ==
  ASSUME Inv, NEW res, ResultsOK(res), Finished(res)
  PROVE  /\ log' \in [Sources -> Codes \cup {None}] /\ dated' \in SUBSET Sources
         /\ failed' \in BOOLEAN /\ last' \in [Sources -> Codes \cup {None}]
         /\ dropped' \in SUBSET Sources /\ results' = NoResults
         /\ LogIsLast' /\ RetryLeavesError'
<1>1. Logged(res) \subseteq DOMAIN res \ {NoSource} /\ Logged(res) \subseteq Sources
  BY DEF Logged, Reached, ResultsOK
<1>2. /\ log' = [s \in Sources |-> IF s \in Logged(res) THEN res[s] ELSE log[s]]
      /\ dated' = dated \cup {s \in Logged(res) : res[s] \in OkCodes}
      /\ failed' = LastError(failed, res)
      /\ last' = [s \in Sources |-> IF s \in DOMAIN res THEN res[s] ELSE last[s]]
      /\ dropped' = (dropped \cup (DOMAIN res \ {NoSource})) \ Logged(res)
      /\ retries' = IF ~Retries(failed, res) THEN 0 ELSE IF retries = 0 THEN 1 ELSE 2
      /\ results' = NoResults
  BY DEF Finished
<1>3. /\ log \in [Sources -> Codes \cup {None}] /\ last \in [Sources -> Codes \cup {None}]
      /\ dated \in SUBSET Sources /\ dropped \in SUBSET Sources
      /\ failed \in BOOLEAN
  BY DEF Inv, TypeOK
<1>4. \A s \in Sources : s \in DOMAIN res => res[s] \in Codes
  BY Domains DEF ResultsOK
<1>5. log' \in [Sources -> Codes \cup {None}] /\ last' \in [Sources -> Codes \cup {None}]
  BY <1>1, <1>2, <1>3, <1>4
<1>6. dated' \in SUBSET Sources /\ dropped' \in SUBSET Sources
  BY <1>1, <1>2, <1>3 DEF ResultsOK
<1>7. failed' \in BOOLEAN
  BY <1>2 DEF LastError, Retries
<1>8. LogIsLast'
  <2> SUFFICES ASSUME NEW s \in Sources, s \notin dropped'
               PROVE  log'[s] = last'[s] /\ (last'[s] \in OkCodes => s \in dated')
    BY DEF LogIsLast
  <2>1. CASE s \in Logged(res)
    BY <1>1, <1>2, <2>1
  <2>2. CASE s \notin Logged(res)
    <3>1. s \notin dropped /\ s \notin DOMAIN res
      BY <1>2, <2>2, Domains
    <3>2. log[s] = last[s] /\ (last[s] \in OkCodes => s \in dated)
      BY <3>1 DEF Inv, LogIsLast
    <3> QED BY <1>2, <2>2, <3>1, <3>2
  <2> QED BY <2>1, <2>2
<1>9. RetryLeavesError'
  <2>1. retries \in {0, 1} /\ (retries = 1 => failed)
    BY DEF Inv, RetryLeavesError
  <2>2. CASE Retries(failed, res)
    <3>1. ~failed /\ failed' = TRUE
      BY <1>2, <2>2 DEF Retries, LastError
    <3> QED BY <1>2, <2>1, <2>2, <3>1 DEF RetryLeavesError
  <2>3. CASE ~Retries(failed, res)
    BY <1>2, <2>3 DEF RetryLeavesError
  <2> QED BY <2>2, <2>3
<1> QED BY <1>2, <1>5, <1>6, <1>7, <1>8, <1>9

LEMMA SetFinishedStep ==
  ASSUME Inv, NEW res, ResultsOK(res), NEW attached \in BOOLEAN,
         SetFinished(res, attached), UNCHANGED <<presence, enabled>>
  PROVE  Inv' /\ ~session'
<1>1. Finished(res)
  BY DEF SetFinished
<1>2. /\ onSync' = NoneOnSync /\ session' = FALSE /\ late' \in BOOLEAN
      /\ modes' = NoResults /\ writable' = {}
  BY DEF SetFinished, NoSession
<1>3. retries' \in 0 .. 2
  BY <1>1, FinishedStep DEF RetryLeavesError
<1>4. TypeOK'
  BY <1>1, <1>2, <1>3, FinishedStep, Empty DEF Inv, TypeOK, NoneOnSync
<1> QED BY <1>1, <1>2, <1>4, FinishedStep DEF Inv

LEMMA AndOK ==
  ASSUME Inv, NEW S \in SUBSET Sources, NEW code, S = {} \/ code \in Codes
  PROVE  /\ ResultsOK(And([s \in S |-> code], results))
         /\ DOMAIN And([s \in S |-> code], results) \subseteq Sources
<1> DEFINE r == [s \in S |-> code]
           both == And(r, results)
<1>1. DOMAIN r = S /\ \A s \in S : r[s] = code
  OBVIOUS
<1>2. DOMAIN results \subseteq Sources /\ \A s \in DOMAIN results : results[s] \in Codes
  BY DEF Inv, TypeOK
<1> HIDE DEF r
<1>3. /\ DOMAIN both = S \cup DOMAIN results
      /\ \A s \in DOMAIN both : both[s] = IF s \in S THEN r[s] ELSE results[s]
  BY <1>1 DEF And
<1>4. \A s \in DOMAIN both : both[s] \in Codes
  BY <1>1, <1>2, <1>3
<1> QED BY <1>2, <1>3, <1>4 DEF ResultsOK, r

\* What is left alone by a step that ends no sync and does not touch the log.
LEMMA HistoryStays ==
  ASSUME Inv, UNCHANGED <<logVars, failed, history>>
  PROVE  LogIsLast' /\ RetryLeavesError'
BY DEF Inv, LogIsLast, RetryLeavesError, logVars, history

LEMMA SyncModes == \A status : SyncMode(status) \in Modes
BY DEF SyncMode, Modes

(* A sync starts a session with the modes that follow from the log, or has *)
(* nothing to do and ends (continueSync).                                  *)
LEMMA SyncStep ==
  ASSUME Inv, NEW wanted \in SUBSET Sources, NEW configured \in SUBSET Sources,
         NEW mayWrite \in SUBSET configured, Sync(wanted, configured, mayWrite)
  PROVE  /\ Inv'
         /\ session' => /\ DOMAIN modes' \subseteq Sources
                        /\ \A s \in DOMAIN modes' :
                             modes'[s] = IF s \in writable' THEN SyncMode(log[s])
                                         ELSE "refresh-from-remote"
<1> DEFINE flags == IF enabled THEN Taken(wanted, configured) ELSE {}
<1>1. flags \subseteq Sources
  BY DEF Taken
<1>2. CASE SetFinished(results, TRUE) /\ UNCHANGED <<presence, enabled>>
  <2>1. ResultsOK(results)
    BY DEF Inv, TypeOK, ResultsOK
  <2> QED BY <1>2, <2>1, SetFinishedStep
<1>3. CASE /\ session' = TRUE
           /\ writable' = flags \cap mayWrite
           /\ modes' = [s \in flags |-> IF s \in mayWrite THEN SyncMode(log[s])
                                        ELSE "refresh-from-remote"]
           /\ onSync' = [s \in Sources |-> IF s \in flags THEN "open" ELSE onSync[s]]
           /\ UNCHANGED <<logVars, presence, enabled, failed, late, results, history>>
  <2> HIDE DEF flags
  <2>1. DOMAIN modes' \subseteq Sources /\ \A s \in DOMAIN modes' : modes'[s] \in Modes
    BY <1>1, <1>3, SyncModes DEF Modes
  <2>2. onSync' \in [Sources -> {"open", "done", None}] /\ writable' \in SUBSET Sources
    BY <1>1, <1>3 DEF Inv, TypeOK
  <2>3. TypeOK'
    BY <1>3, <2>1, <2>2 DEF Inv, TypeOK, logVars, history
  <2>4. LogIsLast' /\ RetryLeavesError'
    BY <1>3, HistoryStays
  <2> QED BY <1>1, <1>3, <2>3, <2>4 DEF Inv
<1> QED BY <1>2, <1>3 DEF Sync

LEMMA EndStep ==
  ASSUME Inv, NEW code \in Codes \cup {NoError}, ConfigureFails(code) \/ SessionDone(code)
  PROVE  Inv' /\ ~session'
<1>1. CASE ConfigureFails(code)
  <2>1. ResultsOK([s \in {NoSource} |-> code])
    BY DEF ResultsOK
  <2> QED BY <1>1, <2>1, SetFinishedStep DEF ConfigureFails
<1>2. CASE SessionDone(code)
  <2> DEFINE open == {s \in Sources : onSync[s] = "open"}
  <2>1. ResultsOK(And([s \in open |-> code], results))
    <3>1. open = {} \/ code \in Codes
      BY <1>2 DEF SessionDone
    <3> HIDE DEF open
    <3>2. open \in SUBSET Sources
      BY DEF open
    <3> QED BY <3>1, <3>2, AndOK
  <2>2. session \in BOOLEAN
    BY DEF Inv, TypeOK
  <2> QED BY <1>2, <2>1, <2>2, SetFinishedStep DEF SessionDone
<1> QED BY <1>1, <1>2

LEMMA SourceStep ==
  ASSUME Inv, NEW s \in Sources,
         OnAccountSourceRemoved(s) \/ \E code \in Codes : SourceDone(s, code)
  PROVE  Inv' /\ session' = session
<1>1. CASE OnAccountSourceRemoved(s)
  <2>1. /\ log' = [log EXCEPT ![s] = None] /\ dated' = dated \ {s}
        /\ last' = [last EXCEPT ![s] = None] /\ dropped' = dropped \ {s}
        /\ UNCHANGED <<presence, enabled, failed, session, late, modes, writable,
                       onSync, results, retries>>
    BY <1>1 DEF OnAccountSourceRemoved, ClearResultForSource, sessionVars
  <2>2. TypeOK'
    BY <2>1 DEF Inv, TypeOK
  <2>3. LogIsLast'
    BY <2>1, Domains DEF Inv, TypeOK, LogIsLast
  <2>4. RetryLeavesError'
    BY <2>1 DEF Inv, RetryLeavesError
  <2> QED BY <2>1, <2>2, <2>3, <2>4 DEF Inv
<1>2. ASSUME NEW code \in Codes, SourceDone(s, code) PROVE Inv' /\ session' = session
  <2>1. /\ onSync' = [onSync EXCEPT ![s] = "done"]
        /\ results' = And([k \in {s} |-> code], results)
        /\ UNCHANGED <<logVars, presence, enabled, failed, session, late, modes, writable,
                       history>>
    BY <1>2 DEF SourceDone, sessionVars
  <2>2. DOMAIN results' \subseteq Sources /\ \A k \in DOMAIN results' : results'[k] \in Codes
    <3>1. {s} \in SUBSET Sources /\ NoSource \notin Sources
      BY Domains
    <3> QED BY <2>1, <3>1, AndOK DEF ResultsOK
  <2>3. TypeOK'
    BY <2>1, <2>2 DEF Inv, TypeOK, logVars, history
  <2>4. LogIsLast' /\ RetryLeavesError'
    BY <2>1, HistoryStays
  <2> QED BY <2>1, <2>3, <2>4 DEF Inv
<1> QED BY <1>1, <1>2

\* A cancel leaves no flags behind, and never starts a session.
LEMMA CancelledStep ==
  ASSUME Inv, Cancelled \/ UNCHANGED sessionVars
  PROVE  /\ session' \in BOOLEAN /\ late' \in BOOLEAN
         /\ DOMAIN modes' \subseteq Sources
         /\ \A s \in DOMAIN modes' : modes'[s] \in Modes
         /\ writable' \in SUBSET Sources
         /\ session' => session
<1>1. CASE UNCHANGED sessionVars
  BY <1>1 DEF sessionVars, Inv, TypeOK
<1>2. CASE Cancelled /\ session
  <2>1. late' = TRUE /\ session' = FALSE /\ modes' = NoResults /\ writable' = {}
    BY <1>2 DEF Cancelled, NoSession
  <2> QED BY <2>1, Empty
<1> QED BY <1>1, <1>2 DEF Cancelled

LEMMA SurroundingsStep ==
  ASSUME Inv, Cancel \/ LateDeleted \/ EnabledChanged \/ RemoveAccount
  PROVE  Inv' /\ (session' => session)
<1>1. UNCHANGED <<logVars, failed, history, results>>
  BY DEF Cancel, LateDeleted, EnabledChanged, RemoveAccount
<1>2. LogIsLast' /\ RetryLeavesError'
  BY <1>1, HistoryStays
<1>3. UNCHANGED <<log, dated, last, dropped, retries>>
  BY <1>1 DEF logVars, history
<1>4. CASE LateDeleted
  BY <1>1, <1>2, <1>3, <1>4 DEF LateDeleted, Inv, TypeOK
<1>5. CASE Cancel \/ EnabledChanged \/ RemoveAccount
  <2>1. /\ presence' \in {"known", "removed", "gone"} /\ enabled' \in BOOLEAN
        /\ onSync' = onSync
        /\ Cancelled \/ UNCHANGED sessionVars
    BY <1>5 DEF Cancel, EnabledChanged, RemoveAccount, Inv, TypeOK
  <2> QED BY <1>1, <1>2, <1>3, <2>1, CancelledStep DEF Inv, TypeOK
<1> QED BY <1>4, <1>5

(* A daemon that starts again has the log, but for removed accounts, and   *)
(* nothing else (cleanupLogs).                                             *)
LEMMA RestartStep ==
  ASSUME Inv, Restart PROVE Inv' /\ ~session'
<1>1. /\ presence' \in {"known", "gone"}
      /\ failed' = FALSE /\ retries' = 0 /\ enabled' = enabled
      /\ onSync' = NoneOnSync /\ results' = NoResults
      /\ session' = FALSE /\ late' = FALSE /\ modes' = NoResults /\ writable' = {}
  BY DEF Restart, NoSession
<1>2. \/ UNCHANGED <<log, dated, last, dropped>>
      \/ /\ log' = [s \in Sources |-> None] /\ dated' = {}
         /\ last' = [s \in Sources |-> None] /\ dropped' = {}
  BY DEF Restart, CleanupLogs, logVars
<1>3. TypeOK'
  <2>1. /\ DOMAIN results' = {} /\ DOMAIN modes' = {} /\ retries' = 0
        /\ onSync' = [s \in Sources |-> None] /\ enabled' \in BOOLEAN
    BY <1>1, Empty DEF NoneOnSync, Inv, TypeOK
  <2>2. /\ [s \in Sources |-> None] \in [Sources -> Codes \cup {None}]
        /\ [s \in Sources |-> None] \in [Sources -> {"open", "done", None}]
    OBVIOUS
  <2>3. /\ log' \in [Sources -> Codes \cup {None}] /\ dated' \in SUBSET Sources
        /\ last' \in [Sources -> Codes \cup {None}] /\ dropped' \in SUBSET Sources
    BY <1>2, <2>2 DEF Inv, TypeOK
  <2>4. 0 \in 0 .. 2
    OBVIOUS
  <2> QED BY <1>1, <2>1, <2>2, <2>3, <2>4 DEF TypeOK
<1>4. LogIsLast'
  BY <1>2, Domains DEF Inv, LogIsLast
<1> QED BY <1>1, <1>3, <1>4 DEF Inv, RetryLeavesError

\* Only a sync starts a session.
LEMMA NextInv ==
  ASSUME Inv, [Next]_vars
  PROVE  /\ Inv'
         /\ \/ session' => session
            \/ /\ DOMAIN modes' \subseteq Sources
               /\ \A s \in DOMAIN modes' :
                    modes'[s] = IF s \in writable' THEN SyncMode(log[s])
                                ELSE "refresh-from-remote"
<1>1. ASSUME NEW wanted \in SUBSET Sources, NEW configured \in SUBSET Sources,
             NEW mayWrite \in SUBSET configured, Sync(wanted, configured, mayWrite)
      PROVE  /\ Inv'
             /\ \/ session' => session
                \/ /\ DOMAIN modes' \subseteq Sources
                   /\ \A s \in DOMAIN modes' :
                        modes'[s] = IF s \in writable' THEN SyncMode(log[s])
                                    ELSE "refresh-from-remote"
  BY <1>1, SyncStep
<1>2. ASSUME NEW code \in Codes \cup {NoError}, ConfigureFails(code) \/ SessionDone(code)
      PROVE  Inv' /\ ~session'
  BY <1>2, EndStep
<1>3. ASSUME NEW s \in Sources,
             OnAccountSourceRemoved(s) \/ \E code \in Codes : SourceDone(s, code)
      PROVE  Inv' /\ session' = session
  BY <1>3, SourceStep
<1>4. CASE Cancel \/ LateDeleted \/ EnabledChanged \/ RemoveAccount
  BY <1>4, SurroundingsStep
<1>5. CASE Restart
  BY <1>5, RestartStep
<1>6. CASE UNCHANGED vars
  <2>1. /\ UNCHANGED <<logVars, presence, enabled, failed, onSync, results, history>>
        /\ UNCHANGED <<log, dated, last, dropped, retries, session, late, modes, writable>>
    BY <1>6 DEF vars, logVars, sessionVars, history
  <2>2. LogIsLast' /\ RetryLeavesError'
    BY <2>1, HistoryStays
  <2> QED BY <2>1, <2>2 DEF Inv, TypeOK
<1> QED BY <1>1, <1>2, <1>3, <1>4, <1>5, <1>6 DEF Next

(* The inductive invariant. *)
THEOREM Invariance == Spec => []Inv
<1>1. Inv /\ [Next]_vars => Inv'
  BY NextInv
<1> QED BY <1>1, InitInv, PTL DEF Spec

(* Whatever is cancelled, restarted or removed, the state has its type     *)
(* (SyncAccount, SyncDaemon).                                              *)
THEOREM LogIsTyped == Spec => []TypeOK
<1>1. Inv => TypeOK
  BY DEF Inv
<1> QED BY <1>1, Invariance, PTL

(* The log has the last result of each calendar that was not dropped       *)
(* (saveSyncResult, clearResultForSource, cleanupLogs).                    *)
THEOREM LogHasLastResults == Spec => []LogIsLast
<1>1. Inv => LogIsLast
  BY DEF Inv
<1> QED BY <1>1, Invariance, PTL

(* A retry is never followed by another one (onAccountSyncFinished).       *)
THEOREM NoTwoRetries == Spec => []RetriesAlternate
<1>1. Inv => RetriesAlternate
  BY DEF Inv, RetryLeavesError, RetriesAlternate
<1> QED BY <1>1, Invariance, PTL

(* The mode of a sync follows from what the last one has come to (syncMode,*)
(* continueSync, saveSyncResult).                                          *)
THEOREM ChangesAreNotThrownAway == Spec => ModesFollowOutcomes
<1> DEFINE A == \A s \in Started \ dropped :
                  /\ s \in writable' /\ last[s] \in OkCodes => modes'[s] = "two-way"
                  /\ last[s] = None => modes'[s] = "refresh-from-remote"
<1>1. ASSUME Inv, [Next]_vars PROVE A
  <2> SUFFICES ASSUME NEW s \in Started \ dropped
               PROVE  /\ s \in writable' /\ last[s] \in OkCodes => modes'[s] = "two-way"
                      /\ last[s] = None => modes'[s] = "refresh-from-remote"
    OBVIOUS
  <2>1. ~session /\ session' /\ s \in DOMAIN modes'
    BY DEF Started
  <2>2. /\ s \in Sources
        /\ modes'[s] = IF s \in writable' THEN SyncMode(log[s]) ELSE "refresh-from-remote"
    BY <1>1, <2>1, NextInv
  <2>3. log[s] = last[s]
    BY <1>1, <2>2 DEF Inv, LogIsLast
  <2> QED BY <2>2, <2>3, ModesOf
<1>2. Inv /\ [Next]_vars => [A]_vars
  BY <1>1
<1> QED BY <1>2, Invariance, PTL DEF Spec, ModesFollowOutcomes
=============================================================================
