---------------------------- MODULE SyncResults ----------------------------
(***************************************************************************)
(* What SyncDaemon::onAccountSyncFinished() makes of the results of a sync *)
(* (src/src/sync-daemon.cpp), as operators on values.                      *)
(*                                                                         *)
(* The loop goes through the results in the order of their keys, so that   *)
(* results are a function from numbers, in that order, to codes: a sequence*)
(* where only the codes matter, or a function on some of the sources where *)
(* they have names.                                                        *)
(***************************************************************************)
EXTENDS Integers

\* Codes that statusDescription() has no description for: 204 and 207 are like
\* 200.  Only "0" is no error for lastError().
NoError == "0"
OkCodes == {NoError, "200"}

\* The codes that ask for a new sync: 500 and 10403 are alike, for a sync is
\* asked for two-way after both; 10500 makes the next one slow.
WhiteList == {"500", "10500"}

\* Other errors: one that makes the next sync refresh, and one that makes it
\* slow (syncMode()).
OtherErrors == {"404", "20020"}

ResultCodes == OkCodes \cup WhiteList \cup OtherErrors

\* An error of the white list asks for a new sync and ends the loop, unless the
\* last sync has left an error (failed) in lastError().
Retries(failed, results) ==
  ~failed /\ \E k \in DOMAIN results : results[k] \in WhiteList

NoLastError(failed, results) == FALSE   \* mutant of LastError

\* lastError() is not 0 afterwards: it is the code of a retry or, if there was an
\* error, that of a last source which has none.
LastError(failed, results) ==
  \/ Retries(failed, results)
  \/ \E k, last \in DOMAIN results :
       /\ results[k] \notin OkCodes
       /\ \A j \in DOMAIN results : j <= last
       /\ results[last] \in OkCodes \ {NoError}

\* The results the loop gets to without a retry.
Reached(failed, results) ==
  {k \in DOMAIN results :
     Retries(failed, results) =>
       \A j \in DOMAIN results : j <= k => results[j] \notin WhiteList}
=============================================================================
