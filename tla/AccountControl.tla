--------------------------- MODULE AccountControl ---------------------------
(***************************************************************************)
(* What the daemon can observe of a SyncAccount, as operators on values:   *)
(* its control state, and for every call or event the set of outcomes, each*)
(* a next control state with the signals that are emitted on the way.  The *)
(* calendars, the results and the reasons of an outcome are left out.      *)
(*                                                                         *)
(* SyncAccount has them; it implements AccountInterface, the specification *)
(* made of these outcomes, and SyncDaemon runs one such account per id.    *)
(***************************************************************************)
EXTENDS Sequences

\* state    m_state, or "Dead" when the process has been stopped
\* config   m_config: not set, at work, or set but never to call back
\* session  m_currentSession: not set, open, open though the server has not taken
\*          its Sync call or has stopped, or reported done and kept
\* late     a cancelled session can still deliver a status
Controls ==
  [state   : {"Configuring", "AboutToSync", "Syncing", "Idle", "Invalid", "Dead"},
   config  : {"none", "busy", "lost"},
   session : {"none", "open", "lost", "over"},
   late    : BOOLEAN]

Dead == [state |-> "Dead", config |-> "none", session |-> "none", late |-> FALSE]
NewAccount == [Dead EXCEPT !.state = "Idle"]

\* "resume" stands for the rest of continuePeerConfig(), after the slots of the
\* signals before it.
Signals == {"syncStarted", "syncError", "syncFinished", "enableChanged", "resume"}

\* The sessions that may still send a status.  Nobody waits in vain for the end of
\* an open one; a lost one may have been taken after all.
MaySend == {"open", "lost"}

Outcome(next, signals) == [next |-> next, signals |-> signals]
Silent(next) == Outcome(next, <<>>)

-----------------------------------------------------------------------------
\* setFinished() closes the session.
Finish(c, signals) ==
  Outcome([c EXCEPT !.state = "Idle", !.session = "none",
                    !.late = @ /\ c.session = "none"],
          Append(signals, "syncFinished"))

\* onAccountConfigureError()
ConfigError(c) == Finish([c EXCEPT !.config = "none"], <<"syncError">>)

\* continueSync(): no session, nothing to sync, or a session is started, by a call
\* of Sync that may fail.
Continue(c) ==
  {Silent([c EXCEPT !.state = "Invalid"])} \cup
  IF c.session # "none" THEN {Silent(Dead)}
  ELSE {Finish([c EXCEPT !.late = FALSE], <<>>)} \cup
       {Silent([c EXCEPT !.state = "AboutToSync", !.session = s]) : s \in MaySend}

Configured(c) == Continue([c EXCEPT !.config = "none"])

\* sync()
SyncOutcomes(c) ==
  IF c.state # "Idle" THEN {Silent(c)}
  ELSE IF c.config # "none" THEN Continue(c)
  ELSE {Silent([c EXCEPT !.state = "Configuring", !.config = "busy"]), ConfigError(c)}

\* cancel()
CancelOutcome(c) ==
  IF c.session = "none" THEN Silent(c)
  ELSE Outcome([c EXCEPT !.state = "Idle", !.session = "none", !.late = c.session \in MaySend],
               IF c.state = "Syncing" THEN <<"syncError">> ELSE <<>>)

\* The configuration goes on, fails, ends, fails to save, or is lost.
ConfigOutcomes(c) ==
  IF c.config # "busy" \/ c.late THEN {}
  ELSE {Silent(c), ConfigError(c),
        Outcome(ConfigError(c).next, Append(ConfigError(c).signals, "resume")),
        Silent([c EXCEPT !.config = "lost"]),
        Silent(Dead)} \cup Configured(c)

\* It goes on with a session that the slots may have deleted.
ResumeOutcomes(c) == {Silent(c), Silent(Dead)} \cup Configured(c)

\* A status of a session that is not over starts the sync; "done" ends it,
\* with an error or without, or leaves it to a source that is not done.  A server
\* that stops says nothing.
Started(c) ==
  IF c.state = "AboutToSync"
  THEN Outcome([c EXCEPT !.state = "Syncing"], <<"syncStarted">>)
  ELSE Silent(c)

SessionOutcomes(c) ==
  IF c.session \notin MaySend THEN {}
  ELSE {Started(c), Finish(c, <<>>), Finish(c, <<"syncError">>),
        Silent([c EXCEPT !.session = "over"]), Silent([c EXCEPT !.session = "lost"])}

LateOutcomes(c) ==
  LET ended == [c EXCEPT !.late = FALSE]
  IN  IF ~c.late THEN {}
      ELSE {Started(c), Finish(ended, <<>>), Finish(ended, <<"syncError">>), Silent(ended)}
=============================================================================
