-------------------------- MODULE AccountInterface --------------------------
(***************************************************************************)
(* What a SyncAccount promises to the daemon: any sequence of the outcomes *)
(* of AccountControl.  SyncAccount is shown to implement it.               *)
(***************************************************************************)
EXTENDS Naturals, AccountControl

VARIABLES
  ctl,       \* the control state
  sig,       \* the signals of the last step
  resuming   \* a configuration that failed to save is still to go on

Init == ctl = NewAccount /\ sig = <<>> /\ resuming = FALSE

\* The daemon does not see "resume", which only ever is the last of the signals.
Resumes(outcome) ==
  outcome.signals # <<>> /\ outcome.signals[Len(outcome.signals)] = "resume"

Emitted(outcome) ==
  IF Resumes(outcome) THEN SubSeq(outcome.signals, 1, Len(outcome.signals) - 1)
                      ELSE outcome.signals

Takes(outcome) == ctl' = outcome.next /\ sig' = Emitted(outcome)

\* What may happen to an account in a control state.
Outcomes(c) ==
  SyncOutcomes(c) \cup {CancelOutcome(c)} \cup ConfigOutcomes(c)
    \cup SessionOutcomes(c) \cup LateOutcomes(c) \cup {Silent(c)}

Step ==
  \E outcome \in Outcomes(ctl) :
    /\ Takes(outcome)
    /\ resuming' = (resuming \/ Resumes(outcome))

Resume ==
  /\ resuming
  /\ \E outcome \in ResumeOutcomes(ctl) : Takes(outcome)
  /\ resuming' = FALSE

EnabledChanged == ctl' = ctl /\ sig' = <<"enableChanged">> /\ UNCHANGED resuming

Next == ctl # Dead /\ (Step \/ Resume \/ EnabledChanged)

Spec == Init /\ [][Next]_<<ctl, sig, resuming>>
=============================================================================
