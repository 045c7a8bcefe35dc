-------------------------- MODULE SyncAccountProofs --------------------------
(***************************************************************************)
(* Theorems of SyncAccount for every set of calendars and error codes and  *)
(* every nesting of calls: the safety properties that the runs check, and  *)
(* that the account implements AccountInterface.                           *)
(*                                                                         *)
(* They hold together, by one inductive invariant, Inv.  What it adds to   *)
(* the properties is the bookkeeping between the session, the two maps and *)
(* the calls that are pending: BookedWithSession is about the account while*)
(* it has a session, CleanWithoutSession while it has none, CallsInOrder   *)
(* about the results that a pending call still has to clear, and LateTaints*)
(* keeps apart the accounts with a cancelled session, of which nothing is  *)
(* said.                                                                   *)
(***************************************************************************)
EXTENDS SyncAccount, TLAPS, SequenceTheorems

\* Only the outermost call can be the rest of a configuration.
Stacked(s) == s \in Seq(CallNames) /\ \A i \in 1 .. Len(s) - 1 : s[i] # "resume"

\* A cancelled session marks the maps until a sync ends; only a session that
\* is there can be over.
LateTaints ==
  /\ late.live => tainted
  /\ session.over => session.live

CallsInOrder ==
  /\ Stacked(calls)
  /\ calls # <<>> /\ Head(calls) = "resume" => results = NoResults

\* Without a session the maps are empty, up to results that a pending call
\* still has to clear.
CleanWithoutSession ==
  /\ ~session.live /\ ~tainted =>
       onSync = NoneOnSync /\ (calls = <<>> => results = NoResults)
  /\ state = "Idle" /\ ~tainted => toSync = {}

\* With a session, the sources on sync are those it was started for, and the
\* results are those of the sources that are done.
BookedWithSession ==
  session.live /\ ~tainted =>
    /\ \A s \in Sources : onSync[s] # None <=> s \in session.flags
    /\ calls = <<>> => /\ results[NoSource] = None
                       /\ \A s \in Sources : results[s] # None <=> onSync[s] = "Done"
    /\ calls # <<>> => \A s \in Sources : onSync[s] \in {None, "Starting"}
    /\ session.over => \E s \in Sources : onSync[s] \in {"Starting", "Running"}

Inv ==
  /\ TypeOK
  /\ SessionMatchesState
  /\ ConfiguringHasConfig
  /\ LateTaints
  /\ CallsInOrder
  /\ CleanWithoutSession
  /\ BookedWithSession

-----------------------------------------------------------------------------
LEMMA Constants ==
  /\ NoSession \in SessionsOf /\ ~NoSession.live /\ ~NoSession.over /\ ~NoSession.lost
  /\ NoneOnSync \in [Sources -> SourceStates \cup {None}]
  /\ NoResults \in PartialResults
BY DEF NoSession, SessionsOf, NoneOnSync, NoResults, PartialResults

LEMMA SignalLists ==
  /\ <<>> \in Seq(SignalNames)
  /\ <<>> \in Seq(CallNames)
  /\ \A name \in SignalNames : <<name>> \in Seq(SignalNames)
OBVIOUS

LEMMA InitInv == Init => Inv
<1> SUFFICES ASSUME Init PROVE Inv
  OBVIOUS
<1>1. TypeOK
  <2>1. state \in States /\ phase \in Phases /\ fault \in Faults
    BY DEF Init, States, Phases, Faults
  <2>2. session \in SessionsOf /\ late \in SessionsOf /\ toSync \in SUBSET Sources
    BY Constants DEF Init
  <2>3. /\ onSync \in [Sources -> SourceStates \cup {None}]
        /\ results \in PartialResults /\ reported \in PartialResults
    BY Constants DEF Init
  <2>4. calls \in Seq(CallNames) /\ out \in Seq(SignalNames)
    BY DEF Init
  <2>5. config \in BOOLEAN /\ enabled \in BOOLEAN /\ tainted \in BOOLEAN
    BY DEF Init
  <2> QED BY <2>1, <2>2, <2>3, <2>4, <2>5 DEF TypeOK
<1>2. /\ SessionMatchesState /\ ConfiguringHasConfig /\ LateTaints
      /\ CleanWithoutSession /\ BookedWithSession /\ CallsInOrder
  BY Constants DEF Init, SessionMatchesState, ConfiguringHasConfig, LateTaints,
     CleanWithoutSession, BookedWithSession, CallsInOrder, Stacked
<1> QED BY <1>1, <1>2 DEF Inv

-----------------------------------------------------------------------------
(* Pending calls *)

LEMMA CallFirst ==
  ASSUME NEW rest, Stacked(rest), NEW c \in {"slot", "clear"}
  PROVE  /\ Stacked(<<c>> \o rest)
         /\ <<c>> \o rest # <<>> /\ Head(<<c>> \o rest) = c
BY DEF Stacked, CallNames

LEMMA CallReturns ==
  ASSUME NEW s, Stacked(s), s # <<>>
  PROVE  /\ Stacked(Tail(s))
         /\ Head(s) = "resume" => Tail(s) = <<>>
BY DEF Stacked, CallNames

-----------------------------------------------------------------------------
(* setFinished(), whoever calls it. *)
LEMMA SetFinishedStep ==
  ASSUME Inv,
         NEW res \in PartialResults, NEW signals \in Seq(SignalNames),
         NEW lateAfter \in SessionsOf, NEW rest, Stacked(rest),
         SetFinished(res, signals, lateAfter, rest),
         config' \in BOOLEAN, phase' \in Phases, enabled' \in BOOLEAN, fault' \in Faults
  PROVE  Inv'
<1>1. Stacked(calls') /\ calls' # <<>> /\ Head(calls') = "slot"
  BY CallFirst DEF SetFinished
<1>2. Append(signals, "syncFinished") \in Seq(SignalNames)
  BY DEF SignalNames
<1>4. TypeOK'
  BY <1>1, <1>2, Constants DEF SetFinished, TypeOK, States, SessionsOf, Stacked, CallNames,
     SignalNames, Phases, Faults
<1>5. SessionMatchesState' /\ ConfiguringHasConfig' /\ LateTaints'
  BY Constants DEF SetFinished, SessionMatchesState, ConfiguringHasConfig, LateTaints
<1>6. CallsInOrder' /\ CleanWithoutSession' /\ BookedWithSession'
  BY <1>1, Constants DEF SetFinished, CallsInOrder, CleanWithoutSession, BookedWithSession
<1> QED BY <1>4, <1>5, <1>6 DEF Inv

\* The rest of a caller of continueSync().
IsRest(rest) ==
  /\ Stacked(rest)
  /\ IF rest = <<>> THEN calls = <<>> \/ Head(calls) = "resume"
     ELSE calls # <<>> /\ Head(rest) = "clear"

(* continueSync(), whoever calls it. *)
LEMMA ContinueSyncStep ==
  ASSUME Inv,
         NEW wanted \in SUBSET Sources, NEW opened \in BOOLEAN, NEW flags \in SUBSET Sources,
         NEW rest, IsRest(rest),
         ContinueSync(wanted, opened, flags, rest),
         config' \in BOOLEAN, phase' \in Phases, enabled' \in BOOLEAN
  PROVE  Inv'
<1>1. Stacked(rest) /\ rest \in Seq(CallNames)
  BY DEF IsRest, Stacked
<1>2. fault' \in Faults /\ session \in SessionsOf /\ results \in PartialResults
  BY DEF ContinueSync, Inv, TypeOK, Faults
<1>3. CASE opened /\ flags = {} /\ SetFinished(results, <<>>, NoSession, rest)
  <2>1. <<>> \in Seq(SignalNames) /\ NoSession \in SessionsOf
    BY Constants
  <2> QED BY <1>1, <1>2, <1>3, <2>1, SetFinishedStep
\* The session stays as it is.
<1>4. ASSUME state' \in {"AboutToSync", "Invalid"}, state' = "AboutToSync" => session.live,
             toSync' = wanted, calls' = rest, out' = <<>>,
             UNCHANGED <<session, late, onSync, results, reported, tainted>>
      PROVE  Inv'
  <2>1. TypeOK'
    BY <1>1, <1>2, <1>4 DEF Inv, TypeOK, States
  <2>2. SessionMatchesState' /\ ConfiguringHasConfig' /\ LateTaints'
    BY <1>4 DEF Inv, SessionMatchesState, ConfiguringHasConfig, LateTaints
  <2>3. CallsInOrder'
    BY <1>1, <1>4 DEF IsRest, CallsInOrder
  <2>4. CleanWithoutSession'
    BY <1>4 DEF Inv, IsRest, CallsInOrder, CleanWithoutSession
  <2>5. BookedWithSession'
    <3>1. CASE rest = <<>> <=> calls = <<>>
      BY <1>4, <3>1 DEF Inv, BookedWithSession
    <3>2. CASE rest = <<>> /\ calls # <<>>
      <4>1. \A s \in Sources \cup {NoSource} : results[s] = None
        BY <3>2 DEF Inv, IsRest, CallsInOrder, NoResults
      <4>2. session.live /\ ~tainted => \A s \in Sources : onSync[s] # "Done"
        BY <3>2, AccountConstants DEF Inv, BookedWithSession, SourceStates
      <4> QED BY <1>4, <3>2, <4>1, <4>2 DEF Inv, BookedWithSession
    <3> QED BY <3>1, <3>2 DEF IsRest
  <2> QED BY <2>1, <2>2, <2>3, <2>4, <2>5 DEF Inv
\* A session is started.
<1>5. ASSUME flags # {}, ~session.live, state' = "AboutToSync",
             \E lost \in BOOLEAN : session' = Session(flags, lost),
             onSync' = [s \in Sources |-> IF s \in flags THEN "Starting" ELSE onSync[s]],
             toSync' = {}, calls' = rest, out' = <<>>,
             UNCHANGED <<late, results, reported, tainted>>
      PROVE  Inv'
  <2>1. /\ session' \in SessionsOf /\ session'.live /\ ~session'.over /\ session'.flags = flags
    BY <1>5 DEF Session, SessionsOf
  <2>2. TypeOK'
    BY <1>1, <1>2, <1>5, <2>1
       DEF Inv, TypeOK, States, SourceStates
  <2>3. SessionMatchesState' /\ ConfiguringHasConfig' /\ LateTaints'
    BY <1>5, <2>1 DEF Inv, SessionMatchesState, ConfiguringHasConfig, LateTaints
  <2>4. CallsInOrder' /\ CleanWithoutSession'
    BY <1>1, <1>5, <2>1 DEF IsRest, CallsInOrder, CleanWithoutSession
  <2>5. BookedWithSession'
    <3> SUFFICES ASSUME ~tainted PROVE BookedWithSession'
      BY <1>5 DEF BookedWithSession
    <3>1. onSync = NoneOnSync /\ (rest = <<>> => results = NoResults)
      BY <1>5 DEF Inv, IsRest, CallsInOrder, CleanWithoutSession
    <3>2. \A s \in Sources : onSync[s] = None /\ None # "Starting"
      BY <3>1, AccountConstants DEF NoneOnSync, SourceStates
    <3>3. \A s \in Sources : onSync'[s] = IF s \in flags THEN "Starting" ELSE None
      BY <1>5, <3>2
    <3>4. rest = <<>> => \A s \in Sources \cup {NoSource} : results'[s] = None
      BY <1>5, <3>1 DEF NoResults
    <3>5. None # "Done"
      BY AccountConstants DEF SourceStates
    <3> QED BY <1>5, <2>1, <3>2, <3>3, <3>4, <3>5 DEF BookedWithSession
  <2> QED BY <2>2, <2>3, <2>4, <2>5 DEF Inv
<1> QED BY <1>3, <1>4, <1>5 DEF ContinueSync

-----------------------------------------------------------------------------
(* The end of a configuration. *)

LEMMA ConfigureErrorStep ==
  ASSUME Inv, NEW code \in Codes, NEW rest, Stacked(rest), OnAccountConfigureError(code, rest)
  PROVE  Inv'
<1>1. [NoResults EXCEPT ![NoSource] = code] \in PartialResults
  BY Constants DEF PartialResults
<1>2. LateAfterRelease \in SessionsOf
  BY Constants DEF LateAfterRelease, Inv, TypeOK
<1>3. <<"syncError">> \in Seq(SignalNames)
  BY DEF SignalNames
<1>4. /\ config' \in BOOLEAN /\ phase' \in Phases /\ enabled' \in BOOLEAN /\ fault' \in Faults
      /\ SetFinished([NoResults EXCEPT ![NoSource] = code], <<"syncError">>,
                     LateAfterRelease, rest)
  BY DEF OnAccountConfigureError, Inv, TypeOK, Phases
<1> QED BY <1>1, <1>2, <1>3, <1>4, SetFinishedStep

LEMMA ConfiguredStep ==
  ASSUME Inv, NEW rest, IsRest(rest), OnAccountConfigured(rest)
  PROVE  Inv'
<1>1. PICK opened \in BOOLEAN, flags \in MayStart(toSync) :
        ContinueSync(toSync, opened, flags, rest)
  BY DEF OnAccountConfigured
<1>2. flags \in SUBSET Sources
  BY DEF MayStart
<1>3. /\ config' \in BOOLEAN /\ phase' \in Phases /\ enabled' \in BOOLEAN
      /\ toSync \in SUBSET Sources
  BY DEF OnAccountConfigured, Inv, TypeOK, Phases
<1> QED BY <1>1, <1>2, <1>3, ContinueSyncStep

\* The configuration gets on, or is lost: nothing but its phase changes.
LEMMA PhaseStep ==
  ASSUME Inv, phase' \in Phases \ {"none"}, out' = <<>>,
         UNCHANGED <<state, config, session, late, toSync, onSync,
                     results, enabled, calls, fault, reported, tainted>>
  PROVE  Inv'
<1>1. TypeOK'
  BY DEF Inv, TypeOK
<1> QED BY <1>1 DEF Inv, SessionMatchesState, ConfiguringHasConfig, LateTaints, CallsInOrder,
           Stacked, CleanWithoutSession, BookedWithSession

\* The account stays as it is.
LEMMA AccountStays ==
  ASSUME Inv, UNCHANGED <<control, results, calls, reported, tainted>>,
         enabled' \in BOOLEAN, fault' \in Faults, out' \in Seq(SignalNames)
  PROVE  Inv'
<1>1. TypeOK'
  BY DEF Inv, TypeOK, control
<1> QED BY <1>1 DEF control, Inv, SessionMatchesState, ConfiguringHasConfig, LateTaints,
           CallsInOrder, Stacked, CleanWithoutSession, BookedWithSession

LEMMA ConfigureStep ==
  ASSUME Inv, Configure \/ FetchIsLost \/ PeerNotOpened \/ LocalQueued
  PROVE  Inv'
<1>1. Stacked(<<>>) /\ Stacked(<<"resume">>)
  BY DEF Stacked, CallNames
<1>2. Ready => IsRest(<<>>)
  BY <1>1 DEF Ready, IsRest
<1>3. CASE AuthSucceeds
  BY <1>3, PhaseStep DEF AuthSucceeds, Phases
<1>4. CASE AuthFails
  BY <1>1, <1>4, ConfigureErrorStep DEF AuthFails, Codes
<1>5. CASE FetchFails
  BY <1>1, <1>5, ConfigureErrorStep DEF FetchFails, Codes
<1>6. CASE PeerQueued
  BY <1>6, PhaseStep DEF PeerQueued, Phases
<1>7. CASE PeerFails
  BY <1>1, <1>7, ConfigureErrorStep DEF PeerFails, Codes
<1>8. CASE ConfigDone
  BY <1>2, <1>8, ConfiguredStep DEF ConfigDone, ConfigStep
<1>9. CASE SaveFails
  BY <1>1, <1>9, ConfigureErrorStep DEF SaveFails, Codes
<1>10. CASE FetchIsLost
  BY <1>10, PhaseStep DEF FetchIsLost, Phases
<1>11. CASE LocalQueued
  BY <1>11, PhaseStep DEF LocalQueued, Phases
<1>12. CASE PeerNotOpened
  <2>1. enabled' \in BOOLEAN /\ fault' \in Faults
    BY <1>12 DEF PeerNotOpened, Inv, TypeOK, Faults
  <2>2. out' \in Seq(SignalNames)
    BY <1>12, SignalLists DEF PeerNotOpened
  <2> QED BY <1>12, <2>1, <2>2, AccountStays DEF PeerNotOpened
<1> QED BY <1>3, <1>4, <1>5, <1>6, <1>7, <1>8, <1>9, <1>10, <1>11, <1>12 DEF Configure

-----------------------------------------------------------------------------
(* The calls of the daemon, and the returns of its slots. *)

LEMMA SyncStep ==
  ASSUME Inv, NEW wanted \in SUBSET Sources, Sync(wanted)
  PROVE  Inv'
<1> DEFINE rest == IF calls = <<>> THEN <<>> ELSE <<"clear">> \o Tail(calls)
<1>1. IsRest(rest) /\ Stacked(rest)
  <2>1. CASE calls = <<>>
    BY <2>1 DEF IsRest, Stacked, CallNames
  <2>2. CASE calls # <<>>
    <3>1. Stacked(Tail(calls))
      BY <2>2, CallReturns DEF Inv, CallsInOrder
    <3>2. Stacked(<<"clear">> \o Tail(calls)) /\ <<"clear">> \o Tail(calls) # <<>>
          /\ Head(<<"clear">> \o Tail(calls)) = "clear"
      BY <3>1, CallFirst
    <3> QED BY <2>2, <3>2 DEF IsRest
  <2> QED BY <2>1, <2>2
<1>2. calls # <<>> => Head(calls) = "slot"
  BY DEF Sync
<1>3. \/ state # "Idle" /\ calls' = rest /\ out' = <<>>
         /\ UNCHANGED <<control, results, enabled, fault, reported, tainted>>
      \/ /\ \E opened \in BOOLEAN, flags \in MayStart(wanted) :
              ContinueSync(wanted, opened, flags, rest)
         /\ UNCHANGED <<config, phase, enabled>>
      \/ state = "Idle" /\ AuthRequested(wanted, rest)
      \/ AuthRefused(rest)
  BY DEF Sync
<1> HIDE DEF rest
<1>4. rest \in Seq(CallNames) /\ (rest = <<>> <=> calls = <<>>)
      /\ (rest # <<>> => Head(rest) = "clear")
  BY <1>1, <1>2 DEF IsRest, Stacked
<1>5. CASE state # "Idle" /\ calls' = rest /\ out' = <<>>
           /\ UNCHANGED <<control, results, enabled, fault, reported, tainted>>
  <2>1. TypeOK'
    BY <1>4, <1>5 DEF Inv, TypeOK, control
  <2>2. CallsInOrder'
    BY <1>1, <1>4, <1>5 DEF CallsInOrder
  <2> QED BY <1>4, <1>5, <2>1, <2>2 DEF control, Inv, SessionMatchesState, ConfiguringHasConfig,
             LateTaints, CleanWithoutSession, BookedWithSession
<1>6. ASSUME NEW opened \in BOOLEAN, NEW flags \in MayStart(wanted),
             ContinueSync(wanted, opened, flags, rest), UNCHANGED <<config, phase, enabled>>
      PROVE  Inv'
  <2>1. flags \in SUBSET Sources
    BY DEF MayStart
  <2>2. config' \in BOOLEAN /\ phase' \in Phases /\ enabled' \in BOOLEAN
    BY <1>6 DEF Inv, TypeOK
  <2> QED BY <1>1, <1>6, <2>1, <2>2, ContinueSyncStep
<1>7. CASE state = "Idle" /\ AuthRequested(wanted, rest)
  <2>1. TypeOK'
    BY <1>4, <1>7 DEF AuthRequested, Inv, TypeOK, States, Phases
  <2>2. CallsInOrder'
    BY <1>1, <1>4, <1>7 DEF AuthRequested, CallsInOrder
  <2> QED BY <1>4, <1>7, <2>1, <2>2 DEF AuthRequested, Inv, SessionMatchesState,
             ConfiguringHasConfig, LateTaints, CleanWithoutSession, BookedWithSession
<1>8. CASE AuthRefused(rest)
  BY <1>1, <1>8, ConfigureErrorStep DEF AuthRefused, Codes
<1> QED BY <1>3, <1>5, <1>6, <1>7, <1>8

LEMMA CancelStep ==
  ASSUME Inv, Cancel
  PROVE  Inv'
<1>1. CASE session.live
  <2>1. out' \in Seq(SignalNames)
    BY <1>1, SignalLists DEF Cancel, SignalNames
  <2>2. late' \in SessionsOf
    BY <1>1 DEF Cancel, Inv, TypeOK, SessionsOf
  <2>3. TypeOK'
    BY <1>1, <2>1, <2>2, Constants DEF Cancel, Inv, TypeOK, States
  <2> QED BY <1>1, <2>3, Constants DEF Cancel, Inv, SessionMatchesState, ConfiguringHasConfig,
             LateTaints, CallsInOrder, Stacked, CleanWithoutSession, BookedWithSession
<1>2. CASE ~session.live
  <2>1. enabled' \in BOOLEAN /\ fault' \in Faults
    BY <1>2 DEF Cancel, Inv, TypeOK
  <2>2. out' \in Seq(SignalNames)
    BY <1>2 DEF Cancel
  <2> QED BY <1>2, <2>1, <2>2, AccountStays DEF Cancel, control
<1> QED BY <1>1, <1>2

LEMMA ReturnStep ==
  ASSUME Inv, Return
  PROVE  Inv'
<1>1. Stacked(Tail(calls)) /\ Tail(calls) \in Seq(CallNames)
  BY CallReturns DEF Return, Inv, CallsInOrder, Stacked
<1>2. TypeOK'
  BY <1>1, Constants DEF Return, control, Inv, TypeOK
<1>3. CallsInOrder'
  BY <1>1 DEF Return, CallsInOrder
<1>4. BookedWithSession'
  <2>1. \A s \in Sources \cup {NoSource} : results'[s] = None
    BY DEF Return, NoResults
  <2>2. session.live /\ ~tainted => \A s \in Sources : onSync[s] # "Done"
    BY AccountConstants DEF Return, Inv, BookedWithSession, SourceStates
  <2>3. None # "Done"
    BY AccountConstants DEF SourceStates
  <2> QED BY <2>1, <2>2, <2>3 DEF Return, control, Inv, BookedWithSession
<1> QED BY <1>2, <1>3, <1>4 DEF Return, control, Inv, SessionMatchesState, ConfiguringHasConfig,
           LateTaints, CleanWithoutSession

LEMMA ResumeStep ==
  ASSUME Inv, Resume
  PROVE  Inv'
<1>1. Tail(calls) = <<>> /\ Stacked(<<>>)
  BY CallReturns DEF Resume, Inv, CallsInOrder, Stacked, CallNames
<1>2. CASE OnAccountConfigured(Tail(calls))
  <2>1. IsRest(Tail(calls))
    BY <1>1 DEF Resume, IsRest
  <2> QED BY <1>2, <2>1, ConfiguredStep
<1>3. CASE calls' = Tail(calls) /\ out' = <<>>
           /\ UNCHANGED <<control, results, enabled, fault, reported, tainted>>
  <2>1. calls' = <<>> /\ results = NoResults
    BY <1>1, <1>3 DEF Resume, Inv, CallsInOrder
  <2>2. TypeOK'
    BY <1>3, <2>1, SignalLists DEF control, Inv, TypeOK
  <2>3. CallsInOrder'
    BY <1>1, <2>1 DEF CallsInOrder
  <2>4. BookedWithSession'
    <3>1. \A s \in Sources \cup {NoSource} : results'[s] = None
      BY <1>3, <2>1 DEF NoResults
    <3>2. session.live /\ ~tainted => \A s \in Sources : onSync[s] # "Done"
      BY AccountConstants DEF Resume, Inv, BookedWithSession, SourceStates
    <3>3. None # "Done"
      BY AccountConstants DEF SourceStates
    <3> QED BY <1>3, <2>1, <3>1, <3>2, <3>3 DEF control, Inv, BookedWithSession
  <2> QED BY <1>3, <2>1, <2>2, <2>3, <2>4 DEF control, Inv, SessionMatchesState,
             ConfiguringHasConfig, LateTaints, CleanWithoutSession
<1>4. CASE fault' = "deleted session" /\ out' = <<>>
           /\ UNCHANGED <<control, results, enabled, calls, reported, tainted>>
  <2>1. enabled' \in BOOLEAN /\ fault' \in Faults
    BY <1>4 DEF Inv, TypeOK, Faults
  <2>2. out' \in Seq(SignalNames)
    BY <1>4, SignalLists
  <2> QED BY <1>4, <2>1, <2>2, AccountStays
<1> QED BY <1>2, <1>3, <1>4 DEF Resume

-----------------------------------------------------------------------------
(* The statuses of a session. *)

\* What a message makes of the two maps.
LEMMA MessageTypes ==
  ASSUME TypeOK, NEW flags \in SUBSET Sources, NEW m \in Statuses(flags)
  PROVE  /\ OnSyncAfter(m) \in [Sources -> SourceStates \cup {None}]
         /\ ResultsAfter(m) \in PartialResults
<1>1. OnSyncAfter(m) \in [Sources -> SourceStates \cup {None}]
  BY DEF OnSyncAfter, TypeOK, SourceStates
<1>2. DOMAIN results = Sources \cup {NoSource} /\ DOMAIN m.fin = flags
  BY DEF TypeOK, PartialResults, Statuses
<1>3. ASSUME NEW s \in Sources \cup {NoSource} PROVE ResultsAfter(m)[s] \in Codes \cup {None}
  <2>1. results[s] \in Codes \cup {None}
    BY DEF TypeOK, PartialResults
  <2>2. s \in flags => m.fin[s] \in {None, OK} \cup SessionErrors
    BY DEF Statuses
  <2> QED BY <1>2, <2>1, <2>2 DEF ResultsAfter, IsFinished, Codes
<1> QED BY <1>1, <1>2, <1>3 DEF ResultsAfter, PartialResults

\* The maps of an account with a session stay in step, whatever a message says.
LEMMA MessageBooks ==
  ASSUME Inv, session.live, ~tainted, calls = <<>>,
         NEW m \in Statuses(session.flags)
  PROVE  /\ \A s \in Sources : OnSyncAfter(m)[s] # None <=> s \in session.flags
         /\ ResultsAfter(m)[NoSource] = None
         /\ \A s \in Sources : ResultsAfter(m)[s] # None <=> OnSyncAfter(m)[s] = "Done"
<1>1. /\ \A s \in Sources : onSync[s] # None <=> s \in session.flags
      /\ results[NoSource] = None
      /\ \A s \in Sources : results[s] # None <=> onSync[s] = "Done"
  BY DEF Inv, BookedWithSession
<1>2. DOMAIN results = Sources \cup {NoSource} /\ DOMAIN m.fin = session.flags
  BY DEF Inv, TypeOK, PartialResults, Statuses
<1>3. session.flags \in SUBSET Sources /\ m.run \in SUBSET session.flags
  BY DEF Inv, TypeOK, SessionsOf, Statuses
<1>4. ResultsAfter(m)[NoSource] = None
  BY <1>1, <1>2, <1>3, AccountConstants DEF ResultsAfter, IsFinished
<1>5. ASSUME NEW s \in Sources
      PROVE  /\ OnSyncAfter(m)[s] # None <=> s \in session.flags
             /\ ResultsAfter(m)[s] # None <=> OnSyncAfter(m)[s] = "Done"
  <2>1. /\ ResultsAfter(m)[s] = IF IsFinished(m, s) THEN m.fin[s] ELSE results[s]
        /\ OnSyncAfter(m)[s] = CASE s \in m.run /\ StateOf(s) = "Starting" -> "Running"
                                 [] IsFinished(m, s) -> "Done"
                                 [] OTHER -> onSync[s]
    BY <1>2 DEF ResultsAfter, OnSyncAfter
  <2>2. None \notin {"Starting", "Running", "Done"}
    BY AccountConstants DEF SourceStates
  <2>3. CASE IsFinished(m, s)
    <3>1. StateOf(s) = "Running" /\ s \in session.flags /\ m.fin[s] # None
      BY <1>2, <2>3 DEF IsFinished
    <3> QED BY <2>1, <2>2, <2>3, <3>1
  <2>4. CASE ~IsFinished(m, s) /\ s \in m.run /\ StateOf(s) = "Starting"
    <3>1. s \in session.flags /\ OnSyncAfter(m)[s] = "Running" /\ onSync[s] # "Done"
      BY <1>3, <2>1, <2>2, <2>4 DEF StateOf
    <3> QED BY <1>1, <2>1, <2>2, <2>4, <3>1
  <2>5. CASE ~IsFinished(m, s) /\ ~(s \in m.run /\ StateOf(s) = "Starting")
    BY <1>1, <2>1, <2>5
  <2> QED BY <2>3, <2>4, <2>5
<1> QED BY <1>4, <1>5

LEMMA StatusStep ==
  ASSUME Inv, NEW from \in Origins, NEW m \in Statuses(Origin(from).flags), StatusChanged(from, m)
  PROVE  Inv'
<1>1. Origin(from).flags \in SUBSET Sources
  BY DEF Origin, Inv, TypeOK, SessionsOf
<1>2. TypeOK'
  <2>1. /\ OnSyncAfter(m) \in [Sources -> SourceStates \cup {None}]
        /\ ResultsAfter(m) \in PartialResults
    BY <1>1, MessageTypes DEF Inv
  <2>2. out' \in Seq(SignalNames)
    BY SignalLists DEF StatusChanged, SignalNames
  <2>3. state' \in States
    BY DEF StatusChanged, StateAfter, States, Inv, TypeOK
  <2> QED BY <2>1, <2>2, <2>3 DEF StatusChanged, Inv, TypeOK
<1>3. SessionMatchesState' /\ ConfiguringHasConfig' /\ LateTaints'
  BY DEF StatusChanged, StateAfter, Started, Inv, SessionMatchesState, ConfiguringHasConfig,
     LateTaints
<1>4. calls = <<>> /\ calls' = <<>>
  BY DEF StatusChanged, Sending, Ready
<1>5. CallsInOrder'
  BY <1>4 DEF Inv, CallsInOrder
<1>6. CASE tainted
  BY <1>2, <1>3, <1>5, <1>6 DEF StatusChanged, Inv, CleanWithoutSession, BookedWithSession
<1>7. CASE ~tainted
  <2>1. from = "session" /\ session.live /\ ~session.over /\ Origin(from) = session
    BY <1>7 DEF StatusChanged, Sending, Origins, Origin, Inv, LateTaints
  <2>2. BookedWithSession'
    BY <1>4, <1>7, <2>1, MessageBooks DEF StatusChanged, BookedWithSession
  <2>3. CleanWithoutSession'
    BY <2>1 DEF StatusChanged, StateAfter, Started, Inv, CleanWithoutSession
  <2> QED BY <1>2, <1>3, <1>5, <2>2, <2>3 DEF Inv
<1> QED BY <1>6, <1>7

LEMMA DoneStep ==
  ASSUME Inv, NEW from \in Origins, NEW m \in Statuses(Origin(from).flags),
         NEW error \in {OK} \cup SessionErrors, SessionDone(from, m, error)
  PROVE  Inv'
<1> DEFINE res == [s \in DOMAIN results |->
                     IF error # OK /\ s \in OpenAfter(m) THEN error ELSE ResultsAfter(m)[s]]
<1>1. Origin(from).flags \in SUBSET Sources
  BY DEF Origin, Inv, TypeOK, SessionsOf
<1>2. /\ OnSyncAfter(m) \in [Sources -> SourceStates \cup {None}]
      /\ ResultsAfter(m) \in PartialResults
  BY <1>1, MessageTypes DEF Inv
<1>3. res \in PartialResults /\ (error = OK => res = ResultsAfter(m))
  <2>1. DOMAIN results = Sources \cup {NoSource} /\ DOMAIN ResultsAfter(m) = DOMAIN results
    BY DEF Inv, TypeOK, PartialResults, ResultsAfter
  <2>2. \A s \in Sources \cup {NoSource} : res[s] \in Codes \cup {None}
    BY <1>2, <2>1 DEF PartialResults, Codes
  <2>3. res \in PartialResults
    BY <2>1, <2>2 DEF PartialResults
  <2> QED BY <1>2, <2>1, <2>3 DEF PartialResults
<1> HIDE DEF res
<1>4. calls = <<>> /\ UNCHANGED <<config, phase, enabled, fault>>
  BY DEF SessionDone, Sending, Ready
\* The sync ends.
<1>5. CASE SetFinished(res, IF error # OK THEN <<"syncError">> ELSE <<>>,
                       IF from = "late" THEN NoSession ELSE LateAfterRelease, <<>>)
  <2>1. (IF error # OK THEN <<"syncError">> ELSE <<>>) \in Seq(SignalNames)
    BY SignalLists DEF SignalNames
  <2>2. (IF from = "late" THEN NoSession ELSE LateAfterRelease) \in SessionsOf
    BY Constants DEF LateAfterRelease, Inv, TypeOK
  <2>3. config' \in BOOLEAN /\ phase' \in Phases /\ enabled' \in BOOLEAN /\ fault' \in Faults
    BY <1>4 DEF Inv, TypeOK
  <2>4. Stacked(<<>>)
    BY DEF Stacked
  <2> QED BY <1>3, <1>5, <2>1, <2>2, <2>3, <2>4, SetFinishedStep
\* It waits for a source that is not done.
<1>6. CASE /\ error = OK /\ OpenAfter(m) # {}
           /\ onSync' = OnSyncAfter(m) /\ results' = res /\ out' = <<>>
           /\ session' = [session EXCEPT !.over = @ \/ from = "session"]
           /\ late' = IF from = "late" THEN NoSession ELSE late
           /\ UNCHANGED <<state, toSync, calls, reported, tainted>>
  <2>1. session' \in SessionsOf /\ session'.live = session.live /\ session'.flags = session.flags
        /\ (session'.over <=> session.over \/ from = "session")
    BY <1>6 DEF Inv, TypeOK, SessionsOf
  <2>2. late' \in SessionsOf /\ (late'.live => late.live)
    BY <1>6, Constants DEF Inv, TypeOK
  <2>3. from = "session" => session.live
    BY DEF SessionDone, Sending, Origin
  <2>4. TypeOK'
    BY <1>2, <1>3, <1>4, <1>6, <2>1, <2>2, SignalLists DEF Inv, TypeOK
  <2>5. SessionMatchesState' /\ ConfiguringHasConfig' /\ LateTaints'
    BY <1>4, <1>6, <2>1, <2>2, <2>3
       DEF Inv, SessionMatchesState, ConfiguringHasConfig, LateTaints
  <2>6. CallsInOrder'
    BY <1>4, <1>6 DEF Inv, CallsInOrder
  <2>7. CASE tainted
    BY <1>6, <2>4, <2>5, <2>6, <2>7 DEF Inv, CleanWithoutSession, BookedWithSession
  <2>8. CASE ~tainted
    <3>1. from = "session" /\ Origin(from) = session
      BY <2>8 DEF SessionDone, Sending, Origins, Origin, Inv, LateTaints
    <3>2. \E s \in Sources : OnSyncAfter(m)[s] \in {"Starting", "Running"}
      BY <1>2, <1>6 DEF OpenAfter, SourceStates
    <3>3. BookedWithSession'
      BY <1>3, <1>4, <1>6, <2>1, <2>3, <2>8, <3>1, <3>2, MessageBooks DEF BookedWithSession
    <3>4. CleanWithoutSession'
      BY <1>6, <2>1, <2>3, <3>1 DEF Inv, CleanWithoutSession
    <3> QED BY <2>4, <2>5, <2>6, <3>3, <3>4 DEF Inv
  <2> QED BY <2>7, <2>8
<1> QED BY <1>5, <1>6 DEF SessionDone, res

\* The server stops: the session differs only in that nobody owes its end.
LEMMA SessionLostStep ==
  ASSUME Inv, SessionIsLost
  PROVE  Inv'
<1>1. /\ session' \in SessionsOf /\ session'.live = session.live
      /\ session'.flags = session.flags /\ session'.over = session.over
  BY DEF SessionIsLost, Inv, TypeOK, SessionsOf
<1>2. TypeOK'
  BY <1>1, SignalLists DEF SessionIsLost, Inv, TypeOK
<1>3. SessionMatchesState' /\ ConfiguringHasConfig' /\ LateTaints' /\ CallsInOrder'
  BY <1>1 DEF SessionIsLost, Inv, SessionMatchesState, ConfiguringHasConfig, LateTaints,
     CallsInOrder
<1>4. CleanWithoutSession' /\ BookedWithSession'
  BY <1>1 DEF SessionIsLost, Inv, CleanWithoutSession, BookedWithSession
<1> QED BY <1>2, <1>3, <1>4 DEF Inv

-----------------------------------------------------------------------------
LEMMA NextInv ==
  ASSUME Inv, [Next]_vars
  PROVE  Inv'
<1>1. CASE \E wanted \in SUBSET Sources : Sync(wanted)
  BY <1>1, SyncStep
<1>2. CASE Cancel
  BY <1>2, CancelStep
<1>3. CASE Configure \/ FetchIsLost \/ PeerNotOpened \/ LocalQueued
  BY <1>3, ConfigureStep
<1>4. CASE SessionStep
  BY <1>4, StatusStep, DoneStep DEF SessionStep
<1>5. CASE LateDeleted
  <2>1. TypeOK'
    BY <1>5, Constants, SignalLists DEF LateDeleted, Inv, TypeOK
  <2> QED BY <1>5, <2>1, Constants DEF LateDeleted, Inv, SessionMatchesState,
             ConfiguringHasConfig, LateTaints, CallsInOrder, Stacked, CleanWithoutSession,
             BookedWithSession
<1>6. CASE Resume
  BY <1>6, ResumeStep
<1>7. CASE Return
  BY <1>7, ReturnStep
<1>8. CASE EnabledChanged
  <2>1. enabled' \in BOOLEAN /\ fault' \in Faults /\ out' \in Seq(SignalNames)
    BY <1>8, SignalLists DEF EnabledChanged, SignalNames, Inv, TypeOK
  <2> QED BY <1>8, <2>1, AccountStays DEF EnabledChanged
<1>9. CASE UNCHANGED vars
  <2>1. enabled' \in BOOLEAN /\ fault' \in Faults /\ out' \in Seq(SignalNames)
    BY <1>9 DEF vars, Inv, TypeOK
  <2> QED BY <1>9, <2>1, AccountStays DEF vars, control
<1>10. CASE SessionIsLost
  BY <1>10, SessionLostStep
<1> QED BY <1>1, <1>2, <1>3, <1>4, <1>5, <1>6, <1>7, <1>8, <1>9, <1>10 DEF Next

THEOREM Invariance == Spec => []Inv
BY InitInv, NextInv, PTL DEF Spec

(* The variables have their types, in every account that can be reached.   *)
THEOREM AccountIsTyped == Spec => []TypeOK
<1>1. Inv => TypeOK
  BY DEF Inv
<1> QED BY <1>1, Invariance, PTL

(* No path through setFinished, cancel, a failed session or a late status  *)
(* leaves a session that nothing closes, or a state that waits for none.   *)
THEOREM SessionsMatch == Spec => []SessionMatchesState
<1>1. Inv => SessionMatchesState
  BY DEF Inv
<1> QED BY <1>1, Invariance, PTL

(* An account that configures has the SyncConfigure that is to call back.  *)
THEOREM ConfigurationsAreHeld == Spec => []ConfiguringHasConfig
<1>1. Inv => ConfiguringHasConfig
  BY DEF Inv
<1> QED BY <1>1, Invariance, PTL

(* A session that is over keeps the account only for a source that is open.*)
THEOREM OverSessionsWait == Spec => []OverOnlyForOpenSource
<1>1. Inv => OverOnlyForOpenSource
  BY DEF Inv, LateTaints, BookedWithSession, OverOnlyForOpenSource
<1> QED BY <1>1, Invariance, PTL

(* Between two syncs the maps of an account are empty (setFinished).       *)
THEOREM SyncsAreSeparate == Spec => []NothingCarriedOver
<1>1. Inv => NothingCarriedOver
  BY DEF Inv, SessionMatchesState, CleanWithoutSession, NothingCarriedOver
<1> QED BY <1>1, Invariance, PTL

-----------------------------------------------------------------------------
LEMMA Endings ==
  /\ <<>> # <<"syncFinished">>
  /\ \A name \in SignalNames \ {"syncFinished"} : <<name>> # <<"syncFinished">>
  /\ Append(<<"syncError">>, "syncFinished") # <<"syncFinished">>
OBVIOUS

\* A configuration that ends reports its error, or finds the session.
LEMMA ConfiguredReportsNothing ==
  ASSUME session.live, NEW rest, OnAccountConfigured(rest)
  PROVE  out' # <<"syncFinished">>
BY Endings DEF OnAccountConfigured, ContinueSync

LEMMA DoneReports ==
  ASSUME Inv, session.live, ~tainted, out' = <<"syncFinished">>,
         NEW from \in Origins, NEW m \in Statuses(Origin(from).flags),
         NEW error \in {OK} \cup SessionErrors, SessionDone(from, m, error)
  PROVE  {s \in DOMAIN reported' : reported'[s] # None} = session.flags
<1>1. calls = <<>> /\ Origin(from) = session
  BY DEF SessionDone, Sending, Ready, Origins, Origin, Inv, LateTaints
<1>2. error = OK /\ OpenAfter(m) = {}
  BY Endings DEF SessionDone, SetFinished
<1>3. reported' = ResultsAfter(m)
  BY <1>2, Endings DEF SessionDone, SetFinished, ResultsAfter
<1>4. /\ \A s \in Sources : OnSyncAfter(m)[s] # None <=> s \in session.flags
      /\ ResultsAfter(m)[NoSource] = None
      /\ \A s \in Sources : ResultsAfter(m)[s] # None <=> OnSyncAfter(m)[s] = "Done"
  BY <1>1, MessageBooks
<1>5. DOMAIN ResultsAfter(m) = Sources \cup {NoSource} /\ session.flags \in SUBSET Sources
  BY DEF ResultsAfter, Inv, TypeOK, PartialResults, SessionsOf
<1>6. \A s \in Sources : OnSyncAfter(m)[s] = "Done" <=> s \in session.flags
  BY <1>2, <1>4, AccountConstants DEF OpenAfter, SourceStates
<1> QED BY <1>3, <1>4, <1>5, <1>6, AccountConstants

(* A sync that ends without an error, and that no cancel came before,      *)
(* reports the sources it was started for (onSessionStatusChanged,         *)
(* setFinished).                                                           *)
THEOREM SourcesAreReported == Spec => ReportsWhatItStarted
<1>1. ASSUME Inv, [Next]_vars, vars' # vars PROVE SourcesReported
  <2> SUFFICES ASSUME session.live, ~tainted, out' = <<"syncFinished">>
               PROVE  {s \in DOMAIN reported' : reported'[s] # None} = session.flags
    BY DEF SourcesReported
  <2>1. ASSUME NEW wanted \in SUBSET Sources, Sync(wanted) PROVE FALSE
    BY <1>1, <2>1, Endings DEF Sync, Inv, SessionMatchesState
  <2>2. ~Cancel
    BY Endings DEF Cancel, SignalNames
  <2>3. ~(Configure \/ FetchIsLost \/ PeerNotOpened \/ LocalQueued)
    <3>1. ASSUME NEW code, NEW rest, OnAccountConfigureError(code, rest) PROVE FALSE
      BY <3>1, Endings DEF OnAccountConfigureError, SetFinished
    <3> QED BY <3>1, ConfiguredReportsNothing, Endings
            DEF Configure, AuthSucceeds, AuthFails, FetchFails, PeerQueued, PeerFails, ConfigDone,
                SaveFails, FetchIsLost, PeerNotOpened, LocalQueued
  <2>4. ASSUME NEW from, NEW m, StatusChanged(from, m) PROVE FALSE
    BY <2>4, Endings DEF StatusChanged, SignalNames
  <2>5. ~LateDeleted /\ ~SessionIsLost /\ ~Return /\ ~EnabledChanged
    BY Endings DEF LateDeleted, SessionIsLost, Return, EnabledChanged, SignalNames
  <2>6. ~Resume
    BY Endings, ConfiguredReportsNothing DEF Resume
  <2>7. CASE SessionStep
    BY <1>1, <2>4, <2>7, DoneReports DEF SessionStep
  <2> QED BY <1>1, <2>1, <2>2, <2>3, <2>5, <2>6, <2>7 DEF Next
<1>2. Inv /\ [Next]_vars => [SourcesReported]_vars
  BY <1>1
<1> QED BY <1>2, Invariance, PTL DEF Spec, ReportsWhatItStarted

-----------------------------------------------------------------------------
(* What a sync that is under way waits for, and how far it is. *)

LEMMA DistanceType ==
  ASSUME TypeOK
  PROVE  /\ Len(calls) \in Nat /\ AnswersLeft \in 0 .. 3
         /\ calls # <<>> => /\ Tail(calls) \in Seq(CallNames)
                            /\ Len(Tail(calls)) = Len(calls) - 1
<1>1. calls \in Seq(CallNames)
  BY DEF TypeOK
<1>2. AnswersLeft \in 0 .. 3
  BY DEF AnswersLeft
<1>3. Len(calls) \in Nat
  BY <1>1
<1>4. calls # <<>> => Tail(calls) \in Seq(CallNames) /\ Len(Tail(calls)) = Len(calls) - 1
  BY <1>1
<1> QED BY <1>2, <1>3, <1>4

\* The end of a configuration gives the sync its session, or ends or loses it.
LEMMA ContinuesOrEnds ==
  ASSUME Alive, NEW wanted, NEW opened \in BOOLEAN, NEW flags, NEW rest,
         ContinueSync(wanted, opened, flags, rest), UnderWay'
  PROVE  calls' = rest /\ late' = late
BY DEF ContinueSync, SetFinished, UnderWay, Alive

LEMMA ConfiguredGoesOn ==
  ASSUME Alive, NEW rest, OnAccountConfigured(rest), UnderWay'
  PROVE  calls' = rest /\ late' = late /\ phase' = "none"
BY ContinuesOrEnds DEF OnAccountConfigured

LEMMA ErrorEnds ==
  ASSUME NEW code, NEW rest, OnAccountConfigureError(code, rest)
  PROVE  ~UnderWay'
BY DEF OnAccountConfigureError, SetFinished, UnderWay

\* An answer to the configuration leaves fewer of them.
LEMMA ConfigureLowers ==
  ASSUME Inv, Configure, UnderWay'
  PROVE  Distance' < Distance
<1>1. /\ Len(calls) \in Nat /\ AnswersLeft \in 0 .. 3
      /\ calls = <<>> /\ Alive /\ phase \in {"auth", "fetch", "peer"}
  BY DistanceType DEF Inv, Configure, AuthSucceeds, AuthFails, FetchFails, PeerQueued,
     PeerFails, ConfigDone, SaveFails, ConfigStep, Ready
<1>2. SUFFICES calls' = calls /\ late' = late /\ AnswersLeft' < AnswersLeft
  BY <1>1 DEF Distance, AnswersLeft
<1>3. CASE AuthSucceeds
  BY <1>3 DEF AuthSucceeds, ConfigStep, AnswersLeft
<1>4. CASE PeerQueued
  BY <1>4 DEF PeerQueued, ConfigStep, AnswersLeft
<1>5. CASE AuthFails \/ FetchFails \/ PeerFails \/ SaveFails
  BY <1>5, ErrorEnds DEF AuthFails, FetchFails, PeerFails, SaveFails
<1>6. CASE ConfigDone
  <2>1. calls' = <<>> /\ late' = late /\ phase' = "none"
    BY <1>1, <1>6, ConfiguredGoesOn DEF ConfigDone
  <2> QED BY <1>1, <2>1 DEF AnswersLeft
<1> QED BY <1>3, <1>4, <1>5, <1>6 DEF Configure

\* A call that returns is one less, whatever it goes on with.
LEMMA CallsLower ==
  ASSUME Inv, Return \/ Resume, UnderWay'
  PROVE  Distance' < Distance
<1>1. /\ Len(calls) \in Nat /\ AnswersLeft \in 0 .. 3
      /\ calls # <<>> /\ Alive /\ Len(Tail(calls)) = Len(calls) - 1
  BY DistanceType DEF Inv, Return, Resume
<1>2. CASE UNCHANGED <<late, phase>> /\ calls' = Tail(calls)
  <2>1. AnswersLeft' = AnswersLeft
    BY <1>2 DEF AnswersLeft
  <2> QED BY <1>1, <1>2, <2>1 DEF Distance
<1>3. CASE OnAccountConfigured(Tail(calls))
  <2>1. calls' = Tail(calls) /\ late' = late /\ phase' = "none"
    BY <1>1, <1>3, ConfiguredGoesOn
  <2>2. AnswersLeft' = 0
    BY <2>1 DEF AnswersLeft
  <2> QED BY <1>1, <2>1, <2>2 DEF Distance
<1>4. ~(fault' = "deleted session")
  BY DEF UnderWay, Alive
<1> QED BY <1>2, <1>3, <1>4 DEF Return, Resume, control

LEMMA LateDeletedLowers ==
  ASSUME Inv, LateDeleted
  PROVE  Distance' < Distance
<1>1. Len(calls) \in Nat /\ AnswersLeft \in 0 .. 3
  BY DistanceType DEF Inv
<1>2. calls' = calls /\ AnswersLeft' = AnswersLeft /\ late.live /\ ~late'.live
  BY Constants DEF LateDeleted, AnswersLeft
<1> QED BY <1>1, <1>2 DEF Distance

\* The end of the session ends the sync, or the session waits for a source.
LEMMA DoneEnds ==
  ASSUME Inv, NEW m, NEW error, SessionDone("session", m, error)
  PROVE  ~UnderWay'
<1>1. CASE error # OK \/ OpenAfter(m) = {}
  BY <1>1 DEF SessionDone, SetFinished, UnderWay
<1>2. CASE ~(error # OK \/ OpenAfter(m) = {})
  BY <1>2 DEF SessionDone, UnderWay, Inv, TypeOK, SessionsOf
<1> QED BY <1>1, <1>2

LEMMA DueLowers ==
  ASSUME Inv, DueHappens, UnderWay'
  PROVE  Distance' < Distance
BY ConfigureLowers, CallsLower, LateDeletedLowers, DoneEnds DEF DueHappens, ServerEnds

\* A sync that is under way waits for somebody.
LEMMA SomethingIsDue ==
  ASSUME Inv, UnderWay
  PROVE  DueIsAwaited
<1>1. state \in {"Configuring", "AboutToSync", "Syncing"} /\ phase # "lost" /\ ~session.over
  BY DEF UnderWay, Inv, TypeOK, States
<1>2. Due = "Configure" => config /\ phase \in {"auth", "fetch", "peer"}
  BY <1>1 DEF Due, Inv, ConfiguringHasConfig, TypeOK, Phases
<1>3. Due = "ServerEnds" => session.live /\ ~session.lost
  BY <1>1 DEF Due, UnderWay, Inv, SessionMatchesState
<1> QED BY <1>1, <1>2, <1>3 DEF DueIsAwaited

\* What is due stays due, when the step has no part in it.
LEMMA StaysDue ==
  ASSUME UNCHANGED <<late, phase>>,
         Len(calls') = Len(calls), calls = <<>> <=> calls' = <<>>,
         calls # <<>> => (Head(calls) = "resume" <=> Head(calls') = "resume"),
         state = "Configuring" <=> state' = "Configuring"
  PROVE  Distance' = Distance /\ Due' = Due
<1>1. Distance' = Distance
  BY DEF Distance, AnswersLeft
<1>2. Due' = Due
  <2>1. CASE calls = <<>>
    BY <2>1 DEF Due
  <2>2. CASE calls # <<>>
    BY <2>2 DEF Due
  <2> QED BY <2>1, <2>2
<1> QED BY <1>1, <1>2

LEMMA NeverFarther ==
  ASSUME Inv, [Next]_vars, UnderWay, UnderWay'
  PROVE  Distance' < Distance \/ (Distance' = Distance /\ Due' = Due)
<1>1. state \notin {"Idle", "Invalid"} /\ Alive
  BY DEF UnderWay
<1>2. CASE Configure \/ Return \/ Resume \/ LateDeleted
  BY <1>2, ConfigureLowers, CallsLower, LateDeletedLowers
<1>3. ASSUME NEW wanted \in SUBSET Sources, Sync(wanted) PROVE Distance' = Distance /\ Due' = Due
  <2>1. /\ UNCHANGED control
        /\ calls' = IF calls = <<>> THEN <<>> ELSE <<"clear">> \o Tail(calls)
        /\ calls # <<>> => Head(calls) = "slot"
    BY <1>1, <1>3 DEF Sync
  <2>2. CASE calls = <<>>
    BY <2>1, <2>2, StaysDue DEF control
  <2>3. CASE calls # <<>>
    <3>1. Tail(calls) \in Seq(CallNames) /\ Len(Tail(calls)) = Len(calls) - 1
      BY <2>3, DistanceType DEF Inv
    <3>2. Len(calls') = Len(calls) /\ calls' # <<>> /\ Head(calls') = "clear"
      BY <2>1, <2>3, <3>1, DistanceType DEF Inv, CallNames
    <3> QED BY <2>1, <2>3, <3>2, StaysDue DEF control
  <2> QED BY <2>2, <2>3
<1>4. CASE Cancel
  <2>1. UNCHANGED <<late, phase, calls, state>>
    BY <1>4 DEF Cancel, UnderWay
  <2> QED BY <2>1, StaysDue
<1>5. CASE FetchIsLost \/ PeerNotOpened \/ LocalQueued \/ SessionIsLost
  BY <1>5 DEF FetchIsLost, PeerNotOpened, LocalQueued, SessionIsLost, UnderWay, Alive,
     Inv, TypeOK, SessionsOf
<1>6. ASSUME NEW from \in Origins, NEW m, StatusChanged(from, m)
      PROVE  Distance' = Distance /\ Due' = Due
  <2>1. /\ UNCHANGED <<late, phase, calls>>
        /\ state = "Configuring" <=> state' = "Configuring"
    BY <1>6 DEF StatusChanged, StateAfter, Started
  <2> QED BY <2>1, StaysDue
<1>7. ASSUME NEW from \in Origins, NEW m, NEW error, SessionDone(from, m, error)
      PROVE  Distance' < Distance
  <2>1. from = "late"
    BY <1>7, DoneEnds DEF Origins
  <2>2. late.live /\ late' = NoSession /\ UNCHANGED <<calls, phase>>
    BY <1>7, <2>1 DEF SessionDone, SetFinished, Sending, Origin, UnderWay
  <2>3. Len(calls) \in Nat /\ AnswersLeft \in 0 .. 3 /\ AnswersLeft' = AnswersLeft
    BY <2>2, DistanceType DEF Inv, AnswersLeft
  <2> QED BY <2>2, <2>3, Constants DEF Distance
<1>8. CASE EnabledChanged
  <2>1. UNCHANGED <<late, phase, calls, state>>
    BY <1>8 DEF EnabledChanged, control
  <2> QED BY <2>1, StaysDue
<1>9. CASE UNCHANGED vars
  <2>1. UNCHANGED <<late, phase, calls, state>>
    BY <1>9 DEF vars
  <2> QED BY <2>1, StaysDue
<1> QED BY <1>2, <1>3, <1>4, <1>5, <1>6, <1>7, <1>8, <1>9 DEF Next, SessionStep

(* A sync under way waits for something that somebody was asked for, which *)
(* brings it nearer to its end when it comes, and which nothing that       *)
(* happens meanwhile sets back or replaces (sync(), cancel(),              *)
(* onSessionStatusChanged(), SyncConfigure).                               *)
THEOREM SyncsComeNearer == Spec => SyncComesNearer
<1>1. ASSUME Inv, [Next]_vars PROVE ComesNearer
  BY <1>1, SomethingIsDue, NeverFarther, DueLowers DEF ComesNearer
<1>2. Inv /\ [Next]_vars => [ComesNearer]_vars
  BY <1>1
<1> QED BY <1>2, Invariance, PTL DEF Spec, SyncComesNearer

-----------------------------------------------------------------------------
(* The refinement: each step of the account is an outcome of AccountControl*)
(* or one that the daemon does not see.  With it, what is shown of the     *)
(* daemon composed of the outcomes holds of a daemon with such accounts.   *)
(* The mapping needs Inv, for the session that goes with a state and for   *)
(* the calls that are pending, and HeldByPhase.                            *)

\* The account has a configuration exactly while that is in a phase.
HeldByPhase == config <=> phase # "none"

LEMMA InitHeld == Init => HeldByPhase
BY DEF Init, HeldByPhase

LEMMA HeldStep ==
  ASSUME HeldByPhase, [Next]_vars
  PROVE  HeldByPhase'
<1>1. ASSUME UNCHANGED <<config, phase>> PROVE HeldByPhase'
  BY <1>1 DEF HeldByPhase
<1>2. ASSUME config' = FALSE, phase' = "none" PROVE HeldByPhase'
  BY <1>2 DEF HeldByPhase
<1>3. ASSUME phase # "none", phase' # "none", UNCHANGED config PROVE HeldByPhase'
  BY <1>3 DEF HeldByPhase
<1>4. ASSUME NEW wanted, Sync(wanted) PROVE HeldByPhase'
  BY <1>1, <1>2, <1>4
     DEF Sync, control, AuthRequested, AuthRefused, OnAccountConfigureError, HeldByPhase
<1>5. CASE Configure \/ FetchIsLost \/ PeerNotOpened \/ LocalQueued
  BY <1>1, <1>2, <1>3, <1>5
     DEF Configure, AuthSucceeds, AuthFails, FetchFails, PeerQueued, PeerFails, ConfigDone,
         SaveFails, FetchIsLost, PeerNotOpened, LocalQueued, ConfigStep, control,
         OnAccountConfigureError, OnAccountConfigured
<1>6. CASE Resume
  BY <1>1, <1>2, <1>6 DEF Resume, control, OnAccountConfigured
<1>7. CASE SessionStep
  BY <1>1, <1>7 DEF SessionStep, StatusChanged, SessionDone
<1>8. CASE \/ Cancel \/ SessionIsLost \/ LateDeleted
           \/ Return \/ EnabledChanged \/ UNCHANGED vars
  BY <1>1, <1>8 DEF Cancel, SessionIsLost, LateDeleted, Return, EnabledChanged, control, vars
<1> QED BY <1>4, <1>5, <1>6, <1>7, <1>8 DEF Next

-----------------------------------------------------------------------------
(* Pending calls *)

Pending(s) == \E i \in DOMAIN s : s[i] = "resume"

LEMMA PendingFirst ==
  ASSUME NEW rest, Stacked(rest), NEW c \in {"slot", "clear"}
  PROVE  Pending(<<c>> \o rest) <=> Pending(rest)
<1>1. /\ DOMAIN rest = 1 .. Len(rest) /\ Len(rest) \in Nat
      /\ DOMAIN (<<c>> \o rest) = 1 .. Len(rest) + 1
      /\ (<<c>> \o rest)[1] = c
      /\ \A i \in 1 .. Len(rest) : (<<c>> \o rest)[i + 1] = rest[i]
  BY DEF Stacked, CallNames
<1>2. ASSUME NEW i \in DOMAIN (<<c>> \o rest), (<<c>> \o rest)[i] = "resume"
      PROVE  \E j \in DOMAIN rest : rest[j] = "resume"
  <2>1. i # 1 /\ i - 1 \in 1 .. Len(rest) /\ (i - 1) + 1 = i
    BY <1>1, <1>2
  <2> QED BY <1>1, <1>2, <2>1
<1>3. ASSUME NEW i \in DOMAIN rest, rest[i] = "resume"
      PROVE  \E j \in DOMAIN (<<c>> \o rest) : (<<c>> \o rest)[j] = "resume"
  <2>1. i + 1 \in 1 .. Len(rest) + 1
    BY <1>1
  <2> QED BY <1>1, <1>3, <2>1
<1> QED BY <1>2, <1>3 DEF Pending

LEMMA PendingReturn ==
  ASSUME NEW s, Stacked(s), s # <<>>
  PROVE  /\ Head(s) # "resume" => (Pending(Tail(s)) <=> Pending(s))
         /\ Head(s) = "resume" => Pending(s) /\ ~Pending(Tail(s))
<1>1. /\ DOMAIN s = 1 .. Len(s) /\ Len(s) \in Nat \ {0} /\ Head(s) = s[1]
      /\ DOMAIN Tail(s) = 1 .. Len(s) - 1
      /\ \A i \in 1 .. Len(s) - 1 : Tail(s)[i] = s[i + 1]
  BY DEF Stacked, CallNames
<1>2. Head(s) = "resume" => Tail(s) = <<>> /\ Pending(s)
  BY <1>1, CallReturns DEF Pending
<1>3. ~Pending(<<>>)
  BY DEF Pending
<1>4. ASSUME NEW i \in DOMAIN s, s[i] = "resume", Head(s) # "resume"
      PROVE  \E j \in DOMAIN Tail(s) : Tail(s)[j] = "resume"
  <2>1. i # 1 /\ i - 1 \in 1 .. Len(s) - 1 /\ (i - 1) + 1 = i
    BY <1>1, <1>4
  <2> QED BY <1>1, <1>4, <2>1
<1>5. ASSUME NEW i \in DOMAIN Tail(s), Tail(s)[i] = "resume"
      PROVE  \E j \in DOMAIN s : s[j] = "resume"
  <2>1. i + 1 \in 1 .. Len(s)
    BY <1>1
  <2> QED BY <1>1, <1>5, <2>1
<1> QED BY <1>2, <1>3, <1>4, <1>5 DEF Pending

LEMMA NothingPending == ~Pending(<<>>)
BY DEF Pending

LEMMA ResumingIsPending == Resuming <=> Alive /\ Pending(calls)
BY DEF Resuming, Pending
-----------------------------------------------------------------------------
(* Steps of the interface *)

Emissions ==
  {<<>>, <<"syncStarted">>, <<"syncError">>,
   Append(<<>>, "syncFinished"), Append(<<"syncError">>, "syncFinished")}

LEMMA LastAppended ==
  ASSUME NEW S, NEW s \in Seq(S), NEW e
  PROVE  /\ Append(s, e) # <<>> /\ Append(s, e)[Len(Append(s, e))] = e
         /\ SubSeq(Append(s, e), 1, Len(Append(s, e)) - 1) = s
<1> DEFINE t == Append(s, e)
<1>1. /\ t \in Seq(S \cup {e}) /\ Len(s) \in Nat /\ Len(t) = Len(s) + 1
      /\ t # <<>> /\ t[Len(t)] = e
      /\ \A i \in 1 .. Len(s) : t[i] = s[i]
  OBVIOUS
<1>2. /\ SubSeq(t, 1, Len(t) - 1) \in Seq(S)
      /\ Len(SubSeq(t, 1, Len(t) - 1)) = Len(s)
      /\ \A i \in 1 .. Len(s) : SubSeq(t, 1, Len(t) - 1)[i] = s[i]
  <2>1. Len(t) - 1 = Len(s) /\ \A i \in 1 .. Len(s) : t[i] \in S
    BY <1>1
  <2> HIDE DEF t
  <2>2. /\ SubSeq(t, 1, Len(s)) \in Seq(S)
        /\ Len(SubSeq(t, 1, Len(s))) = IF 1 <= Len(s) THEN Len(s) - 1 + 1 ELSE 0
        /\ \A i \in 1 .. Len(s) - 1 + 1 : SubSeq(t, 1, Len(s))[i] = t[1 + i - 1]
    BY <1>1, <2>1, SubSeqProperties
  <2> QED BY <1>1, <2>1, <2>2
<1> HIDE DEF t
<1>3. SubSeq(t, 1, Len(t) - 1) = s
  BY <1>2
<1> QED BY <1>1, <1>3 DEF t

LEMMA EmissionsEnd ==
  \A signals \in Emissions : signals # <<>> => signals[Len(signals)] # "resume"
<1>1. <<>> \in Seq({"syncError"}) /\ <<"syncError">> \in Seq({"syncError"})
  OBVIOUS
<1>2. /\ Append(<<>>, "syncFinished")[Len(Append(<<>>, "syncFinished"))] = "syncFinished"
      /\ Append(<<"syncError">>, "syncFinished")[Len(Append(<<"syncError">>, "syncFinished"))]
           = "syncFinished"
  BY <1>1, LastAppended
<1> QED BY <1>2 DEF Emissions

\* Signals that do not end in "resume" are all emitted.
LEMMA EmitsAll ==
  ASSUME NEW next, NEW signals \in Emissions
  PROVE  /\ Interface!Emitted(Interface!Outcome(next, signals)) = signals
         /\ ~Interface!Resumes(Interface!Outcome(next, signals))
         /\ Interface!Outcome(next, signals).next = next
BY EmissionsEnd DEF Interface!Emitted, Interface!Resumes, Interface!Outcome

LEMMA AliveIsVisible ==
  ASSUME Inv, Alive
  PROVE  Visible = Control /\ Visible # Interface!Dead
BY DEF Visible, Control, Interface!Dead, Inv, TypeOK, States

LEMMA StepTaken ==
  ASSUME Inv, Alive, NEW signals \in Emissions,
         Interface!Outcome(Visible', signals) \in Interface!Outcomes(Control),
         out' = signals, Resuming' <=> Resuming
  PROVE  Interface!Next
<1>1. Interface!Takes(Interface!Outcome(Visible', signals))
  BY EmitsAll DEF Interface!Takes
<1>2. Resuming' = (Resuming \/ Interface!Resumes(Interface!Outcome(Visible', signals)))
  BY EmitsAll DEF Resuming
<1>3. Interface!Step
  BY <1>1, <1>2, AliveIsVisible DEF Interface!Step
<1> QED BY <1>3, AliveIsVisible DEF Interface!Next

LEMMA ResumeTaken ==
  ASSUME Inv, Alive, NEW signals \in Emissions,
         Interface!Outcome(Visible', signals) \in Interface!ResumeOutcomes(Control),
         out' = signals, Resuming, ~Resuming'
  PROVE  Interface!Next
<1>1. Interface!Takes(Interface!Outcome(Visible', signals))
  BY EmitsAll DEF Interface!Takes
<1>2. Resuming' = FALSE
  BY DEF Resuming
<1>3. Interface!Resume
  BY <1>1, <1>2, AliveIsVisible DEF Interface!Resume
<1> QED BY <1>3, AliveIsVisible DEF Interface!Next

\* Nothing of what the daemon sees changes.
LEMMA ControlStays ==
  ASSUME Inv, Alive, UNCHANGED control, fault' = fault, out' = <<>>, Resuming' <=> Resuming
  PROVE  Interface!Next
<1>1. Visible' = Control
  BY DEF Alive, Visible, Control, control
<1>2. Interface!Outcome(Visible', <<>>) \in Interface!Outcomes(Control)
  BY <1>1 DEF Interface!Outcomes, Interface!Silent
<1>3. <<>> \in Emissions
  BY DEF Emissions
<1> QED BY <1>2, <1>3, StepTaken

-----------------------------------------------------------------------------
(* Parts of handlers *)

\* setFinished()
LEMMA FinishedVisible ==
  ASSUME Alive', NEW res, NEW signals, NEW lateAfter, NEW rest, Stacked(rest),
         SetFinished(res, signals, lateAfter, rest)
  PROVE  /\ Visible' = Control'
         /\ Control'.state = "Idle" /\ Control'.session = "none"
         /\ Control'.late = (lateAfter.live /\ ~lateAfter.over)
         /\ Resuming' <=> Pending(rest)
<1>1. ~NoSession.live
  BY DEF NoSession
<1>2. /\ Visible' = Control'
      /\ Control'.state = "Idle" /\ Control'.session = "none"
      /\ Control'.late = (lateAfter.live /\ ~lateAfter.over)
  BY <1>1, Zenon DEF Visible, Control, SetFinished
<1>3. Resuming' <=> Pending(rest)
  BY PendingFirst DEF Resuming, Pending, SetFinished
<1> QED BY <1>2, <1>3
LEMMA ControlRecord ==
  /\ Control = [state |-> Control.state, config |-> Control.config,
                session |-> Control.session, late |-> Control.late]
  /\ Control' = [state |-> Control'.state, config |-> Control'.config,
                 session |-> Control'.session, late |-> Control'.late]
<1> DEFINE configured == CASE ~config -> "none"
                           [] config /\ phase = "lost" -> "lost"
                           [] OTHER -> "busy"
           opened == CASE ~session.live -> "none"
                       [] session.live /\ session.over -> "over"
                       [] session.live /\ ~session.over /\ session.lost -> "lost"
                       [] OTHER -> "open"
<1>1. /\ Control = [state |-> state, config |-> configured, session |-> opened,
                    late |-> late.live /\ ~late.over]
      /\ Control' = [state |-> state', config |-> configured', session |-> opened',
                     late |-> late'.live /\ ~late'.over]
  BY Zenon DEF Control
<1> HIDE DEF configured, opened
<1> QED BY <1>1

\* continueSync(), from an account of which `config' is as it is left by the caller.
LEMMA ContinueVisible ==
  ASSUME Inv, Alive, NEW c, c = [Control EXCEPT !.config = Control'.config],
         NEW wanted, NEW opened \in BOOLEAN, NEW flags, NEW rest, Stacked(rest),
         ContinueSync(wanted, opened, flags, rest)
  PROVE  \E signals \in Emissions :
           /\ Interface!Outcome(Visible', signals) \in Interface!Continue(c)
           /\ out' = signals
           /\ ~session.live => (Resuming' <=> Pending(rest))
           /\ Resuming' => Pending(rest)
<1>1. <<>> \in Emissions /\ Append(<<>>, "syncFinished") \in Emissions
  BY DEF Emissions
<1>2. CASE opened /\ session.live
  <2>1. Visible' = Interface!Dead /\ out' = <<>> /\ ~Resuming'
    BY <1>2, Zenon DEF ContinueSync, Alive, Visible, Resuming, Interface!Dead
  <2>2. c.session # "none"
    BY <1>2 DEF Control
  <2> QED BY <1>1, <1>2, <2>1, <2>2 DEF Interface!Continue, Interface!Silent
<1>3. CASE ~opened
  <2>1. /\ Alive' /\ state' = "Invalid" /\ calls' = rest /\ out' = <<>>
        /\ session' = session /\ late' = late
    BY <1>3 DEF ContinueSync, Alive
  <2>2. /\ Visible' = Control'
        /\ Control'.state = "Invalid" /\ Control'.session = Control.session
        /\ Control'.late = Control.late
    BY <2>1 DEF Visible, Control
  <2>3. Visible' = [c EXCEPT !.state = "Invalid"]
    BY <2>2, ControlRecord
  <2> QED BY <1>1, <2>1, <2>3 DEF Interface!Continue, Interface!Silent, Resuming, Pending
<1>4. CASE opened /\ ~session.live /\ flags = {}
  <2>1. Alive' /\ SetFinished(results, <<>>, NoSession, rest)
    BY <1>4 DEF ContinueSync, Alive
  <2>2. /\ Visible' = Control'
        /\ Control'.state = "Idle" /\ Control'.session = "none" /\ Control'.late = FALSE
        /\ Resuming' <=> Pending(rest)
    BY <2>1, FinishedVisible, Constants
  <2>3. Visible' = [c EXCEPT !.state = "Idle", !.session = "none", !.late = FALSE]
    BY <2>2, ControlRecord
  <2>4. c.session = "none"
    BY <1>4 DEF Control
  <2>5. Interface!Finish([c EXCEPT !.late = FALSE], <<>>) =
          Interface!Outcome(Visible', Append(<<>>, "syncFinished"))
    BY <2>3, <2>4 DEF Interface!Finish, Interface!Outcome, Control
  <2>6. out' = Append(<<>>, "syncFinished")
    BY <2>1 DEF SetFinished
  <2> QED BY <1>1, <2>2, <2>4, <2>5, <2>6 DEF Interface!Continue
<1>5. CASE opened /\ ~session.live /\ flags # {}
  <2>1. /\ Alive' /\ state' = "AboutToSync" /\ calls' = rest /\ out' = <<>>
        /\ late' = late /\ \E lost \in BOOLEAN : session' = Session(flags, lost)
    BY <1>5 DEF ContinueSync, Alive
  <2>2. session'.live /\ ~session'.over
    BY <2>1 DEF Session
  <2>3. /\ Visible' = Control'
        /\ Control'.state = "AboutToSync" /\ Control'.session \in Interface!MaySend
        /\ Control'.late = Control.late
    BY <2>1, <2>2 DEF Visible, Control, Interface!MaySend
  <2>4. Visible' = [c EXCEPT !.state = "AboutToSync", !.session = Control'.session]
    BY <2>3, ControlRecord
  <2>5. c.session = "none"
    BY <1>5 DEF Control
  <2> QED BY <1>1, <2>1, <2>3, <2>4, <2>5
          DEF Interface!Continue, Interface!Silent, Resuming, Pending
<1> QED BY <1>2, <1>3, <1>4, <1>5

\* onAccountConfigureError()
LEMMA ErrorVisible ==
  ASSUME Inv, Alive, NEW code, NEW rest, Stacked(rest), OnAccountConfigureError(code, rest)
  PROVE  /\ Visible' = Interface!ConfigError(Control).next
         /\ Interface!ConfigError(Control).signals = out'
         /\ out' = Append(<<"syncError">>, "syncFinished")
         /\ Resuming' <=> Pending(rest)
<1>1. /\ Alive' /\ config' = FALSE
      /\ SetFinished([NoResults EXCEPT ![NoSource] = code], <<"syncError">>,
                     LateAfterRelease, rest)
  BY DEF OnAccountConfigureError, Alive
<1>2. /\ Visible' = Control'
      /\ Control'.state = "Idle" /\ Control'.session = "none"
      /\ Control'.late = (LateAfterRelease.live /\ ~LateAfterRelease.over)
      /\ Resuming' <=> Pending(rest)
  BY <1>1, FinishedVisible
<1>3. Control'.config = "none"
  BY <1>1 DEF Control
<1>4. Control'.late = (Control.late /\ Control.session = "none")
  BY <1>2, Constants DEF LateAfterRelease, Control
<1>5. out' = Append(<<"syncError">>, "syncFinished")
  BY <1>1 DEF SetFinished
<1>6. /\ Interface!ConfigError(Control).signals = Append(<<"syncError">>, "syncFinished")
      /\ Interface!ConfigError(Control).next =
           [state |-> "Idle", config |-> "none", session |-> "none",
            late |-> Control.late /\ Control.session = "none"]
  BY DEF Interface!ConfigError, Interface!Finish, Interface!Outcome, Control
<1>7. Control' = [state |-> "Idle", config |-> "none", session |-> "none",
                  late |-> Control.late /\ Control.session = "none"]
  BY <1>2, <1>3, <1>4, ControlRecord
<1> QED BY <1>2, <1>5, <1>6, <1>7

\* onAccountConfigured()
LEMMA ConfiguredVisible ==
  ASSUME Inv, Alive, NEW rest, Stacked(rest), OnAccountConfigured(rest)
  PROVE  \E signals \in Emissions :
           /\ Interface!Outcome(Visible', signals) \in Interface!Configured(Control)
           /\ out' = signals
           /\ Resuming' => Pending(rest)
<1>1. PICK opened \in BOOLEAN, flags \in MayStart(toSync) :
        ContinueSync(toSync, opened, flags, rest)
  BY DEF OnAccountConfigured
<1>2. Control'.config = "none"
  BY DEF OnAccountConfigured, Control
<1> QED BY <1>1, <1>2, ContinueVisible DEF Interface!Configured
-----------------------------------------------------------------------------
(* The steps of the account *)

LEMMA SyncTaken ==
  ASSUME Inv, HeldByPhase, NEW wanted \in SUBSET Sources, Sync(wanted)
  PROVE  Interface!Next
<1> DEFINE rest == IF calls = <<>> THEN <<>> ELSE <<"clear">> \o Tail(calls)
<1>1. Alive /\ (calls # <<>> => Head(calls) = "slot")
  BY DEF Sync
<1>2. Stacked(rest) /\ (Resuming <=> Pending(rest))
  <2>1. CASE calls = <<>>
    BY <1>1, <2>1, ResumingIsPending DEF Stacked
  <2>2. CASE calls # <<>>
    <3>1. Stacked(Tail(calls)) /\ (Pending(Tail(calls)) <=> Pending(calls))
      BY <1>1, <2>2, CallReturns, PendingReturn DEF Inv, CallsInOrder
    <3> QED BY <1>1, <2>2, <3>1, CallFirst, PendingFirst, ResumingIsPending
  <2> QED BY <2>1, <2>2
<1>3. /\ <<>> \in Emissions /\ Append(<<"syncError">>, "syncFinished") \in Emissions
  BY DEF Emissions
<1>4. CASE state # "Idle"
  <2>1. UNCHANGED control /\ fault' = fault /\ calls' = rest /\ out' = <<>>
    BY <1>4 DEF Sync
  <2>2. Resuming' <=> Resuming
    BY <1>1, <1>2, <2>1 DEF Resuming, Pending, Alive
  <2> QED BY <1>1, <2>1, <2>2, ControlStays
<1>5. CASE state = "Idle" /\ config
  <2>1. /\ UNCHANGED <<config, phase>>
        /\ \E opened \in BOOLEAN, flags \in MayStart(wanted) :
             ContinueSync(wanted, opened, flags, rest)
    BY <1>5 DEF Sync
  <2>2. Control = [Control EXCEPT !.config = Control'.config]
    <3>1. Control'.config = Control.config
      BY <2>1 DEF Control
    <3> QED BY <3>1, ControlRecord
  <2>3. ~session.live
    BY <1>5 DEF Inv, SessionMatchesState
  <2> HIDE DEF rest
  <2>4. PICK signals \in Emissions :
           /\ Interface!Outcome(Visible', signals) \in Interface!Continue(Control)
           /\ out' = signals
           /\ Resuming' <=> Pending(rest)
    BY <1>1, <1>2, <2>1, <2>2, <2>3, ContinueVisible
  <2>5. Control.state = "Idle" /\ Control.config # "none"
    BY <1>5 DEF Control
  <2>6. Interface!Outcome(Visible', signals) \in Interface!Outcomes(Control)
    BY <2>4, <2>5 DEF Interface!Outcomes, Interface!SyncOutcomes
  <2> QED BY <1>1, <1>2, <2>4, <2>6, StepTaken
<1>6. CASE state = "Idle" /\ ~config /\ AuthRequested(wanted, rest)
  <2>1. /\ Alive' /\ state' = "Configuring" /\ config' /\ phase' = "auth"
        /\ session' = session /\ late' = late /\ calls' = rest /\ out' = <<>>
    BY <1>1, <1>6 DEF AuthRequested, Alive
  <2>2. /\ Visible' = Control'
        /\ Control'.state = "Configuring" /\ Control'.config = "busy"
        /\ Control'.session = Control.session /\ Control'.late = Control.late
    BY <2>1 DEF Visible, Control
  <2>3. Visible' = [Control EXCEPT !.state = "Configuring", !.config = "busy"]
    BY <2>2, ControlRecord
  <2>4. Control.state = "Idle" /\ Control.config = "none"
    BY <1>6 DEF Control
  <2>5. Interface!Outcome(Visible', <<>>) \in Interface!Outcomes(Control)
    BY <2>3, <2>4 DEF Interface!Outcomes, Interface!SyncOutcomes, Interface!Silent
  <2>6. Resuming' <=> Resuming
    BY <1>2, <2>1 DEF Resuming, Pending
  <2> QED BY <1>1, <1>3, <2>1, <2>5, <2>6, StepTaken
<1>7. CASE state = "Idle" /\ ~config /\ AuthRefused(rest)
  <2>1. OnAccountConfigureError(NotAuthenticated, rest)
    BY <1>7 DEF AuthRefused
  <2> HIDE DEF rest
  <2>2. /\ Interface!ConfigError(Control) = Interface!Outcome(Visible', out')
        /\ out' = Append(<<"syncError">>, "syncFinished")
        /\ Resuming' <=> Pending(rest)
    BY <1>1, <1>2, <2>1, ErrorVisible
       DEF Interface!ConfigError, Interface!Finish, Interface!Outcome
  <2>3. Control.state = "Idle" /\ Control.config = "none"
    BY <1>7 DEF Control
  <2>4. Interface!Outcome(Visible', out') \in Interface!Outcomes(Control)
    BY <2>2, <2>3 DEF Interface!Outcomes, Interface!SyncOutcomes
  <2> QED BY <1>1, <1>2, <1>3, <2>2, <2>4, StepTaken
<1> QED BY <1>4, <1>5, <1>6, <1>7 DEF Sync

LEMMA CancelTaken ==
  ASSUME Inv, Cancel
  PROVE  Interface!Next
<1>1. Alive /\ Alive' /\ calls = <<>> /\ calls' = <<>> /\ UNCHANGED <<config, phase>>
  BY DEF Cancel, Ready, Alive
<1>2. Resuming' <=> Resuming
  BY <1>1 DEF Resuming
<1>3. CASE ~session.live
  <2>1. UNCHANGED control /\ fault' = fault /\ out' = <<>>
    BY <1>3 DEF Cancel, control
  <2> QED BY <1>1, <1>2, <2>1, ControlStays
<1>4. CASE session.live
  <2>1. /\ late' = [session EXCEPT !.lost = FALSE] /\ session' = NoSession /\ state' = "Idle"
        /\ out' = IF state = "Syncing" THEN <<"syncError">> ELSE <<>>
    BY <1>4 DEF Cancel
  <2>2. late'.live /\ late'.over = session.over
    BY <1>4, <2>1 DEF Inv, TypeOK, SessionsOf
  <2>3. Control.session \in Interface!MaySend <=> ~session.over
    BY <1>4 DEF Control, Interface!MaySend
  <2>4. /\ Visible' = Control'
        /\ Control'.state = "Idle" /\ Control'.session = "none"
        /\ Control'.config = Control.config
        /\ Control'.late = (Control.session \in Interface!MaySend)
    BY <1>1, <1>4, <2>1, <2>2, <2>3, Constants DEF Visible, Control
  <2>5. Visible' = [Control EXCEPT !.state = "Idle", !.session = "none",
                                   !.late = Control.session \in Interface!MaySend]
    BY <2>4, ControlRecord
  <2>6. Control.session # "none" /\ Control.state = state
    BY <1>4 DEF Control
  <2>7. Interface!CancelOutcome(Control) = Interface!Outcome(Visible', out')
    BY <2>1, <2>5, <2>6 DEF Interface!CancelOutcome
  <2>8. Interface!Outcome(Visible', out') \in Interface!Outcomes(Control)
    BY <2>7 DEF Interface!Outcomes
  <2>9. out' \in Emissions
    BY <2>1 DEF Emissions
  <2> QED BY <1>1, <1>2, <2>8, <2>9, StepTaken
<1> QED BY <1>3, <1>4
\* The configuration is at work, and no late session is left.
LEMMA ConfigBusy ==
  ASSUME Inv, HeldByPhase, NEW from \in SUBSET {"auth", "fetch", "peer"}, ConfigStep(from)
  PROVE  /\ Alive /\ calls = <<>> /\ Stacked(<<>>) /\ ~Resuming
         /\ Control.config = "busy" /\ ~Control.late
         /\ Interface!ConfigOutcomes(Control) \in SUBSET Interface!Outcomes(Control)
<1>1. /\ Alive /\ calls = <<>> /\ ~late.live
      /\ config /\ phase # "lost"
  BY DEF ConfigStep, Ready, HeldByPhase
<1>2. Stacked(<<>>) /\ ~Resuming
  BY <1>1, NothingPending, ResumingIsPending DEF Stacked
<1>3. Control.config = "busy" /\ ~Control.late
  BY <1>1 DEF Control
<1>4. Interface!ConfigOutcomes(Control) \in SUBSET Interface!Outcomes(Control)
  BY DEF Interface!Outcomes
<1> QED BY <1>1, <1>2, <1>3, <1>4

LEMMA ErrorTaken ==
  ASSUME Inv, HeldByPhase, NEW from \in SUBSET {"auth", "fetch", "peer"}, ConfigStep(from),
         NEW code, OnAccountConfigureError(code, <<>>)
  PROVE  Interface!Next
<1>1. /\ Interface!ConfigError(Control) = Interface!Outcome(Visible', out')
      /\ out' = Append(<<"syncError">>, "syncFinished")
      /\ ~Resuming'
  BY ConfigBusy, ErrorVisible, NothingPending
     DEF Interface!ConfigError, Interface!Finish, Interface!Outcome
<1>2. Interface!Outcome(Visible', out') \in Interface!Outcomes(Control)
  BY <1>1, ConfigBusy DEF Interface!ConfigOutcomes
<1>3. out' \in Emissions
  BY <1>1 DEF Emissions
<1> QED BY <1>1, <1>2, <1>3, ConfigBusy, StepTaken

\* The configuration gets on, or will not call back.
LEMMA PhaseTaken ==
  ASSUME Inv, HeldByPhase, NEW from \in SUBSET {"auth", "fetch", "peer"}, ConfigStep(from),
         phase' \in {"fetch", "peer", "lost"}, out' = <<>>,
         UNCHANGED <<state, config, session, late, calls, fault>>
  PROVE  Interface!Next
<1>1. /\ Visible' = Control' /\ ~Resuming'
      /\ Control'.state = Control.state /\ Control'.session = Control.session
      /\ Control'.late = Control.late
  BY ConfigBusy DEF Visible, Control, Alive, Resuming
<1>2. Control'.config = IF phase' = "lost" THEN "lost" ELSE "busy"
  BY DEF ConfigStep, HeldByPhase, Control
<1>3. Visible' = IF phase' = "lost" THEN [Control EXCEPT !.config = "lost"] ELSE Control
  BY <1>1, <1>2, ConfigBusy, ControlRecord
<1>4. Interface!Outcome(Visible', <<>>) \in Interface!Outcomes(Control)
  BY <1>3, ConfigBusy DEF Interface!ConfigOutcomes, Interface!Silent
<1>5. <<>> \in Emissions
  BY DEF Emissions
<1> QED BY <1>1, <1>4, <1>5, ConfigBusy, StepTaken

\* The process stops.
LEMMA FaultVisible ==
  ASSUME fault' # "none"
  PROVE  Visible' = Interface!Dead /\ ~Resuming'
BY DEF Visible, Resuming, Alive, Interface!Dead

LEMMA ConfigureTaken ==
  ASSUME Inv, HeldByPhase, Configure \/ FetchIsLost \/ PeerNotOpened \/ LocalQueued
  PROVE  Interface!Next
<1> DEFINE Steps == SUBSET {"auth", "fetch", "peer"}
<1>1. CASE AuthSucceeds \/ FetchIsLost \/ PeerQueued \/ LocalQueued
  <2>1. \E from \in Steps : ConfigStep(from)
    BY <1>1 DEF AuthSucceeds, FetchIsLost, PeerQueued, LocalQueued
  <2>2. /\ phase' \in {"fetch", "peer", "lost"} /\ out' = <<>>
        /\ UNCHANGED <<state, config, session, late, calls, fault>>
    BY <1>1 DEF AuthSucceeds, FetchIsLost, PeerQueued, LocalQueued
  <2> QED BY <2>1, <2>2, PhaseTaken
<1>2. CASE AuthFails \/ FetchFails \/ PeerFails
  <2>1. /\ \E from \in Steps : ConfigStep(from)
        /\ \E code \in Codes : OnAccountConfigureError(code, <<>>)
    BY <1>2 DEF AuthFails, FetchFails, PeerFails, Codes
  <2> QED BY <2>1, ErrorTaken
<1>3. CASE PeerNotOpened
  <2>1. /\ \E from \in Steps : ConfigStep(from)
        /\ fault' # "none" /\ out' = <<>>
    BY <1>3 DEF PeerNotOpened
  <2>2. Interface!Outcome(Visible', <<>>) \in Interface!Outcomes(Control)
    BY <2>1, ConfigBusy, FaultVisible DEF Interface!ConfigOutcomes, Interface!Silent
  <2>3. <<>> \in Emissions
    BY DEF Emissions
  <2> QED BY <2>1, <2>2, <2>3, ConfigBusy, FaultVisible, StepTaken
<1>4. CASE ConfigDone
  <2>1. ConfigStep({"fetch", "peer"}) /\ OnAccountConfigured(<<>>)
    BY <1>4 DEF ConfigDone
  <2>2. PICK signals \in Emissions :
          /\ Interface!Outcome(Visible', signals) \in Interface!Configured(Control)
          /\ out' = signals
          /\ ~Resuming'
    BY <2>1, ConfigBusy, ConfiguredVisible, NothingPending
  <2>3. Interface!Outcome(Visible', signals) \in Interface!Outcomes(Control)
    BY <2>1, <2>2, ConfigBusy DEF Interface!ConfigOutcomes
  <2> QED BY <2>1, <2>2, <2>3, ConfigBusy, StepTaken
<1>5. CASE SaveFails
  <2>1. ConfigStep({"fetch", "peer"}) /\ OnAccountConfigureError(ConfigFailed, <<"resume">>)
    BY <1>5 DEF SaveFails
  <2>2. Stacked(<<"resume">>) /\ Pending(<<"resume">>)
    BY DEF Stacked, CallNames, Pending
  <2> DEFINE outcome == Interface!Outcome(Visible', Append(out', "resume"))
  <2>3. /\ Visible' = Interface!ConfigError(Control).next
        /\ Interface!ConfigError(Control).signals = out'
        /\ out' = Append(<<"syncError">>, "syncFinished")
        /\ Resuming'
    BY <2>1, <2>2, ConfigBusy, ErrorVisible
  <2>4. outcome \in Interface!Outcomes(Control)
    BY <2>1, <2>3, ConfigBusy DEF Interface!ConfigOutcomes
  <2>5. out' \in Seq({"syncError", "syncFinished"})
    BY <2>3
  <2>6. Interface!Takes(outcome) /\ Interface!Resumes(outcome)
    BY <2>5, LastAppended
       DEF Interface!Takes, Interface!Emitted, Interface!Resumes, Interface!Outcome
  <2>7. Alive
    BY <2>1, ConfigBusy
  <2> HIDE DEF outcome
  <2>8. Interface!Step
    BY <2>3, <2>4, <2>6, <2>7, AliveIsVisible DEF Interface!Step, Resuming
  <2> QED BY <2>7, <2>8, AliveIsVisible DEF Interface!Next
<1> QED BY <1>1, <1>2, <1>3, <1>4, <1>5 DEF Configure

LEMMA ResumeIsTaken ==
  ASSUME Inv, Resume
  PROVE  Interface!Next
<1>1. Alive /\ calls # <<>> /\ Head(calls) = "resume"
  BY DEF Resume
<1>2. Stacked(Tail(calls)) /\ Resuming /\ ~Pending(Tail(calls))
  BY <1>1, CallReturns, PendingReturn, ResumingIsPending DEF Inv, CallsInOrder
<1>3. <<>> \in Emissions
  BY DEF Emissions
<1>4. CASE OnAccountConfigured(Tail(calls))
  <2>1. PICK signals \in Emissions :
          /\ Interface!Outcome(Visible', signals) \in Interface!Configured(Control)
          /\ out' = signals
          /\ ~Resuming'
    BY <1>1, <1>2, <1>4, ConfiguredVisible
  <2> QED BY <1>1, <1>2, <2>1, ResumeTaken DEF Interface!ResumeOutcomes
<1>5. CASE calls' = Tail(calls) /\ out' = <<>>
           /\ UNCHANGED <<control, results, enabled, fault, reported, tainted>>
  <2>1. Visible' = Control /\ ~Resuming'
    BY <1>1, <1>2, <1>5 DEF Visible, Control, control, Alive, Resuming, Pending
  <2> QED BY <1>1, <1>2, <1>3, <1>5, <2>1, ResumeTaken
          DEF Interface!ResumeOutcomes, Interface!Silent
<1>6. CASE fault' = "deleted session" /\ out' = <<>>
  BY <1>1, <1>2, <1>3, <1>6, FaultVisible, ResumeTaken
     DEF Interface!ResumeOutcomes, Interface!Silent
<1> QED BY <1>4, <1>5, <1>6 DEF Resume

LEMMA ReturnTaken ==
  ASSUME Inv, Return
  PROVE  Interface!Next
<1>1. /\ Alive /\ calls # <<>> /\ Head(calls) # "resume" /\ calls' = Tail(calls)
      /\ UNCHANGED control /\ fault' = fault /\ out' = <<>>
  BY DEF Return
<1>2. Pending(Tail(calls)) <=> Pending(calls)
  BY <1>1, PendingReturn DEF Inv, CallsInOrder
<1>3. Resuming' <=> Resuming
  BY <1>1, <1>2 DEF Resuming, Pending, Alive
<1> QED BY <1>1, <1>3, ControlStays
-----------------------------------------------------------------------------
(* The statuses of a session *)

\* A session that sends is open, or is the cancelled one.
LEMMA SendingOrigin ==
  ASSUME Inv, NEW from \in Origins, Sending(from)
  PROVE  /\ Alive /\ calls = <<>> /\ Stacked(<<>>) /\ ~Resuming
         /\ from = "session" => Control.session \in Interface!MaySend /\ session.live
         /\ from = "late" => Control.late
<1>1. Alive /\ calls = <<>> /\ Origin(from).live /\ ~Origin(from).over
  BY DEF Sending, Ready
<1>2. Stacked(<<>>) /\ ~Resuming
  BY <1>1, NothingPending, ResumingIsPending DEF Stacked
<1>3. from = "session" => Control.session \in Interface!MaySend /\ session.live
  BY <1>1 DEF Origin, Control, Interface!MaySend
<1>4. from = "late" => Control.late
  BY <1>1 DEF Origin, Control
<1> QED BY <1>1, <1>2, <1>3, <1>4

LEMMA StatusTaken ==
  ASSUME Inv, NEW from \in Origins, NEW m, StatusChanged(from, m)
  PROVE  Interface!Next
<1>1. Sending(from)
  BY DEF StatusChanged
<1>2. /\ Visible' = Control' /\ ~Resuming'
      /\ Control'.state = (IF state = "AboutToSync" THEN "Syncing" ELSE state)
      /\ Control'.config = Control.config /\ Control'.session = Control.session
      /\ Control'.late = Control.late
  BY <1>1, SendingOrigin
     DEF StatusChanged, StateAfter, Started, Visible, Control, Alive, Resuming
<1>3. Control.state = state
  BY DEF Control
<1>4. Visible' = IF state = "AboutToSync" THEN [Control EXCEPT !.state = "Syncing"] ELSE Control
  BY <1>2, <1>3, ControlRecord
<1>5. out' = IF state = "AboutToSync" THEN <<"syncStarted">> ELSE <<>>
  BY DEF StatusChanged, Started
<1>6. Interface!Outcome(Visible', out') = Interface!Started(Control)
  BY <1>3, <1>4, <1>5 DEF Interface!Started, Interface!Silent
<1>7. from = "session" \/ from = "late"
  BY DEF Origins
<1>8. Interface!Outcome(Visible', out') \in Interface!Outcomes(Control)
  BY <1>1, <1>6, <1>7, SendingOrigin
     DEF Interface!Outcomes, Interface!SessionOutcomes, Interface!LateOutcomes
<1>9. out' \in Emissions
  BY <1>5 DEF Emissions
<1> QED BY <1>1, <1>2, <1>8, <1>9, SendingOrigin, StepTaken

LEMMA DoneTaken ==
  ASSUME Inv, NEW from \in Origins, NEW m, NEW error, SessionDone(from, m, error)
  PROVE  Interface!Next
<1> DEFINE signals == IF error # OK THEN <<"syncError">> ELSE <<>>
           lateAfter == IF from = "late" THEN NoSession ELSE LateAfterRelease
           ended == [Control EXCEPT !.late = FALSE]
<1>1. /\ Sending(from) /\ UNCHANGED <<config, phase, fault>>
      /\ from = "session" \/ from = "late"
  BY DEF SessionDone, Origins
<1>2. /\ Alive /\ Alive' /\ ~Resuming
      /\ Control'.config = Control.config
  BY <1>1, SendingOrigin DEF Alive, Control
\* The sync ends.
<1>3. ASSUME NEW res, SetFinished(res, signals, lateAfter, <<>>) PROVE Interface!Next
  <2>1. ~lateAfter.live
    BY <1>1, Constants, SendingOrigin DEF LateAfterRelease
  <2> HIDE DEF signals, lateAfter
  <2>2. /\ Visible' = Control' /\ ~Resuming'
        /\ Control'.state = "Idle" /\ Control'.session = "none" /\ Control'.late = FALSE
    BY <1>1, <1>2, <1>3, <2>1, FinishedVisible, NothingPending, SendingOrigin
  <2>3. Visible' = [Control EXCEPT !.state = "Idle", !.session = "none", !.late = FALSE]
    BY <1>2, <2>2, ControlRecord
  <2>4. out' = Append(signals, "syncFinished")
    BY <1>3 DEF SetFinished
  <2>5. signals \in {<<>>, <<"syncError">>}
    BY DEF signals
  <2>6. CASE from = "session"
    <3>1. Control.session \in Interface!MaySend /\ Control.session # "none"
      BY <1>1, <2>6, SendingOrigin DEF Interface!MaySend
    <3>2. Interface!Finish(Control, signals) = Interface!Outcome(Visible', out')
      BY <2>3, <2>4, <3>1, ControlRecord DEF Interface!Finish
    <3>3. Interface!Outcome(Visible', out') \in Interface!Outcomes(Control)
      BY <2>5, <3>1, <3>2 DEF Interface!Outcomes, Interface!SessionOutcomes
    <3> QED BY <1>2, <2>2, <2>4, <2>5, <3>3, StepTaken DEF Emissions
  <2>7. CASE from = "late"
    <3>1. Control.late
      BY <1>1, <2>7, SendingOrigin
    <3>2. Interface!Finish(ended, signals) = Interface!Outcome(Visible', out')
      BY <2>3, <2>4, ControlRecord DEF Interface!Finish
    <3>3. Interface!Outcome(Visible', out') \in Interface!Outcomes(Control)
      BY <2>5, <3>1, <3>2 DEF Interface!Outcomes, Interface!LateOutcomes
    <3> QED BY <1>2, <2>2, <2>4, <2>5, <3>3, StepTaken DEF Emissions
  <2> QED BY <1>1, <2>6, <2>7
\* It waits for a source that is not done.
<1>4. CASE /\ out' = <<>>
           /\ session' = [session EXCEPT !.over = @ \/ from = "session"]
           /\ late' = IF from = "late" THEN NoSession ELSE late
           /\ UNCHANGED <<state, calls>>
  <2>1. /\ session'.live = session.live /\ session'.lost = session.lost
        /\ session'.over <=> session.over \/ from = "session"
    BY <1>4 DEF Inv, TypeOK, SessionsOf
  <2>2. /\ Visible' = Control' /\ ~Resuming' /\ Control'.state = Control.state
        /\ Control'.session = IF from = "session" THEN "over" ELSE Control.session
        /\ Control'.late = (from # "late" /\ Control.late)
    <3>1. Visible' = Control' /\ ~Resuming'
      BY <1>1, <1>2, <1>4, SendingOrigin DEF Visible, Resuming
    <3>2. Control'.state = Control.state
      BY <1>4 DEF Control
    <3>3. Control'.session = IF from = "session" THEN "over" ELSE Control.session
      <4>1. CASE from = "session"
        BY <1>1, <2>1, <4>1, SendingOrigin DEF Control
      <4>2. CASE from = "late"
        BY <2>1, <4>2 DEF Control
      <4> QED BY <1>1, <4>1, <4>2
    <3>4. Control'.late = (from # "late" /\ Control.late)
      BY <1>4, Constants DEF Control
    <3> QED BY <3>1, <3>2, <3>3, <3>4
  <2>3. Visible' = IF from = "session" THEN [Control EXCEPT !.session = "over"] ELSE ended
    <3>1. from = "session" => Control'.late = Control.late
      BY <2>2 DEF Control
    <3>2. CASE from = "session"
      BY <1>2, <2>2, <3>1, <3>2, ControlRecord
    <3>3. CASE from = "late"
      BY <1>2, <2>2, <3>3, ControlRecord
    <3> QED BY <1>1, <3>2, <3>3
  <2>4. Interface!Outcome(Visible', <<>>) \in Interface!Outcomes(Control)
    BY <1>1, <2>3, SendingOrigin
       DEF Interface!Outcomes, Interface!SessionOutcomes, Interface!LateOutcomes, Interface!Silent
  <2>5. <<>> \in Emissions
    BY DEF Emissions
  <2> QED BY <1>2, <1>4, <2>2, <2>4, <2>5, StepTaken
<1> QED BY <1>3, <1>4 DEF SessionDone

LEMMA LateDeletedTaken ==
  ASSUME Inv, LateDeleted
  PROVE  Interface!Next
<1>1. /\ Alive /\ Alive' /\ late' = NoSession /\ out' = <<>>
      /\ UNCHANGED <<state, config, phase, session, calls>>
  BY DEF LateDeleted, Ready, Alive
<1>2. /\ Visible' = Control' /\ (Resuming' <=> Resuming)
      /\ Control'.state = Control.state /\ Control'.config = Control.config
      /\ Control'.session = Control.session /\ Control'.late = FALSE
  BY <1>1, Constants DEF Visible, Control, Resuming
<1>3. Control.late \in BOOLEAN
  BY DEF Control
<1>4. Visible' = IF Control.late THEN [Control EXCEPT !.late = FALSE] ELSE Control
  BY <1>2, <1>3, ControlRecord
<1>5. Interface!Outcome(Visible', <<>>) \in Interface!Outcomes(Control)
  BY <1>4 DEF Interface!Outcomes, Interface!LateOutcomes, Interface!Silent
<1>6. <<>> \in Emissions
  BY DEF Emissions
<1> QED BY <1>1, <1>2, <1>5, <1>6, StepTaken

LEMMA SessionLostTaken ==
  ASSUME Inv, SessionIsLost
  PROVE  Interface!Next
<1>1. /\ Alive /\ Alive' /\ session.live /\ ~session.over /\ out' = <<>>
      /\ UNCHANGED <<state, config, phase, late, calls>>
  BY DEF SessionIsLost, Ready, Alive
<1>2. session'.live /\ ~session'.over /\ session'.lost
  BY <1>1 DEF SessionIsLost, Inv, TypeOK, SessionsOf
<1>3. /\ Visible' = Control' /\ (Resuming' <=> Resuming)
      /\ Control'.state = Control.state /\ Control'.config = Control.config
      /\ Control'.session = "lost" /\ Control'.late = Control.late
  BY <1>1, <1>2 DEF Visible, Control, Resuming
<1>4. Visible' = [Control EXCEPT !.session = "lost"]
  BY <1>3, ControlRecord
<1>5. Control.session \in Interface!MaySend
  BY <1>1 DEF Control, Interface!MaySend
<1>6. Interface!Outcome(Visible', <<>>) \in Interface!Outcomes(Control)
  BY <1>4, <1>5 DEF Interface!Outcomes, Interface!SessionOutcomes, Interface!Silent
<1>7. <<>> \in Emissions
  BY DEF Emissions
<1> QED BY <1>1, <1>3, <1>6, <1>7, StepTaken

-----------------------------------------------------------------------------
LEMMA InitTaken == Init => Interface!Init
<1> SUFFICES ASSUME Init PROVE Interface!Init
  OBVIOUS
<1>1. /\ Visible = Control /\ Control.state = "Idle" /\ Control.config = "none"
      /\ Control.session = "none" /\ Control.late = FALSE
  BY Constants DEF Init, Visible, Control, Alive
<1>2. Visible = Interface!NewAccount
  <2>1. Visible = [state |-> "Idle", config |-> "none", session |-> "none", late |-> FALSE]
    BY <1>1, ControlRecord
  <2>2. /\ Interface!Dead = [state |-> "Dead", config |-> "none", session |-> "none",
                             late |-> FALSE]
        /\ Interface!NewAccount = [Interface!Dead EXCEPT !.state = "Idle"]
    BY DEF Interface!NewAccount, Interface!Dead
  <2> QED BY <2>1, <2>2
<1>3. ~Resuming /\ out = <<>>
  BY NothingPending, ResumingIsPending DEF Init
<1> QED BY <1>2, <1>3 DEF Interface!Init, Resuming

LEMMA NextTaken ==
  ASSUME Inv, HeldByPhase, [Next]_vars
  PROVE  [Interface!Next]_<<Visible, out, Resuming>>
<1>1. ASSUME NEW wanted \in SUBSET Sources, Sync(wanted) PROVE Interface!Next
  BY <1>1, SyncTaken
<1>2. CASE Configure \/ FetchIsLost \/ PeerNotOpened \/ LocalQueued
  BY <1>2, ConfigureTaken
<1>3. CASE SessionStep
  BY <1>3, StatusTaken, DoneTaken DEF SessionStep
<1>4. CASE EnabledChanged
  <2>1. /\ Alive /\ Visible' = Visible /\ Resuming' = Resuming /\ out' = <<"enableChanged">>
    BY <1>4 DEF EnabledChanged, Ready, Alive, Visible, Control, control, Resuming
  <2> QED BY <2>1, AliveIsVisible DEF Interface!Next, Interface!EnabledChanged
<1>5. CASE UNCHANGED vars
  BY <1>5 DEF vars, Visible, Control, Alive, Resuming
<1> QED BY <1>1, <1>2, <1>3, <1>4, <1>5, CancelTaken, SessionLostTaken, LateDeletedTaken,
       ResumeIsTaken, ReturnTaken DEF Next

(* Towards the daemon an account does only what AccountInterface allows:   *)
(* every handler, with all it calls, ends in an outcome of AccountControl, *)
(* whichever calendars, answers and errors it meets.                       *)
THEOREM AccountImplements == Spec => ImplementsInterface
<1>1. Init => Interface!Init /\ HeldByPhase
  BY InitTaken, InitHeld
<1>2. HeldByPhase /\ [Next]_vars => HeldByPhase'
  BY HeldStep
<1>3. Inv /\ HeldByPhase /\ [Next]_vars => [Interface!Next]_<<Visible, out, Resuming>>
  BY NextTaken
<1> QED BY <1>1, <1>2, <1>3, Invariance, PTL DEF Spec, ImplementsInterface, Interface!Spec
=============================================================================
