--------------------------- MODULE SyncFetchProofs ---------------------------
(***************************************************************************)
(* Theorems of SyncFetch for any number of clients, calendars and fetches. *)
(*                                                                         *)
(* AnswersAreLists needs to know of the list, and of every answer on its   *)
(* way, that it lies between what a waiting client has seen listed all the *)
(* time and what it has seen listed at all (Between).  TakesWhatItListed   *)
(* needs that nothing but a new fetch takes calendars out of the list while*)
(* the configuration is queued (ListIsKept).                               *)
(***************************************************************************)
EXTENDS SyncFetch, TLAPS

Between ==
  \A c \in Waiting :
    /\ service \subseteq ever[c] /\ always[c] \subseteq service
    /\ remote \subseteq ever[c]
    /\ remote = {} \/ always[c] \subseteq remote
    /\ \A f \in Fetches :
         phase[f] = "back" => carries[f] \subseteq ever[c] /\ always[c] \subseteq carries[f]

ListIsKept == state = "queued" /\ ~cleared => listed \subseteq remote

Inv ==
  /\ TypeOK
  /\ Between
  /\ ListIsKept
  /\ TakesWhatItListed
  /\ NobodyWaitsForNothing

-----------------------------------------------------------------------------
LEMMA InitInv == Init => Inv
<1> SUFFICES ASSUME Init PROVE Inv
  OBVIOUS
<1>1. Waiting = {} /\ state = "idle" /\ taken = None
  BY DEF Init, Waiting
<1>2. TypeOK
  BY <1>1 DEF Init, TypeOK, NoLists, Lists, Phases, States
<1>3. Between /\ NobodyWaitsForNothing
  BY <1>1 DEF Between, NobodyWaitsForNothing
<1> QED BY <1>1, <1>2, <1>3 DEF Inv, ListIsKept, TakesWhatItListed

\* A configuration takes what is in both lists, or nothing at all.
LEMMA ConfiguredStep ==
  ASSUME NEW heard \in Lists, NEW list \in Lists, Configured(heard, list)
  PROVE  /\ state' \in {"idle", "stuck", "syncing"}
         /\ taken' \in {None, heard \cap list}
         /\ state' = "syncing" => taken' \in Lists \ {{}}
BY FetchConstants DEF Configured, Lists

(* The signal answers whoever waits; the configuration, if it waits, takes *)
(* the list, and no other one.                                             *)
LEMMA EmitStep ==
  ASSUME Inv, NEW list \in Lists, NEW who \in SUBSET Clients, Emit(list, who),
         asked' = who
  PROVE  /\ remote' = list /\ Waiting' = {} /\ early' = {}
         /\ answer' \in [Clients -> Lists \cup {None}]
         /\ ever' \in [Clients -> Lists] /\ always' \in [Clients -> Lists]
         /\ UNCHANGED <<loose, stopped>>
         /\ state' \in States \ {"listing"} /\ listed' \in Lists
         /\ taken' \in Lists \cup {None}
         /\ state' = "syncing" => taken' \in Lists \ {{}}
         /\ \/ UNCHANGED <<state, listed, taken>>
            \/ /\ taken' \in {None, listed'}
               /\ state' = "queued" => listed' = list
<1>1. /\ remote' = list /\ early' = {} /\ ever' = NoLists /\ always' = NoLists
      /\ answer' = [c \in Clients |-> IF c \in who /\ answer[c] = None THEN list
                                      ELSE answer[c]]
      /\ UNCHANGED <<loose, stopped>>
  BY DEF Emit, sessionVars
<1>2. answer' \in [Clients -> Lists \cup {None}]
  BY <1>1 DEF Inv, TypeOK
<1>3. Waiting' = {}
  BY <1>1, FetchConstants DEF Waiting, Lists
<1>4. ever' \in [Clients -> Lists] /\ always' \in [Clients -> Lists]
  BY <1>1 DEF NoLists, Lists
<1>5. CASE state # "listing"
  <2>1. UNCHANGED <<state, listed, taken>>
    BY <1>5 DEF Emit
  <2> QED BY <1>1, <1>2, <1>3, <1>4, <1>5, <2>1 DEF Inv, TypeOK
<1>6. CASE state = "listing"
  <2>1. OnRemoteSourcesAvailable(list)
    BY <1>6 DEF Emit
  <2>2. listed' = list
    BY <2>1 DEF OnRemoteSourcesAvailable
  <2>3. CASE list # {} /\ Configured(list, list)
    <3>1. list \cap list = list
      OBVIOUS
    <3>2. /\ state' \in {"idle", "stuck", "syncing"} /\ taken' \in {None, list}
          /\ state' = "syncing" => taken' \in Lists \ {{}}
      BY <2>3, <3>1, ConfiguredStep
    <3> QED BY <1>1, <1>2, <1>3, <1>4, <2>2, <3>2 DEF States
  <2>4. CASE state' \in {"idle", "queued"} /\ taken' = None
    BY <1>1, <1>2, <1>3, <1>4, <2>2, <2>4 DEF States
  <2> QED BY <2>1, <2>3, <2>4 DEF OnRemoteSourcesAvailable
<1> QED BY <1>5, <1>6

(* After a signal nobody waits any more, so that only the list of a        *)
(* configuration that is queued matters: it is still in m_remoteSources.   *)
LEMMA EmitInv ==
  ASSUME Inv, NEW list \in Lists, NEW who \in SUBSET Clients, Emit(list, who),
         asked' = who,
         service' = service, lost' = lost,
         phase' \in [Fetches -> Phases], carries' \in [Fetches -> Lists],
         cleared' \in BOOLEAN, cleared => cleared',
         state = "queued" => cleared' \/ remote \subseteq list
  PROVE  Inv'
<1>1. TypeOK'
  BY EmitStep DEF Inv, TypeOK
<1>2. Between' /\ NobodyWaitsForNothing'
  BY EmitStep DEF Between, NobodyWaitsForNothing
<1>3. ListIsKept' /\ TakesWhatItListed'
  <2>1. CASE UNCHANGED <<state, listed, taken>>
    BY <2>1, EmitStep DEF Inv, ListIsKept, TakesWhatItListed
  <2>2. CASE taken' \in {None, listed'} /\ (state' = "queued" => listed' = list)
    BY <2>2, EmitStep DEF ListIsKept, TakesWhatItListed
  <2> QED BY <2>1, <2>2, EmitStep
<1> QED BY <1>1, <1>2, <1>3 DEF Inv

LEMMA EmitAndConfigureInv ==
  ASSUME Inv, NEW list \in Lists, EmitAndConfigure(list), NEW f \in Fetches,
         UNCHANGED <<service, lost, asked>>, carries' \in [Fetches -> Lists],
         phase' = [phase EXCEPT ![f] = IF state' = "listing" THEN "auth" ELSE "none"]
  PROVE  Inv'
<1>1. /\ remote' = {} /\ ever' = NoLists /\ always' = NoLists /\ early' = {}
      /\ state' \in {"listing", "idle"}
      /\ listed' = {} /\ taken' = None /\ cleared' = FALSE
      /\ UNCHANGED <<loose, stopped>>
      /\ answer' = [c \in Clients |-> IF c \notin Waiting THEN answer[c]
                                      ELSE IF c \in early THEN list ELSE {}]
  BY DEF EmitAndConfigure, sessionVars
<1>2. Waiting' = {}
  BY <1>1, FetchConstants DEF Waiting, Lists, Inv, TypeOK
<1>3. answer' \in [Clients -> Lists \cup {None}]
  BY <1>1 DEF Inv, TypeOK, Lists
<1>4. phase' \in [Fetches -> Phases] /\ (state' = "listing" => phase'[f] # "none")
  BY DEF Inv, TypeOK, Phases
<1>5. TypeOK'
  BY <1>1, <1>2, <1>3, <1>4 DEF Inv, TypeOK, NoLists, Lists, States
<1>6. Between' /\ NobodyWaitsForNothing'
  BY <1>1, <1>2, <1>4 DEF Between, NobodyWaitsForNothing
<1> QED BY <1>1, <1>5, <1>6 DEF Inv, ListIsKept, TakesWhatItListed

(* A fetch that is over emits what there was of the list, and what it has  *)
(* brought (onAuthFailed, onReplyFinished).                                *)
LEMMA EndsInv ==
  ASSUME Inv, NEW f \in Fetches, NEW list \in Lists, remote \subseteq list,
         Ends(f, list), UNCHANGED <<service, lost, asked>>,
         carries' \in [Fetches -> Lists]
  PROVE  Inv'
<1>1. CASE Emit(list, asked) /\ phase' = [phase EXCEPT ![f] = "none"] /\ cleared' = cleared
  <2>1. phase' \in [Fetches -> Phases] /\ asked \in SUBSET Clients /\ cleared \in BOOLEAN
    BY <1>1 DEF Inv, TypeOK, Phases
  <2> QED BY <1>1, <2>1, EmitInv
<1>2. CASE /\ EmitAndConfigure(list)
           /\ phase' = [phase EXCEPT ![f] = IF state' = "listing" THEN "auth" ELSE "none"]
  BY <1>2, EmitAndConfigureInv
<1> QED BY <1>1, <1>2 DEF Ends

\* What the clients have seen, and the configuration, if nothing of it changes.
LEMMA WaitersStay ==
  ASSUME Inv, UNCHANGED <<service, remote, configVars, sessionVars, clientVars, views>>
  PROVE  /\ Waiting' = Waiting /\ ListIsKept' /\ TakesWhatItListed'
         /\ (/\ phase' \in [Fetches -> Phases]
             /\ carries' \in [Fetches -> Lists]
             /\ lost' \in BOOLEAN) => TypeOK'
<1>1. UNCHANGED <<state, listed, taken, cleared, early, loose, stopped, asked, answer,
                  ever, always>>
  BY DEF configVars, sessionVars, clientVars, views
<1>2. Waiting' = Waiting
  BY <1>1 DEF Waiting
<1> QED BY <1>1, <1>2 DEF Inv, TypeOK, ListIsKept, TakesWhatItListed

LEMMA FetchStepInv ==
  ASSUME Inv, NEW f \in Fetches, FetchStep(f)
  PROVE  Inv'
<1> USE DEF FetchStep, AuthEnds, ReplyEnds
<1>0. phase \in [Fetches -> Phases] /\ carries \in [Fetches -> Lists] /\ remote \in Lists
  BY DEF Inv, TypeOK
<1>1. CASE AuthSucceeds(f)
  <2>1. /\ phase' = [phase EXCEPT ![f] = "sent"]
        /\ UNCHANGED <<service, remote, carries, lost, configVars, sessionVars,
                       clientVars, views>>
    BY <1>1 DEF AuthSucceeds
  <2>2. phase' \in [Fetches -> Phases]
    BY <1>0, <2>1 DEF Phases
  <2>3. TypeOK' /\ ListIsKept' /\ TakesWhatItListed' /\ Waiting' = Waiting
    BY <2>1, <2>2, WaitersStay DEF Inv, TypeOK
  <2>4. Between'
    BY <1>0, <2>1, <2>3 DEF Inv, Between, views
  <2>5. NobodyWaitsForNothing'
    BY <1>0, <2>1 DEF NobodyWaitsForNothing
  <2> QED BY <2>3, <2>4, <2>5 DEF Inv
<1>2. CASE ServiceAnswers(f)
  <2>1. /\ phase' = [phase EXCEPT ![f] = "back"]
        /\ carries' = [carries EXCEPT ![f] = service]
        /\ UNCHANGED <<service, remote, lost, configVars, sessionVars, clientVars, views>>
    BY <1>2 DEF ServiceAnswers
  <2>2. phase' \in [Fetches -> Phases] /\ carries' \in [Fetches -> Lists]
    BY <1>0, <2>1 DEF Phases, Inv, TypeOK
  <2>3. TypeOK' /\ ListIsKept' /\ TakesWhatItListed' /\ Waiting' = Waiting
    BY <2>1, <2>2, WaitersStay DEF Inv, TypeOK
  <2>4. Between'
    <3>1. ever' = ever /\ always' = always
      BY <2>1 DEF views
    <3>2. \A g \in Fetches : /\ phase'[g] = IF g = f THEN "back" ELSE phase[g]
                             /\ carries'[g] = IF g = f THEN service ELSE carries[g]
      BY <1>0, <2>1
    <3> QED BY <2>1, <2>3, <3>1, <3>2 DEF Inv, Between
  <2>5. NobodyWaitsForNothing'
    BY <1>0, <2>1 DEF NobodyWaitsForNothing
  <2> QED BY <2>3, <2>4, <2>5 DEF Inv
<1>3. CASE AuthFails(f)
  BY <1>0, <1>3, EndsInv DEF AuthFails
<1>4. CASE ReplyFinished(f)
  <2>1. remote \cup carries[f] \in Lists /\ remote \subseteq remote \cup carries[f]
    BY <1>0 DEF Lists
  <2>2. carries' \in [Fetches -> Lists]
    BY <1>0, <1>4 DEF ReplyFinished, Lists
  <2> QED BY <1>4, <2>1, <2>2, EndsInv DEF ReplyFinished
<1>5. CASE ReplyFails(f)
  BY <1>0, <1>5, EndsInv DEF ReplyFails
<1>6. CASE FetchIsLost(f)
  <2>1. /\ phase' = [phase EXCEPT ![f] = "none"] /\ lost' = TRUE
        /\ UNCHANGED <<service, remote, carries, configVars, sessionVars, clientVars, views>>
    BY <1>6 DEF FetchIsLost
  <2>2. phase' \in [Fetches -> Phases]
    BY <1>0, <2>1 DEF Phases
  <2>3. TypeOK' /\ ListIsKept' /\ TakesWhatItListed' /\ Waiting' = Waiting
    BY <1>0, <2>1, <2>2, WaitersStay
  <2>4. Between'
    BY <1>0, <2>1, <2>3 DEF Inv, Between, views
  <2> QED BY <2>1, <2>3, <2>4 DEF Inv, NobodyWaitsForNothing
<1> QED BY <1>1, <1>2, <1>3, <1>4, <1>5, <1>6

(* A client that asks sees what is listed now and what is on its way, and  *)
(* the list is empty (fetchRemoteSources).                                 *)
LEMMA ListCalendarsInv ==
  ASSUME Inv, NEW c \in Clients, ListCalendars(c)
  PROVE  Inv'
<1>1. /\ c \notin asked /\ answer[c] = None /\ asked' = asked \cup {c}
      /\ cleared' = (cleared \/ state = "queued")
      /\ UNCHANGED <<service, carries, lost>>
  BY DEF ListCalendars
<1>2. asked' \in SUBSET Clients /\ cleared' \in BOOLEAN
  BY <1>1 DEF Inv, TypeOK
<1>3. CASE Refused(asked \cup {c}) /\ UNCHANGED phase
  <2>1. {} \in Lists
    BY DEF Lists
  <2>2. phase' \in [Fetches -> Phases] /\ carries' \in [Fetches -> Lists]
    BY <1>1, <1>3 DEF Inv, TypeOK
  <2> QED BY <1>1, <1>2, <1>3, <2>1, <2>2, EmitInv DEF Refused
<1> DEFINE lists == {service} \cup {carries[f] : f \in {g \in Fetches : phase[g] = "back"}}
<1>4. ASSUME NEW f \in Fetches, Fetch(f),
             ever' = [ever EXCEPT ![c] = UNION lists],
             always' = [always EXCEPT ![c] = {k \in service : \A l \in lists : k \in l}],
             UNCHANGED <<answer, state, listed, taken, early, sessionVars>>
      PROVE  Inv'
  <2>1. remote' = {} /\ phase' = [phase EXCEPT ![f] = "auth"] /\ phase[f] = "none"
    BY <1>4 DEF Fetch
  <2>2. Waiting' = Waiting \cup {c} /\ c \notin Waiting
    BY <1>1, <1>4 DEF Waiting
  <2>3. /\ phase' \in [Fetches -> Phases]
        /\ \A g \in Fetches : phase'[g] = "back" => phase[g] = "back"
        /\ phase'[f] = "auth"
    BY <2>1 DEF Inv, TypeOK, Phases
  <2>4. /\ service \in Lists /\ carries \in [Fetches -> Lists]
        /\ ever \in [Clients -> Lists] /\ always \in [Clients -> Lists]
    BY DEF Inv, TypeOK
  <2>5. lists \in SUBSET Lists
    BY <2>4
  <2>6. ever' \in [Clients -> Lists] /\ always' \in [Clients -> Lists]
    BY <1>4, <2>4, <2>5 DEF Lists
  <2>7. TypeOK'
    BY <1>1, <1>2, <1>4, <2>1, <2>2, <2>3, <2>6 DEF Inv, TypeOK, Lists, sessionVars
  <2>8. Between'
    <3> SUFFICES ASSUME NEW d \in Waiting'
                 PROVE  /\ service \subseteq ever'[d] /\ always'[d] \subseteq service
                        /\ \A g \in Fetches : phase'[g] = "back" =>
                             carries[g] \subseteq ever'[d] /\ always'[d] \subseteq carries[g]
      BY <1>1, <2>1 DEF Between
    <3>1. CASE d = c
      <4>1. ever'[c] = UNION lists /\ always'[c] = {k \in service : \A l \in lists : k \in l}
        BY <1>4, <2>4
      <4>2. service \in lists /\ \A g \in Fetches : phase'[g] = "back" => carries[g] \in lists
        BY <2>3
      <4> HIDE DEF lists
      <4> QED BY <3>1, <4>1, <4>2
    <3>2. CASE d # c
      <4>1. d \in Waiting /\ d \in Clients
        BY <1>2, <2>2, <3>2 DEF Waiting
      <4>2. ever'[d] = ever[d] /\ always'[d] = always[d]
        BY <1>4, <2>4, <3>2, <4>1
      <4> QED BY <2>3, <4>1, <4>2 DEF Inv, Between
    <3> QED BY <3>1, <3>2
  <2>9. ListIsKept' /\ TakesWhatItListed' /\ NobodyWaitsForNothing'
    BY <1>1, <1>4, <2>3 DEF Inv, ListIsKept, TakesWhatItListed, NobodyWaitsForNothing
  <2> QED BY <2>7, <2>8, <2>9 DEF Inv
<1>5. \/ Refused(asked \cup {c}) /\ UNCHANGED phase
      \/ \E f \in Fetches :
           /\ Fetch(f)
           /\ ever' = [ever EXCEPT ![c] = UNION lists]
           /\ always' = [always EXCEPT ![c] = {k \in service : \A l \in lists : k \in l}]
           /\ UNCHANGED <<answer, state, listed, taken, early, sessionVars>>
  BY DEF ListCalendars
<1> QED BY <1>3, <1>4, <1>5

LEMMA ListUnknownInv ==
  ASSUME Inv, NEW c \in Clients, ListUnknown(c)
  PROVE  Inv'
<1>1. /\ c \notin asked /\ answer' = [answer EXCEPT ![c] = {}]
      /\ UNCHANGED <<service, remote, phase, carries, lost, state, listed, taken, cleared,
                     early, loose, stopped, asked, ever, always>>
  BY DEF ListUnknown, fetchVars, configVars, sessionVars, views
<1>2. answer' \in [Clients -> Lists \cup {None}] /\ Waiting' = Waiting
  BY <1>1 DEF Inv, TypeOK, Waiting, Lists
<1>3. TypeOK'
  BY <1>1, <1>2 DEF Inv, TypeOK
<1>4. Between'
  BY <1>1, <1>2 DEF Inv, Between
<1> QED BY <1>1, <1>2, <1>3, <1>4
        DEF Inv, ListIsKept, TakesWhatItListed, NobodyWaitsForNothing

LEMMA ConfigureInv ==
  ASSUME Inv, Configure
  PROVE  Inv'
<1>1. state = "idle" /\ UNCHANGED <<service, carries, lost, asked>>
  BY DEF Configure
<1>2. CASE Refused(asked) /\ UNCHANGED <<phase, cleared>>
  <2>1. /\ {} \in Lists /\ asked \in SUBSET Clients /\ cleared \in BOOLEAN
        /\ phase \in [Fetches -> Phases] /\ carries \in [Fetches -> Lists]
    BY DEF Lists, Inv, TypeOK
  <2> QED BY <1>1, <1>2, <2>1, EmitInv DEF Refused
<1>3. ASSUME NEW f \in Fetches, Fetch(f),
             state' = "listing", early' = Waiting, listed' = {}, taken' = None,
             cleared' = FALSE, UNCHANGED <<answer, views, sessionVars>>
      PROVE  Inv'
  <2>1. remote' = {} /\ phase' = [phase EXCEPT ![f] = "auth"]
    BY <1>3 DEF Fetch
  <2>2. /\ phase' \in [Fetches -> Phases] /\ phase'[f] = "auth"
        /\ \A g \in Fetches : phase'[g] = "back" => phase[g] = "back"
    BY <2>1 DEF Inv, TypeOK, Phases
  <2>3. Waiting' = Waiting /\ ever' = ever /\ always' = always /\ UNCHANGED <<loose, stopped>>
    BY <1>1, <1>3 DEF Waiting, views, sessionVars
  <2>4. TypeOK'
    BY <1>1, <1>3, <2>1, <2>2, <2>3 DEF Inv, TypeOK, Lists, States
  <2>5. Between'
    BY <1>1, <2>1, <2>2, <2>3 DEF Inv, Between
  <2> QED BY <1>3, <2>2, <2>4, <2>5
          DEF Inv, ListIsKept, TakesWhatItListed, NobodyWaitsForNothing
<1> QED BY <1>2, <1>3 DEF Configure

(* The session of a configuration is not queueing any more: it takes the   *)
(* list it has heard, unless that was cleared (continuePeerConfig).        *)
LEMMA StatusChangedInv ==
  ASSUME Inv, StatusChanged
  PROVE  Inv'
<1>1. /\ state = "queued" /\ Configured(listed, remote) /\ loose' = TRUE
      /\ UNCHANGED <<service, remote, phase, carries, lost, listed, cleared, early, stopped,
                     asked, answer, ever, always>>
  BY DEF StatusChanged, fetchVars, clientVars, views
<1>2. listed \in Lists /\ remote \in Lists
  BY DEF Inv, TypeOK
<1>3. /\ state' \in {"idle", "stuck", "syncing"} /\ taken' \in {None, listed \cap remote}
      /\ state' = "syncing" => taken' \in Lists \ {{}}
  BY <1>1, <1>2, ConfiguredStep
<1>4. listed \cap remote \in Lists
  BY <1>2 DEF Lists
<1>5. Waiting' = Waiting
  BY <1>1 DEF Waiting
<1>6. TypeOK'
  BY <1>1, <1>3, <1>4, <1>5 DEF Inv, TypeOK, States
<1>7. Between' /\ ListIsKept' /\ NobodyWaitsForNothing'
  BY <1>1, <1>3, <1>5 DEF Inv, Between, ListIsKept, NobodyWaitsForNothing
<1>8. TakesWhatItListed'
  <2>1. ~cleared => listed \cap remote = listed
    BY <1>1 DEF Inv, ListIsKept
  <2> QED BY <1>1, <1>3, <2>1 DEF TakesWhatItListed
<1> QED BY <1>6, <1>7, <1>8 DEF Inv

LEMMA SessionStepInv ==
  ASSUME Inv, LateStatus \/ SessionDeleted \/ SyncEnds
  PROVE  Inv'
<1>1. UNCHANGED <<service, remote, phase, carries, lost, listed, taken, cleared, early,
                  asked, answer, ever, always>>
  BY DEF LateStatus, SessionDeleted, SyncEnds, fetchVars, configVars, clientVars, views
<1>2. state' = state \/ state' = "idle"
  BY DEF LateStatus, SessionDeleted, SyncEnds, configVars
<1>3. loose' \in BOOLEAN /\ stopped' \in BOOLEAN
  BY DEF LateStatus, SessionDeleted, SyncEnds, sessionVars, Inv, TypeOK
<1>4. Waiting' = Waiting
  BY <1>1 DEF Waiting
<1>5. TypeOK'
  BY <1>1, <1>2, <1>3, <1>4 DEF Inv, TypeOK, States
<1> QED BY <1>1, <1>2, <1>4, <1>5
        DEF Inv, Between, ListIsKept, TakesWhatItListed, NobodyWaitsForNothing

LEMMA ServiceChangesInv ==
  ASSUME Inv, ServiceChanges
  PROVE  Inv'
<1>1. /\ service' \in Lists
      /\ ever' = [c \in Clients |-> IF c \in Waiting THEN ever[c] \cup service' ELSE {}]
      /\ always' = [c \in Clients |-> IF c \in Waiting THEN always[c] \cap service' ELSE {}]
      /\ UNCHANGED <<remote, phase, carries, lost, state, listed, taken, cleared, early,
                     loose, stopped, asked, answer>>
  BY DEF ServiceChanges, fetchVars, configVars, sessionVars, clientVars
<1>2. Waiting' = Waiting /\ Waiting \subseteq Clients
  BY <1>1 DEF Waiting, Inv, TypeOK
<1>3. ever' \in [Clients -> Lists] /\ always' \in [Clients -> Lists]
  BY <1>1 DEF Inv, TypeOK, Lists
<1>4. TypeOK'
  BY <1>1, <1>2, <1>3 DEF Inv, TypeOK
<1>5. Between'
  BY <1>1, <1>2 DEF Inv, Between
<1> QED BY <1>1, <1>2, <1>4, <1>5
        DEF Inv, ListIsKept, TakesWhatItListed, NobodyWaitsForNothing

LEMMA NextInv ==
  ASSUME Inv, [Next]_vars
  PROVE  Inv'
<1>1. ASSUME NEW f \in Fetches, FetchStep(f) PROVE Inv'
  BY <1>1, FetchStepInv
<1>2. ASSUME NEW c \in Clients, ListCalendars(c) \/ ListUnknown(c) PROVE Inv'
  BY <1>2, ListCalendarsInv, ListUnknownInv
<1>3. CASE Configure
  BY <1>3, ConfigureInv
<1>4. CASE StatusChanged
  BY <1>4, StatusChangedInv
<1>5. CASE LateStatus \/ SessionDeleted \/ SyncEnds
  BY <1>5, SessionStepInv
<1>6. CASE ServiceChanges
  BY <1>6, ServiceChangesInv
<1>7. CASE UNCHANGED vars
  <2>1. /\ UNCHANGED <<service, remote, configVars, sessionVars, clientVars, views>>
        /\ UNCHANGED <<phase, carries, lost, state, ever, always>>
    BY <1>7 DEF vars, fetchVars, configVars, views
  <2>2. TypeOK' /\ ListIsKept' /\ TakesWhatItListed' /\ Waiting' = Waiting
    BY <2>1, WaitersStay DEF Inv, TypeOK
  <2>3. Between' /\ NobodyWaitsForNothing'
    BY <2>1, <2>2 DEF Inv, Between, NobodyWaitsForNothing
  <2> QED BY <2>2, <2>3 DEF Inv
<1> QED BY <1>1, <1>2, <1>3, <1>4, <1>5, <1>6, <1>7 DEF Next

(* The inductive invariant. *)
THEOREM Invariance == Spec => []Inv
<1>1. Inv /\ [Next]_vars => Inv'
  BY NextInv
<1> QED BY <1>1, InitInv, PTL DEF Spec

(* The state keeps its type (SyncAccount, SyncConfigure, SyncDBus).        *)
THEOREM FetchIsTyped == Spec => []TypeOK
<1>1. Inv => TypeOK
  BY DEF Inv
<1> QED BY <1>1, Invariance, PTL

(* A sync takes what its configuration has listed, if no client asks while *)
(* it is queueing (configurePeer, SyncAccount::sources).                   *)
THEOREM SyncsTakeTheirList == Spec => []TakesWhatItListed
<1>1. Inv => TakesWhatItListed
  BY DEF Inv
<1> QED BY <1>1, Invariance, PTL

(* For everyone who waits there is a fetch under way, but for processes    *)
(* that did not start (fetchRemoteSources and what it starts).             *)
THEOREM WaitersAreTold == Spec => []NobodyWaitsForNothing
<1>1. Inv => NobodyWaitsForNothing
  BY DEF Inv
<1> QED BY <1>1, Invariance, PTL
-----------------------------------------------------------------------------
\* The lists that may be an answer for c.
Answering(c, list) == list \subseteq ever[c] /\ (list = {} \/ always[c] \subseteq list)

LEMMA EmitAnswers ==
  ASSUME NEW list, NEW who, Emit(list, who), NEW c \in Waiting, c \in Clients,
         Answering(c, list), answer'[c] # None
  PROVE  Answering(c, answer'[c])
<1>1. answer' = [d \in Clients |-> IF d \in who /\ answer[d] = None THEN list ELSE answer[d]]
  BY DEF Emit
<1> QED BY <1>1 DEF Waiting

LEMMA EndsAnswers ==
  ASSUME NEW f, NEW list, Ends(f, list), NEW c \in Waiting, c \in Clients,
         Answering(c, list), answer'[c] # None
  PROVE  Answering(c, answer'[c])
<1>1. CASE Emit(list, asked)
  BY <1>1, EmitAnswers
<1>2. CASE EmitAndConfigure(list)
  <2>1. answer' = [d \in Clients |-> IF d \notin Waiting THEN answer[d]
                                     ELSE IF d \in early THEN list ELSE {}]
    BY <1>2 DEF EmitAndConfigure
  <2> QED BY <2>1 DEF Answering
<1> QED BY <1>1, <1>2 DEF Ends

(* Every list that is emitted is empty, or the one there is, or this with  *)
(* an answer that was on its way; all of them lie between what a waiting   *)
(* client has seen listed all the time and what it has seen listed at all. *)
LEMMA StepAnswers ==
  ASSUME Inv, Next, NEW c \in Clients, c \in Waiting, answer'[c] # None
  PROVE  Answering(c, answer'[c])
<1>1. Answering(c, {}) /\ Answering(c, remote) /\ answer[c] = None
  BY DEF Inv, Between, Answering, Waiting
<1>2. ASSUME NEW f \in Fetches, FetchStep(f) PROVE Answering(c, answer'[c])
  <2>1. CASE AuthFails(f) \/ ReplyFails(f)
    BY <1>1, <2>1, EndsAnswers DEF AuthFails, ReplyFails
  <2>2. CASE ReplyFinished(f)
    <3>1. Answering(c, remote \cup carries[f])
      BY <2>2 DEF ReplyFinished, Inv, Between, Answering
    <3> QED BY <2>2, <3>1, EndsAnswers DEF ReplyFinished
  <2>3. CASE AuthSucceeds(f) \/ ServiceAnswers(f) \/ FetchIsLost(f)
    BY <1>1, <2>3 DEF AuthSucceeds, ServiceAnswers, FetchIsLost, clientVars
  <2> QED BY <1>2, <2>1, <2>2, <2>3 DEF FetchStep, AuthEnds, ReplyEnds
<1>3. ASSUME NEW d \in Clients, ListCalendars(d) PROVE Answering(c, answer'[c])
  BY <1>1, <1>3, EmitAnswers DEF ListCalendars, Refused
<1>4. ASSUME NEW d \in Clients, ListUnknown(d) PROVE Answering(c, answer'[c])
  <2>1. d # c
    BY <1>4 DEF ListUnknown, Waiting
  <2>2. answer' = [answer EXCEPT ![d] = {}]
    BY <1>4 DEF ListUnknown
  <2> QED BY <1>1, <2>1, <2>2 DEF Inv, TypeOK
<1>5. CASE Configure
  BY <1>1, <1>5, EmitAnswers DEF Configure, Refused
<1>6. CASE StatusChanged \/ LateStatus \/ SessionDeleted \/ SyncEnds \/ ServiceChanges
  BY <1>1, <1>6
     DEF StatusChanged, LateStatus, SessionDeleted, SyncEnds, ServiceChanges, clientVars
<1> QED BY <1>2, <1>3, <1>4, <1>5, <1>6 DEF Next

(* A client is never given a mixture of lists, nor one from before it asked*)
(* (listCalendarsByAccount, fetchRemoteSources, onReplyFinished).          *)
THEOREM ClientsGetLists == Spec => AnswersAreLists
<1> DEFINE A == \A c \in Clients :
                  c \in Waiting /\ answer'[c] # None =>
                    /\ answer'[c] \subseteq ever[c]
                    /\ answer'[c] = {} \/ always[c] \subseteq answer'[c]
<1>1. Inv /\ [Next]_vars => [A]_vars
  BY StepAnswers DEF Answering
<1> QED BY <1>1, Invariance, PTL DEF Spec, AnswersAreLists

-----------------------------------------------------------------------------
(* The end of a fetch leaves nobody waiting. *)

LEMMA EndsForAll ==
  ASSUME Inv, NEW f, NEW list \in Lists, Ends(f, list), asked' = asked
  PROVE  Waiting' = {}
<1>1. CASE Emit(list, asked)
  <2>1. asked \in SUBSET Clients
    BY DEF Inv, TypeOK
  <2> QED BY <1>1, <2>1, EmitStep
<1>2. CASE EmitAndConfigure(list)
  <2>1. answer' = [c \in Clients |-> IF c \notin Waiting THEN answer[c]
                                     ELSE IF c \in early THEN list ELSE {}]
    BY <1>2 DEF EmitAndConfigure
  <2> QED BY <2>1, FetchConstants DEF Waiting, Lists, Inv, TypeOK
<1> QED BY <1>1, <1>2 DEF Ends

\* What becomes of a fetch while somebody goes on waiting.
FetchGoesOn(f) == phase'[f] # phase[f] => GoesOn(f) \/ FetchIsLost(f)

LEMMA StartedGoesOn ==
  ASSUME Inv, NEW f \in Fetches, NEW g \in Fetches, Fetch(f)
  PROVE  FetchGoesOn(g)
BY DEF Fetch, FetchGoesOn, GoesOn, Inv, TypeOK

LEMMA StepGoesOn ==
  ASSUME Inv, Next, Waiting \cap Waiting' # {}, NEW g \in Fetches
  PROVE  FetchGoesOn(g)
<1>1. Waiting' # {}
  OBVIOUS
<1>2. ASSUME NEW f \in Fetches, FetchStep(f) PROVE FetchGoesOn(g)
  <2>1. remote \in Lists /\ remote \cup carries[f] \in Lists
    BY DEF Inv, TypeOK, Lists
  <2>2. ~(AuthFails(f) \/ ReplyFails(f) \/ ReplyFinished(f))
    BY <1>1, <2>1, EndsForAll DEF AuthFails, ReplyFails, ReplyFinished
  <2>3. CASE AuthSucceeds(f) \/ ServiceAnswers(f)
    BY <2>3 DEF AuthSucceeds, ServiceAnswers, FetchGoesOn, GoesOn, Inv, TypeOK
  <2>4. CASE FetchIsLost(f)
    <3>1. phase' = [phase EXCEPT ![f] = "none"]
      BY <2>4 DEF FetchIsLost
    <3>2. g # f => phase'[g] = phase[g]
      BY <3>1 DEF Inv, TypeOK
    <3> QED BY <2>4, <3>2 DEF FetchGoesOn
  <2> QED BY <1>2, <2>2, <2>3, <2>4 DEF FetchStep, AuthEnds, ReplyEnds
<1>3. ASSUME NEW c \in Clients, ListCalendars(c) PROVE FetchGoesOn(g)
  <2>1. CASE \E f \in Fetches : Fetch(f)
    BY <2>1, StartedGoesOn
  <2>2. CASE Refused(asked \cup {c})
    <3>1. asked \cup {c} \in SUBSET Clients /\ {} \in Lists /\ asked' = asked \cup {c}
      BY <1>3 DEF Inv, TypeOK, Lists, ListCalendars
    <3> QED BY <1>1, <2>2, <3>1, EmitStep DEF Refused
  <2> QED BY <1>3, <2>1, <2>2 DEF ListCalendars
<1>4. CASE Configure
  <2>1. CASE \E f \in Fetches : Fetch(f)
    BY <2>1, StartedGoesOn
  <2>2. CASE Refused(asked)
    <3>1. asked \in SUBSET Clients /\ {} \in Lists /\ asked' = asked
      BY <1>4 DEF Inv, TypeOK, Lists, Configure
    <3> QED BY <1>1, <2>2, <3>1, EmitStep DEF Refused
  <2> QED BY <1>4, <2>1, <2>2 DEF Configure
<1>5. ASSUME NEW c \in Clients, ListUnknown(c) PROVE FetchGoesOn(g)
  BY <1>5 DEF ListUnknown, fetchVars, FetchGoesOn
<1>6. CASE StatusChanged \/ LateStatus \/ SessionDeleted \/ SyncEnds \/ ServiceChanges
  BY <1>6 DEF StatusChanged, LateStatus, SessionDeleted, SyncEnds, ServiceChanges, fetchVars,
     FetchGoesOn
<1> QED BY <1>2, <1>3, <1>4, <1>5, <1>6 DEF Next

(* The end of a fetch answers everybody who waits, and until then it goes  *)
(* on, from signond over the service to its answer (fetchRemoteSources,    *)
(* onAuthFailed, onReplyFinished, listCalendarsByAccount).                 *)
THEOREM FetchesGoOn == Spec => FetchesAnswerAll
<1> DEFINE A == Waiting \cap Waiting' # {} =>
                  \A f \in Fetches : phase'[f] # phase[f] => GoesOn(f) \/ FetchIsLost(f)
<1>1. Inv /\ [Next]_vars => [A]_vars
  BY StepGoesOn DEF FetchGoesOn
<1> QED BY <1>1, Invariance, PTL DEF Spec, FetchesAnswerAll
=============================================================================
