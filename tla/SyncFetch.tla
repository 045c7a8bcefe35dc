----------------------------- MODULE SyncFetch -----------------------------
(***************************************************************************)
(* The list of calendars of one account, which its configuration and the   *)
(* clients of SyncDBus::listCalendarsByAccount() ask for at the same time: *)
(* SyncAccount::fetchRemoteSources() and what it starts                    *)
(* (src/src/sync-account.cpp), SyncConfigure up to continuePeerConfig()    *)
(* (src/src/sync-configure.cpp) and src/src/sync-dbus.cpp.                 *)
(*                                                                         *)
(* Every fetch clears and fills the one list m_remoteSources, and every    *)
(* answer is a signal of the account, remoteSourcesAvailable(), that tells *)
(* nobody whose answer it is.  The configuration takes the first one it    *)
(* hears.  The lambda of a client is never disconnected, but D-Bus takes   *)
(* only the first reply to a message.                                      *)
(*                                                                         *)
(* A sync takes the calendars of "@default" that are in m_remoteSources at *)
(* that time (SyncAccount::sources).  A configuration that is done is taken*)
(* to have put the list it has heard into "@default"; SyncConfigure says   *)
(* when this is so.  Left out: which calendars are wanted, and the end of  *)
(* the process, with which D-Bus answers the clients.                      *)
(***************************************************************************)
CONSTANTS
  Clients,      \* the messages of clients
  Calendars,    \* what the service may list
  Fetches,      \* the fetches that may be under way at a time: a bound
  None          \* no answer yet, no list

ASSUME FetchConstants == None \notin SUBSET Calendars

VARIABLES
  service,   \* the calendars the service lists now
  remote,    \* m_remoteSources, of which only the remote ids
  phase,     \* of a fetch: see Phases
  carries,   \* the list that a fetch brings back
  lost,      \* a process did not start, so that its end is never reported
  state,     \* of the account: see States
  listed,    \* m_remoteDatabasesByService
  taken,     \* what continueSync() took for the last configuration
  cleared,   \* the list was cleared while this configuration was queued
  early,     \* clients that wait since before the configuration was connected
  loose,     \* the queued session is destroyed, but still connected
  stopped,   \* and was used after that
  asked,     \* clients that are connected to the account
  answer,    \* the list a client has got
  ever,      \* for a client that waits: the calendars that were listed since
  always     \* and those that were listed all the time

fetchVars == <<phase, carries, lost>>
configVars == <<state, listed, taken, cleared, early>>
sessionVars == <<loose, stopped>>
clientVars == <<asked, answer>>
views == <<ever, always>>
vars == <<service, remote, fetchVars, configVars, sessionVars, clientVars, views>>

Lists == SUBSET Calendars

\* No fetch; a SyncAuth waits for signond; the service is asked; it has answered.
Phases == {"none", "auth", "sent", "back"}

\* No configuration; one that waits for a list, or for its session; one that
\* does not go on (LocalQueued in SyncAccount), or whose sync gets no session; and
\* a sync.
States == {"idle", "listing", "queued", "stuck", "syncing"}

Waiting == {c \in asked : answer[c] = None}

NoLists == [c \in Clients |-> {}]

Init ==
  /\ service \in Lists /\ remote = {}
  /\ phase = [f \in Fetches |-> "none"] /\ carries = [f \in Fetches |-> {}]
  /\ lost = FALSE
  /\ state = "idle" /\ listed = {} /\ taken = None /\ cleared = FALSE /\ early = {}
  /\ loose = FALSE /\ stopped = FALSE
  /\ asked = {} /\ answer = [c \in Clients |-> None]
  /\ ever = NoLists /\ always = NoLists

-----------------------------------------------------------------------------
(* The configuration *)

\* Mutant of Configured: a session that has nothing to sync is started.
ConfiguredAnyway(heard, list) ==
  \/ taken' = heard \cap list /\ state' = "syncing"
  \/ state' \in {"idle", "stuck"} /\ taken' = None

\* configurePeer() with a session that is not queueing, or not any more, when
\* m_remoteSources is list: continueSync() takes what is in both lists.  Or the
\* configuration fails, finds the account disabled, or does not go on.
Configured(heard, list) ==
  \/ /\ taken' = heard \cap list
     /\ state' = IF heard \cap list = {} THEN "idle" ELSE "syncing"
  \/ state' \in {"idle", "stuck"} /\ taken' = None

\* onRemoteSourcesAvailable(): an empty list is an error, whatever the code.
OnRemoteSourcesAvailable(list) ==
  /\ listed' = list
  /\ IF list = {} THEN state' = "idle" /\ taken' = None
     ELSE Configured(list, list) \/ (state' = "queued" /\ taken' = None)

-----------------------------------------------------------------------------
(* Fetches *)

\* remoteSourcesAvailable(list) is emitted: all who are connected hear it, and it
\* is the answer for a client that has none.
Emit(list, who) ==
  /\ remote' = list
  /\ answer' = [c \in Clients |-> IF c \in who /\ answer[c] = None THEN list
                                  ELSE answer[c]]
  /\ ever' = NoLists /\ always' = NoLists /\ early' = {}
  /\ IF state = "listing" THEN OnRemoteSourcesAvailable(list)
     ELSE UNCHANGED <<state, listed, taken>>
  /\ UNCHANGED sessionVars

\* Mutant of Fetch: the list is not cleared.
FetchMore(f) ==
  /\ phase[f] = "none" /\ phase' = [phase EXCEPT ![f] = "auth"]
  /\ remote' = remote

\* fetchRemoteSources(): the list is cleared, and a SyncAuth asks signond.
Fetch(f) ==
  /\ phase[f] = "none" /\ phase' = [phase EXCEPT ![f] = "auth"]
  /\ remote' = {}

\* Mutant of Refused: nothing is emitted.
RefusedSilently(who) ==
  remote' = {} /\ UNCHANGED <<answer, views, state, listed, taken, early, sessionVars>>

\* fetchRemoteSources() when authenticate() fails at once.
Refused(who) == Emit({}, who)

\* remoteSourcesAvailable(list), when the configuration that hears it comes to
\* its end at once, and the daemon starts the next sync of the account before
\* the signal is back: that one clears the list, and the clients that were
\* connected after the configuration are given what there is then.
EmitAndConfigure(list) ==
  /\ state = "listing" /\ list # {}
  /\ remote' = {}
  /\ answer' = [c \in Clients |-> IF c \notin Waiting THEN answer[c]
                                  ELSE IF c \in early THEN list ELSE {}]
  /\ ever' = NoLists /\ always' = NoLists /\ early' = {}
  /\ state' \in {"listing", "idle"}    \* idle when it is refused
  /\ listed' = {} /\ taken' = None /\ cleared' = FALSE
  /\ UNCHANGED sessionVars

\* The fetch f is over with a list.
Ends(f, list) ==
  \/ /\ Emit(list, asked)
     /\ phase' = [phase EXCEPT ![f] = "none"]
     /\ cleared' = cleared
  \/ /\ EmitAndConfigure(list)
     /\ phase' = [phase EXCEPT ![f] = IF state' = "listing" THEN "auth" ELSE "none"]

\* onAuthSucess()
AuthSucceeds(f) ==
  /\ phase[f] = "auth" /\ phase' = [phase EXCEPT ![f] = "sent"]
  /\ UNCHANGED <<service, remote, carries, lost, configVars, sessionVars,
                 clientVars, views>>

\* Mutant of AuthFails: the list is empty after an error.
AuthFailsWithNone(f) ==
  /\ phase[f] = "auth" /\ Ends(f, {})
  /\ UNCHANGED <<service, carries, lost, asked>>

\* onAuthFailed(): the error goes out with the list as it is.
AuthFails(f) ==
  /\ phase[f] = "auth" /\ Ends(f, remote)
  /\ UNCHANGED <<service, carries, lost, asked>>

\* The service lists its calendars.
ServiceAnswers(f) ==
  /\ phase[f] = "sent" /\ phase' = [phase EXCEPT ![f] = "back"]
  /\ carries' = [carries EXCEPT ![f] = service]
  /\ UNCHANGED <<service, remote, lost, configVars, sessionVars, clientVars, views>>

\* onReplyFinished(), fetchRemoteCalendarsProcessDone(): the calendars are added
\* to the list as it is.
ReplyFinished(f) ==
  /\ phase[f] = "back" /\ Ends(f, remote \cup carries[f])
  /\ carries' = [carries EXCEPT ![f] = {}]
  /\ UNCHANGED <<service, lost, asked>>

\* Mutant of ReplyFails: the error is not reported.
ReplyFailsSilently(f) ==
  /\ phase[f] = "sent" /\ phase' = [phase EXCEPT ![f] = "none"]
  /\ UNCHANGED <<service, remote, carries, lost, configVars, sessionVars,
                 clientVars, views>>

\* The same without calendars: an error, a crash, or an answer that is no list.
ReplyFails(f) ==
  /\ phase[f] = "sent" /\ Ends(f, remote)
  /\ UNCHANGED <<service, carries, lost, asked>>

\* fetchRemoteCalendarsFromCommand() when the program does not start.
FetchIsLost(f) ==
  /\ phase[f] = "sent" /\ phase' = [phase EXCEPT ![f] = "none"]
  /\ lost' = TRUE
  /\ UNCHANGED <<service, remote, carries, configVars, sessionVars, clientVars, views>>

-----------------------------------------------------------------------------
(* Who asks *)

\* listCalendarsByAccount()
ListCalendars(c) ==
  /\ c \notin asked /\ answer[c] = None
  /\ asked' = asked \cup {c}
  /\ \/ /\ \E f \in Fetches : Fetch(f)
        /\ LET onTheirWay == {carries[f] : f \in {g \in Fetches : phase[g] = "back"}}
               lists == {service} \cup onTheirWay
           IN  /\ ever' = [ever EXCEPT ![c] = UNION lists]
               /\ always' = [always EXCEPT ![c] = {k \in service : \A l \in lists : k \in l}]
        /\ UNCHANGED <<answer, state, listed, taken, early, sessionVars>>
     \/ /\ Refused(asked \cup {c})
        /\ UNCHANGED phase
  /\ cleared' = (cleared \/ state = "queued")
  /\ UNCHANGED <<service, carries, lost>>

\* The same for an account that is not known: an empty answer.
ListUnknown(c) ==
  /\ c \notin asked /\ answer[c] = None
  /\ answer' = [answer EXCEPT ![c] = {}]
  /\ UNCHANGED <<service, remote, fetchVars, configVars, sessionVars, asked, views>>

\* configure()
Configure ==
  /\ state = "idle"
  /\ \/ /\ \E f \in Fetches : Fetch(f)
        /\ state' = "listing"
        /\ early' = Waiting
        /\ listed' = {} /\ taken' = None /\ cleared' = FALSE
        /\ UNCHANGED <<answer, views, sessionVars>>
     \/ /\ Refused(asked)
        /\ UNCHANGED <<phase, cleared>>
  /\ UNCHANGED <<service, carries, lost, asked>>

\* A status of the session that was queueing; its errors end the configuration.
StatusChanged ==
  /\ state = "queued"
  /\ Configured(listed, remote)
  /\ loose' = TRUE
  /\ UNCHANGED <<service, remote, fetchVars, listed, cleared, early, stopped,
                 clientVars, views>>

\* A further status, before the session is deleted: its interface is null.
LateStatus ==
  /\ loose /\ stopped' = TRUE
  /\ UNCHANGED <<service, remote, fetchVars, configVars, loose, clientVars, views>>

SessionDeleted ==
  /\ loose /\ loose' = FALSE
  /\ UNCHANGED <<service, remote, fetchVars, configVars, stopped, clientVars, views>>

SyncEnds ==
  /\ state = "syncing" /\ state' = "idle"
  /\ UNCHANGED <<service, remote, fetchVars, listed, taken, cleared, early,
                 sessionVars, clientVars, views>>

\* The user adds or removes a calendar at the service.
ServiceChanges ==
  /\ service' \in Lists \ {service}
  /\ ever' = [c \in Clients |-> IF c \in Waiting THEN ever[c] \cup service' ELSE {}]
  /\ always' = [c \in Clients |-> IF c \in Waiting THEN always[c] \cap service' ELSE {}]
  /\ UNCHANGED <<remote, fetchVars, configVars, sessionVars, clientVars>>

\* signond, the service and the process answer.
AuthEnds(f) == AuthSucceeds(f) \/ AuthFails(f)
ReplyEnds(f) == ReplyFinished(f) \/ ReplyFails(f)

FetchStep(f) == AuthEnds(f) \/ ServiceAnswers(f) \/ ReplyEnds(f) \/ FetchIsLost(f)

Next ==
  /\ ~stopped
  /\ \/ \E f \in Fetches : FetchStep(f)
     \/ \E c \in Clients : ListCalendars(c) \/ ListUnknown(c)
     \/ Configure \/ StatusChanged \/ LateStatus \/ SessionDeleted \/ SyncEnds
     \/ ServiceChanges

Spec == Init /\ [][Next]_vars

\* Every process that is asked answers; clients and the daemon need not ask.
Fairness ==
  \A f \in Fetches :
    WF_vars(~stopped /\ (AuthEnds(f) \/ ServiceAnswers(f) \/ ReplyEnds(f)))

FairSpec == Spec /\ Fairness

-----------------------------------------------------------------------------
TypeOK ==
  /\ service \in Lists /\ remote \in Lists
  /\ phase \in [Fetches -> Phases] /\ carries \in [Fetches -> Lists]
  /\ lost \in BOOLEAN
  /\ state \in States /\ listed \in Lists /\ taken \in Lists \cup {None}
  /\ state = "syncing" => taken \in Lists \ {{}}
  /\ cleared \in BOOLEAN /\ early \in SUBSET Waiting
  /\ loose \in BOOLEAN /\ stopped \in BOOLEAN
  /\ asked \in SUBSET Clients /\ answer \in [Clients -> Lists \cup {None}]
  /\ ever \in [Clients -> Lists] /\ always \in [Clients -> Lists]

(* A client that asks is given no mixture of lists: its answer has nothing *)
(* the service did not list since then (or in an answer that was on its way*)
(* already), and has all that was listed all the time, or is empty, however*)
(* many fetches clear and fill the one list (fetchRemoteSources,           *)
(* onReplyFinished, listCalendarsByAccount).                               *)
AnswersAreLists ==
  [][ \A c \in Clients :
        c \in Waiting /\ answer'[c] # None =>
          /\ answer'[c] \subseteq ever[c]
          /\ answer'[c] = {} \/ always[c] \subseteq answer'[c] ]_vars

(* A sync takes what its configuration has listed, and no less, whatever   *)
(* fetches of clients come back meanwhile; unless a client asks anew while *)
(* the session of the configuration is queueing, which clears the list     *)
(* (SyncConfigure::configurePeer, SyncAccount::sources).                   *)
TakesWhatItListed == taken \notin {None, listed} => cleared

(* Whoever waits for a list, a client or the configuration, will be told of*)
(* one: a fetch is under way, unless the end of one is never reported      *)
(* (fetchRemoteSources, onAuthFailed, onReplyFinished).                    *)
NobodyWaitsForNothing ==
  \/ lost
  \/ Waiting = {} /\ state # "listing"
  \/ \E f \in Fetches : phase[f] # "none"

GoesOn(f) ==
  <<phase[f], phase'[f]>> \in {<<"none", "auth">>, <<"auth", "sent">>, <<"sent", "back">>}

(* As long as somebody waits, every fetch goes on and none starts over;    *)
(* the end of any fetch, whoever asked for it and however it ends, answers *)
(* everybody who waits at that time, unless it is one that is never        *)
(* reported (fetchRemoteSources, onAuthFailed, onReplyFinished, the        *)
(* lambda of listCalendarsByAccount).                                      *)
FetchesAnswerAll ==
  [][ Waiting \cap Waiting' # {} =>
        \A f \in Fetches : phase'[f] # phase[f] => GoesOn(f) \/ FetchIsLost(f) ]_vars

(* A client gets an answer, unless the end of a process is never reported  *)
(* or the daemon has stopped (listCalendarsByAccount).                     *)
AnswersArrive ==
  \A c \in Clients : c \in asked ~> answer[c] # None \/ lost \/ stopped
=============================================================================
