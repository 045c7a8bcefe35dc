------------------------------ MODULE Scheduler ------------------------------
(***************************************************************************)
(* What the daemon promises to those who ask it for a sync: one account    *)
(* after the other, in the order in which they asked; nobody's turn but of *)
(* those who asked; nothing given up but what is cancelled; and a published*)
(* state that is true whenever it is changed.  SyncDaemon is shown to      *)
(* implement it.  There are no jobs here, no calendars, no collaborators   *)
(* and no control states of accounts.                                      *)
(***************************************************************************)
EXTENDS Integers, Sequences

CONSTANTS Accounts, NoAccount

VARIABLES
  alive,     \* the process runs
  known,     \* the accounts of the daemon
  enabled,   \* the accounts that may ask
  running,   \* the account whose turn it is, or NoAccount
  queued,    \* the accounts in line, the next one first
  parked,    \* the accounts that wait for the network
  due,       \* the timer will give the next one its turn
  reported,  \* the accounts whose end is still to be heard of
  shown      \* the state a client reads

Init ==
  /\ alive = TRUE /\ known \in SUBSET Accounts /\ enabled \in SUBSET Accounts
  /\ running = NoAccount /\ queued = <<>> /\ parked = <<>>
  /\ due = FALSE /\ reported = {} /\ shown = "idle"

Members(q) == {q[i] : i \in 1 .. Len(q)}

\* r is q with more members behind it, all of them in S.  Those who get in line
\* in one step come in any order: where they were in another line before, it is
\* NoneOvertaken that keeps it.
Joined(q, r, S) ==
  /\ Len(q) <= Len(r)
  /\ \A i \in 1 .. Len(q) : r[i] = q[i]
  /\ \A i \in Len(q) + 1 .. Len(r) : r[i] \in S

\* Account a has a place in q that is before every place of account b.
Ahead(q, a, b) ==
  \E i \in 1 .. Len(q) : q[i] = a /\ \A k \in 1 .. i : q[k] # b

\* Whoever waits in q waits in r, and everyone who was ahead of another still is.
NoneOvertaken(q, r) ==
  /\ Members(q) \subseteq Members(r)
  /\ \A a, b \in Accounts : Ahead(q, a, b) => Ahead(r, a, b)

\* r is q without some of the places of account a; the others keep their order.
Thinned(q, r, a) ==
  \E place \in [1 .. Len(r) -> 1 .. Len(q)] :
    /\ \A i, k \in 1 .. Len(r) : i < k => place[i] < place[k]
    /\ \A i \in 1 .. Len(r) : r[i] = q[place[i]]
    /\ \A k \in 1 .. Len(q) : q[k] # a => \E i \in 1 .. Len(r) : place[i] = k

Truth(account, q) ==
  CASE account # NoAccount -> "syncing"
    [] account = NoAccount /\ q # <<>> -> "pending"
    [] OTHER -> "idle"

\* The published state changes to the truth, or not at all.
ShownTruly == shown' = shown \/ shown' = Truth(running', queued')

\* Who may get in line: those who ask, and one whose sync is to be repeated.
Entitled == enabled \cup reported

\* Nobody has the turn, or it may be taken from whoever has it.
TurnIsFree == running = NoAccount \/ due \/ reported # {}

-----------------------------------------------------------------------------
\* Accounts get in line, and some report that they have ended.
Asks ==
  /\ Joined(queued, queued', enabled)
  /\ due => due'
  /\ due' => due \/ running = NoAccount
  /\ reported \subseteq reported'
  /\ ShownTruly
  /\ UNCHANGED <<known, enabled, running, parked>>

\* The first in line gets the turn; it may report its end at once.
Starts ==
  /\ TurnIsFree
  /\ IF queued = <<>>
     THEN running' \in Entitled /\ Joined(<<>>, queued', Entitled)
     ELSE running' = queued[1] /\ Joined(Tail(queued), queued', Entitled)
  /\ Thinned(parked, parked', running')
  /\ due' => due
  /\ reported' \subseteq reported \cup {running'}
  /\ shown' = "syncing"
  /\ UNCHANGED <<known, enabled>>

\* The turn is over.  Those in line stay and hear of the end that is reported,
\* or the network is missing and they are parked, in their order.
Ends ==
  /\ TurnIsFree
  /\ running' = NoAccount /\ due' = FALSE
  /\ reported' \subseteq reported
  /\ \/ reported' # {} /\ UNCHANGED <<queued, parked>>
     \/ /\ queued' = <<>>
        /\ Joined(parked, parked', Members(queued) \cup Entitled)
        /\ NoneOvertaken(parked \o queued, parked')
  /\ shown' = Truth(NoAccount, queued')
  /\ UNCHANGED <<known, enabled>>

\* The network is gone: the account whose turn it is is parked before those in line.
Parks ==
  LET waiting == IF running = NoAccount THEN queued ELSE <<running>> \o queued
  IN  /\ running' = NoAccount /\ queued' = <<>>
      /\ Joined(parked, parked', Members(waiting))
      /\ NoneOvertaken(parked \o waiting, parked')
      /\ due' = FALSE /\ reported' = reported /\ shown' = "idle"
      /\ UNCHANGED <<known, enabled>>

\* The network is back: those who were parked get in line, in their order.
Resumes ==
  /\ Joined(queued, queued', Members(parked))
  /\ NoneOvertaken(queued \o parked, queued')
  /\ parked' = <<>>
  /\ due => due'
  /\ due' => due \/ running = NoAccount
  /\ UNCHANGED <<known, enabled, running, reported, shown>>

\* An account is added or enabled.
Admits(a) ==
  /\ known' \in {known, known \cup {a}}
  /\ enabled' \in {enabled, enabled \cup {a}, enabled \ {a}}
  /\ UNCHANGED <<running, queued, parked, due, reported, shown>>

\* An account is removed or disabled, and leaves the line.  The turn it takes with
\* it may be another one's.
Cancels(a) ==
  /\ a \in known \/ a \in enabled
  /\ known' \in {known, known \ {a}} /\ enabled' = enabled \ {a}
  /\ Thinned(queued, queued', a)
  /\ running' \in {running, NoAccount}
  /\ due' => due
  /\ ShownTruly
  /\ UNCHANGED <<parked, reported>>

\* The process has stopped, and is started again.
Restarts ==
  /\ ~alive /\ alive'
  /\ running' = NoAccount /\ queued' = <<>> /\ parked' = <<>>
  /\ due' = FALSE /\ reported' = {} /\ shown' = "idle"
  /\ UNCHANGED <<known, enabled>>

Next ==
  \/ /\ alive
     /\ \/ Asks \/ Starts \/ Ends \/ Parks \/ Resumes
        \/ \E a \in Accounts : Admits(a) \/ Cancels(a)
  \/ Restarts

Spec ==
  Init /\ [][Next]_<<alive, known, enabled, running, queued, parked, due, reported, shown>>
=============================================================================
