------------------------- MODULE SyncDaemonRefinement -------------------------
(***************************************************************************)
(* SyncDaemon implements Scheduler, for every finite set of accounts and   *)
(* sources, every number of results and of events: each step of the daemon *)
(* is a step that Scheduler allows, or one that it does not see.           *)
(*                                                                         *)
(* The mapping needs Inv of SyncDaemonProofs: that a job is current only   *)
(* while the daemon is syncing, that an error is followed by the end of the*)
(* same sync, and the types.  The order in the queues comes from what      *)
(* SyncQueueProofs says of them by AddsBehind, LeavesOut and KeepsLine.    *)
(***************************************************************************)
EXTENDS SyncDaemonProofs

-----------------------------------------------------------------------------
(* Lines of accounts. *)

LEMMA LineOf ==
  ASSUME NEW q \in Seq(Jobs)
  PROVE  /\ Line(q) \in Seq(Accounts) /\ Len(Line(q)) = Len(q)
         /\ \A i \in 1 .. Len(q) : Line(q)[i] = q[i].acc
         /\ Line(q) = <<>> <=> q = <<>>
<1>1. Len(q) \in Nat /\ \A i \in 1 .. Len(q) : q[i].acc \in Accounts
  <2>1. \A i \in 1 .. Len(q) : q[i] \in Jobs
    OBVIOUS
  <2> QED BY <2>1 DEF Jobs
<1>2. Line(q) \in Seq(Accounts) /\ Len(Line(q)) = Len(q)
  BY <1>1 DEF Line
<1> QED BY <1>1, <1>2 DEF Line

LEMMA LineJoined ==
  ASSUME NEW q \in Seq(Jobs), NEW r \in Seq(Jobs), NEW S
  PROVE  Promise!Joined(Line(q), Line(r), S) <=> AddsBehind(q, r, S)
<1>1. Len(q) \in Nat /\ Len(r) \in Nat
  OBVIOUS
<1>2. /\ Len(Line(q)) = Len(q) /\ Len(Line(r)) = Len(r)
      /\ \A i \in 1 .. Len(q) : Line(q)[i] = q[i].acc
      /\ \A i \in 1 .. Len(r) : Line(r)[i] = r[i].acc
  BY LineOf
<1> QED BY <1>1, <1>2 DEF Promise!Joined, AddsBehind

LEMMA LineThinned ==
  ASSUME NEW q \in Seq(Jobs), NEW r \in Seq(Jobs), NEW a, LeavesOut(q, r, a)
  PROVE  Promise!Thinned(Line(q), Line(r), a)
<1>1. /\ Len(Line(q)) = Len(q) /\ Len(Line(r)) = Len(r)
      /\ \A i \in 1 .. Len(q) : Line(q)[i] = q[i].acc
      /\ \A i \in 1 .. Len(r) : Line(r)[i] = r[i].acc
  BY LineOf
<1>2. PICK place \in [1 .. Len(r) -> 1 .. Len(q)] :
        /\ \A i, k \in 1 .. Len(r) : i < k => place[i] < place[k]
        /\ \A i \in 1 .. Len(r) : r[i] = q[place[i]]
        /\ \A k \in 1 .. Len(q) : q[k].acc # a => \E i \in 1 .. Len(r) : place[i] = k
  BY DEF LeavesOut
<1> QED BY <1>1, <1>2 DEF Promise!Thinned

LEMMA LineMembers ==
  ASSUME NEW q \in Seq(Jobs)
  PROVE  /\ Promise!Members(Line(q)) = {q[i].acc : i \in 1 .. Len(q)}
         /\ \A a : a \in Promise!Members(Line(q)) <=> Waits(q, a)
<1>1. /\ Len(Line(q)) = Len(q)
      /\ \A i \in 1 .. Len(q) : Line(q)[i] = q[i].acc
  BY LineOf
<1> QED BY <1>1 DEF Promise!Members, Waits

LEMMA LineConcat ==
  ASSUME NEW q \in Seq(Jobs), NEW r \in Seq(Jobs)
  PROVE  Line(q \o r) = Line(q) \o Line(r)
<1>1. /\ Line(q) \in Seq(Accounts) /\ Len(Line(q)) = Len(q)
      /\ Line(r) \in Seq(Accounts) /\ Len(Line(r)) = Len(r)
      /\ \A i \in 1 .. Len(q) : Line(q)[i] = q[i].acc
      /\ \A i \in 1 .. Len(r) : Line(r)[i] = r[i].acc
  BY LineOf
<1>2. /\ q \o r \in Seq(Jobs) /\ Len(q \o r) = Len(q) + Len(r)
      /\ \A i \in 1 .. Len(q) + Len(r) :
           (q \o r)[i] = IF i <= Len(q) THEN q[i] ELSE r[i - Len(q)]
  OBVIOUS
<1>3. /\ Line(q \o r) \in Seq(Accounts) /\ Len(Line(q \o r)) = Len(q) + Len(r)
      /\ \A i \in 1 .. Len(q) + Len(r) : Line(q \o r)[i] = (q \o r)[i].acc
  BY <1>2, LineOf
<1> DEFINE x == Line(q)
           y == Line(r)
<1> HIDE DEF x, y
<1>4. /\ x \o y \in Seq(Accounts) /\ Len(x \o y) = Len(q) + Len(r)
      /\ \A i \in 1 .. Len(q) + Len(r) :
           (x \o y)[i] = IF i <= Len(q) THEN x[i] ELSE y[i - Len(q)]
  <2>1. x \in Seq(Accounts) /\ y \in Seq(Accounts) /\ Len(x) = Len(q) /\ Len(y) = Len(r)
    BY <1>1 DEF x, y
  <2> QED BY <2>1
<1>5. ASSUME NEW i \in 1 .. Len(q) + Len(r) PROVE Line(q \o r)[i] = (x \o y)[i]
  <2>1. Len(q) \in Nat /\ Len(r) \in Nat
    OBVIOUS
  <2>2. CASE i <= Len(q)
    <3>1. i \in 1 .. Len(q)
      BY <2>1, <2>2
    <3> QED BY <1>1, <1>2, <1>3, <1>4, <2>2, <3>1 DEF x
  <2>3. CASE ~(i <= Len(q))
    <3>1. i - Len(q) \in 1 .. Len(r)
      BY <2>1, <2>3
    <3> QED BY <1>1, <1>2, <1>3, <1>4, <2>3, <3>1 DEF y
  <2> QED BY <2>2, <2>3
<1> QED BY <1>3, <1>4, <1>5, SeqEqual DEF x, y

(* What KeepsLine says of queues, NoneOvertaken says of their lines.       *)
LEMMA LineKept ==
  ASSUME NEW q \in Seq(Jobs), NEW r \in Seq(Jobs), KeepsLine(q, r)
  PROVE  Promise!NoneOvertaken(Line(q), Line(r))
<1>1. /\ Len(Line(q)) = Len(q) /\ Len(Line(r)) = Len(r)
      /\ \A i \in 1 .. Len(q) : Line(q)[i] = q[i].acc
      /\ \A i \in 1 .. Len(r) : Line(r)[i] = r[i].acc
      /\ Line(q) \in Seq(Accounts)
  BY LineOf
<1>2. Promise!Members(Line(q)) \subseteq Promise!Members(Line(r))
  <2>1. ASSUME NEW a \in Promise!Members(Line(q)) PROVE a \in Promise!Members(Line(r))
    <3>1. a \in Accounts
      BY <1>1 DEF Promise!Members
    <3> QED BY <3>1, LineMembers DEF KeepsLine
  <2> QED BY <2>1
<1>3. ASSUME NEW a \in Accounts, NEW b \in Accounts, Promise!Ahead(Line(q), a, b)
      PROVE  Promise!Ahead(Line(r), a, b)
  <2>1. Before(q, a, b)
    <3>1. PICK i \in 1 .. Len(q) : Line(q)[i] = a /\ \A k \in 1 .. i : Line(q)[k] # b
      BY <1>1, <1>3 DEF Promise!Ahead
    <3>2. q[i].acc = a /\ \A k \in 1 .. i : q[k].acc # b
      BY <1>1, <3>1
    <3> QED BY <3>2 DEF Before
  <2>2. PICK i \in 1 .. Len(r) : r[i].acc = a /\ \A k \in 1 .. i : r[k].acc # b
    BY <2>1 DEF KeepsLine, Before
  <2>3. Line(r)[i] = a /\ \A k \in 1 .. i : Line(r)[k] # b
    BY <1>1, <2>2
  <2> QED BY <1>1, <2>3 DEF Promise!Ahead
<1> QED BY <1>2, <1>3 DEF Promise!NoneOvertaken

(* Nobody is overtaken in the line of a queue behind which another is      *)
(* pushed.                                                                 *)
LEMMA LinePushed ==
  ASSUME NEW q \in Seq(Jobs), NEW other \in Seq(Jobs)
  PROVE  Promise!NoneOvertaken(Line(q) \o Line(other), Line(PushQueue(q, other)))
<1>1. q \o other \in Seq(Jobs)
  OBVIOUS
<1>2. PushQueue(q, other) \in Seq(Jobs)
  BY PushQueueKeeps
<1>3. KeepsLine(q \o other, PushQueue(q, other))
  BY PushQueueOrder DEF KeepsLine
<1> QED BY <1>1, <1>2, <1>3, LineConcat, LineKept

(* Nor are the first of a line, whoever else is behind them.               *)
LEMMA FirstKept ==
  ASSUME NEW p \in Seq(Accounts), NEW s \in Seq(Accounts), NEW t \in Seq(Accounts),
         NEW r, NEW S, Promise!Joined(s, t, S), Promise!NoneOvertaken(p \o t, r)
  PROVE  Promise!NoneOvertaken(p \o s, r)
<1> DEFINE x == p \o s
           y == p \o t
<1>1. /\ Len(p) \in Nat /\ Len(s) \in Nat /\ Len(t) \in Nat /\ Len(s) <= Len(t)
      /\ \A i \in 1 .. Len(s) : t[i] = s[i]
  BY DEF Promise!Joined
<1>2. /\ Len(x) = Len(p) + Len(s) /\ Len(y) = Len(p) + Len(t)
      /\ \A i \in 1 .. Len(p) + Len(s) : x[i] = IF i <= Len(p) THEN p[i] ELSE s[i - Len(p)]
      /\ \A i \in 1 .. Len(p) + Len(t) : y[i] = IF i <= Len(p) THEN p[i] ELSE t[i - Len(p)]
  OBVIOUS
<1> HIDE DEF x, y
<1>3. Len(x) <= Len(y) /\ \A i \in 1 .. Len(x) : i \in 1 .. Len(y) /\ y[i] = x[i]
  <2>1. ASSUME NEW i \in 1 .. Len(x) PROVE i \in 1 .. Len(y) /\ y[i] = x[i]
    <3>1. i \in 1 .. Len(p) + Len(s) /\ i \in 1 .. Len(p) + Len(t)
      BY <1>1, <1>2
    <3>2. ASSUME ~(i <= Len(p)) PROVE i - Len(p) \in 1 .. Len(s)
      BY <1>1, <3>1, <3>2
    <3> QED BY <1>1, <1>2, <3>1, <3>2
  <2> QED BY <1>1, <1>2, <2>1
<1>4. Len(x) \in Nat /\ Len(y) \in Nat
  BY <1>1, <1>2
<1>5. Promise!Members(x) \subseteq Promise!Members(y)
  BY <1>3 DEF Promise!Members
<1>6. ASSUME NEW a \in Accounts, NEW b \in Accounts, Promise!Ahead(x, a, b)
      PROVE  Promise!Ahead(y, a, b)
  <2>1. PICK i \in 1 .. Len(x) : x[i] = a /\ \A k \in 1 .. i : x[k] # b
    BY <1>6 DEF Promise!Ahead
  <2>2. y[i] = a /\ \A k \in 1 .. i : y[k] # b
    BY <1>3, <1>4, <2>1
  <2> QED BY <1>3, <2>1, <2>2 DEF Promise!Ahead
<1>7. Promise!NoneOvertaken(y, r)
  BY DEF y
<1>8. Promise!NoneOvertaken(x, r)
  BY <1>5, <1>6, <1>7 DEF Promise!NoneOvertaken
<1> QED BY <1>8 DEF x

\* The first in line is taken.
LEMMA LineTail ==
  ASSUME NEW q \in Seq(Jobs), q # <<>>
  PROVE  /\ Tail(q) \in Seq(Jobs) /\ Tail(Line(q)) = Line(Tail(q))
         /\ Line(q)[1] = Head(q).acc /\ Head(q) \in Jobs
<1>1. /\ Tail(q) \in Seq(Jobs) /\ Len(Tail(q)) = Len(q) - 1
      /\ \A i \in 1 .. Len(q) - 1 : Tail(q)[i] = q[i + 1]
      /\ Head(q) = q[1] /\ Head(q) \in Jobs /\ 1 \in 1 .. Len(q)
  OBVIOUS
<1>2. /\ Line(q) \in Seq(Accounts) /\ Len(Line(q)) = Len(q)
      /\ \A i \in 1 .. Len(q) : Line(q)[i] = q[i].acc
  BY LineOf
<1>3. Len(q) \in Nat /\ Line(q) # <<>>
  BY <1>1, <1>2
<1> DEFINE line == Line(q)
<1> HIDE DEF line
<1>4. /\ Tail(line) \in Seq(Accounts) /\ Len(Tail(line)) = Len(q) - 1
      /\ \A i \in 1 .. Len(q) - 1 : Tail(line)[i] = line[i + 1]
  BY <1>2, <1>3 DEF line
<1>5. /\ Line(Tail(q)) \in Seq(Accounts) /\ Len(Line(Tail(q))) = Len(q) - 1
      /\ \A i \in 1 .. Len(q) - 1 : Line(Tail(q))[i] = Tail(q)[i].acc
  BY <1>1, LineOf
<1>6. \A i \in 1 .. Len(q) - 1 : line[i + 1] = Tail(q)[i].acc
  BY <1>1, <1>2, <1>3 DEF line
<1>7. Tail(line) = Line(Tail(q))
  BY <1>4, <1>5, <1>6, SeqEqual
<1> QED BY <1>1, <1>2, <1>7 DEF line

-----------------------------------------------------------------------------
(* Accounts that report their end. *)

LEMMA EndedIsFinishes ==
  ASSUME NEW signals \in Seq(PendingSignals)
  PROVE  /\ Ended(signals) \in SUBSET Accounts
         /\ Ended(signals) # {} <=> Finishes(signals)
<1>1. \A i \in 1 .. Len(signals) : signals[i].from \in Accounts
  <2>1. \A i \in 1 .. Len(signals) : signals[i] \in PendingSignals
    OBVIOUS
  <2> QED BY <2>1 DEF PendingSignals
<1> QED BY <1>1 DEF Ended, Finishes

LEMMA EndedInTail ==
  ASSUME NEW signals \in Seq(PendingSignals), signals # <<>>
  PROVE  /\ Ended(Tail(signals)) \subseteq Ended(signals)
         /\ Head(signals).name # "syncFinished" => Ended(Tail(signals)) = Ended(signals)
         /\ Head(signals).name = "syncFinished" => Head(signals).from \in Ended(signals)
<1>1. /\ Head(signals) = signals[1] /\ signals[1] \in PendingSignals
      /\ Len(Tail(signals)) = Len(signals) - 1 /\ Len(signals) \in Nat /\ Len(signals) >= 1
      /\ \A i \in 1 .. Len(signals) - 1 : Tail(signals)[i] = signals[i + 1]
  OBVIOUS
<1>2. ASSUME NEW i \in 1 .. Len(Tail(signals))
      PROVE  i + 1 \in 1 .. Len(signals) /\ Tail(signals)[i] = signals[i + 1]
  BY <1>1
<1>3. ASSUME NEW k \in 1 .. Len(signals), k # 1
      PROVE  k - 1 \in 1 .. Len(Tail(signals)) /\ Tail(signals)[k - 1] = signals[k]
  <2>1. k - 1 \in 1 .. Len(signals) - 1 /\ (k - 1) + 1 = k
    BY <1>1, <1>3
  <2> QED BY <1>1, <2>1
<1>4. Ended(Tail(signals)) \subseteq Ended(signals)
  BY <1>2 DEF Ended
<1>5. ASSUME Head(signals).name # "syncFinished" PROVE Ended(signals) \subseteq Ended(Tail(signals))
  BY <1>1, <1>3, <1>5 DEF Ended
<1>6. ASSUME Head(signals).name = "syncFinished" PROVE Head(signals).from \in Ended(signals)
  BY <1>1, <1>6 DEF Ended, PendingSignals
<1> QED BY <1>4, <1>5, <1>6

\* An outcome of account a reports the end of no other.
LEMMA DeliverEnds ==
  ASSUME NEW a \in Accounts, NEW outcome \in Ending, NEW results, NEW c, NEW d,
         NEW rest \in Seq(PendingSignals), Deliver(a, outcome, results, c, d, rest)
  PROVE  /\ Ended(rest) \subseteq Ended(pending')
         /\ Ended(pending') \subseteq Ended(rest) \cup {a}
         /\ outcome.signals = <<>> => pending' = rest
<1> DEFINE heard == IF outcome.signals = <<"syncStarted">> THEN <<>> ELSE outcome.signals
           signals == [i \in DOMAIN heard |-> Signal(heard[i], a, results)]
<1>1. heard \in Seq(Signals) /\ (outcome.signals = <<>> => heard = <<>>)
  BY DEF Ending, Outcomes
<1>2. pending' = signals \o rest
  BY DEF Deliver
<1> HIDE DEF heard
<1>3. Len(heard) \in Nat /\ DOMAIN heard = 1 .. Len(heard)
  BY <1>1
<1>4. /\ \A i \in 1 .. Len(heard) : signals[i].from = a
      /\ signals = [i \in 1 .. Len(heard) |-> signals[i]]
  BY <1>3 DEF Signal
<1> HIDE DEF signals
<1> DEFINE Any == {signals[i] : i \in 1 .. Len(heard)} \cup PendingSignals
<1>5. signals \in Seq(Any) /\ Len(signals) = Len(heard) /\ rest \in Seq(Any)
  <2>1. \A i \in 1 .. Len(heard) : signals[i] \in Any
    OBVIOUS
  <2>2. rest \in Seq(Any)
    <3>1. PendingSignals \subseteq Any
      OBVIOUS
    <3> HIDE DEF Any
    <3> QED BY <3>1
  <2> HIDE DEF Any
  <2> QED BY <1>3, <1>4, <2>1, <2>2
<1> HIDE DEF Any
<1>6. /\ Len(pending') = Len(signals) + Len(rest)
      /\ \A i \in 1 .. Len(signals) + Len(rest) :
           pending'[i] = IF i <= Len(signals) THEN signals[i] ELSE rest[i - Len(signals)]
  BY <1>2, <1>5, ConcatProperties
<1>7. Len(signals) \in Nat /\ Len(rest) \in Nat
  BY <1>3, <1>5
<1>8. Ended(rest) \subseteq Ended(pending')
  <2> SUFFICES ASSUME NEW i \in 1 .. Len(rest)
               PROVE  Len(signals) + i \in 1 .. Len(pending')
                      /\ pending'[Len(signals) + i] = rest[i]
    BY DEF Ended
  <2>1. /\ Len(signals) + i \in 1 .. Len(signals) + Len(rest)
        /\ ~(Len(signals) + i <= Len(signals)) /\ (Len(signals) + i) - Len(signals) = i
    BY <1>7
  <2> QED BY <1>6, <2>1
<1>9. Ended(pending') \subseteq Ended(rest) \cup {a}
  <2> SUFFICES ASSUME NEW i \in 1 .. Len(pending')
               PROVE  \/ pending'[i].from = a
                      \/ \E k \in 1 .. Len(rest) : pending'[i] = rest[k]
    BY DEF Ended
  <2>1. CASE i <= Len(signals)
    <3>1. i \in 1 .. Len(heard) /\ i \in 1 .. Len(signals) + Len(rest)
      BY <1>5, <1>6, <1>7, <2>1
    <3> QED BY <1>4, <1>6, <2>1, <3>1
  <2>2. CASE ~(i <= Len(signals))
    <3>1. i - Len(signals) \in 1 .. Len(rest)
      BY <1>6, <1>7, <2>2
    <3> QED BY <1>6, <2>2, <3>1
  <2> QED BY <2>1, <2>2
<1>10. ASSUME outcome.signals = <<>> PROVE pending' = rest
  <2>1. Len(heard) = 0
    BY <1>1, <1>10
  <2>2. signals = <<>>
    BY <1>5, <2>1
  <2> QED BY <1>2, <2>2
<1> QED BY <1>8, <1>9, <1>10

-----------------------------------------------------------------------------
(* The parts of handlers, as Scheduler sees them. *)

LEMMA Primed ==
  /\ Line(syncQueue)' = Line(syncQueue') /\ Line(offlineQueue)' = Line(offlineQueue')
  /\ Ended(pending)' = Ended(pending')
BY DEF Line, Ended

LEMMA SameAccounts ==
  ASSUME UNCHANGED <<presence, enabled>> PROVE Known' = Known /\ MayAsk' = MayAsk
BY DEF Known, MayAsk

\* A job is current exactly when some account has the turn.
LEMMA TurnOfJob ==
  ASSUME NEW job \in CurrentJobs
  PROVE  /\ IsValid(job) <=> job.acc # NoAccount
         /\ IsValid(job) => job \in Jobs /\ job.acc \in Accounts
         /\ ClearJob(job).acc = NoAccount
<1>1. \A paid \in BOOLEAN :
        [NoJob EXCEPT !.paid = paid] = [acc |-> NoAccount, srcs |-> {}, paid |-> paid]
  BY DEF NoJob
<1>2. ClearJob(job) = [acc |-> NoAccount, srcs |-> {}, paid |-> job.paid]
  BY DEF ClearJob, NoJob
<1>3. CASE job \in Jobs
  <2>1. IsValid(job) /\ job.acc \in Accounts
    BY <1>3, JobSources
  <2> QED BY <1>2, <1>3, <2>1, QueueConstants
<1>4. CASE job \notin Jobs
  <2>1. job.acc = NoAccount
    BY <1>1, <1>4 DEF CurrentJobs
  <2> QED BY <1>2, <2>1 DEF IsValid
<1> QED BY <1>3, <1>4

LEMMA AsksTaken ==
  ASSUME Inv, UNCHANGED <<presence, enabled, currentJob, offlineQueue>>,
         syncQueue' \in Seq(Jobs), AddsBehind(syncQueue, syncQueue', MayAsk),
         timer => timer', timer' => timer \/ ~IsValid(currentJob),
         Ended(pending) \subseteq Ended(pending'),
         published' = published \/ published' = Promise!Truth(currentJob'.acc, Line(syncQueue'))
  PROVE  Promise!Asks
<1>1. syncQueue \in Seq(Jobs) /\ currentJob \in CurrentJobs
  BY DEF Inv, SyncOK, SyncTypes
<1>2. Promise!Joined(Line(syncQueue), Line(syncQueue'), MayAsk)
  BY <1>1, LineJoined
<1>3. ~IsValid(currentJob) => currentJob.acc = NoAccount
  BY <1>1, TurnOfJob
<1>4. Line(offlineQueue') = Line(offlineQueue) /\ currentJob'.acc = currentJob.acc
  OBVIOUS
<1> QED BY <1>2, <1>3, <1>4, SameAccounts, Primed DEF Promise!Asks, Promise!ShownTruly

\* What Scheduler does not see, it allows as well.
LEMMA UnseenTaken ==
  ASSUME Inv, UNCHANGED <<presence, enabled, queues, timer, published>>,
         Ended(pending) \subseteq Ended(pending')
  PROVE  Promise!Asks
<1>1. UNCHANGED <<syncQueue, offlineQueue, currentJob>>
  BY DEF queues
<1>2. syncQueue' \in Seq(Jobs) /\ AddsBehind(syncQueue, syncQueue', MayAsk)
  BY <1>1, AddsNothing DEF Inv, SyncOK, SyncTypes
<1> QED BY <1>1, <1>2, AsksTaken

(* continueSync(), called when the turn is free, with a queue that those   *)
(* have joined who may.                                                    *)
LEMMA ContinueTaken ==
  ASSUME Inv, NEW q \in Seq(Jobs), NEW timerAfter \in BOOLEAN,
         NEW c \in ControlsOf, NEW d \in SUBSET Accounts,
         NEW rest \in Seq(PendingSignals), PendingEnd(rest),
         ContinueSync(q, offlineQueue, timerAfter, c, d, rest),
         UNCHANGED <<presence, enabled>>,
         Promise!TurnIsFree, AddsBehind(syncQueue, q, Promise!Entitled),
         timerAfter => timer, Ended(rest) \subseteq Ended(pending)
  PROVE  Promise!Starts \/ Promise!Ends
<1> DEFINE job == PopNext(q)
           line == Line(syncQueue)
           S == Promise!Entitled
<1>1. /\ syncQueue \in Seq(Jobs) /\ offlineQueue \in Seq(Jobs) /\ currentJob \in CurrentJobs
      /\ SyncOK
  BY DEF Inv, SyncOK, SyncTypes
<1>2. MayAsk \subseteq S /\ Ended(pending) \subseteq S
  BY DEF Promise!Entitled
<1>3. Promise!Joined(line, Line(q), S)
  BY <1>1, LineJoined
<1> HIDE DEF S
<1>4. CASE IsValid(job) /\ IsOnLine(job) /\ timer' = timerAfter
           /\ StartJob(job, AfterPop(q), offlineQueue, c, d, rest)
  <2>1. q # <<>> /\ job = Head(q) /\ AfterPop(q) = Tail(q)
    BY <1>4 DEF PopNext, AfterPop, NoJob, IsValid
  <2>2. /\ Tail(q) \in Seq(Jobs) /\ Tail(Line(q)) = Line(Tail(q)) /\ Line(q)[1] = job.acc
        /\ job \in Jobs /\ job.acc \in Accounts
    BY <2>1, LineTail, JobSources
  <2>3. /\ SyncOK' /\ currentJob' = job
        /\ AddsBehind(Tail(q), syncQueue', MayAsk)
        /\ LeavesOut(offlineQueue, offlineQueue', job.acc)
    <3>1. timer' \in BOOLEAN
      BY <1>4
    <3> HIDE DEF job
    <3> QED BY <1>1, <1>4, <2>1, <2>2, <3>1, StartJobOK
  <2>4. syncQueue' \in Seq(Jobs) /\ offlineQueue' \in Seq(Jobs)
    BY <2>3 DEF SyncOK, SyncTypes
  <2>5. IF line = <<>>
        THEN job.acc \in S /\ Promise!Joined(<<>>, Line(syncQueue'), S)
        ELSE job.acc = line[1] /\ Promise!Joined(Tail(line), Line(syncQueue'), S)
    <3>1. AddsBehind(Tail(q), syncQueue', S)
      BY <1>2, <2>3 DEF AddsBehind
    <3>2. CASE syncQueue = <<>>
      <4>1. line = <<>>
        BY <1>1, <3>2, LineOf
      <4>2. 1 \in Len(syncQueue) + 1 .. Len(q) /\ q[1] = job
        BY <2>1, <3>2
      <4>3. job.acc \in S
        BY <4>2 DEF AddsBehind, S
      <4>4. AddsBehind(<<>>, syncQueue', S)
        <5>1. /\ Len(Tail(q)) = Len(q) - 1 /\ Len(q) \in Nat
              /\ \A i \in 1 .. Len(q) - 1 : Tail(q)[i] = q[i + 1]
          BY <2>1
        <5>2. AddsBehind(<<>>, Tail(q), S)
          <6>1. \A i \in 1 .. Len(Tail(q)) : Tail(q)[i] = q[i + 1] /\ i + 1 \in 1 .. Len(q)
            BY <5>1
          <6>2. \A k \in 1 .. Len(q) : q[k].acc \in S
            BY <3>2 DEF AddsBehind, S
          <6> QED BY <5>1, <6>1, <6>2 DEF AddsBehind
        <5>3. <<>> \in Seq(Jobs) /\ S \in SUBSET S
          OBVIOUS
        <5> HIDE DEF job
        <5> QED BY <2>2, <2>4, <3>1, <5>2, <5>3, AddsBehindTwice
      <4>5. Promise!Joined(<<>>, Line(syncQueue'), S)
        <5>1. <<>> \in Seq(Jobs)
          OBVIOUS
        <5>2. Line(<<>>) = <<>>
          BY <5>1, LineOf
        <5> QED BY <2>4, <4>4, <5>1, <5>2, LineJoined
      <4> QED BY <4>1, <4>3, <4>5
    <3>3. CASE syncQueue # <<>>
      <4>1. /\ Tail(syncQueue) \in Seq(Jobs) /\ Tail(line) = Line(Tail(syncQueue))
            /\ line[1] = Head(syncQueue).acc /\ line # <<>>
        BY <1>1, <3>3, LineTail, LineOf
      <4>2. Head(syncQueue).acc = job.acc
        <5>1. 1 \in 1 .. Len(syncQueue) /\ Head(syncQueue) = syncQueue[1] /\ job = q[1]
          BY <1>1, <2>1, <3>3
        <5> QED BY <5>1 DEF AddsBehind
      <4>3. AddsBehind(Tail(syncQueue), Tail(q), S)
        <5>1. /\ Len(Tail(q)) = Len(q) - 1 /\ Len(q) \in Nat
              /\ \A i \in 1 .. Len(q) - 1 : Tail(q)[i] = q[i + 1]
          BY <2>1
        <5>2. /\ Len(Tail(syncQueue)) = Len(syncQueue) - 1 /\ Len(syncQueue) \in Nat
              /\ \A i \in 1 .. Len(syncQueue) - 1 : Tail(syncQueue)[i] = syncQueue[i + 1]
          BY <1>1, <3>3
        <5>3. /\ Len(syncQueue) <= Len(q)
              /\ \A i \in 1 .. Len(syncQueue) : q[i].acc = syncQueue[i].acc
              /\ \A i \in Len(syncQueue) + 1 .. Len(q) : q[i].acc \in S
          BY DEF AddsBehind, S
        <5>4. ASSUME NEW i \in 1 .. Len(syncQueue) - 1
              PROVE  Tail(q)[i].acc = Tail(syncQueue)[i].acc
          <6>1. i + 1 \in 1 .. Len(syncQueue) /\ i \in 1 .. Len(q) - 1
            BY <5>1, <5>2, <5>3
          <6> QED BY <5>1, <5>2, <5>3, <6>1
        <5>5. ASSUME NEW i \in Len(syncQueue) .. Len(q) - 1 PROVE Tail(q)[i].acc \in S
          <6>1. i + 1 \in Len(syncQueue) + 1 .. Len(q) /\ i \in 1 .. Len(q) - 1
            BY <1>1, <3>3, <5>1, <5>2, <5>3
          <6> QED BY <5>1, <5>3, <6>1
        <5> QED BY <5>1, <5>2, <5>3, <5>4, <5>5 DEF AddsBehind
      <4>4. AddsBehind(Tail(syncQueue), syncQueue', S)
        BY <2>2, <2>4, <3>1, <4>1, <4>3, AddsBehindTwice
      <4>5. Promise!Joined(Tail(line), Line(syncQueue'), S)
        BY <2>4, <4>1, <4>4, LineJoined
      <4> QED BY <4>1, <4>2, <4>5
    <3> QED BY <3>2, <3>3
  <2>6. Promise!Thinned(Line(offlineQueue), Line(offlineQueue'), currentJob'.acc)
    BY <1>1, <2>3, <2>4, LineThinned
  <2>7. Ended(pending') \subseteq Ended(pending) \cup {currentJob'.acc}
    <3>1. PICK outcome \in OrStops(job.acc, d, SyncOutcomes(c[job.acc])) :
            \E results : Deliver(job.acc, outcome, results, c, d, rest)
      BY <1>4 DEF StartJob
    <3>2. outcome \in Ending
      BY <2>2, SyncOutcomesType, OrStopsType DEF ControlsOf
    <3>3. Ended(pending') \subseteq Ended(rest) \cup {job.acc}
      BY <2>2, <3>1, <3>2, DeliverEnds
    <3> QED BY <2>3, <3>3
  <2>8. published' = "syncing" /\ (timer' => timer)
    BY <1>4 DEF StartJob
  <2> HIDE DEF job
  <2>9. Promise!Starts
    BY <2>3, <2>5, <2>6, <2>7, <2>8, SameAccounts, Primed DEF Promise!Starts, S
  <2> QED BY <2>9
<1>5. CASE /\ ~(IsValid(job) /\ IsOnLine(job))
           /\ offlineQueue' = IF IsOnLine(job) THEN offlineQueue ELSE Parked(offlineQueue, q)
           /\ SyncFinished(<<>>)
           /\ ctl' = c /\ dangling' = d /\ pending' = rest
  <2>1. /\ syncQueue' = <<>> /\ timer' = FALSE /\ currentJob' = ClearJob(currentJob)
        /\ published' = "idle"
    BY <1>5 DEF SyncFinished, WaitingState
  <2>2. currentJob'.acc = NoAccount
    BY <1>1, <2>1, TurnOfJob
  <2>3. Line(syncQueue') = <<>> /\ Promise!Truth(NoAccount, <<>>) = "idle"
    <3>1. <<>> \in Seq(Jobs)
      OBVIOUS
    <3> QED BY <2>1, <3>1, LineOf DEF Promise!Truth
  <2>4. /\ Promise!Joined(Line(offlineQueue), Line(offlineQueue'), Promise!Members(line) \cup S)
        /\ Promise!NoneOvertaken(Line(offlineQueue) \o line, Line(offlineQueue'))
    <3> DEFINE T == Promise!Members(line) \cup S
    <3>1. CASE IsOnLine(job)
      <4>1. q = <<>>
        <5>1. ASSUME q # <<>> PROVE FALSE
          <6>1. job \in Jobs
            BY <5>1, LineTail DEF PopNext
          <6> QED BY <1>5, <3>1, <6>1, JobSources
        <5> QED BY <5>1
      <4>2. Len(syncQueue) = 0
        <5>1. Len(syncQueue) <= 0 /\ Len(syncQueue) \in Nat
          BY <1>1, <4>1 DEF AddsBehind
        <5> QED BY <5>1
      <4>3. Line(offlineQueue) \o line = Line(offlineQueue)
        <5>1. syncQueue = <<>>
          BY <1>1, <4>2
        <5>2. line = <<>> /\ Line(offlineQueue) \in Seq(Accounts)
          BY <1>1, <5>1, LineOf
        <5> HIDE DEF line
        <5> QED BY <5>2, ConcatEmptySeq
      <4>4. offlineQueue' = offlineQueue /\ AddsBehind(offlineQueue, offlineQueue, T)
        BY <1>1, <1>5, <3>1, AddsNothing
      <4> HIDE DEF T
      <4>5. Promise!Joined(Line(offlineQueue), Line(offlineQueue'), T)
        BY <1>1, <4>4, LineJoined
      <4>6. Promise!NoneOvertaken(Line(offlineQueue), Line(offlineQueue'))
        BY <4>4 DEF Promise!NoneOvertaken
      <4> QED BY <4>3, <4>5, <4>6 DEF T
    <3>2. CASE ~IsOnLine(job)
      <4> DEFINE A == {q[i].acc : i \in 1 .. Len(q)}
      <4>1. offlineQueue' = PushQueue(offlineQueue, q)
        BY <1>5, <3>2 DEF Parked
      <4>2. /\ offlineQueue' \in Seq(Jobs)
            /\ \A i \in 1 .. Len(q) : Waits(offlineQueue', q[i].acc)
            /\ AddsBehind(offlineQueue, offlineQueue', A)
        BY <1>1, <4>1, PushQueueKeeps
      <4>3. A \subseteq T
        <5> SUFFICES ASSUME NEW i \in 1 .. Len(q) PROVE q[i].acc \in T
          OBVIOUS
        <5>1. CASE i <= Len(syncQueue)
          <6>1. i \in 1 .. Len(syncQueue) /\ q[i].acc = syncQueue[i].acc
            BY <1>1, <5>1 DEF AddsBehind
          <6>2. Waits(syncQueue, q[i].acc)
            BY <6>1 DEF Waits
          <6> QED BY <1>1, <6>2, LineMembers
        <5>2. CASE ~(i <= Len(syncQueue))
          <6>1. i \in Len(syncQueue) + 1 .. Len(q)
            BY <1>1, <5>2
          <6> QED BY <6>1 DEF AddsBehind, S
        <5> QED BY <5>1, <5>2
      <4> HIDE DEF T, A
      <4>4. AddsBehind(offlineQueue, offlineQueue', T)
        BY <4>2, <4>3 DEF AddsBehind
      <4>5. Promise!Joined(Line(offlineQueue), Line(offlineQueue'), T)
        BY <1>1, <4>2, <4>4, LineJoined
      <4>6. Promise!NoneOvertaken(Line(offlineQueue) \o Line(q), Line(offlineQueue'))
        BY <1>1, <4>1, LinePushed
      <4>7. Promise!NoneOvertaken(Line(offlineQueue) \o line, Line(offlineQueue'))
        <5>1. Line(offlineQueue) \in Seq(Accounts) /\ line \in Seq(Accounts)
              /\ Line(q) \in Seq(Accounts)
          BY <1>1, LineOf
        <5> HIDE DEF line
        <5> QED BY <1>3, <4>6, <5>1, FirstKept
      <4> QED BY <4>5, <4>7 DEF T
    <3> QED BY <3>1, <3>2
  <2>5. pending' = rest
    BY <1>5
  <2> HIDE DEF job
  <2>6. Promise!Ends
    BY <2>1, <2>2, <2>3, <2>4, <2>5, SameAccounts, Primed DEF Promise!Ends, S
  <2> QED BY <2>6
<1> QED BY <1>4, <1>5 DEF ContinueSync

LEMMA RequestTaken ==
  ASSUME NEW a \in Accounts, NEW sources \in SUBSET Sources, NEW runNow \in BOOLEAN,
         NEW syncOnMobile \in BOOLEAN, NEW rest \in Seq(PendingSignals), PendingEnd(rest),
         Ended(rest) = Ended(pending), UNCHANGED <<presence, enabled>>,
         Inv, Request(a, sources, runNow, syncOnMobile, rest)
  PROVE  Promise!Asks \/ Promise!Starts \/ Promise!Ends
<1> DEFINE new == {s \in sources : ~Contains(syncQueue, a, {s})}
           q(setting) == Push(syncQueue, a, new, syncOnMobile \/ setting)
<1>1. /\ syncQueue \in Seq(Jobs) /\ offlineQueue \in Seq(Jobs) /\ currentJob \in CurrentJobs
      /\ ctl \in ControlsOf /\ dangling \in SUBSET Accounts
      /\ (IsValid(currentJob) => syncing) /\ (~syncing => ~timer)
  BY DEF Inv, SyncOK, SyncTypes, JobHolds, IdleHolds, AccountsOK
<1>2. ASSUME NEW setting \in BOOLEAN
      PROVE  /\ q(setting) \in Seq(Jobs) /\ Waits(q(setting), a)
             /\ AddsBehind(syncQueue, q(setting), {a})
  <2>1. new \in SUBSET Sources /\ (syncOnMobile \/ setting) \in BOOLEAN
    OBVIOUS
  <2> HIDE DEF new
  <2> QED BY <1>1, <2>1, PushKeeps
<1>3. CASE /\ pending' = rest
           /\ UNCHANGED <<queues, syncing, timer, ctl, dangling, eds, wakelock, published>>
  BY <1>3, UnseenTaken
<1>4. ASSUME enabled[a], NEW setting \in BOOLEAN, ~IsSyncing,
             ContinueSync(q(setting), offlineQueue, FALSE, ctl, dangling, rest)
      PROVE  Promise!Starts \/ Promise!Ends
  <2>1. currentJob.acc = NoAccount
    BY <1>1, <1>4, TurnOfJob DEF IsSyncing
  <2>2. AddsBehind(syncQueue, q(setting), Promise!Entitled)
    <3>1. a \in Promise!Entitled
      BY <1>4 DEF Promise!Entitled, MayAsk
    <3>2. AddsBehind(syncQueue, q(setting), {a})
      BY <1>2
    <3> HIDE DEF q
    <3> QED BY <3>1, <3>2 DEF AddsBehind
  <2>3. Promise!TurnIsFree
    BY <2>1 DEF Promise!TurnIsFree
  <2>4. q(setting) \in Seq(Jobs) /\ FALSE \in BOOLEAN
    BY <1>2
  <2> HIDE DEF q
  <2> QED BY <1>1, <1>4, <2>2, <2>3, <2>4, ContinueTaken
<1>5. ASSUME enabled[a], NEW setting \in BOOLEAN,
             syncQueue' = q(setting), UNCHANGED <<offlineQueue, currentJob>>, pending' = rest,
             timer => timer', timer' => timer \/ ~IsValid(currentJob),
             published' = published \/ (published' = "pending" /\ ~IsValid(currentJob))
      PROVE  Promise!Asks
  <2>1. AddsBehind(syncQueue, syncQueue', MayAsk) /\ syncQueue' \in Seq(Jobs)
    <3>1. a \in MayAsk
      BY <1>5 DEF MayAsk
    <3>2. AddsBehind(syncQueue, syncQueue', {a}) /\ syncQueue' \in Seq(Jobs)
      BY <1>2, <1>5
    <3> QED BY <3>1, <3>2 DEF AddsBehind
  <2>2. published' = published
          \/ published' = Promise!Truth(currentJob'.acc, Line(syncQueue'))
    <3>1. Line(syncQueue') # <<>>
      <4>1. Waits(syncQueue', a)
        BY <1>2, <1>5
      <4>2. syncQueue' # <<>>
        <5>1. PICK i \in 1 .. Len(syncQueue') : TRUE
          BY <4>1 DEF Waits
        <5> QED BY <5>1
      <4> QED BY <2>1, <4>2, LineOf
    <3>2. ~IsValid(currentJob) => currentJob'.acc = NoAccount
      BY <1>1, <1>5, TurnOfJob
    <3> QED BY <1>5, <3>1, <3>2 DEF Promise!Truth
  <2> HIDE DEF q
  <2> QED BY <1>5, <2>1, <2>2, AsksTaken
<1>6. ASSUME enabled[a], NEW setting \in BOOLEAN, ~syncing,
             /\ syncQueue' = q(setting)
             /\ syncing' = TRUE /\ timer' = TRUE
             /\ Lock /\ published' = "pending"
             /\ pending' = rest
             /\ UNCHANGED <<offlineQueue, currentJob, ctl, dangling, eds>>
      PROVE  Promise!Asks
  BY <1>1, <1>5, <1>6
<1>7. ASSUME enabled[a], NEW setting \in BOOLEAN,
             /\ syncQueue' = q(setting)
             /\ pending' = rest
             /\ UNCHANGED <<offlineQueue, currentJob, syncing, timer, ctl, dangling,
                            eds, wakelock, published>>
      PROVE  Promise!Asks
  BY <1>5, <1>7
<1> QED BY <1>3, <1>4, <1>6, <1>7 DEF Request

LEMMA CancelTaken ==
  ASSUME Inv, NEW a \in Accounts, pending = <<>>, Cancel(a),
         a \in Known, Known' \in {Known, Known \ {a}}, MayAsk' = MayAsk \ {a}
  PROVE  Promise!Cancels(a)
<1> DEFINE q == Remove(syncQueue, a, {})
<1>1. syncQueue \in Seq(Jobs) /\ currentJob \in CurrentJobs
  BY DEF Inv, SyncOK, SyncTypes
<1>2. q \in Seq(Jobs) /\ LeavesOut(syncQueue, q, a)
  BY <1>1, RemoveKeeps
<1> HIDE DEF q
<1>3. PICK outcome \in OrStops(a, dangling, {CancelOutcome(ctl[a])}) :
        /\ Deliver(a, Silent(outcome.next), <<>>, ctl, dangling, <<>>)
        /\ \/ SyncFinished(q)
           \/ /\ syncQueue' = q
              /\ currentJob' = IF currentJob.acc = a THEN ClearJob(currentJob) ELSE currentJob
              /\ UNCHANGED <<syncing, timer, eds, wakelock, published>>
        /\ UNCHANGED offlineQueue
  BY DEF Cancel, q
<1>4. syncQueue' = q /\ offlineQueue' = offlineQueue
  BY <1>3 DEF SyncFinished
<1>5. Promise!Thinned(Line(syncQueue), Line(syncQueue'), a)
  BY <1>1, <1>2, <1>4, LineThinned
<1>6. pending' = pending
  <2>1. ctl[a] \in Controls
    BY DEF Inv, AccountsOK, ControlsOf
  <2>2. Silent(outcome.next) \in Ending /\ Silent(outcome.next).signals = <<>>
    BY <2>1, CancelStops DEF Silent, Outcome
  <2>3. <<>> \in Seq(PendingSignals)
    OBVIOUS
  <2> QED BY <1>3, <2>2, <2>3, DeliverEnds
<1>7. /\ currentJob'.acc \in {currentJob.acc, NoAccount}
      /\ timer' => timer
      /\ published' = published
           \/ published' = Promise!Truth(currentJob'.acc, Line(syncQueue'))
  <2>1. CASE SyncFinished(q)
    <3>1. /\ currentJob' = ClearJob(currentJob) /\ timer' = FALSE
          /\ published' = WaitingState(q)
      BY <2>1 DEF SyncFinished
    <3>2. currentJob'.acc = NoAccount
      BY <1>1, <3>1, TurnOfJob
    <3>3. Line(syncQueue') = <<>> <=> q = <<>>
      BY <1>2, <1>4, LineOf
    <3> QED BY <3>1, <3>2, <3>3 DEF Promise!Truth, WaitingState
  <2>2. CASE /\ currentJob' = IF currentJob.acc = a THEN ClearJob(currentJob) ELSE currentJob
             /\ UNCHANGED <<syncing, timer, eds, wakelock, published>>
    BY <1>1, <2>2, TurnOfJob
  <2> QED BY <1>3, <2>1, <2>2
<1> QED BY <1>4, <1>5, <1>6, <1>7, Primed DEF Promise!Cancels, Promise!ShownTruly

-----------------------------------------------------------------------------
(* One lemma for each kind of action. *)

LEMMA SlotsTaken ==
  ASSUME Inv, Slots PROVE Promise!Next
<1>1. /\ syncQueue \in Seq(Jobs) /\ offlineQueue \in Seq(Jobs) /\ currentJob \in CurrentJobs
      /\ pending \in Seq(PendingSignals) /\ timer \in BOOLEAN /\ ctl \in ControlsOf
  BY DEF Inv, SyncOK, SyncTypes, AccountsOK
<1>2. CASE OnAccountSyncError
  <2>1. Slot("syncError") /\ SyncFinished(syncQueue) /\ pending' = Tail(pending)
    BY <1>2 DEF OnAccountSyncError
  <2>2. UNCHANGED <<offlineQueue, presence, enabled>>
    BY <1>2 DEF OnAccountSyncError, accountVars
  <2>3. /\ Alive /\ Finishes(Tail(pending)) /\ pending # <<>>
        /\ Tail(pending) \in Seq(PendingSignals)
    BY <2>1, SlotOK
  <2>4. Ended(pending') # {} /\ Ended(pending') \subseteq Ended(pending)
    BY <1>1, <2>1, <2>3, EndedInTail, EndedIsFinishes
  <2>5. /\ syncQueue' = syncQueue /\ timer' = FALSE /\ currentJob'.acc = NoAccount
        /\ published' = WaitingState(syncQueue)
    BY <1>1, <2>1, TurnOfJob DEF SyncFinished
  <2>6. published' = Promise!Truth(NoAccount, Line(syncQueue'))
    BY <1>1, <2>5, LineOf DEF Promise!Truth, WaitingState
  <2>7. Promise!TurnIsFree
    BY <2>4 DEF Promise!TurnIsFree
  <2>8. /\ Line(syncQueue') = Line(syncQueue) /\ Line(offlineQueue') = Line(offlineQueue)
    BY <2>2, <2>5
  <2>9. Promise!Ends
    BY <2>2, <2>4, <2>5, <2>6, <2>7, <2>8, SameAccounts, Primed DEF Promise!Ends
  <2> QED BY <2>3, <2>9 DEF Promise!Next
<1>3. CASE OnAccountSyncFinished
  <2> DEFINE results == Head(pending).results
             q == IF Retries(failed[From], results) THEN Push(syncQueue, From, {}, FALSE)
                  ELSE syncQueue
  <2>1. /\ Slot("syncFinished") /\ UNCHANGED <<presence, enabled>>
        /\ \E c \in Detached(ctl) :
             ContinueSync(q, offlineQueue, timer, c, dangling \cup WithSession(ctl),
                          Tail(pending))
    BY <1>3 DEF OnAccountSyncFinished
  <2>2. /\ Alive /\ From \in Accounts /\ pending # <<>> /\ Head(pending).name = "syncFinished"
        /\ Tail(pending) \in Seq(PendingSignals) /\ PendingEnd(Tail(pending))
    BY <2>1, SlotOK
  <2>3. From \in Ended(pending) /\ Ended(Tail(pending)) \subseteq Ended(pending)
    BY <1>1, <2>2, EndedInTail DEF From
  <2>4. q \in Seq(Jobs) /\ AddsBehind(syncQueue, q, Promise!Entitled)
    <3>1. {} \in SUBSET Sources /\ FALSE \in BOOLEAN
      OBVIOUS
    <3>2. /\ Push(syncQueue, From, {}, FALSE) \in Seq(Jobs)
          /\ AddsBehind(syncQueue, Push(syncQueue, From, {}, FALSE), {From})
      BY <1>1, <2>2, <3>1, PushKeeps
    <3>3. From \in Promise!Entitled
      BY <2>3 DEF Promise!Entitled
    <3>4. AddsBehind(syncQueue, Push(syncQueue, From, {}, FALSE), Promise!Entitled)
      BY <3>2, <3>3 DEF AddsBehind
    <3> QED BY <1>1, <3>2, <3>4, AddsNothing
  <2> HIDE DEF q
  <2>5. PICK c \in Detached(ctl) :
          ContinueSync(q, offlineQueue, timer, c, dangling \cup WithSession(ctl), Tail(pending))
    BY <2>1
  <2>6. c \in ControlsOf /\ dangling \cup WithSession(ctl) \in SUBSET Accounts
    BY <1>1, DetachedType DEF Inv, AccountsOK, WithSession
  <2>7. Promise!TurnIsFree
    BY <2>3 DEF Promise!TurnIsFree
  <2>8. Promise!Starts \/ Promise!Ends
    BY <1>1, <2>1, <2>2, <2>3, <2>4, <2>5, <2>6, <2>7, ContinueTaken
  <2> QED BY <2>2, <2>8 DEF Promise!Next
<1>4. CASE OnRequest
  <2>1. /\ Slot("request") /\ Request(From, {}, TRUE, TRUE, Tail(pending))
        /\ UNCHANGED <<presence, enabled>>
    BY <1>4 DEF OnRequest
  <2>2. /\ Alive /\ From \in Accounts /\ pending # <<>> /\ Head(pending).name = "request"
        /\ Tail(pending) \in Seq(PendingSignals) /\ PendingEnd(Tail(pending))
    BY <2>1, SlotOK
  <2>3. Ended(Tail(pending)) = Ended(pending)
    BY <1>1, <2>2, EndedInTail
  <2>4. Promise!Asks \/ Promise!Starts \/ Promise!Ends
    <3>1. {} \in SUBSET Sources /\ TRUE \in BOOLEAN
      OBVIOUS
    <3> QED BY <2>1, <2>2, <2>3, <3>1, RequestTaken
  <2> QED BY <2>2, <2>4 DEF Promise!Next
<1>5. CASE OnResume
  <2>1. /\ Slot("resume")
        /\ \/ ConfiguredAnew(From, Tail(pending))
           \/ \E outcome \in {Silent(ctl[From]), Silent(Dead)} :
                Deliver(From, outcome, <<>>, ctl, dangling, Tail(pending))
        /\ UNCHANGED <<presence, enabled, queues, timer, published>>
    BY <1>5 DEF OnResume
  <2>2. /\ Alive /\ From \in Accounts /\ pending # <<>> /\ Head(pending).name = "resume"
        /\ Tail(pending) \in Seq(PendingSignals)
    BY <2>1, SlotOK
  <2>3. Ended(Tail(pending)) = Ended(pending)
    BY <1>1, <2>2, EndedInTail
  <2>4. PICK outcome, c, d :
          outcome \in Ending /\ Deliver(From, outcome, <<>>, c, d, Tail(pending))
    <3>1. ASSUME NEW outcome \in {Silent(ctl[From]), Silent(Dead)} PROVE outcome \in Ending
      BY <1>1, <2>2, SilentType, ControlTypes DEF ControlsOf
    <3>2. ASSUME NEW c \in Detached(ctl), NEW outcome \in Configured(c[From])
          PROVE  outcome \in Ending
      BY <1>1, <2>2, DetachedType, ConfiguredType DEF ControlsOf
    <3> QED BY <2>1, <3>1, <3>2 DEF ConfiguredAnew
  <2>5. Promise!Asks
    BY <2>1, <2>2, <2>3, <2>4, DeliverEnds, UnseenTaken
  <2> QED BY <2>2, <2>5 DEF Promise!Next
<1> QED BY <1>2, <1>3, <1>4, <1>5 DEF Slots

\* Without a signal to deliver, nobody's end is to be heard of.
LEMMA NoneEnded == Ended(<<>>) = {}
BY DEF Ended

LEMMA AccountTaken ==
  ASSUME Inv, NEW a \in Accounts, AccountConfigures(a) \/ AccountSyncs(a)
  PROVE  Promise!Next
<1>1. Alive /\ Ended(pending) = {} /\ UNCHANGED <<presence, enabled, queues, timer>>
  BY NoneEnded DEF AccountConfigures, AccountSyncs, Ready
<1>2. CASE AccountConfigures(a)
  <2>1. published' = published
    BY <1>2 DEF AccountConfigures
  <2>2. Promise!Asks
    BY <1>1, <2>1, UnseenTaken
  <2> QED BY <1>1, <2>2 DEF Promise!Next
<1>3. CASE AccountSyncs(a)
  <2>1. published' \in {published, IF IsSyncing THEN "syncing" ELSE WaitingState(syncQueue)}
    BY <1>3 DEF AccountSyncs
  <2>2. UNCHANGED <<syncQueue, offlineQueue, currentJob>>
    BY <1>1 DEF queues
  <2>3. /\ syncQueue \in Seq(Jobs) /\ currentJob \in CurrentJobs
        /\ IsValid(currentJob) => syncing
    BY DEF Inv, SyncOK, SyncTypes, JobHolds
  <2>4. published' = published
          \/ published' = Promise!Truth(currentJob'.acc, Line(syncQueue'))
    <3>1. IsSyncing <=> currentJob'.acc # NoAccount
      BY <2>2, <2>3, TurnOfJob DEF IsSyncing
    <3>2. Line(syncQueue') = <<>> <=> syncQueue = <<>>
      BY <2>2, <2>3, LineOf
    <3> QED BY <2>1, <3>1, <3>2 DEF Promise!Truth, WaitingState
  <2>5. Promise!Asks
    BY <1>1, <2>2, <2>3, <2>4, AddsNothing, AsksTaken
  <2> QED BY <1>1, <2>5 DEF Promise!Next
<1> QED BY <1>2, <1>3

LEMMA TimerTaken ==
  ASSUME Inv, Timeout \/ QuietEnds PROVE Promise!Next
<1>1. CASE Timeout
  <2>1. /\ Alive /\ pending = <<>> /\ timer /\ UNCHANGED <<presence, enabled>>
        /\ ContinueSync(syncQueue, offlineQueue, FALSE, ctl, dangling, <<>>)
    BY <1>1 DEF Timeout, NotByRequests, Ready
  <2>2. /\ syncQueue \in Seq(Jobs) /\ FALSE \in BOOLEAN
        /\ ctl \in ControlsOf /\ dangling \in SUBSET Accounts
        /\ <<>> \in Seq(PendingSignals) /\ PendingEnd(<<>>)
    BY DEF Inv, AccountsOK, SyncOK, SyncTypes, PendingEnd
  <2>3. AddsBehind(syncQueue, syncQueue, Promise!Entitled) /\ Promise!TurnIsFree
    BY <2>1, <2>2, AddsNothing DEF Promise!TurnIsFree
  <2>4. Promise!Starts \/ Promise!Ends
    BY <2>1, <2>2, <2>3, ContinueTaken
  <2> QED BY <2>1, <2>4 DEF Promise!Next
<1>2. CASE QuietEnds
  <2>1. Alive /\ UNCHANGED <<presence, enabled, queues, timer, published, pending>>
    BY <1>2 DEF QuietEnds, accountVars, Ready
  <2>2. Promise!Asks
    BY <2>1, UnseenTaken
  <2> QED BY <2>1, <2>2 DEF Promise!Next
<1> QED BY <1>1, <1>2

LEMMA ClientTaken ==
  ASSUME Inv, SyncAll \/ CancelAll \/ ClientAttaches PROVE Promise!Next
<1>1. /\ Alive /\ Ended(pending) = {}
      /\ UNCHANGED <<presence, enabled, queues, timer, published>>
  BY NoneEnded DEF SyncAll, CancelAll, ClientAttaches, External, Ready, accountVars
<1>2. Promise!Asks
  BY <1>1, UnseenTaken
<1> QED BY <1>1, <1>2 DEF Promise!Next

(* A line with its first one.                                              *)
LEMMA MembersOfRunning ==
  ASSUME NEW line \in Seq(Accounts), NEW a
  PROVE  LET waiting == IF a = NoAccount THEN line ELSE <<a>> \o line
         IN  /\ Promise!Members(line) \subseteq Promise!Members(waiting)
             /\ a # NoAccount => a \in Promise!Members(waiting)
<1> DEFINE long == <<a>> \o line
<1>1. /\ Len(long) = Len(line) + 1 /\ Len(line) \in Nat
      /\ long[1] = a /\ \A i \in 1 .. Len(line) : long[i + 1] = line[i]
  OBVIOUS
<1> HIDE DEF long
<1>2. \A i \in 1 .. Len(line) : i + 1 \in 1 .. Len(long) /\ long[i + 1] = line[i]
  BY <1>1
<1>3. 1 \in 1 .. Len(long) /\ long[1] = a
  BY <1>1
<1>4. Promise!Members(line) \subseteq Promise!Members(long) /\ a \in Promise!Members(long)
  BY <1>2, <1>3 DEF Promise!Members
<1> QED BY <1>4 DEF long

(* A job behind a queue is the first of the line behind it.                *)
LEMMA LineAppended ==
  ASSUME NEW q \in Seq(Jobs), NEW line \in Seq(Accounts)
  PROVE  \A job \in Jobs : Line(Append(q, job)) \o line = Line(q) \o (<<job.acc>> \o line)
<1> SUFFICES ASSUME NEW job \in Jobs
             PROVE  Line(Append(q, job)) \o line = Line(q) \o (<<job.acc>> \o line)
  OBVIOUS
<1>1. Append(q, job) \in Seq(Jobs) /\ Append(q, job) = q \o <<job>> /\ <<job>> \in Seq(Jobs)
  OBVIOUS
<1>2. Line(Append(q, job)) = Line(q) \o Line(<<job>>)
  BY <1>1, LineConcat
<1>3. Line(<<job>>) = <<job.acc>>
  BY DEF Line
<1> DEFINE x == Line(q)
           y == <<job.acc>>
<1>4. x \in Seq(Accounts) /\ y \in Seq(Accounts)
  <2>1. job.acc \in Accounts
    BY DEF Jobs
  <2> QED BY <2>1, LineOf
<1>5. Line(Append(q, job)) = x \o y
  BY <1>2, <1>3
<1> HIDE DEF x, y
<1>6. (x \o y) \o line = x \o (y \o line)
  BY <1>4, ConcatAssociative
<1> QED BY <1>5, <1>6 DEF x, y

LEMMA NetworkTaken ==
  ASSUME Inv, NetworkChanges PROVE Promise!Next
<1>1. /\ syncQueue \in Seq(Jobs) /\ offlineQueue \in Seq(Jobs) /\ currentJob \in CurrentJobs
      /\ ctl \in ControlsOf /\ (IsValid(currentJob) => syncing)
      /\ <<>> \in Seq(PendingSignals)
  BY DEF Inv, SyncOK, SyncTypes, AccountsOK, JobHolds
<1>2. /\ Alive /\ pending = <<>> /\ UNCHANGED <<presence, enabled>>
  BY DEF NetworkChanges, GoesOffline, GoesOnline, GoesPartial, External, Ready, accountVars
<1>3. CASE GoesOffline
  <2> DEFINE off == IF IsValid(currentJob) THEN PushJob(offlineQueue, currentJob)
                    ELSE offlineQueue
             early == IF IsValid(currentJob) THEN Append(offlineQueue, currentJob)
                      ELSE offlineQueue
             line == Line(syncQueue)
             waiting == IF currentJob.acc = NoAccount THEN line ELSE <<currentJob.acc>> \o line
             W == Promise!Members(waiting)
  <2>1. /\ SyncFinished(<<>>) /\ offlineQueue' = PushQueue(off, syncQueue)
    BY <1>3 DEF GoesOffline, Parked
  <2>2. \/ /\ IsValid(currentJob)
           /\ \E outcome \in OrStops(currentJob.acc, dangling,
                                     {CancelOutcome(ctl[currentJob.acc])}) :
                 Deliver(currentJob.acc, Silent(outcome.next), <<>>, ctl, dangling, <<>>)
        \/ pending' = pending
    BY <1>3 DEF GoesOffline
  <2>3. pending' = pending
    <3>1. ASSUME IsValid(currentJob),
                 NEW outcome \in OrStops(currentJob.acc, dangling,
                                         {CancelOutcome(ctl[currentJob.acc])}),
                 Deliver(currentJob.acc, Silent(outcome.next), <<>>, ctl, dangling, <<>>)
          PROVE  pending' = pending
      <4>1. currentJob.acc \in Accounts /\ ctl[currentJob.acc] \in Controls
        BY <1>1, <3>1, TurnOfJob DEF ControlsOf
      <4>2. Silent(outcome.next) \in Ending /\ Silent(outcome.next).signals = <<>>
        BY <4>1, CancelStops DEF Silent, Outcome
      <4> QED BY <1>1, <1>2, <3>1, <4>1, <4>2, DeliverEnds
    <3> QED BY <2>2, <3>1
  <2>4. /\ Promise!Members(line) \subseteq W
        /\ currentJob.acc # NoAccount => currentJob.acc \in W
    BY <1>1, MembersOfRunning, LineOf
  <2>5. /\ off \in Seq(Jobs) /\ AddsBehind(offlineQueue, off, W)
        /\ early \in Seq(Jobs) /\ KeepsLine(early, off)
    <3>1. CASE IsValid(currentJob)
      <4>1. currentJob \in Jobs /\ currentJob.acc \in W
        BY <1>1, <2>4, <3>1, TurnOfJob
      <4>2. /\ PushJob(offlineQueue, currentJob) \in Seq(Jobs)
            /\ AddsBehind(offlineQueue, PushJob(offlineQueue, currentJob), {currentJob.acc})
            /\ Append(offlineQueue, currentJob) \in Seq(Jobs)
            /\ KeepsLine(Append(offlineQueue, currentJob), PushJob(offlineQueue, currentJob))
        BY <1>1, <4>1, PushJobType, PushJobBehind, PushJobOrder
      <4> HIDE DEF W
      <4> QED BY <3>1, <4>1, <4>2 DEF AddsBehind
    <3>2. CASE ~IsValid(currentJob)
      <4> HIDE DEF W
      <4> QED BY <1>1, <3>2, AddsNothing DEF KeepsLine
    <3> QED BY <3>1, <3>2
  <2> HIDE DEF off
  <2> DEFINE A == {syncQueue[i].acc : i \in 1 .. Len(syncQueue)}
  <2>6. /\ offlineQueue' \in Seq(Jobs)
        /\ AddsBehind(off, offlineQueue', A)
        /\ KeepsLine(early \o syncQueue, offlineQueue')
    <3> HIDE DEF early
    <3> QED BY <1>1, <2>1, <2>5, PushQueueKeeps, PushQueueOrder
  <2>7. A \subseteq W
    BY <1>1, <2>4, LineMembers
  <2>8. Promise!Joined(Line(offlineQueue), Line(offlineQueue'), W)
    <3> HIDE DEF A, W
    <3>1. AddsBehind(offlineQueue, offlineQueue', W)
      BY <1>1, <2>5, <2>6, <2>7, AddsBehindTwice
    <3> QED BY <1>1, <2>6, <3>1, LineJoined
  <2>9. Promise!NoneOvertaken(Line(offlineQueue) \o waiting, Line(offlineQueue'))
    <3>1. Line(early \o syncQueue) = Line(early) \o line
      <4> HIDE DEF early
      <4> QED BY <1>1, <2>5, LineConcat
    <3>2. Line(early) \o line = Line(offlineQueue) \o waiting
      <4>1. CASE IsValid(currentJob)
        <5>1. currentJob \in Jobs /\ currentJob.acc # NoAccount /\ line \in Seq(Accounts)
          BY <1>1, <4>1, TurnOfJob, LineOf
        <5> HIDE DEF line
        <5>2. Line(Append(offlineQueue, currentJob)) \o line
                = Line(offlineQueue) \o (<<currentJob.acc>> \o line)
          BY <1>1, <5>1, LineAppended
        <5> QED BY <4>1, <5>1, <5>2
      <4>2. CASE ~IsValid(currentJob)
        BY <1>1, <4>2, TurnOfJob
      <4> QED BY <4>1, <4>2
    <3>3. early \o syncQueue \in Seq(Jobs)
      <4> HIDE DEF early
      <4> QED BY <1>1, <2>5
    <3>4. Promise!NoneOvertaken(Line(early \o syncQueue), Line(offlineQueue'))
      <4> HIDE DEF early
      <4> QED BY <2>6, <3>3, LineKept
    <3> QED BY <3>1, <3>2, <3>4
  <2>10. /\ syncQueue' = <<>> /\ timer' = FALSE /\ currentJob'.acc = NoAccount
         /\ published' = "idle"
    BY <1>1, <2>1, TurnOfJob DEF SyncFinished, WaitingState
  <2>11. Line(syncQueue') = <<>>
    <3>1. <<>> \in Seq(Jobs)
      OBVIOUS
    <3> QED BY <2>10, <3>1, LineOf
  <2> HIDE DEF A
  <2>12. Promise!Parks
    BY <1>2, <2>3, <2>8, <2>9, <2>10, <2>11, SameAccounts, Primed DEF Promise!Parks
  <2> QED BY <1>2, <2>12 DEF Promise!Next
<1>4. CASE GoesOnline
  <2> DEFINE A == {offlineQueue[i].acc : i \in 1 .. Len(offlineQueue)}
  <2>1. /\ syncQueue' = PushQueue(syncQueue, offlineQueue) /\ offlineQueue' = <<>>
        /\ timer' = (timer \/ (~syncing /\ syncQueue' # <<>>))
        /\ UNCHANGED <<currentJob, pending, published>>
    BY <1>4 DEF GoesOnline
  <2>2. /\ syncQueue' \in Seq(Jobs)
        /\ AddsBehind(syncQueue, syncQueue', A)
    BY <1>1, <2>1, PushQueueKeeps
  <2>3. A = Promise!Members(Line(offlineQueue))
    BY <1>1, LineMembers
  <2>4. Promise!NoneOvertaken(Line(syncQueue) \o Line(offlineQueue), Line(syncQueue'))
    BY <1>1, <2>1, LinePushed
  <2> HIDE DEF A
  <2>5. Promise!Joined(Line(syncQueue), Line(syncQueue'), A)
    BY <1>1, <2>2, LineJoined
  <2>6. Line(offlineQueue') = <<>>
    <3>1. <<>> \in Seq(Jobs)
      OBVIOUS
    <3> QED BY <2>1, <3>1, LineOf
  <2>7. ~syncing => currentJob.acc = NoAccount
    BY <1>1, TurnOfJob
  <2>8. Promise!Resumes
    BY <1>2, <2>1, <2>3, <2>4, <2>5, <2>6, <2>7, SameAccounts, Primed DEF Promise!Resumes
  <2> QED BY <1>2, <2>8 DEF Promise!Next
<1>5. CASE GoesPartial
  <2>1. UNCHANGED <<queues, timer, published, pending>>
    BY <1>5 DEF GoesPartial
  <2>2. Promise!Asks
    BY <1>2, <2>1, UnseenTaken
  <2> QED BY <1>2, <2>2 DEF Promise!Next
<1> QED BY <1>3, <1>4, <1>5 DEF NetworkChanges

LEMMA RequestsTaken ==
  ASSUME Inv, NEW a \in Accounts,
         \/ \E sources \in SUBSET Sources : SyncOne(a, sources)
         \/ \E s \in Sources : CalendarChanged(a, s)
  PROVE  Promise!Next
<1>1. /\ Alive /\ pending = <<>> /\ UNCHANGED <<presence, enabled>>
      /\ <<>> \in Seq(PendingSignals) /\ PendingEnd(<<>>) /\ Ended(<<>>) = Ended(pending)
  <2>1. Alive /\ pending = <<>>
    BY DEF SyncOne, CalendarChanged, External, Ready
  <2>2. UNCHANGED <<presence, enabled>>
    BY DEF SyncOne, CalendarChanged, NotByRequests
  <2> QED BY <2>1, <2>2 DEF PendingEnd
<1>2. ASSUME NEW sources \in SUBSET Sources, NEW runNow \in BOOLEAN,
             Request(a, sources, runNow, FALSE, <<>>)
      PROVE  Promise!Asks \/ Promise!Starts \/ Promise!Ends
  <2>1. FALSE \in BOOLEAN
    OBVIOUS
  <2> QED BY <1>1, <1>2, <2>1, RequestTaken
<1>3. ASSUME NEW s \in Sources, CalendarChanged(a, s)
      PROVE  Promise!Asks \/ Promise!Starts \/ Promise!Ends
  <2>1. CASE Request(a, {s}, FALSE, FALSE, <<>>)
    <3>1. {s} \in SUBSET Sources /\ FALSE \in BOOLEAN
      OBVIOUS
    <3> QED BY <1>2, <2>1, <3>1
  <2>2. CASE UNCHANGED <<queues, syncing, timer, ctl, dangling, pending,
                         frozen, quiet, wakelock, published>>
    BY <1>1, <2>2, UnseenTaken
  <2> QED BY <1>3, <2>1, <2>2 DEF CalendarChanged
<1>4. ASSUME NEW sources \in SUBSET Sources, SyncOne(a, sources)
      PROVE  Promise!Asks \/ Promise!Starts \/ Promise!Ends
  <2>1. Request(a, sources, TRUE, FALSE, <<>>) /\ TRUE \in BOOLEAN
    BY <1>4 DEF SyncOne
  <2> QED BY <1>2, <2>1
<1> QED BY <1>1, <1>3, <1>4 DEF Promise!Next

LEMMA AccountSetTaken ==
  ASSUME Inv, NEW a \in Accounts,
         \/ AddAccount(a) \/ RemoveAccount(a) \/ EnableAccount(a)
         \/ \E whole \in BOOLEAN : DisableAccount(a, whole)
  PROVE  Promise!Next
<1>1. Alive /\ pending = <<>>
  BY DEF AddAccount, RemoveAccount, EnableAccount, DisableAccount, External, Ready
<1>2. /\ presence \in [Accounts -> {"none", "known", "removed"}]
      /\ enabled \in [Accounts -> BOOLEAN]
      /\ syncQueue \in Seq(Jobs)
  BY DEF Inv, RestOK, SyncOK, SyncTypes
<1>3. Ended(<<Signal("request", a, <<>>)>>) = {} /\ Ended(<<>>) = {}
  BY NoneEnded DEF Ended, Signal
<1>4. CASE AddAccount(a) \/ EnableAccount(a)
  <2>1. /\ Ended(pending') = Ended(pending)
        /\ UNCHANGED <<syncQueue, offlineQueue, currentJob, timer, published>>
    BY <1>1, <1>3, <1>4 DEF AddAccount, EnableAccount, queues
  <2>2. Known' \in {Known, Known \cup {a}}
    <3>1. CASE AddAccount(a)
      <4>1. presence' = [presence EXCEPT ![a] = "known"]
        BY <3>1 DEF AddAccount
      <4>2. Known' = Known \cup {a}
        BY <1>2, <4>1 DEF Known
      <4> QED BY <4>2
    <3>2. CASE EnableAccount(a)
      BY <3>2 DEF EnableAccount, Known
    <3> QED BY <1>4, <3>1, <3>2
  <2>3. MayAsk' \in {MayAsk, MayAsk \cup {a}, MayAsk \ {a}}
    <3>1. PICK on \in BOOLEAN : enabled' = [enabled EXCEPT ![a] = on]
      BY <1>4 DEF AddAccount, EnableAccount
    <3>2. MayAsk' = IF on THEN MayAsk \cup {a} ELSE MayAsk \ {a}
      BY <1>2, <3>1 DEF MayAsk
    <3> QED BY <3>2
  <2>4. Line(syncQueue') = Line(syncQueue) /\ Line(offlineQueue') = Line(offlineQueue)
    BY <2>1
  <2>5. Promise!Admits(a)
    BY <2>1, <2>2, <2>3, <2>4, Primed DEF Promise!Admits
  <2> QED BY <1>1, <2>5 DEF Promise!Next
<1>5. ASSUME enabled' = [enabled EXCEPT ![a] = FALSE] PROVE MayAsk' = MayAsk \ {a}
  BY <1>2, <1>5 DEF MayAsk
<1>6. CASE RemoveAccount(a)
  <2>1. /\ a \in Known /\ presence' = [presence EXCEPT ![a] = "removed"]
        /\ enabled' = [enabled EXCEPT ![a] = FALSE] /\ Cancel(a)
    BY <1>6 DEF RemoveAccount
  <2>2. Known' = Known \ {a}
    BY <1>2, <2>1 DEF Known
  <2>3. Promise!Cancels(a)
    BY <1>1, <1>5, <2>1, <2>2, CancelTaken
  <2> QED BY <1>1, <2>3 DEF Promise!Next
<1>7. ASSUME NEW whole \in BOOLEAN, DisableAccount(a, whole) PROVE Promise!Next
  <2>1. /\ a \in Known /\ enabled' = [enabled EXCEPT ![a] = FALSE] /\ presence' = presence
    BY <1>7 DEF DisableAccount
  <2>2. Known' = Known
    BY <2>1 DEF Known
  <2>3. CASE Cancel(a)
    <3>1. Promise!Cancels(a)
      BY <1>1, <1>5, <2>1, <2>2, <2>3, CancelTaken
    <3> QED BY <1>1, <3>1 DEF Promise!Next
  <2>4. CASE UNCHANGED <<queues, syncing, timer, ctl, dangling, pending, eds, wakelock, published>>
    <3>1. UNCHANGED <<syncQueue, offlineQueue, currentJob, timer, pending, published>>
      BY <2>4 DEF queues
    <3>2. Promise!Thinned(Line(syncQueue), Line(syncQueue), a)
      BY <1>2, LeavesOutNothing, LineThinned
    <3>3. Line(syncQueue') = Line(syncQueue) /\ Line(offlineQueue') = Line(offlineQueue)
      BY <3>1
    <3>4. Promise!Cancels(a)
      BY <1>5, <2>1, <2>2, <3>1, <3>2, <3>3, Primed DEF Promise!Cancels, Promise!ShownTruly
    <3> QED BY <1>1, <3>4 DEF Promise!Next
  <2> QED BY <1>7, <2>3, <2>4 DEF DisableAccount
<1> QED BY <1>4, <1>6, <1>7

LEMMA RespawnTaken ==
  ASSUME Inv, Respawn PROVE Promise!Next
<1>1. /\ ~Alive /\ syncQueue' = <<>> /\ offlineQueue' = <<>> /\ currentJob' = NoJob
      /\ timer' = FALSE /\ pending' = <<>> /\ published' = "idle" /\ enabled' = enabled
      /\ presence' = [a \in Accounts |-> IF presence[a] = "known" THEN "known" ELSE "none"]
      /\ ctl' = [a \in Accounts |-> NewAccount]
  BY DEF Respawn
<1>2. Alive'
  <2>1. NewAccount # Dead
    <3>1. /\ Dead = [state |-> "Dead", config |-> "none", session |-> "none", late |-> FALSE]
          /\ NewAccount = [Dead EXCEPT !.state = "Idle"]
      BY DEF Dead, NewAccount
    <3> QED BY <3>1
  <2> QED BY <1>1, <2>1 DEF Alive
<1>3. Known' = Known /\ MayAsk' = MayAsk
  BY <1>1 DEF Known, MayAsk
<1>4. Line(syncQueue') = <<>> /\ Line(offlineQueue') = <<>> /\ Ended(pending') = {}
  <2>1. <<>> \in Seq(Jobs)
    OBVIOUS
  <2> QED BY <1>1, <2>1, LineOf, NoneEnded
<1>5. currentJob'.acc = NoAccount
  BY <1>1 DEF NoJob
<1>6. Promise!Restarts
  BY <1>1, <1>2, <1>3, <1>4, <1>5, Primed DEF Promise!Restarts
<1> QED BY <1>6 DEF Promise!Next

-----------------------------------------------------------------------------
LEMMA InitTaken == Init => Promise!Init
<1> SUFFICES ASSUME Init PROVE Promise!Init
  OBVIOUS
<1>1. /\ syncQueue = <<>> /\ offlineQueue = <<>> /\ currentJob = NoJob /\ timer = FALSE
      /\ pending = <<>> /\ published = "idle" /\ ctl = [a \in Accounts |-> NewAccount]
  BY DEF Init
<1>2. Alive
  <2>1. /\ Dead = [state |-> "Dead", config |-> "none", session |-> "none", late |-> FALSE]
        /\ NewAccount = [Dead EXCEPT !.state = "Idle"]
    BY DEF Dead, NewAccount
  <2>2. NewAccount # Dead
    BY <2>1
  <2> QED BY <1>1, <2>2 DEF Alive
<1>3. Line(syncQueue) = <<>> /\ Line(offlineQueue) = <<>> /\ Ended(pending) = {}
  <2>1. <<>> \in Seq(Jobs)
    OBVIOUS
  <2> QED BY <1>1, <2>1, LineOf, NoneEnded
<1>4. currentJob.acc = NoAccount /\ Known \in SUBSET Accounts /\ MayAsk \in SUBSET Accounts
  BY <1>1 DEF NoJob, Known, MayAsk
<1> QED BY <1>1, <1>2, <1>3, <1>4 DEF Promise!Init

LEMMA StutterTaken ==
  ASSUME UNCHANGED vars
  PROVE  UNCHANGED <<Alive, Known, MayAsk, currentJob.acc, Line(syncQueue), Line(offlineQueue),
                     timer, Ended(pending), published>>
<1>1. /\ UNCHANGED <<syncQueue, offlineQueue, currentJob, timer, presence, enabled, ctl,
                     pending, published>>
  BY DEF vars, queues, accountVars
<1>2. Alive' = Alive
  BY <1>1 DEF Alive
<1> QED BY <1>1, <1>2, SameAccounts, Primed

LEMMA NextTaken ==
  ASSUME Inv, [Next]_vars
  PROVE  [Promise!Next]_<<Alive, Known, MayAsk, currentJob.acc, Line(syncQueue),
                          Line(offlineQueue), timer, Ended(pending), published>>
<1>1. ASSUME NEW a \in Accounts,
             \/ \E sources \in SUBSET Sources : SyncOne(a, sources)
             \/ \E s \in Sources : CalendarChanged(a, s)
      PROVE  Promise!Next
  BY <1>1, RequestsTaken
<1>2. ASSUME NEW a \in Accounts,
             \/ AddAccount(a) \/ RemoveAccount(a) \/ EnableAccount(a)
             \/ \E whole \in BOOLEAN : DisableAccount(a, whole)
      PROVE  Promise!Next
  BY <1>2, AccountSetTaken
<1>3. CASE AccountProgress
  BY <1>3, AccountTaken DEF AccountProgress
<1>4. CASE UNCHANGED vars
  BY <1>4, StutterTaken
<1> QED BY <1>1, <1>2, <1>3, <1>4, SlotsTaken, TimerTaken, RespawnTaken, ClientTaken, NetworkTaken
    DEF Next

(* The daemon gives its turns as Scheduler promises it, for all accounts   *)
(* and sources: first come first served, one after the other, to none but  *)
(* those who asked, and what it publishes was true when it last changed.   *)
THEOREM DaemonSchedules == Spec => ImplementsScheduler
<1>1. Inv /\ [Next]_vars =>
        [Promise!Next]_<<Alive, Known, MayAsk, currentJob.acc, Line(syncQueue),
                         Line(offlineQueue), timer, Ended(pending), published>>
  BY NextTaken
<1> QED BY <1>1, InitTaken, Invariance, PTL DEF Spec, ImplementsScheduler, Promise!Spec
=============================================================================
