-------------------------- MODULE SyncDaemonProofs --------------------------
(***************************************************************************)
(* Theorems of SyncDaemon for every finite set of accounts and sources,    *)
(* every number of results and of events: the safety properties that the   *)
(* run checks, but for the refinement, which SyncDaemonRefinement has.     *)
(*                                                                         *)
(* They hold by one inductive invariant, Inv.  It has the types, what holds*)
(* while a job is current (JobHolds) and while the daemon is not syncing   *)
(* (IdleHolds), and, of the signals to deliver, that an error is followed  *)
(* by the end of the same sync (PendingEnd): the slot of the error gives up*)
(* the job, and what waits goes on only with the slot of the end.          *)
(*                                                                         *)
(* The first part is about the outcomes of accounts; the second about the  *)
(* parts that handlers are made of (SyncFinishedOK, StartJobOK,            *)
(* ContinueSyncOK, RequestOK, CancelOK); the third has one lemma for each  *)
(* kind of action, with everything the properties need to know of a step   *)
(* (Step), so that each step is looked at once.  The last part proves that *)
(* the daemon runs out of work: what Deliver, StartJob, ContinueSync and   *)
(* Request leave to do (...Work), and each action that is not external.    *)
(***************************************************************************)
EXTENDS SyncDaemon, SyncQueueProofs, FiniteSetTheorems

-----------------------------------------------------------------------------
(* The outcomes of accounts. *)

\* A "syncError" is followed by a "syncFinished".
NamesEnd(signals) ==
  \A i \in 1 .. Len(signals) :
    signals[i] = "syncError" => \E k \in i .. Len(signals) : signals[k] = "syncFinished"

Outcomes == [next : Controls, signals : Seq(Signals)]
Ending == {o \in Outcomes : NamesEnd(o.signals)}

LEMMA ControlTypes ==
  /\ Dead \in Controls /\ NewAccount \in Controls
  /\ \A c \in Controls :
       /\ \A state \in {"Configuring", "AboutToSync", "Syncing", "Idle", "Invalid"} :
            [c EXCEPT !.state = state] \in Controls
       /\ \A config \in {"none", "busy", "lost"} : [c EXCEPT !.config = config] \in Controls
       /\ \A session \in {"none", "open", "lost", "over"} : [c EXCEPT !.session = session] \in Controls
       /\ \A late \in BOOLEAN : [c EXCEPT !.late = late] \in Controls
BY DEF Dead, NewAccount, Controls

LEMMA SilentType ==
  ASSUME NEW c \in Controls PROVE Silent(c) \in Ending
BY DEF Silent, Outcome, Ending, Outcomes, NamesEnd

LEMMA SignalsEnd ==
  ASSUME NEW signals \in Seq(Signals)
  PROVE  /\ Append(signals, "syncFinished") \in Seq(Signals)
         /\ NamesEnd(Append(signals, "syncFinished"))
         /\ Append(signals, "resume") \in Seq(Signals)
         /\ NamesEnd(signals) => NamesEnd(Append(signals, "resume"))
<1>1. "syncFinished" \in Signals /\ "resume" \in Signals
  BY DEF Signals
<1>2. ASSUME NEW name \in Signals
      PROVE  /\ Append(signals, name) \in Seq(Signals)
             /\ Len(Append(signals, name)) = Len(signals) + 1
             /\ Append(signals, name)[Len(signals) + 1] = name
             /\ \A i \in 1 .. Len(signals) : Append(signals, name)[i] = signals[i]
  OBVIOUS
<1>3. NamesEnd(Append(signals, "syncFinished"))
  BY <1>1, <1>2 DEF NamesEnd
<1>4. ASSUME NamesEnd(signals) PROVE NamesEnd(Append(signals, "resume"))
  BY <1>1, <1>2, <1>4 DEF NamesEnd
<1> QED BY <1>1, <1>2, <1>3, <1>4

LEMMA FinishType ==
  ASSUME NEW c \in Controls, NEW signals \in Seq(Signals)
  PROVE  Finish(c, signals) \in Ending
<1>1. [c EXCEPT !.state = "Idle", !.session = "none",
                !.late = @ /\ c.session = "none"] \in Controls
  BY DEF Controls
<1> QED BY <1>1, SignalsEnd DEF Finish, Outcome, Ending, Outcomes

LEMMA ShortSignals == <<>> \in Seq(Signals) /\ <<"syncError">> \in Seq(Signals)
BY DEF Signals

LEMMA ConfigErrorType ==
  ASSUME NEW c \in Controls PROVE ConfigError(c) \in Ending
BY ControlTypes, FinishType, ShortSignals DEF ConfigError

LEMMA ContinueType ==
  ASSUME NEW c \in Controls PROVE Continue(c) \subseteq Ending
<1>1. /\ [c EXCEPT !.state = "Invalid"] \in Controls
      /\ [c EXCEPT !.late = FALSE] \in Controls
      /\ \A s \in MaySend : [c EXCEPT !.state = "AboutToSync", !.session = s] \in Controls
  BY DEF Controls, MaySend
<1> QED BY <1>1, ControlTypes, SilentType, FinishType, ShortSignals DEF Continue

LEMMA ConfiguredType ==
  ASSUME NEW c \in Controls PROVE Configured(c) \subseteq Ending
BY ControlTypes, ContinueType DEF Configured

LEMMA SyncOutcomesType ==
  ASSUME NEW c \in Controls PROVE SyncOutcomes(c) \subseteq Ending
<1>1. [c EXCEPT !.state = "Configuring", !.config = "busy"] \in Controls
  BY DEF Controls
<1> QED BY <1>1, SilentType, ContinueType, ConfigErrorType DEF SyncOutcomes

LEMMA CancelOutcomeType ==
  ASSUME NEW c \in Controls
  PROVE  CancelOutcome(c).next \in Controls
<1>1. [c EXCEPT !.state = "Idle", !.session = "none", !.late = c.session \in MaySend] \in Controls
  <2>1. (c.session \in MaySend) \in BOOLEAN
    OBVIOUS
  <2>2. \A late \in BOOLEAN :
          [c EXCEPT !.state = "Idle", !.session = "none", !.late = late] \in Controls
    BY DEF Controls
  <2> QED BY <2>1, <2>2
<1> QED BY <1>1 DEF CancelOutcome, Silent, Outcome

LEMMA ConfigOutcomesType ==
  ASSUME NEW c \in Controls PROVE ConfigOutcomes(c) \subseteq Ending
<1> DEFINE error == ConfigError(c)
           resumed == Outcome(error.next, Append(error.signals, "resume"))
<1>1. resumed \in Ending
  <2>1. error.next \in Controls /\ error.signals \in Seq(Signals) /\ NamesEnd(error.signals)
    BY ConfigErrorType DEF Ending, Outcomes
  <2> HIDE DEF error
  <2> QED BY <2>1, SignalsEnd DEF Outcome, Ending, Outcomes
<1>2. Silent([c EXCEPT !.config = "lost"]) \in Ending
  BY ControlTypes, SilentType
<1> QED BY <1>1, <1>2, ControlTypes, SilentType, ConfigErrorType, ConfiguredType
    DEF ConfigOutcomes

LEMMA StartedType ==
  ASSUME NEW c \in Controls PROVE Started(c) \in Ending
<1>1. [c EXCEPT !.state = "Syncing"] \in Controls
  BY ControlTypes
<1>2. <<"syncStarted">> \in Seq(Signals) /\ NamesEnd(<<"syncStarted">>)
  BY DEF Signals, NamesEnd
<1> QED BY <1>1, <1>2, SilentType DEF Started, Outcome, Ending, Outcomes

LEMMA SessionOutcomesType ==
  ASSUME NEW c \in Controls PROVE SessionOutcomes(c) \cup LateOutcomes(c) \subseteq Ending
<1>1. /\ [c EXCEPT !.session = "over"] \in Controls /\ [c EXCEPT !.session = "lost"] \in Controls
      /\ [c EXCEPT !.late = FALSE] \in Controls
  BY ControlTypes
<1> QED BY <1>1, SilentType, FinishType, ShortSignals, StartedType DEF SessionOutcomes, LateOutcomes

-----------------------------------------------------------------------------
(* Delivering an outcome. *)

PendingSignals ==
  [name : Signals \cup {"request"}, from : Accounts, results : Seq(ResultCodes)]

PendingEnd(signals) ==
  \A i \in 1 .. Len(signals) :
    signals[i].name = "syncError" =>
      \E k \in i .. Len(signals) : signals[k].name = "syncFinished"

Finishes(signals) == \E i \in 1 .. Len(signals) : signals[i].name = "syncFinished"

ControlsOf == [Accounts -> Controls]

AccountsOK ==
  /\ ctl \in ControlsOf
  /\ dangling \in SUBSET Accounts
  /\ pending \in Seq(PendingSignals)
  /\ PendingEnd(pending)

LEMMA ConcatEnds ==
  ASSUME NEW s \in Seq(PendingSignals), NEW rest \in Seq(PendingSignals), PendingEnd(rest)
  PROVE  /\ s \o rest \in Seq(PendingSignals)
         /\ PendingEnd(s) => PendingEnd(s \o rest)
         /\ Finishes(rest) => Finishes(s \o rest)
<1>1. /\ s \o rest \in Seq(PendingSignals)
      /\ Len(s \o rest) = Len(s) + Len(rest)
      /\ \A i \in 1 .. Len(s) : (s \o rest)[i] = s[i]
      /\ \A i \in 1 .. Len(rest) : (s \o rest)[Len(s) + i] = rest[i]
  OBVIOUS
<1>2. Len(s) \in Nat /\ Len(rest) \in Nat
  OBVIOUS
<1> DEFINE all == s \o rest
<1> HIDE DEF all
<1>3. ASSUME PendingEnd(s), NEW i \in 1 .. Len(all), all[i].name = "syncError"
      PROVE  \E k \in i .. Len(all) : all[k].name = "syncFinished"
  <2>1. CASE i <= Len(s)
    BY <1>1, <1>2, <1>3, <2>1 DEF PendingEnd, all
  <2>2. CASE i > Len(s)
    <3>1. i - Len(s) \in 1 .. Len(rest) /\ all[i] = rest[i - Len(s)]
      BY <1>1, <1>2, <1>3, <2>2 DEF all
    <3>2. PICK k \in (i - Len(s)) .. Len(rest) : rest[k].name = "syncFinished"
      BY <1>3, <3>1 DEF PendingEnd
    <3>3. Len(s) + k \in i .. Len(all) /\ all[Len(s) + k] = rest[k]
      BY <1>1, <1>2, <3>1, <3>2 DEF all
    <3> QED BY <3>2, <3>3
  <2> QED BY <1>1, <1>2, <1>3, <2>1, <2>2
<1>4. ASSUME Finishes(rest) PROVE Finishes(all)
  <2>1. PICK k \in 1 .. Len(rest) : rest[k].name = "syncFinished"
    BY <1>4 DEF Finishes
  <2>2. Len(s) + k \in 1 .. Len(all) /\ all[Len(s) + k] = rest[k]
    BY <1>1, <1>2, <2>1 DEF all
  <2> QED BY <2>1, <2>2 DEF Finishes
<1> QED BY <1>1, <1>3, <1>4 DEF PendingEnd, all

LEMMA DeliverType ==
  ASSUME NEW a \in Accounts, NEW outcome \in Ending, NEW results \in Seq(ResultCodes),
         NEW c \in ControlsOf, NEW d \in SUBSET Accounts,
         NEW rest \in Seq(PendingSignals), PendingEnd(rest),
         Deliver(a, outcome, results, c, d, rest)
  PROVE  AccountsOK' /\ (Finishes(rest) => Finishes(pending'))
<1> DEFINE heard == IF outcome.signals = <<"syncStarted">> THEN <<>> ELSE outcome.signals
           signals == [i \in DOMAIN heard |-> Signal(heard[i], a, results)]
<1>1. outcome.next \in Controls /\ heard \in Seq(Signals) /\ NamesEnd(heard)
  BY DEF Ending, Outcomes, NamesEnd
<1>2. ctl' \in ControlsOf /\ dangling' \in SUBSET Accounts
  BY <1>1, ControlTypes DEF Deliver, ControlsOf
<1>3. pending' = signals \o rest
  BY DEF Deliver
<1> HIDE DEF heard
<1>4. signals \in Seq(PendingSignals) /\ PendingEnd(signals)
  <2>1. Len(heard) \in Nat /\ DOMAIN heard = 1 .. Len(heard)
    BY <1>1
  <2>2. \A i \in 1 .. Len(heard) : heard[i] \in Signals
    BY <1>1
  <2>3. \A i \in 1 .. Len(heard) : signals[i] \in PendingSignals /\ signals[i].name = heard[i]
    BY <2>1, <2>2 DEF Signal, PendingSignals
  <2>4. signals = [i \in 1 .. Len(heard) |-> signals[i]]
    BY <2>1
  <2> HIDE DEF signals
  <2>5. signals \in Seq(PendingSignals) /\ Len(signals) = Len(heard)
    BY <2>1, <2>3, <2>4
  <2>6. ASSUME NEW i \in 1 .. Len(signals), signals[i].name = "syncError"
        PROVE  \E k \in i .. Len(signals) : signals[k].name = "syncFinished"
    <3>1. i \in 1 .. Len(heard) /\ heard[i] = "syncError"
      BY <2>3, <2>5, <2>6
    <3>2. PICK k \in i .. Len(heard) : heard[k] = "syncFinished"
      BY <1>1, <3>1 DEF NamesEnd
    <3>3. k \in 1 .. Len(heard) /\ k \in i .. Len(signals) /\ signals[k].name = heard[k]
      BY <2>1, <2>3, <2>5, <3>1, <3>2
    <3> QED BY <3>2, <3>3
  <2> QED BY <2>5, <2>6 DEF PendingEnd
<1> HIDE DEF signals
<1> QED BY <1>2, <1>3, <1>4, ConcatEnds DEF AccountsOK

LEMMA OrStopsType ==
  ASSUME NEW a, NEW d, NEW outcomes \in SUBSET Ending
  PROVE  OrStops(a, d, outcomes) \subseteq Ending
BY ControlTypes, SilentType DEF OrStops

LEMMA CancelStops ==
  ASSUME NEW a, NEW d, NEW c \in Controls, NEW outcome \in OrStops(a, d, {CancelOutcome(c)})
  PROVE  Silent(outcome.next) \in Ending
<1>1. outcome.next \in Controls
  BY CancelOutcomeType, ControlTypes DEF OrStops, Silent, Outcome
<1> QED BY <1>1, SilentType

LEMMA ConfigResultsType ==
  ASSUME NEW outcome PROVE ConfigResults(outcome) \subseteq Seq(ResultCodes)
<1>1. /\ <<"404">> \in Seq(ResultCodes) /\ <<"0">> \in Seq(ResultCodes)
      /\ <<>> \in Seq(ResultCodes)
  BY DEF ResultCodes, OkCodes, NoError, WhiteList, OtherErrors
<1> QED BY <1>1 DEF ConfigResults

LEMMA ResultListsType == ResultLists \subseteq Seq(ResultCodes)
<1> SUFFICES ASSUME NEW results \in ResultLists PROVE results \in Seq(ResultCodes)
  OBVIOUS
<1>1. PICK n \in 0 .. MaxResults : results \in [1 .. n -> {"0", "200", "500", "404"}]
  BY DEF ResultLists
<1>2. {"0", "200", "500", "404"} \subseteq ResultCodes
  BY DEF ResultCodes, OkCodes, NoError, WhiteList, OtherErrors
<1>3. n \in Nat /\ results \in [1 .. n -> ResultCodes]
  BY <1>1, <1>2, DaemonConstants
<1> QED BY <1>3

-----------------------------------------------------------------------------
(* The changes that EdsHelper flushes. *)

LEMMA OrdersAreSequences ==
  ASSUME NEW S, IsFiniteSet(S), NEW order \in SeqExt!SetToSeqs(S)
  PROVE  order \in Seq(S) /\ Len(order) = Cardinality(S)
<1>1. Cardinality(S) \in Nat
  BY FS_CardinalityType
<1>2. order \in [1 .. Cardinality(S) -> S]
  <2>1. SeqExt!Cardinality(S) = Cardinality(S)
    BY DEF SeqExt!Cardinality, Cardinality
  <2> QED BY <2>1 DEF SeqExt!SetToSeqs
<1> QED BY <1>1, <1>2

IsFlushed(f, q, order, mobile) ==
  f = [i \in 0 .. Len(order) |->
        LET a == order[i][1]
            s == order[i][2]
            ignored == \/ presence[a] # "known"
                       \/ ~enabled[a]
                       \/ JobContains(currentJob, a, {s})
                       \/ Contains(f[i - 1], a, {s})
        IN  IF i = 0 THEN q
            ELSE IF ignored THEN f[i - 1]
            ELSE Push(f[i - 1], a, {s}, mobile)]

LEMMA FlushedUnfolds ==
  ASSUME NEW q, NEW order, NEW mobile, \E f : IsFlushed(f, q, order, mobile)
  PROVE  \E f : IsFlushed(f, q, order, mobile) /\ Flushed(q, order, mobile) = f[Len(order)]
BY DEF Flushed, IsFlushed

LEMMA FlushedKeeps ==
  ASSUME NEW q \in Seq(Jobs), NEW order \in Seq(Accounts \X Sources), NEW mobile \in BOOLEAN
  PROVE  /\ Flushed(q, order, mobile) \in Seq(Jobs)
         /\ \A a \in Accounts : Waits(q, a) => Waits(Flushed(q, order, mobile), a)
         /\ AddsBehind(q, Flushed(q, order, mobile), MayAsk)
         /\ Len(Flushed(q, order, mobile)) <= Len(q) + Len(order)
<1> DEFINE n == Len(order)
           S == Seq(Jobs)
           acc(i) == order[i][1]
           source(i) == order[i][2]
           Ignored(i, r) == \/ presence[acc(i)] # "known"
                            \/ ~enabled[acc(i)]
                            \/ JobContains(currentJob, acc(i), {source(i)})
                            \/ Contains(r, acc(i), {source(i)})
           Taken(i, r) == IF Ignored(i, r) THEN r ELSE Push(r, acc(i), {source(i)}, mobile)
           step == [x \in (1 .. n) \X S |-> Taken(x[1], x[2])]
<1>1. ASSUME NEW i \in 1 .. n, NEW r \in S
      PROVE  /\ Taken(i, r) \in S
             /\ \A a \in Accounts : Waits(r, a) => Waits(Taken(i, r), a)
             /\ AddsBehind(r, Taken(i, r), MayAsk)
             /\ Len(Taken(i, r)) <= Len(r) + 1
  <2>1. acc(i) \in Accounts /\ {source(i)} \in SUBSET Sources
    <3>1. order[i] \in Accounts \X Sources
      OBVIOUS
    <3> QED BY <3>1
  <2>2. ~Ignored(i, r) => acc(i) \in MayAsk
    BY <2>1 DEF MayAsk
  <2> HIDE DEF acc, source, Ignored
  <2> DEFINE pushed == Push(r, acc(i), {source(i)}, mobile)
  <2>3. /\ pushed \in S
        /\ \A a \in Accounts : Waits(r, a) => Waits(pushed, a)
        /\ AddsBehind(r, pushed, {acc(i)})
        /\ Len(pushed) <= Len(r) + 1
    BY <2>1, PushKeeps
  <2>4. AddsBehind(r, r, MayAsk)
    BY AddsNothing
  <2>5. ASSUME acc(i) \in MayAsk PROVE AddsBehind(r, pushed, MayAsk)
    BY <2>3, <2>5 DEF AddsBehind
  <2> HIDE DEF pushed
  <2>6. Taken(i, r) = IF Ignored(i, r) THEN r ELSE pushed
    BY DEF pushed
  <2> HIDE DEF Taken
  <2> QED BY <2>2, <2>3, <2>4, <2>5, <2>6
<1> HIDE DEF Taken
<1>2. step \in [(1 .. n) \X S -> S]
  <2>1. \A x \in (1 .. n) \X S : Taken(x[1], x[2]) \in S
    BY <1>1
  <2> QED BY <2>1
<1>3. \A i \in 1 .. n, r \in S : step[<<i, r>>] = Taken(i, r)
  OBVIOUS
<1>4. PICK f : IsIteration(f, n, q, step, S)
  <2>1. q \in S /\ n \in Nat
    OBVIOUS
  <2> HIDE DEF n, S, step
  <2> QED BY <1>2, <2>1, IterationExists
<1>5. IsFlushed(f, q, order, mobile)
  <2>1. \A i \in 0 .. n : f[i] = IF i = 0 THEN q ELSE Taken(i, f[i - 1])
    <3> HIDE DEF step
    <3> SUFFICES ASSUME NEW i \in 0 .. n, i # 0 PROVE f[i] = Taken(i, f[i - 1])
      BY <1>4 DEF IsIteration
    <3>1. i \in 1 .. n /\ i - 1 \in 0 .. n
      OBVIOUS
    <3>2. f[i - 1] \in S
      BY <1>4, <3>1 DEF IsIteration
    <3> QED BY <1>3, <1>4, <3>1, <3>2 DEF IsIteration
  <2>2. f = [i \in 0 .. n |-> f[i]]
    BY <1>4 DEF IsIteration
  <2>3. f = [i \in 0 .. n |-> IF i = 0 THEN q ELSE Taken(i, f[i - 1])]
    BY <2>1, <2>2
  <2> QED BY <2>3, Zenon DEF IsFlushed, Taken
<1>6. PICK g : IsFlushed(g, q, order, mobile) /\ Flushed(q, order, mobile) = g[n]
  BY <1>5, FlushedUnfolds
<1>7. g[0] = q /\ \A i \in 1 .. n : g[i] = Taken(i, g[i - 1])
  <2>1. 0 \in 0 .. n /\ \A i \in 1 .. n : i \in 0 .. n /\ i # 0
    OBVIOUS
  <2>2. \A i \in 0 .. n : g[i] = IF i = 0 THEN q ELSE Taken(i, g[i - 1])
    BY <1>6, Zenon DEF IsFlushed, Taken
  <2> QED BY <2>1, <2>2
<1> DEFINE Good == {i \in 0 .. n :
      /\ g[i] \in S /\ \A a \in Accounts : Waits(q, a) => Waits(g[i], a)
      /\ AddsBehind(q, g[i], MayAsk)
      /\ Len(g[i]) <= Len(q) + i}
<1>8. 0 \in Good
  BY <1>7, AddsNothing
<1>9. ASSUME NEW i \in 1 .. n, i - 1 \in Good PROVE i \in Good
  <2>1. /\ g[i] \in S /\ \A a \in Accounts : Waits(g[i - 1], a) => Waits(g[i], a)
        /\ AddsBehind(g[i - 1], g[i], MayAsk)
        /\ Len(g[i]) <= Len(g[i - 1]) + 1
    BY <1>1, <1>7, <1>9
  <2>2. AddsBehind(q, g[i], MayAsk)
    BY <1>9, <2>1, AddsBehindTwice
  <2>3. Len(g[i]) <= Len(q) + i
    <3>1. /\ Len(g[i - 1]) <= Len(q) + (i - 1) /\ g[i - 1] \in S /\ g[i] \in S
          /\ i \in Nat
      BY <1>9, <2>1
    <3>2. Len(g[i - 1]) \in Nat /\ Len(g[i]) \in Nat /\ Len(q) \in Nat
      BY <3>1
    <3> QED BY <2>1, <3>1, <3>2
  <2> QED BY <1>9, <2>1, <2>2, <2>3
<1>10. n \in Good
  <2>1. Good \in SUBSET Nat /\ n \in Nat
    OBVIOUS
  <2> HIDE DEF Good, n
  <2> QED BY <1>8, <1>9, <2>1, UpTo
<1> QED BY <1>6, <1>10

-----------------------------------------------------------------------------
(* The parts of handlers. *)

CurrentJobs == Jobs \cup {[NoJob EXCEPT !.paid = paid] : paid \in BOOLEAN}

SyncTypes ==
  /\ syncQueue \in Seq(Jobs) /\ offlineQueue \in Seq(Jobs) /\ currentJob \in CurrentJobs
  /\ syncing \in BOOLEAN /\ timer \in BOOLEAN
  /\ frozen \in BOOLEAN /\ quiet \in BOOLEAN /\ changes \in SUBSET (Accounts \X Sources)
  /\ wakelock \in BOOLEAN /\ published \in {"idle", "pending", "syncing"}

JobHolds == IsValid(currentJob) => syncing /\ frozen /\ wakelock /\ published = "syncing"

IdleHolds ==
  ~syncing => /\ ~IsValid(currentJob) /\ ~timer /\ ~wakelock /\ ~frozen
              /\ published # "syncing"

SyncOK == SyncTypes /\ JobHolds /\ IdleHolds

\* There is work, and something that goes on with it.
Work == syncing \/ syncQueue # <<>>
GoesOn == timer \/ IsValid(currentJob) \/ Finishes(pending)

WaitsFor(a) == Waits(syncQueue, a) \/ Waits(offlineQueue, a)
Keeps(a) == WaitsFor(a) => currentJob'.acc = a \/ WaitsFor(a)'

\* Only a job that the network allows becomes current.
StartsOnLine == IsValid(currentJob') => currentJob' = currentJob \/ IsOnLine(currentJob')

LEMMA ClearedJob ==
  ASSUME NEW job \in CurrentJobs
  PROVE  ClearJob(job) \in CurrentJobs /\ ~IsValid(ClearJob(job))
<1>1. job.paid \in BOOLEAN
  BY DEF CurrentJobs, Jobs, NoJob
<1>2. \A paid \in BOOLEAN :
        [NoJob EXCEPT !.paid = paid] = [acc |-> NoAccount, srcs |-> {}, paid |-> paid]
  BY DEF NoJob
<1> QED BY <1>1, <1>2 DEF ClearJob, CurrentJobs, IsValid

LEMMA SyncFinishedOK ==
  ASSUME NEW q \in Seq(Jobs), currentJob \in CurrentJobs, offlineQueue' \in Seq(Jobs),
         SyncFinished(q)
  PROVE  SyncOK' /\ syncQueue' = q /\ ~IsValid(currentJob') /\ ~syncing'
<1>1. currentJob' \in CurrentJobs /\ ~IsValid(currentJob')
  BY ClearedJob DEF SyncFinished
<1>2. /\ syncQueue' = q /\ changes' = {} /\ frozen' = FALSE /\ quiet' = TRUE
      /\ wakelock' = FALSE /\ timer' = FALSE /\ syncing' = FALSE
      /\ published' \in {"idle", "pending"}
  BY DEF SyncFinished, Unfreeze, Unlock, WaitingState
<1> QED BY <1>1, <1>2 DEF SyncOK, SyncTypes, JobHolds, IdleHolds

LEMMA StartJobOK ==
  ASSUME NEW job \in Jobs, NEW q \in Seq(Jobs), NEW off \in Seq(Jobs),
         NEW c \in ControlsOf, NEW d \in SUBSET Accounts,
         NEW rest \in Seq(PendingSignals), PendingEnd(rest),
         SyncOK, timer' \in BOOLEAN, StartJob(job, q, off, c, d, rest)
  PROVE  /\ SyncOK' /\ AccountsOK' /\ currentJob' = job /\ IsValid(job) /\ syncing'
         /\ \A a \in Accounts : Waits(q, a) => Waits(syncQueue', a)
         /\ \A a \in Accounts :
              Waits(off, a) /\ a # job.acc => Waits(offlineQueue', a)
         /\ AddsBehind(q, syncQueue', MayAsk)
         /\ LeavesOut(off, offlineQueue', job.acc)
<1>1. job.acc \in Accounts /\ IsValid(job)
  BY JobSources
<1>2. PICK order \in SeqExt!SetToSeqs(changes), mobile \in BOOLEAN :
        syncQueue' = Flushed(q, order, mobile)
  BY DEF StartJob
<1>3. order \in Seq(Accounts \X Sources)
  <2>1. changes \in SUBSET (Accounts \X Sources) /\ IsFiniteSet(Accounts \X Sources)
    BY DaemonConstants, FS_Product DEF SyncOK, SyncTypes
  <2>2. IsFiniteSet(changes)
    BY <2>1, FS_Subset
  <2>3. order \in Seq(changes)
    BY <2>2, OrdersAreSequences
  <2> QED BY <2>1, <2>3
<1>4. /\ syncQueue' \in Seq(Jobs)
      /\ \A a \in Accounts : Waits(q, a) => Waits(syncQueue', a)
      /\ AddsBehind(q, syncQueue', MayAsk)
  BY <1>2, <1>3, FlushedKeeps
<1>5. /\ offlineQueue' \in Seq(Jobs)
      /\ \A a \in Accounts : Waits(off, a) /\ a # job.acc => Waits(offlineQueue', a)
      /\ LeavesOut(off, offlineQueue', job.acc)
  BY <1>1, RemoveKeeps DEF StartJob, RemoveJob
<1>6. /\ currentJob' = job /\ syncing' = TRUE /\ changes' = {} /\ frozen' = TRUE
      /\ quiet' = quiet /\ wakelock' = TRUE /\ published' = "syncing"
  BY DEF StartJob, Freeze, Lock
<1>7. SyncOK'
  BY <1>1, <1>4, <1>5, <1>6 DEF SyncOK, SyncTypes, JobHolds, IdleHolds, CurrentJobs
<1>8. AccountsOK'
  <2>1. PICK outcome \in OrStops(job.acc, d, SyncOutcomes(c[job.acc])) :
          \E results \in ConfigResults(outcome) :
            Deliver(job.acc, outcome, results, c, d, rest)
    BY DEF StartJob
  <2>2. PICK results \in ConfigResults(outcome) :
          Deliver(job.acc, outcome, results, c, d, rest)
    BY <2>1
  <2>3. outcome \in Ending
    BY <1>1, SyncOutcomesType, OrStopsType DEF ControlsOf
  <2>4. results \in Seq(ResultCodes)
    BY ConfigResultsType
  <2> QED BY <1>1, <2>2, <2>3, <2>4, DeliverType
<1> QED BY <1>1, <1>4, <1>5, <1>6, <1>7, <1>8

LEMMA ContinueSyncOK ==
  ASSUME NEW q \in Seq(Jobs), NEW off \in Seq(Jobs), NEW timerAfter \in BOOLEAN,
         NEW c \in ControlsOf, NEW d \in SUBSET Accounts,
         NEW rest \in Seq(PendingSignals), PendingEnd(rest),
         SyncOK, ContinueSync(q, off, timerAfter, c, d, rest)
  PROVE  /\ SyncOK' /\ AccountsOK' /\ StartsOnLine
         /\ Work' => GoesOn'
         /\ \A a \in Accounts :
              Waits(q, a) \/ Waits(off, a) => currentJob'.acc = a \/ WaitsFor(a)'
<1> DEFINE job == PopNext(q)
<1>1. AfterPop(q) \in Seq(Jobs) /\ (IsValid(job) => job \in Jobs)
  BY PopKeeps DEF NoJob, IsValid
<1>2. \A a \in Accounts : Waits(q, a) => IsValid(job) /\ (job.acc = a \/ Waits(AfterPop(q), a))
  <2> SUFFICES ASSUME NEW a \in Accounts, Waits(q, a)
               PROVE  IsValid(job) /\ (job.acc = a \/ Waits(AfterPop(q), a))
    OBVIOUS
  <2>1. PICK i \in 1 .. Len(q) : q[i].acc = a
    BY DEF Waits
  <2>2. q # <<>> /\ job = q[1] /\ job \in Jobs /\ AfterPop(q) = Tail(q)
    BY <2>1 DEF PopNext, AfterPop
  <2>3. CASE i > 1
    <3>1. i - 1 \in 1 .. Len(Tail(q)) /\ Tail(q)[i - 1] = q[i]
      BY <2>1, <2>2, <2>3
    <3> QED BY <2>1, <2>2, <3>1, JobSources DEF Waits
  <2> QED BY <2>1, <2>2, <2>3, JobSources
<1>3. CASE IsValid(job) /\ IsOnLine(job) /\ timer' = timerAfter
           /\ StartJob(job, AfterPop(q), off, c, d, rest)
  <2>1. /\ SyncOK' /\ AccountsOK' /\ currentJob' = job /\ syncing'
        /\ \A a \in Accounts : Waits(AfterPop(q), a) => Waits(syncQueue', a)
        /\ \A a \in Accounts : Waits(off, a) /\ a # job.acc => Waits(offlineQueue', a)
    BY <1>1, <1>3, StartJobOK
  <2>2. StartsOnLine /\ GoesOn'
    BY <1>3, <2>1 DEF StartsOnLine, GoesOn
  <2>3. \A a \in Accounts :
          Waits(q, a) \/ Waits(off, a) => currentJob'.acc = a \/ WaitsFor(a)'
    BY <1>2, <2>1 DEF WaitsFor
  <2> QED BY <2>1, <2>2, <2>3
<1>4. CASE /\ ~(IsValid(job) /\ IsOnLine(job))
           /\ offlineQueue' = IF IsOnLine(job) THEN off ELSE Parked(off, q)
           /\ SyncFinished(<<>>)
           /\ ctl' = c /\ dangling' = d /\ pending' = rest
  <2>1. /\ Parked(off, q) \in Seq(Jobs)
        /\ \A a \in Accounts : Waits(off, a) => Waits(Parked(off, q), a)
        /\ \A a \in Accounts : Waits(q, a) => Waits(Parked(off, q), a)
    <3>1. /\ PushQueue(off, q) \in Seq(Jobs)
          /\ \A a \in Accounts : Waits(off, a) => Waits(PushQueue(off, q), a)
          /\ \A i \in 1 .. Len(q) : Waits(PushQueue(off, q), q[i].acc)
      BY PushQueueKeeps
    <3> QED BY <3>1 DEF Parked, Waits
  <2>2. offlineQueue' \in Seq(Jobs)
    BY <1>4, <2>1
  <2>3. SyncOK' /\ syncQueue' = <<>> /\ ~IsValid(currentJob') /\ ~syncing'
    <3>1. <<>> \in Seq(Jobs) /\ currentJob \in CurrentJobs
      BY DEF SyncOK, SyncTypes
    <3> QED BY <1>4, <2>2, <3>1, SyncFinishedOK
  <2>4. AccountsOK'
    BY <1>4 DEF AccountsOK
  <2>5. \A a \in Accounts : Waits(q, a) \/ Waits(off, a) => Waits(offlineQueue', a)
    BY <1>2, <1>4, <2>1
  <2> QED BY <2>3, <2>4, <2>5 DEF StartsOnLine, Work, WaitsFor
<1> QED BY <1>3, <1>4 DEF ContinueSync

\* Work that something goes on with stays so, and jobs that wait stay, but for the
\* cancel of an account.
StaysDriven == (Work => GoesOn) => (Work' => GoesOn')

Cancelled(a) == (enabled[a] /\ ~enabled'[a]) \/ presence'[a] # presence[a]

LEMMA RequestOK ==
  ASSUME NEW a \in Accounts, NEW sources \in SUBSET Sources, NEW runNow \in BOOLEAN,
         NEW syncOnMobile \in BOOLEAN, NEW rest \in Seq(PendingSignals), PendingEnd(rest),
         Finishes(pending) => Finishes(rest),
         SyncOK, AccountsOK, Request(a, sources, runNow, syncOnMobile, rest)
  PROVE  /\ SyncOK' /\ AccountsOK' /\ StartsOnLine /\ StaysDriven
         /\ IsValid(currentJob) => currentJob' = currentJob
         /\ \A b \in Accounts : Keeps(b)
<1> DEFINE new == {s \in sources : ~Contains(syncQueue, a, {s})}
           q(setting) == Push(syncQueue, a, new, syncOnMobile \/ setting)
<1>1. ASSUME NEW setting \in BOOLEAN
      PROVE  /\ q(setting) \in Seq(Jobs)
             /\ \A b \in Accounts : Waits(syncQueue, b) => Waits(q(setting), b)
  <2>1. new \in SUBSET Sources /\ (syncOnMobile \/ setting) \in BOOLEAN
    OBVIOUS
  <2> HIDE DEF new
  <2> QED BY <2>1, PushKeeps DEF SyncOK, SyncTypes
<1>2. CASE /\ pending' = rest
           /\ UNCHANGED <<queues, syncing, timer, ctl, dangling, eds, wakelock, published>>
  <2>1. /\ UNCHANGED <<syncQueue, offlineQueue, currentJob, syncing, timer, ctl, dangling>>
        /\ UNCHANGED <<frozen, quiet, changes, wakelock, published>>
    BY <1>2 DEF queues, eds
  <2> QED BY <1>2, <2>1 DEF SyncOK, SyncTypes, JobHolds, IdleHolds, AccountsOK, StartsOnLine,
                            StaysDriven, Work, GoesOn, Keeps, WaitsFor
<1>3. ASSUME NEW setting \in BOOLEAN, runNow /\ ~IsSyncing,
             ContinueSync(q(setting), offlineQueue, FALSE, ctl, dangling, rest)
      PROVE  /\ SyncOK' /\ AccountsOK' /\ StartsOnLine /\ StaysDriven
             /\ IsValid(currentJob) => currentJob' = currentJob
             /\ \A b \in Accounts : Keeps(b)
  <2>1. ~IsValid(currentJob)
    BY <1>3 DEF IsSyncing, SyncOK, JobHolds
  <2>2. /\ offlineQueue \in Seq(Jobs) /\ FALSE \in BOOLEAN
        /\ ctl \in ControlsOf /\ dangling \in SUBSET Accounts
    BY DEF SyncOK, SyncTypes, AccountsOK
  <2>3. q(setting) \in Seq(Jobs)
    BY <1>1
  <2> HIDE DEF q
  <2>4. /\ SyncOK' /\ AccountsOK' /\ StartsOnLine /\ (Work' => GoesOn')
        /\ \A b \in Accounts : Waits(q(setting), b) \/ Waits(offlineQueue, b) =>
              currentJob'.acc = b \/ WaitsFor(b)'
    BY <1>3, <2>2, <2>3, ContinueSyncOK
  <2> QED BY <1>1, <2>1, <2>4 DEF StaysDriven, Keeps, WaitsFor
<1>4. ASSUME NEW setting \in BOOLEAN, ~syncing,
             /\ syncQueue' = q(setting)
             /\ syncing' = TRUE /\ timer' = TRUE
             /\ Lock /\ published' = "pending"
             /\ pending' = rest
             /\ UNCHANGED <<offlineQueue, currentJob, ctl, dangling, eds>>
      PROVE  /\ SyncOK' /\ AccountsOK' /\ StartsOnLine /\ StaysDriven
             /\ IsValid(currentJob) => currentJob' = currentJob
             /\ \A b \in Accounts : Keeps(b)
  <2>1. UNCHANGED <<frozen, quiet, changes>> /\ wakelock' = TRUE
    BY <1>4 DEF eds, Lock
  <2>2. SyncOK'
    BY <1>1, <1>4, <2>1 DEF SyncOK, SyncTypes, JobHolds, IdleHolds
  <2> QED BY <1>1, <1>4, <2>2 DEF AccountsOK, StartsOnLine, StaysDriven, GoesOn, Keeps, WaitsFor
<1>5. ASSUME NEW setting \in BOOLEAN, IF runNow THEN IsSyncing ELSE syncing,
             /\ syncQueue' = q(setting)
             /\ pending' = rest
             /\ UNCHANGED <<offlineQueue, currentJob, syncing, timer, ctl, dangling,
                            eds, wakelock, published>>
      PROVE  /\ SyncOK' /\ AccountsOK' /\ StartsOnLine /\ StaysDriven
             /\ IsValid(currentJob) => currentJob' = currentJob
             /\ \A b \in Accounts : Keeps(b)
  <2>1. UNCHANGED <<frozen, quiet, changes>> /\ syncing
    BY <1>5 DEF eds, IsSyncing
  <2>2. SyncOK'
    BY <1>1, <1>5, <2>1 DEF SyncOK, SyncTypes, JobHolds, IdleHolds
  <2> QED BY <1>1, <1>5, <2>1, <2>2
          DEF AccountsOK, StartsOnLine, StaysDriven, Work, GoesOn, Keeps, WaitsFor
<1> QED BY <1>2, <1>3, <1>4, <1>5 DEF Request

LEMMA CancelOK ==
  ASSUME NEW a \in Accounts, SyncOK, AccountsOK, Cancel(a)
  PROVE  /\ SyncOK' /\ AccountsOK' /\ StartsOnLine
         /\ IsValid(currentJob') => currentJob' = currentJob
         /\ \A b \in Accounts \ {a} : Keeps(b)
<1> DEFINE q == Remove(syncQueue, a, {})
<1>1. /\ q \in Seq(Jobs)
      /\ \A b \in Accounts : b # a /\ Waits(syncQueue, b) => Waits(q, b)
  BY RemoveKeeps DEF SyncOK, SyncTypes
<1> HIDE DEF q
<1>2. PICK outcome \in OrStops(a, dangling, {CancelOutcome(ctl[a])}) :
        /\ Deliver(a, Silent(outcome.next), <<>>, ctl, dangling, <<>>)
        /\ \/ SyncFinished(q)
           \/ /\ syncQueue' = q
              /\ currentJob' = IF currentJob.acc = a THEN ClearJob(currentJob) ELSE currentJob
              /\ UNCHANGED <<syncing, timer, eds, wakelock, published>>
        /\ UNCHANGED offlineQueue
  BY DEF Cancel, q
<1>3. AccountsOK'
  <2>1. ctl \in ControlsOf /\ ctl[a] \in Controls /\ dangling \in SUBSET Accounts
    BY DEF AccountsOK, ControlsOf
  <2>2. <<>> \in Seq(PendingSignals) /\ PendingEnd(<<>>) /\ <<>> \in Seq(ResultCodes)
    BY DEF PendingEnd
  <2>3. Silent(outcome.next) \in Ending
    BY <2>1, CancelStops
  <2> QED BY <1>2, <2>1, <2>2, <2>3, DeliverType
<1>4. offlineQueue' \in Seq(Jobs) /\ currentJob \in CurrentJobs
  BY <1>2 DEF SyncOK, SyncTypes
<1>5. CASE SyncFinished(q)
  <2>1. SyncOK' /\ syncQueue' = q /\ ~IsValid(currentJob')
    BY <1>1, <1>4, <1>5, SyncFinishedOK
  <2> QED BY <1>1, <1>2, <1>3, <2>1 DEF StartsOnLine, Keeps, WaitsFor
<1>6. CASE /\ syncQueue' = q
           /\ currentJob' = IF currentJob.acc = a THEN ClearJob(currentJob) ELSE currentJob
           /\ UNCHANGED <<syncing, timer, eds, wakelock, published>>
  <2>1. currentJob' \in CurrentJobs /\ (IsValid(currentJob') => currentJob' = currentJob)
    BY <1>4, <1>6, ClearedJob
  <2>2. UNCHANGED <<frozen, quiet, changes>>
    BY <1>6 DEF eds
  <2>3. SyncOK'
    BY <1>1, <1>4, <1>6, <2>1, <2>2 DEF SyncOK, SyncTypes, JobHolds, IdleHolds
  <2> QED BY <1>1, <1>2, <1>3, <1>6, <2>1, <2>3 DEF StartsOnLine, Keeps, WaitsFor
<1> QED BY <1>2, <1>5, <1>6

-----------------------------------------------------------------------------
(* The invariant, and what a step does. *)

RestOK ==
  /\ network \in NetworkStates /\ attached \in BOOLEAN
  /\ presence \in [Accounts -> {"none", "known", "removed"}]
  /\ enabled \in [Accounts -> BOOLEAN] /\ failed \in [Accounts -> BOOLEAN]
  /\ events \in 0 .. MaxEvents

Inv == SyncOK /\ AccountsOK /\ RestOK

OneRuns ==
  IsValid(currentJob) /\ IsValid(currentJob') /\ currentJob' # currentJob =>
    (pending # <<>> /\ Head(pending).name = "syncFinished") \/ timer

Step ==
  /\ Alive
  /\ Inv'
  /\ StartsOnLine
  /\ OneRuns
  /\ \A a \in Accounts : Keeps(a) \/ Cancelled(a)
  /\ StaysDriven \/ enabled' # enabled \/ presence' # presence

LEMMA ExternalOK ==
  ASSUME Inv, External
  PROVE  /\ events' \in 0 .. MaxEvents /\ Alive /\ pending = <<>>
         /\ <<>> \in Seq(PendingSignals) /\ PendingEnd(<<>>)
         /\ ~Finishes(pending)
<1>1. events \in 0 .. MaxEvents /\ events < MaxEvents /\ events' = events + 1
  BY DEF Inv, RestOK, External
<1>2. events' \in 0 .. MaxEvents
  BY <1>1, DaemonConstants
<1> QED BY <1>2 DEF External, Ready, PendingEnd, Finishes

\* The signal at the head is delivered.
LEMMA SlotOK ==
  ASSUME Inv, NEW name, Slot(name)
  PROVE  /\ Alive /\ From \in Accounts /\ Head(pending).name = name /\ pending # <<>>
         /\ Head(pending).results \in Seq(ResultCodes)
         /\ Tail(pending) \in Seq(PendingSignals) /\ PendingEnd(Tail(pending))
         /\ name # "syncFinished" /\ Finishes(pending) => Finishes(Tail(pending))
         /\ name = "syncError" => Finishes(Tail(pending))
<1>1. pending \in Seq(PendingSignals) /\ pending # <<>> /\ PendingEnd(pending)
  BY DEF Inv, AccountsOK, Slot
<1>2. /\ Head(pending) = pending[1] /\ pending[1] \in PendingSignals
      /\ Tail(pending) \in Seq(PendingSignals) /\ Len(Tail(pending)) = Len(pending) - 1
      /\ \A i \in 1 .. Len(pending) - 1 : Tail(pending)[i] = pending[i + 1]
  BY <1>1
<1>3. Len(pending) \in Nat /\ Len(pending) >= 1
  BY <1>1
<1> DEFINE tail == Tail(pending)
<1>4. ASSUME NEW k \in 2 .. Len(pending)
      PROVE  k - 1 \in 1 .. Len(tail) /\ tail[k - 1] = pending[k]
  BY <1>2, <1>3
<1>5. PendingEnd(tail)
  <2> SUFFICES ASSUME NEW i \in 1 .. Len(tail), tail[i].name = "syncError"
               PROVE  \E k \in i .. Len(tail) : tail[k].name = "syncFinished"
    BY DEF PendingEnd
  <2>1. i + 1 \in 2 .. Len(pending) /\ pending[i + 1] = tail[i]
    BY <1>2, <1>3
  <2>2. PICK k \in (i + 1) .. Len(pending) : pending[k].name = "syncFinished"
    BY <1>1, <1>3, <2>1 DEF PendingEnd
  <2>3. k \in 2 .. Len(pending) /\ k - 1 \in i .. Len(tail)
    BY <1>2, <1>3, <2>1, <2>2
  <2> QED BY <1>4, <2>2, <2>3
<1>6. ASSUME NEW k \in 1 .. Len(pending), pending[k].name = "syncFinished",
             name # "syncFinished"
      PROVE  Finishes(tail)
  <2>1. k \in 2 .. Len(pending)
    BY <1>2, <1>3, <1>6 DEF Slot
  <2> QED BY <1>4, <1>6, <2>1 DEF Finishes
<1>7. ASSUME name = "syncError" PROVE Finishes(tail)
  <2>1. 1 \in 1 .. Len(pending) /\ pending[1].name = "syncError"
    BY <1>2, <1>3, <1>7 DEF Slot
  <2>2. PICK k \in 1 .. Len(pending) : pending[k].name = "syncFinished"
    BY <1>1, <2>1 DEF PendingEnd
  <2> QED BY <1>6, <1>7, <2>2
<1>8. From \in Accounts /\ Head(pending).results \in Seq(ResultCodes)
  BY <1>2 DEF From, PendingSignals
<1> QED BY <1>1, <1>2, <1>5, <1>6, <1>7, <1>8 DEF Slot, Finishes

LEMMA DetachedType ==
  ASSUME NEW c \in ControlsOf PROVE Detached(c) \subseteq ControlsOf
<1> SUFFICES ASSUME NEW lost PROVE
      [b \in Accounts |->
           [c[b] EXCEPT !.session = IF @ = "none" THEN "none" ELSE "over",
                        !.late = FALSE,
                        !.config = IF b \in lost THEN "lost" ELSE @]] \in ControlsOf
  BY DEF Detached
<1>1. ASSUME NEW b \in Accounts
      PROVE  [c[b] EXCEPT !.session = IF @ = "none" THEN "none" ELSE "over",
                          !.late = FALSE,
                          !.config = IF b \in lost THEN "lost" ELSE @] \in Controls
  <2>1. c[b] \in Controls
    BY DEF ControlsOf
  <2> QED BY <2>1 DEF Controls
<1> QED BY <1>1 DEF ControlsOf

LEMMA ConfiguredAnewOK ==
  ASSUME NEW from \in Accounts, NEW rest \in Seq(PendingSignals), PendingEnd(rest),
         AccountsOK, ConfiguredAnew(from, rest)
  PROVE  AccountsOK' /\ (Finishes(rest) => Finishes(pending'))
<1>1. PICK c \in Detached(ctl) :
        \E outcome \in Configured(c[from]) :
          Deliver(from, outcome, <<>>, c, dangling \cup WithSession(ctl), rest)
  BY DEF ConfiguredAnew
<1>2. PICK outcome \in Configured(c[from]) :
        Deliver(from, outcome, <<>>, c, dangling \cup WithSession(ctl), rest)
  BY <1>1
<1>3. c \in ControlsOf /\ dangling \cup WithSession(ctl) \in SUBSET Accounts
  BY DetachedType DEF AccountsOK, WithSession
<1>4. outcome \in Ending /\ <<>> \in Seq(ResultCodes)
  BY <1>3, ConfiguredType DEF ControlsOf
<1> QED BY <1>2, <1>3, <1>4, DeliverType

(* Actions that leave queues, job and collaborators alone. *)
LEMMA UnchangedOK ==
  ASSUME SyncOK, UNCHANGED <<queues, syncing, timer, eds, wakelock, published>>
  PROVE  /\ SyncOK' /\ StartsOnLine /\ OneRuns
         /\ \A a \in Accounts : Keeps(a)
         /\ (Finishes(pending) => Finishes(pending')) => StaysDriven
<1>1. UNCHANGED <<syncQueue, offlineQueue, currentJob, frozen, quiet, changes>>
  BY DEF queues, eds
<1> QED BY <1>1 DEF SyncOK, SyncTypes, JobHolds, IdleHolds, StartsOnLine, OneRuns, Keeps,
                    WaitsFor, StaysDriven, Work, GoesOn

-----------------------------------------------------------------------------
(* One lemma for each kind of action. *)

LEMMA SlotsStep ==
  ASSUME Inv, Slots PROVE Step
<1>1. CASE OnAccountSyncError
  <2>1. Slot("syncError") /\ SyncFinished(syncQueue) /\ pending' = Tail(pending)
    BY <1>1 DEF OnAccountSyncError
  <2>2. /\ UNCHANGED <<offlineQueue, network, attached, presence, enabled, failed, ctl,
                       dangling, events>>
    BY <1>1 DEF OnAccountSyncError, accountVars
  <2>3. /\ Alive /\ Finishes(Tail(pending))
        /\ Tail(pending) \in Seq(PendingSignals) /\ PendingEnd(Tail(pending))
    BY <2>1, SlotOK
  <2>4. SyncOK' /\ syncQueue' = syncQueue /\ ~IsValid(currentJob')
    BY <2>1, <2>2, SyncFinishedOK DEF Inv, SyncOK, SyncTypes
  <2>5. AccountsOK' /\ RestOK'
    BY <2>1, <2>2, <2>3 DEF Inv, AccountsOK, RestOK
  <2> QED BY <2>1, <2>2, <2>3, <2>4, <2>5
          DEF Step, Inv, StartsOnLine, OneRuns, Keeps, WaitsFor, StaysDriven, GoesOn
<1>2. CASE OnAccountSyncFinished
  <2> DEFINE results == Head(pending).results
             q == IF Retries(failed[From], results) THEN Push(syncQueue, From, {}, FALSE)
                  ELSE syncQueue
  <2>1. /\ Slot("syncFinished")
        /\ failed' = [failed EXCEPT ![From] = LastError(failed[From], results)]
        /\ \E c \in Detached(ctl) :
             ContinueSync(q, offlineQueue, timer, c, dangling \cup WithSession(ctl),
                          Tail(pending))
        /\ UNCHANGED <<network, attached, presence, enabled, events>>
    BY <1>2 DEF OnAccountSyncFinished
  <2>2. /\ Alive /\ From \in Accounts /\ pending # <<>> /\ Head(pending).name = "syncFinished"
        /\ Tail(pending) \in Seq(PendingSignals) /\ PendingEnd(Tail(pending))
    BY <2>1, SlotOK
  <2>3. /\ q \in Seq(Jobs)
        /\ \A a \in Accounts : Waits(syncQueue, a) => Waits(q, a)
    <3>1. {} \in SUBSET Sources /\ FALSE \in BOOLEAN /\ syncQueue \in Seq(Jobs)
      BY DEF Inv, SyncOK, SyncTypes
    <3> QED BY <2>2, <3>1, PushKeeps
  <2>4. RestOK'
    <3>1. LastError(failed[From], results) \in BOOLEAN
      BY DEF LastError, Retries
    <3> QED BY <2>1, <2>2, <3>1 DEF Inv, RestOK
  <2> HIDE DEF q
  <2>5. PICK c \in Detached(ctl) :
          ContinueSync(q, offlineQueue, timer, c, dangling \cup WithSession(ctl), Tail(pending))
    BY <2>1
  <2>6. /\ c \in ControlsOf /\ dangling \cup WithSession(ctl) \in SUBSET Accounts
        /\ offlineQueue \in Seq(Jobs) /\ timer \in BOOLEAN /\ SyncOK
    BY DetachedType DEF Inv, AccountsOK, WithSession, SyncOK, SyncTypes
  <2>7. /\ SyncOK' /\ AccountsOK' /\ StartsOnLine /\ (Work' => GoesOn')
        /\ \A a \in Accounts : Waits(q, a) \/ Waits(offlineQueue, a) =>
              currentJob'.acc = a \/ WaitsFor(a)'
    BY <2>2, <2>3, <2>5, <2>6, ContinueSyncOK
  <2> QED BY <2>2, <2>3, <2>4, <2>7 DEF Step, Inv, OneRuns, Keeps, WaitsFor, StaysDriven
<1>3. CASE OnRequest
  <2>1. /\ Slot("request") /\ Request(From, {}, TRUE, TRUE, Tail(pending))
        /\ UNCHANGED <<network, attached, presence, enabled, failed, events>>
    BY <1>3 DEF OnRequest
  <2>2. /\ Alive /\ From \in Accounts /\ (Finishes(pending) => Finishes(Tail(pending)))
        /\ Tail(pending) \in Seq(PendingSignals) /\ PendingEnd(Tail(pending))
    BY <2>1, SlotOK
  <2>3. /\ SyncOK' /\ AccountsOK' /\ StartsOnLine /\ StaysDriven
        /\ IsValid(currentJob) => currentJob' = currentJob
        /\ \A a \in Accounts : Keeps(a)
    <3>1. {} \in SUBSET Sources /\ TRUE \in BOOLEAN
      OBVIOUS
    <3> QED BY <2>1, <2>2, <3>1, RequestOK DEF Inv
  <2>4. RestOK'
    BY <2>1 DEF Inv, RestOK
  <2> QED BY <2>2, <2>3, <2>4 DEF Step, Inv, OneRuns
<1>4. CASE OnResume
  <2>1. /\ Slot("resume")
        /\ \/ ConfiguredAnew(From, Tail(pending))
           \/ \E outcome \in {Silent(ctl[From]), Silent(Dead)} :
                Deliver(From, outcome, <<>>, ctl, dangling, Tail(pending))
        /\ UNCHANGED <<queues, syncing, timer, network, attached, presence, enabled, failed,
                       eds, wakelock, published, events>>
    BY <1>4 DEF OnResume
  <2>2. /\ Alive /\ From \in Accounts /\ (Finishes(pending) => Finishes(Tail(pending)))
        /\ Tail(pending) \in Seq(PendingSignals) /\ PendingEnd(Tail(pending))
    BY <2>1, SlotOK
  <2>3. AccountsOK' /\ (Finishes(Tail(pending)) => Finishes(pending'))
    <3>1. ASSUME NEW outcome \in {Silent(ctl[From]), Silent(Dead)},
                 Deliver(From, outcome, <<>>, ctl, dangling, Tail(pending))
          PROVE  AccountsOK' /\ (Finishes(Tail(pending)) => Finishes(pending'))
      <4>1. /\ ctl \in ControlsOf /\ ctl[From] \in Controls /\ dangling \in SUBSET Accounts
            /\ <<>> \in Seq(ResultCodes)
        BY <2>2 DEF Inv, AccountsOK, ControlsOf
      <4>2. outcome \in Ending
        BY <4>1, SilentType, ControlTypes
      <4> QED BY <2>2, <3>1, <4>1, <4>2, DeliverType
    <3> QED BY <2>1, <2>2, <3>1, ConfiguredAnewOK DEF Inv
  <2>4. /\ SyncOK' /\ StartsOnLine /\ OneRuns /\ StaysDriven
        /\ \A a \in Accounts : Keeps(a)
    BY <2>1, <2>2, <2>3, UnchangedOK DEF Inv
  <2>5. RestOK'
    BY <2>1 DEF Inv, RestOK
  <2> QED BY <2>2, <2>3, <2>4, <2>5 DEF Step, Inv
<1> QED BY <1>1, <1>2, <1>3, <1>4 DEF Slots

LEMMA AccountStep ==
  ASSUME Inv, NEW a \in Accounts, AccountConfigures(a) \/ AccountSyncs(a)
  PROVE  Step
<1>1. /\ ctl \in ControlsOf /\ ctl[a] \in Controls /\ dangling \in SUBSET Accounts
      /\ <<>> \in Seq(PendingSignals) /\ PendingEnd(<<>>)
  BY DEF Inv, AccountsOK, ControlsOf, PendingEnd
<1>2. CASE AccountConfigures(a)
  <2>1. /\ \/ \E outcome \in OrStops(a, dangling, ConfigOutcomes(ctl[a])) :
                \E results \in ConfigResults(outcome) :
                  Deliver(a, outcome, results, ctl, dangling, <<>>)
           \/ ConfiguredAnew(a, <<>>)
        /\ Ready
        /\ UNCHANGED <<queues, syncing, timer, network, attached, presence, enabled, failed,
                       eds, wakelock, published, events>>
    BY <1>2 DEF AccountConfigures
  <2>2. ASSUME NEW outcome \in OrStops(a, dangling, ConfigOutcomes(ctl[a])),
               NEW results \in ConfigResults(outcome),
               Deliver(a, outcome, results, ctl, dangling, <<>>)
        PROVE  AccountsOK'
    <3>1. outcome \in Ending /\ results \in Seq(ResultCodes)
      BY <1>1, ConfigOutcomesType, OrStopsType, ConfigResultsType
    <3> QED BY <1>1, <2>2, <3>1, DeliverType
  <2>3. AccountsOK'
    BY <1>1, <2>1, <2>2, ConfiguredAnewOK DEF Inv
  <2>4. Alive /\ ~Finishes(pending)
    BY <2>1 DEF Ready, Finishes
  <2>5. /\ SyncOK' /\ StartsOnLine /\ OneRuns /\ StaysDriven
        /\ \A b \in Accounts : Keeps(b)
    BY <2>1, <2>4, UnchangedOK DEF Inv
  <2>6. RestOK'
    BY <2>1 DEF Inv, RestOK
  <2> QED BY <2>3, <2>4, <2>5, <2>6 DEF Step, Inv
<1>3. CASE AccountSyncs(a)
  <2>1. /\ Ready
        /\ published' \in {published, IF IsSyncing THEN "syncing" ELSE WaitingState(syncQueue)}
        /\ UNCHANGED <<queues, syncing, timer, network, attached, presence, enabled, failed,
                       eds, wakelock, events>>
    BY <1>3 DEF AccountSyncs
  <2>2. PICK outcome \in SessionOutcomes(ctl[a]) \cup LateOutcomes(ctl[a]) :
          \E results \in ResultLists \cup {<<>>} :
            Deliver(a, outcome, results, ctl, dangling, <<>>)
    BY <1>3 DEF AccountSyncs
  <2>3. PICK results \in ResultLists \cup {<<>>} :
          Deliver(a, outcome, results, ctl, dangling, <<>>)
    BY <2>2
  <2>4. AccountsOK'
    <3>1. outcome \in Ending
      BY <1>1, SessionOutcomesType
    <3>2. results \in Seq(ResultCodes)
      <4>1. <<>> \in Seq(ResultCodes) /\ (results \in ResultLists \/ results = <<>>)
        OBVIOUS
      <4> QED BY <4>1, ResultListsType
    <3> QED BY <1>1, <2>3, <3>1, <3>2, DeliverType
  <2>5. Alive /\ ~Finishes(pending)
    BY <2>1 DEF Ready, Finishes
  <2>6. UNCHANGED <<syncQueue, offlineQueue, currentJob, frozen, quiet, changes>>
    BY <2>1 DEF queues, eds
  <2>7. /\ SyncOK' /\ StartsOnLine /\ OneRuns /\ StaysDriven
        /\ \A b \in Accounts : Keeps(b)
    <3>1. published' \in {"idle", "pending", "syncing"}
      BY <2>1 DEF WaitingState, Inv, SyncOK, SyncTypes
    <3>2. IsValid(currentJob) => published' = "syncing"
      BY <2>1 DEF Inv, SyncOK, JobHolds, IsSyncing
    <3>3. ~syncing => published' # "syncing"
      BY <2>1 DEF Inv, SyncOK, IdleHolds, IsSyncing, WaitingState
    <3>4. SyncOK'
      BY <2>1, <2>6, <3>1, <3>2, <3>3 DEF Inv, SyncOK, SyncTypes, JobHolds, IdleHolds
    <3> QED BY <2>1, <2>5, <2>6, <3>4
            DEF StartsOnLine, OneRuns, Keeps, WaitsFor, StaysDriven, Work, GoesOn
  <2>8. RestOK'
    BY <2>1 DEF Inv, RestOK
  <2> QED BY <2>4, <2>5, <2>7, <2>8 DEF Step, Inv
<1> QED BY <1>2, <1>3

LEMMA TimerStep ==
  ASSUME Inv, Timeout \/ QuietEnds PROVE Step
<1>1. CASE Timeout
  <2>1. /\ Ready /\ timer
        /\ ContinueSync(syncQueue, offlineQueue, FALSE, ctl, dangling, <<>>)
        /\ UNCHANGED <<network, attached, presence, enabled, failed, events>>
    BY <1>1 DEF Timeout, NotByRequests
  <2>2. /\ syncQueue \in Seq(Jobs) /\ offlineQueue \in Seq(Jobs) /\ FALSE \in BOOLEAN
        /\ ctl \in ControlsOf /\ dangling \in SUBSET Accounts
        /\ <<>> \in Seq(PendingSignals) /\ PendingEnd(<<>>) /\ SyncOK
    BY DEF Inv, AccountsOK, SyncOK, SyncTypes, PendingEnd
  <2>3. /\ SyncOK' /\ AccountsOK' /\ StartsOnLine /\ (Work' => GoesOn')
        /\ \A a \in Accounts : Waits(syncQueue, a) \/ Waits(offlineQueue, a) =>
              currentJob'.acc = a \/ WaitsFor(a)'
    BY <2>1, <2>2, ContinueSyncOK
  <2>4. RestOK'
    BY <2>1 DEF Inv, RestOK
  <2> QED BY <2>1, <2>3, <2>4 DEF Step, Inv, Ready, OneRuns, Keeps, WaitsFor, StaysDriven
<1>2. CASE QuietEnds
  <2>1. /\ Ready /\ quiet' = FALSE
        /\ UNCHANGED <<syncQueue, offlineQueue, currentJob, syncing, timer, ctl, dangling,
                       pending, frozen, changes, wakelock, published>>
        /\ UNCHANGED <<network, attached, presence, enabled, failed, events>>
    BY <1>2 DEF QuietEnds, queues, accountVars
  <2>2. SyncOK' /\ AccountsOK' /\ RestOK'
    BY <2>1 DEF Inv, SyncOK, SyncTypes, JobHolds, IdleHolds, AccountsOK, RestOK
  <2> QED BY <2>1, <2>2 DEF Step, Inv, Ready, StartsOnLine, OneRuns, Keeps, WaitsFor,
                            StaysDriven, Work, GoesOn
<1> QED BY <1>1, <1>2

LEMMA ClientStep ==
  ASSUME Inv, SyncAll \/ CancelAll \/ ClientAttaches PROVE Step
<1>1. CASE SyncAll
  <2>1. PICK order \in SeqExt!SetToSeqs(Known) :
          pending' = [i \in DOMAIN order |-> Signal("request", order[i], <<>>)]
    BY <1>1 DEF SyncAll
  <2>2. /\ External
        /\ UNCHANGED <<queues, syncing, timer, eds, wakelock, published>>
        /\ UNCHANGED <<network, attached, presence, enabled, failed, ctl, dangling>>
    BY <1>1 DEF SyncAll, accountVars
  <2>3. order \in Seq(Accounts)
    <3>1. Known \in SUBSET Accounts /\ IsFiniteSet(Known)
      BY DaemonConstants, FS_Subset DEF Known
    <3>2. order \in Seq(Known)
      BY <3>1, OrdersAreSequences
    <3> QED BY <3>1, <3>2
  <2>4. pending' \in Seq(PendingSignals) /\ PendingEnd(pending')
    <3>1. Len(order) \in Nat /\ DOMAIN order = 1 .. Len(order)
      BY <2>3
    <3>2. \A i \in 1 .. Len(order) : Signal("request", order[i], <<>>) \in PendingSignals
      BY <2>3 DEF Signal, PendingSignals
    <3>3. /\ pending' = [i \in 1 .. Len(order) |-> Signal("request", order[i], <<>>)]
          /\ pending' \in Seq(PendingSignals) /\ Len(pending') = Len(order)
      BY <2>1, <3>1, <3>2
    <3>4. \A i \in 1 .. Len(pending') : pending'[i].name = "request"
      BY <3>3 DEF Signal
    <3> QED BY <3>3, <3>4 DEF PendingEnd
  <2>5. /\ events' \in 0 .. MaxEvents /\ Alive /\ ~Finishes(pending)
    BY <2>2, ExternalOK
  <2>6. /\ SyncOK' /\ StartsOnLine /\ OneRuns /\ StaysDriven
        /\ \A a \in Accounts : Keeps(a)
    BY <2>2, <2>5, UnchangedOK DEF Inv
  <2>7. AccountsOK' /\ RestOK'
    BY <2>2, <2>4, <2>5 DEF Inv, AccountsOK, RestOK
  <2> QED BY <2>5, <2>6, <2>7 DEF Step, Inv
<1>2. CASE CancelAll
  <2>1. /\ External /\ ctl' = [a \in Accounts |-> Dead]
        /\ UNCHANGED <<queues, syncing, timer, eds, wakelock, published>>
        /\ UNCHANGED <<network, attached, presence, enabled, failed, dangling, pending>>
    BY <1>2 DEF CancelAll
  <2>2. events' \in 0 .. MaxEvents /\ Alive /\ ~Finishes(pending)
    BY <2>1, ExternalOK
  <2>3. /\ SyncOK' /\ StartsOnLine /\ OneRuns /\ StaysDriven
        /\ \A a \in Accounts : Keeps(a)
    BY <2>1, <2>2, UnchangedOK DEF Inv
  <2>4. AccountsOK' /\ RestOK'
    BY <2>1, <2>2, ControlTypes DEF Inv, AccountsOK, ControlsOf, RestOK
  <2> QED BY <2>2, <2>3, <2>4 DEF Step, Inv
<1>3. CASE ClientAttaches
  <2>1. /\ Ready /\ attached' = TRUE
        /\ UNCHANGED <<queues, syncing, timer, eds, wakelock, published>>
        /\ UNCHANGED <<network, presence, enabled, failed, ctl, dangling, pending, events>>
    BY <1>3 DEF ClientAttaches, accountVars
  <2>2. /\ SyncOK' /\ StartsOnLine /\ OneRuns /\ StaysDriven
        /\ \A a \in Accounts : Keeps(a)
    BY <2>1, UnchangedOK DEF Inv
  <2>3. AccountsOK' /\ RestOK'
    BY <2>1 DEF Inv, AccountsOK, RestOK
  <2> QED BY <2>1, <2>2, <2>3 DEF Step, Inv, Ready
<1> QED BY <1>1, <1>2, <1>3

LEMMA NetworkStep ==
  ASSUME Inv, NetworkChanges PROVE Step
<1>0. /\ syncQueue \in Seq(Jobs) /\ offlineQueue \in Seq(Jobs) /\ currentJob \in CurrentJobs
      /\ ctl \in ControlsOf /\ dangling \in SUBSET Accounts
  BY DEF Inv, SyncOK, SyncTypes, AccountsOK
<1>1. CASE GoesOffline
  <2> DEFINE off == IF IsValid(currentJob) THEN PushJob(offlineQueue, currentJob)
                    ELSE offlineQueue
  <2>1. /\ External /\ SetState("Offline") /\ SyncFinished(<<>>)
        /\ offlineQueue' = Parked(off, syncQueue)
        /\ UNCHANGED <<attached, presence, enabled, failed>>
    BY <1>1 DEF GoesOffline
  <2>2. \/ /\ IsValid(currentJob)
           /\ \E outcome \in OrStops(currentJob.acc, dangling,
                                     {CancelOutcome(ctl[currentJob.acc])}) :
                 Deliver(currentJob.acc, Silent(outcome.next), <<>>, ctl, dangling, <<>>)
        \/ UNCHANGED <<ctl, dangling, pending>>
    BY <1>1 DEF GoesOffline
  <2>3. /\ events' \in 0 .. MaxEvents /\ Alive
        /\ <<>> \in Seq(PendingSignals) /\ PendingEnd(<<>>)
    BY <2>1, ExternalOK
  <2>4. IsValid(currentJob) => currentJob \in Jobs /\ currentJob.acc \in Accounts
    BY <1>0 DEF CurrentJobs, NoJob, IsValid, Jobs
  <2>5. /\ off \in Seq(Jobs)
        /\ \A a \in Accounts : Waits(offlineQueue, a) => Waits(off, a)
    BY <1>0, <2>4, PushJobType, PushJobWaits
  <2> HIDE DEF off
  <2>6. /\ offlineQueue' \in Seq(Jobs)
        /\ \A a \in Accounts : Waits(off, a) => Waits(offlineQueue', a)
        /\ \A a \in Accounts : Waits(syncQueue, a) => Waits(offlineQueue', a)
    <3>1. /\ PushQueue(off, syncQueue) \in Seq(Jobs)
          /\ \A a \in Accounts : Waits(off, a) => Waits(PushQueue(off, syncQueue), a)
          /\ \A i \in 1 .. Len(syncQueue) :
               Waits(PushQueue(off, syncQueue), syncQueue[i].acc)
      BY <1>0, <2>5, PushQueueKeeps
    <3> QED BY <2>1, <3>1 DEF Parked, Waits
  <2>7. SyncOK' /\ syncQueue' = <<>> /\ ~IsValid(currentJob') /\ ~syncing'
    <3>1. <<>> \in Seq(Jobs)
      OBVIOUS
    <3> QED BY <1>0, <2>1, <2>6, <3>1, SyncFinishedOK
  <2>8. AccountsOK'
    <3>1. ASSUME IsValid(currentJob),
                 NEW outcome \in OrStops(currentJob.acc, dangling,
                                         {CancelOutcome(ctl[currentJob.acc])}),
                 Deliver(currentJob.acc, Silent(outcome.next), <<>>, ctl, dangling, <<>>)
          PROVE  AccountsOK'
      <4>1. ctl[currentJob.acc] \in Controls /\ <<>> \in Seq(ResultCodes)
        BY <1>0, <2>4, <3>1 DEF ControlsOf
      <4>2. Silent(outcome.next) \in Ending
        BY <4>1, CancelStops
      <4> QED BY <1>0, <2>3, <2>4, <3>1, <4>1, <4>2, DeliverType
    <3>2. ASSUME UNCHANGED <<ctl, dangling, pending>> PROVE AccountsOK'
      BY <3>2 DEF Inv, AccountsOK
    <3> QED BY <2>2, <3>1, <3>2
  <2>9. RestOK'
    BY <2>1, <2>3 DEF Inv, RestOK, SetState, NetworkStates
  <2> QED BY <2>3, <2>5, <2>6, <2>7, <2>8, <2>9
          DEF Step, Inv, StartsOnLine, OneRuns, Keeps, WaitsFor, StaysDriven, Work
<1>2. CASE GoesOnline
  <2>1. /\ External /\ SetState("Online")
        /\ syncQueue' = PushQueue(syncQueue, offlineQueue) /\ offlineQueue' = <<>>
        /\ syncing' = (syncing \/ (~syncing /\ syncQueue' # <<>>))
        /\ timer' = (timer \/ (~syncing /\ syncQueue' # <<>>))
        /\ UNCHANGED <<attached, currentJob, presence, enabled, failed, ctl, dangling, pending,
                       frozen, quiet, changes, wakelock, published>>
    BY <1>2 DEF GoesOnline, accountVars, eds
  <2>2. events' \in 0 .. MaxEvents /\ Alive
    BY <2>1, ExternalOK
  <2>3. /\ syncQueue' \in Seq(Jobs)
        /\ \A a \in Accounts : Waits(syncQueue, a) => Waits(syncQueue', a)
        /\ \A i \in 1 .. Len(offlineQueue) : Waits(syncQueue', offlineQueue[i].acc)
    BY <1>0, <2>1, PushQueueKeeps
  <2>4. \A a \in Accounts : Keeps(a)
    BY <2>3 DEF Keeps, WaitsFor, Waits
  <2>5. SyncOK'
    <3>1. SyncTypes'
      BY <2>1, <2>3 DEF Inv, SyncOK, SyncTypes
    <3>2. JobHolds' /\ IdleHolds'
      BY <2>1 DEF Inv, SyncOK, SyncTypes, JobHolds, IdleHolds
    <3> QED BY <3>1, <3>2 DEF SyncOK
  <2>6. StaysDriven
    BY <2>1 DEF Inv, SyncOK, SyncTypes, StaysDriven, Work, GoesOn
  <2>7. AccountsOK' /\ RestOK'
    BY <2>1, <2>2 DEF Inv, AccountsOK, RestOK, SetState, NetworkStates
  <2> QED BY <2>1, <2>2, <2>4, <2>5, <2>6, <2>7 DEF Step, Inv, StartsOnLine, OneRuns
<1>3. CASE GoesPartial
  <2>1. /\ External /\ SetState("Partial")
        /\ UNCHANGED <<queues, syncing, timer, eds, wakelock, published>>
        /\ UNCHANGED <<attached, presence, enabled, failed, ctl, dangling, pending>>
    BY <1>3 DEF GoesPartial, accountVars
  <2>2. events' \in 0 .. MaxEvents /\ Alive
    BY <2>1, ExternalOK
  <2>3. /\ SyncOK' /\ StartsOnLine /\ OneRuns /\ StaysDriven
        /\ \A a \in Accounts : Keeps(a)
    BY <2>1, UnchangedOK DEF Inv
  <2>4. AccountsOK' /\ RestOK'
    BY <2>1, <2>2 DEF Inv, AccountsOK, RestOK, SetState, NetworkStates
  <2> QED BY <2>2, <2>3, <2>4 DEF Step, Inv
<1> QED BY <1>1, <1>2, <1>3 DEF NetworkChanges

LEMMA RequestsStep ==
  ASSUME Inv, NEW a \in Accounts,
         \/ \E sources \in SUBSET Sources : SyncOne(a, sources)
         \/ \E s \in Sources : CalendarChanged(a, s)
  PROVE  Step
<1>1. ASSUME NEW sources \in SUBSET Sources, NEW runNow \in BOOLEAN,
             External, Request(a, sources, runNow, FALSE, <<>>), UNCHANGED NotByRequests
      PROVE  Step
  <2>1. /\ events' \in 0 .. MaxEvents /\ Alive /\ ~Finishes(pending)
        /\ <<>> \in Seq(PendingSignals) /\ PendingEnd(<<>>) /\ FALSE \in BOOLEAN
    BY <1>1, ExternalOK
  <2>2. /\ SyncOK' /\ AccountsOK' /\ StartsOnLine /\ StaysDriven
        /\ IsValid(currentJob) => currentJob' = currentJob
        /\ \A b \in Accounts : Keeps(b)
    BY <1>1, <2>1, RequestOK DEF Inv
  <2>3. RestOK'
    BY <1>1, <2>1 DEF Inv, RestOK, NotByRequests
  <2> QED BY <2>1, <2>2, <2>3 DEF Step, Inv, OneRuns
<1>2. ASSUME NEW sources \in SUBSET Sources, SyncOne(a, sources) PROVE Step
  <2>1. External /\ Request(a, sources, TRUE, FALSE, <<>>) /\ UNCHANGED NotByRequests
    BY <1>2 DEF SyncOne
  <2> QED BY <1>1, <2>1
<1>3. ASSUME NEW s \in Sources, CalendarChanged(a, s) PROVE Step
  <2>1. CASE Request(a, {s}, FALSE, FALSE, <<>>)
    <3>1. External /\ UNCHANGED NotByRequests /\ {s} \in SUBSET Sources
      BY <1>3 DEF CalendarChanged
    <3> QED BY <1>1, <2>1, <3>1
  <2>2. CASE /\ frozen
             /\ changes' = changes \cup {<<a, s>>}
             /\ UNCHANGED <<queues, syncing, timer, ctl, dangling, pending,
                            frozen, quiet, wakelock, published>>
    <3>1. /\ External
          /\ UNCHANGED <<syncQueue, offlineQueue, currentJob, syncing, timer, ctl, dangling,
                         pending, frozen, quiet, wakelock, published>>
          /\ UNCHANGED <<network, attached, presence, enabled, failed>>
      BY <1>3, <2>2 DEF CalendarChanged, NotByRequests, queues
    <3>2. events' \in 0 .. MaxEvents /\ Alive
      BY <3>1, ExternalOK
    <3>3. SyncOK' /\ AccountsOK' /\ RestOK'
      BY <2>2, <3>1, <3>2 DEF Inv, SyncOK, SyncTypes, JobHolds, IdleHolds, AccountsOK, RestOK
    <3> QED BY <3>1, <3>2, <3>3 DEF Step, Inv, StartsOnLine, OneRuns, Keeps, WaitsFor,
                                    StaysDriven, Work, GoesOn
  <2> QED BY <1>3, <2>1, <2>2 DEF CalendarChanged
<1> QED BY <1>2, <1>3

LEMMA AccountSetStep ==
  ASSUME Inv, NEW a \in Accounts,
         \/ AddAccount(a) \/ RemoveAccount(a) \/ EnableAccount(a)
         \/ \E whole \in BOOLEAN : DisableAccount(a, whole)
  PROVE  Step
<1>1. ASSUME NEW p, NEW e,
             External,
             UNCHANGED <<queues, syncing, timer, network, attached, failed, ctl, dangling,
                         eds, wakelock, published>>,
             presence' = p, p \in [Accounts -> {"none", "known", "removed"}],
             enabled' = e, e \in [Accounts -> BOOLEAN],
             pending' \in {<<>>, <<Signal("request", a, <<>>)>>}
      PROVE  Step
  <2>1. /\ events' \in 0 .. MaxEvents /\ Alive /\ ~Finishes(pending)
        /\ <<>> \in Seq(PendingSignals) /\ PendingEnd(<<>>)
    BY <1>1, ExternalOK
  <2>2. <<Signal("request", a, <<>>)>> \in Seq(PendingSignals)
        /\ PendingEnd(<<Signal("request", a, <<>>)>>)
    BY DEF Signal, PendingSignals, PendingEnd
  <2>3. /\ SyncOK' /\ StartsOnLine /\ OneRuns /\ StaysDriven
        /\ \A b \in Accounts : Keeps(b)
    BY <1>1, <2>1, UnchangedOK DEF Inv
  <2>4. AccountsOK'
    <3>1. pending' \in Seq(PendingSignals) /\ PendingEnd(pending')
      BY <1>1, <2>1, <2>2
    <3> QED BY <1>1, <3>1 DEF Inv, AccountsOK
  <2>5. RestOK'
    BY <1>1, <2>1 DEF Inv, RestOK
  <2> QED BY <2>1, <2>3, <2>4, <2>5 DEF Step, Inv
<1>2. /\ presence \in [Accounts -> {"none", "known", "removed"}]
      /\ enabled \in [Accounts -> BOOLEAN]
  BY DEF Inv, RestOK
<1>3. CASE AddAccount(a)
  <2>1. PICK on \in BOOLEAN :
          /\ enabled' = [enabled EXCEPT ![a] = on]
          /\ pending' = IF on THEN <<Signal("request", a, <<>>)>> ELSE <<>>
    BY <1>3 DEF AddAccount
  <2>2. /\ External /\ presence' = [presence EXCEPT ![a] = "known"]
        /\ UNCHANGED <<queues, syncing, timer, network, attached, failed, ctl, dangling,
                       eds, wakelock, published>>
    BY <1>3 DEF AddAccount
  <2>3. /\ [presence EXCEPT ![a] = "known"] \in [Accounts -> {"none", "known", "removed"}]
        /\ [enabled EXCEPT ![a] = on] \in [Accounts -> BOOLEAN]
    BY <1>2
  <2> QED BY <1>1, <2>1, <2>2, <2>3
<1>4. CASE EnableAccount(a)
  <2>1. /\ External
        /\ enabled' = [enabled EXCEPT ![a] = TRUE]
        /\ pending' = <<Signal("request", a, <<>>)>>
        /\ UNCHANGED <<queues, syncing, timer, network, attached, presence, failed, ctl,
                       dangling, eds, wakelock, published>>
    BY <1>4 DEF EnableAccount
  <2>2. [enabled EXCEPT ![a] = TRUE] \in [Accounts -> BOOLEAN]
    BY <1>2
  <2>3. presence' = presence
    BY <2>1
  <2> QED BY <1>1, <1>2, <2>1, <2>2, <2>3
<1>5. ASSUME Cancel(a), External, UNCHANGED <<network, attached, failed>>,
             enabled' = [enabled EXCEPT ![a] = FALSE],
             presence' \in [Accounts -> {"none", "known", "removed"}],
             Cancelled(a)
      PROVE  Step
  <2>1. events' \in 0 .. MaxEvents /\ Alive
    BY <1>5, ExternalOK
  <2>2. /\ SyncOK' /\ AccountsOK' /\ StartsOnLine
        /\ IsValid(currentJob') => currentJob' = currentJob
        /\ \A b \in Accounts \ {a} : Keeps(b)
    BY <1>5, CancelOK DEF Inv
  <2>3. RestOK'
    BY <1>2, <1>5, <2>1 DEF Inv, RestOK
  <2>4. enabled' # enabled \/ presence' # presence
    BY <1>5 DEF Cancelled
  <2> QED BY <1>5, <2>1, <2>2, <2>3, <2>4 DEF Step, Inv, OneRuns
<1>6. CASE RemoveAccount(a)
  <2>1. /\ External /\ a \in Known
        /\ presence' = [presence EXCEPT ![a] = "removed"]
        /\ enabled' = [enabled EXCEPT ![a] = FALSE]
        /\ Cancel(a)
        /\ UNCHANGED <<network, attached, failed>>
    BY <1>6 DEF RemoveAccount
  <2>2. /\ presence' \in [Accounts -> {"none", "known", "removed"}]
        /\ Cancelled(a)
    BY <1>2, <2>1 DEF Known, Cancelled
  <2> QED BY <1>5, <2>1, <2>2
<1>7. ASSUME NEW whole \in BOOLEAN, DisableAccount(a, whole) PROVE Step
  <2>1. /\ External /\ a \in Known /\ enabled[a]
        /\ enabled' = [enabled EXCEPT ![a] = FALSE]
        /\ UNCHANGED <<network, attached, presence, failed>>
    BY <1>7 DEF DisableAccount
  <2>2. [enabled EXCEPT ![a] = FALSE] \in [Accounts -> BOOLEAN] /\ Cancelled(a)
    BY <1>2, <2>1 DEF Cancelled
  <2>3. CASE Cancel(a)
    BY <1>2, <1>5, <2>1, <2>2, <2>3
  <2>4. CASE UNCHANGED <<queues, syncing, timer, ctl, dangling, pending, eds, wakelock, published>>
    <3>1. pending' = <<>>
      BY <2>1, <2>4, ExternalOK
    <3>2. /\ presence' = presence /\ pending' \in {<<>>, <<Signal("request", a, <<>>)>>}
          /\ UNCHANGED <<queues, syncing, timer, network, attached, failed, ctl, dangling,
                         eds, wakelock, published>>
      BY <2>1, <2>4, <3>1
    <3> QED BY <1>1, <1>2, <2>1, <2>2, <3>2
  <2> QED BY <1>7, <2>3, <2>4 DEF DisableAccount
<1> QED BY <1>3, <1>4, <1>6, <1>7

-----------------------------------------------------------------------------
LEMMA NoJobIsCurrent == NoJob \in CurrentJobs /\ ~IsValid(NoJob)
<1>1. \A paid \in BOOLEAN :
        [NoJob EXCEPT !.paid = paid] = [acc |-> NoAccount, srcs |-> {}, paid |-> paid]
  BY DEF NoJob
<1>2. NoJob = [acc |-> NoAccount, srcs |-> {}, paid |-> FALSE]
  BY DEF NoJob
<1>3. [NoJob EXCEPT !.paid = FALSE] = NoJob
  BY <1>1, <1>2
<1> QED BY <1>3 DEF CurrentJobs, IsValid, NoJob

(* A daemon that starts, or starts again, has nothing to sync. *)
LEMMA EmptyOK ==
  ASSUME syncQueue = <<>>, offlineQueue = <<>>, currentJob = NoJob,
         syncing = FALSE, timer = FALSE, network = "Offline", attached = FALSE,
         presence \in [Accounts -> {"none", "known", "removed"}],
         enabled \in [Accounts -> BOOLEAN], failed \in [Accounts -> BOOLEAN],
         ctl = [a \in Accounts |-> NewAccount], dangling = {}, pending = <<>>,
         frozen = FALSE, quiet = FALSE, changes = {}, wakelock = FALSE, published = "idle",
         events \in 0 .. MaxEvents
  PROVE  Inv
<1>1. currentJob \in CurrentJobs /\ ~IsValid(currentJob)
  BY NoJobIsCurrent
<1>2. SyncOK
  <2>1. <<>> \in Seq(Jobs) /\ {} \in SUBSET (Accounts \X Sources)
    OBVIOUS
  <2>2. SyncTypes
    BY <1>1, <2>1 DEF SyncTypes
  <2> QED BY <1>1, <2>2 DEF SyncOK, JobHolds, IdleHolds
<1>3. AccountsOK
  BY ControlTypes DEF AccountsOK, ControlsOf, PendingEnd
<1>4. RestOK
  BY DEF RestOK, NetworkStates
<1> QED BY <1>2, <1>3, <1>4 DEF Inv

LEMMA InitInv == Init => Inv
<1> SUFFICES ASSUME Init PROVE Inv
  OBVIOUS
<1>1. events \in 0 .. MaxEvents
  BY DaemonConstants DEF Init
<1> QED BY <1>1, EmptyOK DEF Init

LEMMA RespawnInv ==
  ASSUME Inv, Respawn PROVE Inv' /\ syncQueue' = <<>> /\ ~syncing' /\ ~IsValid(currentJob')
<1>1. /\ syncQueue' = <<>> /\ offlineQueue' = <<>> /\ currentJob' = NoJob
      /\ syncing' = FALSE /\ timer' = FALSE
      /\ network' = "Offline" /\ attached' = FALSE
      /\ presence' = [a \in Accounts |-> IF presence[a] = "known" THEN "known" ELSE "none"]
      /\ failed' = [a \in Accounts |-> FALSE]
      /\ ctl' = [a \in Accounts |-> NewAccount]
      /\ dangling' = {} /\ pending' = <<>>
      /\ frozen' = FALSE /\ quiet' = FALSE /\ changes' = {}
      /\ wakelock' = FALSE /\ published' = "idle"
      /\ enabled' = enabled /\ events' = events
  BY DEF Respawn
<1>2. /\ presence' \in [Accounts -> {"none", "known", "removed"}]
      /\ failed' \in [Accounts -> BOOLEAN]
      /\ enabled' \in [Accounts -> BOOLEAN] /\ events' \in 0 .. MaxEvents
  BY <1>1 DEF Inv, RestOK
<1>3. currentJob' \in CurrentJobs /\ ~IsValid(currentJob')
  BY <1>1, NoJobIsCurrent
<1>4. SyncOK'
  <2>1. <<>> \in Seq(Jobs) /\ {} \in SUBSET (Accounts \X Sources)
    OBVIOUS
  <2>2. SyncTypes'
    BY <1>1, <1>3, <2>1 DEF SyncTypes
  <2> QED BY <1>1, <1>3, <2>2 DEF SyncOK, JobHolds, IdleHolds
<1>5. AccountsOK'
  BY <1>1, ControlTypes DEF AccountsOK, ControlsOf, PendingEnd
<1>6. RestOK'
  BY <1>1, <1>2 DEF RestOK, NetworkStates
<1> QED BY <1>1, <1>3, <1>4, <1>5, <1>6 DEF Inv

LEMMA NextStep ==
  ASSUME Inv, [Next]_vars
  PROVE  \/ Step
         \/ /\ Inv' /\ Respawn /\ ~Alive
            /\ syncQueue' = <<>> /\ ~syncing' /\ ~IsValid(currentJob')
         \/ Inv' /\ UNCHANGED vars
<1>1. CASE Slots
  BY <1>1, SlotsStep
<1>2. CASE AccountProgress
  BY <1>2, AccountStep DEF AccountProgress
<1>3. CASE Timeout \/ QuietEnds
  BY <1>3, TimerStep
<1>4. CASE Respawn
  <2>1. ~Alive
    BY <1>4 DEF Respawn
  <2> QED BY <1>4, <2>1, RespawnInv
<1>5. CASE SyncAll \/ CancelAll \/ ClientAttaches
  BY <1>5, ClientStep
<1>6. CASE NetworkChanges
  BY <1>6, NetworkStep
<1>7. ASSUME NEW a \in Accounts,
             \/ \E sources \in SUBSET Sources : SyncOne(a, sources)
             \/ \E s \in Sources : CalendarChanged(a, s)
      PROVE  Step
  BY <1>7, RequestsStep
<1>8. ASSUME NEW a \in Accounts,
             \/ AddAccount(a) \/ RemoveAccount(a) \/ EnableAccount(a)
             \/ \E whole \in BOOLEAN : DisableAccount(a, whole)
      PROVE  Step
  BY <1>8, AccountSetStep
<1>9. CASE UNCHANGED vars
  <2>1. /\ UNCHANGED <<syncQueue, offlineQueue, currentJob, syncing, timer, network, attached>>
        /\ UNCHANGED <<presence, enabled, failed, ctl, dangling, pending, frozen, quiet,
                       changes, wakelock, published, events>>
    BY <1>9 DEF vars, queues, accountVars, eds
  <2>2. SyncOK' /\ AccountsOK' /\ RestOK'
    BY <2>1 DEF Inv, SyncOK, SyncTypes, JobHolds, IdleHolds, AccountsOK, RestOK
  <2> QED BY <1>9, <2>2 DEF Inv
<1> QED BY <1>1, <1>2, <1>3, <1>4, <1>5, <1>6, <1>7, <1>8, <1>9 DEF Next

(* The inductive invariant (continueSync, syncFinishedImpl, sync, cancel). *)
THEOREM Invariance == Spec => []Inv
<1>1. Inv /\ [Next]_vars => Inv'
  BY NextStep DEF Step
<1> QED BY <1>1, InitInv, PTL DEF Spec

LEMMA InvType == Inv => TypeOK
<1> SUFFICES ASSUME Inv PROVE TypeOK
  OBVIOUS
<1>1. currentJob \in Jobs \cup {[NoJob EXCEPT !.paid = paid] : paid \in BOOLEAN}
  BY DEF Inv, SyncOK, SyncTypes, CurrentJobs
<1>2. pending \in Seq([name : Signals \cup {"request"}, from : Accounts,
                       results : Seq(ResultCodes)])
  BY DEF Inv, AccountsOK, PendingSignals
<1>3. ctl \in [Accounts -> Controls] /\ dangling \subseteq Accounts
  BY DEF Inv, AccountsOK, ControlsOf
<1> QED BY <1>1, <1>2, <1>3 DEF Inv, SyncOK, SyncTypes, RestOK, TypeOK

(* Whatever clients, accounts, network, timers and EDS do, in every order  *)
(* and for any number of accounts: the state of the daemon has its type    *)
(* (SyncDaemon, SyncQueue).                                                *)
THEOREM DaemonIsTyped == Spec => []TypeOK
BY Invariance, InvType, PTL

(* While a job is current, the daemon counts as syncing, EDS is frozen, the*)
(* wake lock is held and SyncDBus says so (continueSync, cancel).          *)
THEOREM JobsAreCovered == Spec => []JobIsCovered
<1>1. Inv => JobIsCovered
  BY DEF Inv, SyncOK, JobHolds, JobIsCovered, JobRuns
<1> QED BY <1>1, Invariance, PTL

(* A daemon that is not syncing holds no job, timer, wake lock or change of*)
(* EDS back (syncFinishedImpl).                                            *)
THEOREM IdleDaemonsHoldNothing == Spec => []IdleHoldsNothing
<1>1. Inv => IdleHoldsNothing
  BY DEF Inv, SyncOK, IdleHolds, IdleHoldsNothing
<1> QED BY <1>1, Invariance, PTL

(* No request replaces the job that runs (sync, isSyncing).                *)
THEOREM RunningJobsStay == Spec => RequestsWait
<1> DEFINE A == IsValid(currentJob) /\ IsValid(currentJob') /\ currentJob' # currentJob =>
                  (pending # <<>> /\ Head(pending).name = "syncFinished") \/ timer
<1>1. ASSUME Inv, [Next]_vars PROVE A
  <2>1. CASE Step
    BY <2>1 DEF Step, OneRuns
  <2>2. CASE UNCHANGED vars
    BY <2>2 DEF vars, queues
  <2> QED BY <1>1, <2>1, <2>2, NextStep
<1>2. Inv /\ [Next]_vars => [A]_vars
  BY <1>1
<1> QED BY <1>2, Invariance, PTL DEF Spec, RequestsWait

(* No job starts on a connection that it may not use (continueSync).       *)
THEOREM PaidConnectionsAreAllowed == Spec => MobileIsAllowed
<1> DEFINE A == IsValid(currentJob') /\ currentJob' # currentJob =>
                  network = "Online" \/ (network = "Partial" /\ currentJob'.paid)
<1>1. ASSUME Inv, [Next]_vars PROVE A
  <2>1. CASE Step
    BY <2>1 DEF Step, StartsOnLine, IsOnLine
  <2>2. CASE UNCHANGED vars
    BY <2>2 DEF vars, queues
  <2> QED BY <1>1, <2>1, <2>2, NextStep
<1>2. Inv /\ [Next]_vars => [A]_vars
  BY <1>1
<1> QED BY <1>2, Invariance, PTL DEF Spec, MobileIsAllowed

(* What the queues hold of one, they hold together. *)
LEMMA WaitsInBoth ==
  ASSUME NEW q \in Seq(Jobs), NEW off \in Seq(Jobs), NEW a
  PROVE  Waits(q \o off, a) <=> Waits(q, a) \/ Waits(off, a)
<1>1. /\ Len(q \o off) = Len(q) + Len(off)
      /\ \A i \in 1 .. Len(q) : (q \o off)[i] = q[i]
      /\ \A i \in 1 .. Len(off) : (q \o off)[Len(q) + i] = off[i]
  OBVIOUS
<1>2. Len(q) \in Nat /\ Len(off) \in Nat
  OBVIOUS
<1> DEFINE both == q \o off
<1> HIDE DEF both
<1>3. ASSUME NEW i \in 1 .. Len(off), off[i].acc = a PROVE Waits(both, a)
  <2>1. Len(q) + i \in 1 .. Len(both) /\ both[Len(q) + i] = off[i]
    BY <1>1, <1>2 DEF both
  <2> QED BY <1>3, <2>1 DEF Waits
<1>4. ASSUME NEW i \in 1 .. Len(q), q[i].acc = a PROVE Waits(both, a)
  <2>1. i \in 1 .. Len(both) /\ both[i] = q[i]
    BY <1>1, <1>2 DEF both
  <2> QED BY <1>4, <2>1 DEF Waits
<1>5. ASSUME NEW i \in 1 .. Len(both), both[i].acc = a PROVE Waits(q, a) \/ Waits(off, a)
  <2>1. CASE i <= Len(q)
    BY <1>1, <1>2, <1>5, <2>1 DEF Waits, both
  <2>2. CASE i > Len(q)
    <3>1. i - Len(q) \in 1 .. Len(off) /\ both[i] = off[i - Len(q)]
      BY <1>1, <1>2, <2>2 DEF both
    <3> QED BY <1>5, <3>1 DEF Waits
  <2> QED BY <1>1, <1>2, <2>1, <2>2
<1> QED BY <1>3, <1>4, <1>5 DEF Waits, both

(* What waits for an account stays until it starts or the account itself is*)
(* cancelled (push, onOnlineStatusChanged, syncFinishedImpl, cancel).      *)
THEOREM WaitingJobsStay == Spec => WaitingIsKept
<1> DEFINE A == \A a \in Accounts :
                  /\ Alive
                  /\ Waits(syncQueue \o offlineQueue, a)
                  /\ ~Waits(syncQueue' \o offlineQueue', a)
                  => \/ currentJob'.acc = a
                     \/ enabled[a] /\ ~enabled'[a]
                     \/ presence'[a] # presence[a]
<1>1. ASSUME Inv, [Next]_vars PROVE A
  <2> SUFFICES ASSUME NEW a \in Accounts, Alive, Waits(syncQueue \o offlineQueue, a),
                      ~Waits(syncQueue' \o offlineQueue', a)
               PROVE  currentJob'.acc = a \/ Cancelled(a)
    BY DEF Cancelled
  <2>1. WaitsFor(a)
    BY <1>1, WaitsInBoth DEF Inv, SyncOK, SyncTypes, WaitsFor
  <2>2. ~(WaitsFor(a)')
    <3>1. syncQueue' \in Seq(Jobs) /\ offlineQueue' \in Seq(Jobs)
      BY <1>1, NextStep DEF Step, Inv, SyncOK, SyncTypes
    <3> QED BY <3>1, WaitsInBoth DEF WaitsFor
  <2>3. CASE Step
    BY <2>1, <2>2, <2>3 DEF Step, Keeps
  <2>4. CASE UNCHANGED vars
    BY <2>1, <2>2, <2>4 DEF vars, queues, WaitsFor
  <2> QED BY <1>1, <2>3, <2>4, NextStep
<1>2. Inv /\ [Next]_vars => [A]_vars
  BY <1>1
<1> QED BY <1>2, Invariance, PTL DEF Spec, WaitingIsKept

(* Only the cancel of an account leaves the daemon with work that nothing  *)
(* goes on with (continueSync, syncFinishedImpl, onOnlineStatusChanged).   *)
THEOREM CancelsAloneStrand == Spec => OnlyCancelsStrand
<1> DEFINE A == ~Driven' => ~Driven \/ enabled' # enabled \/ presence' # presence
<1>1. ASSUME Inv, [Next]_vars PROVE A
  <2>1. CASE Step
    BY <2>1 DEF Step, StaysDriven, Driven, Work, GoesOn, Finishes
  <2>2. CASE syncQueue' = <<>> /\ ~syncing'
    BY <2>2 DEF Driven
  <2>3. CASE UNCHANGED vars
    BY <2>3 DEF vars, queues, accountVars, Driven, Alive
  <2> QED BY <1>1, <2>1, <2>2, <2>3, NextStep
<1>2. Inv /\ [Next]_vars => [A]_vars
  BY <1>1
<1> QED BY <1>2, Invariance, PTL DEF Spec, OnlyCancelsStrand

-----------------------------------------------------------------------------
(* What is left to do: for WorkRunsOut, how the sets that Workload counts  *)
(* change with each part of a handler, and then with each kind of action.  *)

Number(condition) == IF condition THEN 1 ELSE 0

\* How many elements of a set of accounts are there beside one.
LEMMA CountBeside ==
  ASSUME NEW S \in SUBSET Accounts, NEW a \in Accounts
  PROVE  /\ IsFiniteSet(S) /\ Cardinality(S) \in Nat /\ Cardinality(S \ {a}) \in Nat
         /\ Cardinality(S) = Cardinality(S \ {a}) + Number(a \in S)
<1>1. IsFiniteSet(S)
  BY DaemonConstants, FS_Subset
<1>2. IsFiniteSet(S \ {a}) /\ Cardinality(S) \in Nat /\ Cardinality(S \ {a}) \in Nat
  BY <1>1, FS_RemoveElement, FS_CardinalityType
<1> QED BY <1>1, <1>2, FS_RemoveElement DEF Number

LEMMA FewerAccounts ==
  ASSUME NEW S \in SUBSET Accounts, NEW T \in SUBSET S
  PROVE  Cardinality(T) <= Cardinality(S)
BY DaemonConstants, FS_Subset

Busy(c) == {a \in Accounts : c[a].config = "busy"}
Open(c) == {a \in Accounts : c[a].session \in MaySend}
Late(c) == {a \in Accounts : c[a].late}

\* The ends that accounts have left, all of them, all but one, and that one.
EndsOf(c) == Cardinality(Busy(c)) + Cardinality(Open(c)) + Cardinality(Late(c))
EndsBeside(c, a) ==
  Cardinality(Busy(c) \ {a}) + Cardinality(Open(c) \ {a}) + Cardinality(Late(c) \ {a})
Own(x) == Number(x.config = "busy") + Number(x.session \in MaySend) + Number(x.late)

LEMMA OwnType == \A x : Own(x) \in Nat /\ Own(x) <= 3
BY DEF Own, Number

LEMMA EndsSplit ==
  ASSUME NEW c, NEW a \in Accounts
  PROVE  /\ EndsOf(c) \in Nat /\ EndsBeside(c, a) \in Nat
         /\ EndsOf(c) = EndsBeside(c, a) + Own(c[a])
<1>1. Busy(c) \in SUBSET Accounts /\ Open(c) \in SUBSET Accounts /\ Late(c) \in SUBSET Accounts
  BY DEF Busy, Open, Late
<1>2. /\ Number(a \in Busy(c)) = Number(c[a].config = "busy")
      /\ Number(a \in Open(c)) = Number(c[a].session \in MaySend)
      /\ Number(a \in Late(c)) = Number(c[a].late)
  <2>1. /\ a \in Busy(c) <=> c[a].config = "busy"
        /\ a \in Open(c) <=> c[a].session \in MaySend
        /\ a \in Late(c) <=> c[a].late
    BY DEF Busy, Open, Late
  <2> QED BY <2>1, Zenon DEF Number
<1>3. /\ Number(c[a].config = "busy") \in Nat /\ Number(c[a].session \in MaySend) \in Nat
      /\ Number(c[a].late) \in Nat
  BY DEF Number
<1>4. /\ Cardinality(Busy(c)) \in Nat /\ Cardinality(Busy(c) \ {a}) \in Nat
      /\ Cardinality(Busy(c)) = Cardinality(Busy(c) \ {a}) + Number(c[a].config = "busy")
  <2>1. Busy(c) \in SUBSET Accounts /\ Number(a \in Busy(c)) = Number(c[a].config = "busy")
    BY <1>1, <1>2
  <2> QED BY <2>1, CountBeside
<1>5. /\ Cardinality(Open(c)) \in Nat /\ Cardinality(Open(c) \ {a}) \in Nat
      /\ Cardinality(Open(c)) = Cardinality(Open(c) \ {a}) + Number(c[a].session \in MaySend)
  <2>1. /\ Open(c) \in SUBSET Accounts
        /\ Number(a \in Open(c)) = Number(c[a].session \in MaySend)
    BY <1>1, <1>2
  <2> QED BY <2>1, CountBeside
<1>6. /\ Cardinality(Late(c)) \in Nat /\ Cardinality(Late(c) \ {a}) \in Nat
      /\ Cardinality(Late(c)) = Cardinality(Late(c) \ {a}) + Number(c[a].late)
  <2>1. Late(c) \in SUBSET Accounts /\ Number(a \in Late(c)) = Number(c[a].late)
    BY <1>1, <1>2
  <2> QED BY <2>1, CountBeside
<1> QED BY <1>3, <1>4, <1>5, <1>6 DEF EndsOf, EndsBeside, Own

LEMMA EndsOfType == \A c : EndsOf(c) \in Nat
<1> SUFFICES ASSUME NEW c PROVE EndsOf(c) \in Nat
  OBVIOUS
<1>1. ASSUME NEW S \in SUBSET Accounts PROVE Cardinality(S) \in Nat
  BY DaemonConstants, FS_Subset, FS_CardinalityType
<1>2. Busy(c) \in SUBSET Accounts /\ Open(c) \in SUBSET Accounts /\ Late(c) \in SUBSET Accounts
  BY DEF Busy, Open, Late
<1>3. /\ Cardinality(Busy(c)) \in Nat /\ Cardinality(Open(c)) \in Nat
      /\ Cardinality(Late(c)) \in Nat
  BY <1>1, <1>2
<1> QED BY <1>3 DEF EndsOf

LEMMA EndsOfOne ==
  ASSUME NEW c \in ControlsOf, NEW a \in Accounts, NEW x
  PROVE  EndsOf([c EXCEPT ![a] = x]) = EndsBeside(c, a) + Own(x)
<1> DEFINE d == [c EXCEPT ![a] = x]
<1>1. d[a] = x /\ \A b \in Accounts \ {a} : d[b] = c[b]
  BY DEF ControlsOf
<1> HIDE DEF d
<1>2. /\ Busy(d) \ {a} = Busy(c) \ {a} /\ Open(d) \ {a} = Open(c) \ {a}
      /\ Late(d) \ {a} = Late(c) \ {a}
  BY <1>1 DEF Busy, Open, Late
<1>3. EndsOf(d) = EndsBeside(d, a) + Own(d[a])
  BY EndsSplit
<1> QED BY <1>1, <1>2, <1>3 DEF EndsBeside, d

\* A deleted server proxy ends nothing more.
LEMMA DetachedEnds ==
  ASSUME NEW c \in ControlsOf, NEW d \in Detached(c), NEW a \in Accounts
  PROVE  /\ EndsOf(d) <= EndsOf(c)
         /\ EndsBeside(d, a) <= EndsBeside(c, a)
         /\ d[a].session \notin MaySend /\ ~d[a].late
<1>1. PICK lost : d = [b \in Accounts |->
           [c[b] EXCEPT !.session = IF @ = "none" THEN "none" ELSE "over",
                        !.late = FALSE,
                        !.config = IF b \in lost THEN "lost" ELSE @]]
  BY DEF Detached
<1>2. ASSUME NEW b \in Accounts
      PROVE  /\ d[b].session \notin MaySend /\ d[b].late = FALSE
             /\ d[b].config = "busy" => c[b].config = "busy"
  BY <1>1 DEF ControlsOf, Controls, MaySend
<1>3. Busy(d) \subseteq Busy(c) /\ Open(d) = {} /\ Late(d) = {}
  BY <1>2 DEF Busy, Open, Late
<1>4. /\ Busy(c) \in SUBSET Accounts /\ Open(c) \in SUBSET Accounts /\ Late(c) \in SUBSET Accounts
      /\ Busy(c) \ {a} \in SUBSET Accounts /\ Open(c) \ {a} \in SUBSET Accounts
      /\ Late(c) \ {a} \in SUBSET Accounts
  BY DEF Busy, Open, Late
<1>5. /\ Cardinality(Busy(c)) \in Nat /\ Cardinality(Open(c)) \in Nat
      /\ Cardinality(Late(c)) \in Nat
      /\ Cardinality(Busy(c) \ {a}) \in Nat /\ Cardinality(Open(c) \ {a}) \in Nat
      /\ Cardinality(Late(c) \ {a}) \in Nat
  BY <1>4, CountBeside
<1>6. /\ Cardinality(Busy(d)) \in Nat /\ Cardinality(Busy(d) \ {a}) \in Nat
  BY <1>3, <1>4, CountBeside
<1>7. /\ Cardinality(Busy(d)) <= Cardinality(Busy(c))
      /\ Cardinality(Busy(d) \ {a}) <= Cardinality(Busy(c) \ {a})
  <2>1. Busy(d) \ {a} \in SUBSET (Busy(c) \ {a})
    BY <1>3
  <2> QED BY <1>3, <1>4, <2>1, FewerAccounts
<1>8. Cardinality({}) = 0 /\ {} \ {a} = {}
  BY FS_EmptySet
<1>9. EndsOf(d) = Cardinality(Busy(d)) /\ EndsBeside(d, a) = Cardinality(Busy(d) \ {a})
  <2>1. /\ Cardinality(Open(d)) = 0 /\ Cardinality(Late(d)) = 0
        /\ Cardinality(Open(d) \ {a}) = 0 /\ Cardinality(Late(d) \ {a}) = 0
    BY <1>3, <1>8
  <2> QED BY <1>6, <2>1 DEF EndsOf, EndsBeside
<1>10. EndsOf(d) <= EndsOf(c) /\ EndsBeside(d, a) <= EndsBeside(c, a)
  BY <1>5, <1>6, <1>7, <1>9 DEF EndsOf, EndsBeside
<1> QED BY <1>2, <1>10

-----------------------------------------------------------------------------
(* The signals to deliver. *)

Named(signals, name) == {i \in 1 .. Len(signals) : signals[i].name = name}

LEMMA NamedIsFinite ==
  ASSUME NEW s \in Seq(PendingSignals), NEW name
  PROVE  IsFiniteSet(Named(s, name)) /\ Cardinality(Named(s, name)) \in Nat
<1>1. Len(s) \in Nat /\ IsFiniteSet(1 .. Len(s))
  BY FS_Interval
<1>2. Named(s, name) \in SUBSET (1 .. Len(s))
  BY DEF Named
<1> QED BY <1>1, <1>2, FS_Subset, FS_CardinalityType

LEMMA NamedConcat ==
  ASSUME NEW s \in Seq(PendingSignals), NEW rest \in Seq(PendingSignals), NEW name
  PROVE  Cardinality(Named(s \o rest, name))
           = Cardinality(Named(s, name)) + Cardinality(Named(rest, name))
<1> DEFINE all == s \o rest
           moved == {i \in Named(all, name) : i > Len(s)}
           shift == [i \in Named(rest, name) |-> Len(s) + i]
<1>1. /\ Len(all) = Len(s) + Len(rest)
      /\ \A i \in 1 .. Len(s) : all[i] = s[i]
      /\ \A i \in 1 .. Len(rest) : all[Len(s) + i] = rest[i]
      /\ Len(s) \in Nat /\ Len(rest) \in Nat
  OBVIOUS
<1> HIDE DEF all
<1>2. Named(all, name) = Named(s, name) \cup moved /\ Named(s, name) \cap moved = {}
  BY <1>1 DEF Named
<1>3. shift \in Bijection(Named(rest, name), moved)
  <2>1. \A i \in Named(rest, name) : i \in Int /\ shift[i] = Len(s) + i
    BY <1>1 DEF Named
  <2>2. ASSUME NEW i \in Named(rest, name) PROVE shift[i] \in moved
    <3>1. i \in 1 .. Len(rest) /\ rest[i].name = name
      BY DEF Named
    <3>2. Len(s) + i \in 1 .. Len(all) /\ all[Len(s) + i] = rest[i] /\ Len(s) + i > Len(s)
      BY <1>1, <3>1
    <3> QED BY <2>1, <3>1, <3>2 DEF Named
  <2>3. ASSUME NEW k \in moved PROVE \E i \in Named(rest, name) : shift[i] = k
    <3>1. k \in 1 .. Len(all) /\ all[k].name = name /\ k > Len(s)
      BY DEF Named
    <3>2. k - Len(s) \in 1 .. Len(rest) /\ Len(s) + (k - Len(s)) = k
      BY <1>1, <3>1
    <3>3. k - Len(s) \in Named(rest, name)
      BY <1>1, <3>1, <3>2 DEF Named
    <3> QED BY <2>1, <3>2, <3>3
  <2>4. \A i, j \in Named(rest, name) : shift[i] = shift[j] => i = j
    BY <1>1, <2>1
  <2>5. shift \in [Named(rest, name) -> moved]
    BY <2>2
  <2> HIDE DEF shift, moved
  <2> QED BY <2>3, <2>4, <2>5 DEF Bijection, Injection, Surjection, IsInjective
<1> HIDE DEF moved, shift
<1>4. /\ IsFiniteSet(Named(rest, name)) /\ IsFiniteSet(Named(s, name))
      /\ Cardinality(Named(s, name)) \in Nat /\ Cardinality(Named(rest, name)) \in Nat
  BY NamedIsFinite
<1>5. IsFiniteSet(moved) /\ Cardinality(moved) = Cardinality(Named(rest, name))
  <2>1. ExistsBijection(Named(rest, name), moved)
    BY <1>3 DEF ExistsBijection
  <2> QED BY <1>4, <2>1, FS_Bijection
<1>6. Cardinality(Named(all, name))
        = Cardinality(Named(s, name)) + Cardinality(moved) - Cardinality({})
  BY <1>2, <1>4, <1>5, FS_Union
<1> QED BY <1>4, <1>5, <1>6, FS_EmptySet DEF all

LEMMA NamedTail ==
  ASSUME NEW s \in Seq(PendingSignals), s # <<>>, NEW name
  PROVE  Cardinality(Named(s, name))
           = Number(Head(s).name = name) + Cardinality(Named(Tail(s), name))
<1> DEFINE h == <<Head(s)>>
<1>1. /\ s = h \o Tail(s) /\ h \in Seq(PendingSignals) /\ Tail(s) \in Seq(PendingSignals)
      /\ Len(h) = 1 /\ h[1] = Head(s)
  OBVIOUS
<1> HIDE DEF h
<1>2. Named(h, name) = IF Head(s).name = name THEN {1} ELSE {}
  BY <1>1 DEF Named
<1>3. Cardinality({1}) = 1 /\ Cardinality({}) = 0
  BY FS_Singleton, FS_EmptySet
<1> DEFINE t == Tail(s)
<1>4. Cardinality(Named(s, name)) = Cardinality(Named(h, name)) + Cardinality(Named(t, name))
  <2>1. s = h \o t /\ h \in Seq(PendingSignals) /\ t \in Seq(PendingSignals)
    BY <1>1
  <2> HIDE DEF t
  <2>2. Cardinality(Named(h \o t, name)) = Cardinality(Named(h, name)) + Cardinality(Named(t, name))
    BY <2>1, NamedConcat
  <2> QED BY <2>1, <2>2
<1> QED BY <1>2, <1>3, <1>4 DEF Number

-----------------------------------------------------------------------------
(* What an outcome leaves to do: the ends its account has left and the one *)
(* it emits.                                                               *)
Emitted == {<<>>, <<"syncStarted">>, <<"syncFinished">>, <<"syncError", "syncFinished">>}
Ends(signals) == Number(signals \notin {<<>>, <<"syncStarted">>})
Cost(outcome) == Own(outcome.next) + Ends(outcome.signals)

LEMMA EndsType == \A signals : Ends(signals) \in Nat
BY DEF Ends, Number

LEMMA SilentCost ==
  ASSUME NEW x PROVE Silent(x).signals \in Emitted /\ Cost(Silent(x)) = Own(x)
BY OwnType DEF Silent, Outcome, Cost, Ends, Emitted, Number

LEMMA Appended ==
  ASSUME NEW S, NEW s \in Seq(S), NEW x \in S, NEW t \in Seq(S), Len(t) = Len(s) + 1,
         t[Len(t)] = x, \A i \in 1 .. Len(s) : t[i] = s[i]
  PROVE  Append(s, x) = t
<1> DEFINE r == Append(s, x)
<1>1. /\ r \in Seq(S) /\ Len(r) = Len(s) + 1 /\ r[Len(r)] = x
      /\ \A i \in 1 .. Len(s) : r[i] = s[i]
  OBVIOUS
<1> HIDE DEF r
<1>2. Len(s) \in Nat
  OBVIOUS
<1>3. \A i \in 1 .. Len(t) : t[i] = r[i]
  BY <1>1, <1>2
<1>4. t = [i \in 1 .. Len(t) |-> t[i]] /\ r = [i \in 1 .. Len(t) |-> r[i]]
  BY <1>1
<1>5. r = t
  BY <1>3, <1>4
<1> QED BY <1>5 DEF r

LEMMA AppendShort ==
  /\ Append(<<>>, "syncFinished") = <<"syncFinished">>
  /\ Append(<<"syncError">>, "syncFinished") = <<"syncError", "syncFinished">>
  /\ Append(<<"syncError", "syncFinished">>, "resume") = <<"syncError", "syncFinished", "resume">>
<1>1. "syncError" \in Signals /\ "syncFinished" \in Signals /\ "resume" \in Signals
  BY DEF Signals
<1>2. ASSUME NEW x \in Signals, NEW y \in Signals, NEW z \in Signals
      PROVE  /\ Append(<<>>, x) = <<x>>
             /\ Append(<<x>>, y) = <<x, y>>
             /\ Append(<<x, y>>, z) = <<x, y, z>>
  <2>1. /\ <<>> \in Seq(Signals) /\ <<x>> \in Seq(Signals) /\ <<x, y>> \in Seq(Signals)
        /\ <<x, y, z>> \in Seq(Signals)
    OBVIOUS
  <2>2. Len(<<>>) = 0 /\ Len(<<x>>) = 1 /\ Len(<<x, y>>) = 2 /\ Len(<<x, y, z>>) = 3
    OBVIOUS
  <2>3. Append(<<>>, x) = <<x>>
    BY <2>1, <2>2, Appended
  <2>4. Append(<<x>>, y) = <<x, y>>
    <3> DEFINE s == <<x>>
               t == <<x, y>>
    <3>1. (\A i \in 1 .. 1 : t[i] = s[i]) /\ t[2] = y
      OBVIOUS
    <3>2. s \in Seq(Signals) /\ t \in Seq(Signals) /\ Len(s) = 1 /\ Len(t) = 2
      BY <2>1, <2>2
    <3> HIDE DEF s, t
    <3>3. Append(s, y) = t
      BY <3>1, <3>2, Appended
    <3> QED BY <3>3 DEF s, t
  <2>5. Append(<<x, y>>, z) = <<x, y, z>>
    <3> DEFINE s == <<x, y>>
               t == <<x, y, z>>
    <3>1. (\A i \in 1 .. 2 : t[i] = s[i]) /\ t[3] = z
      OBVIOUS
    <3>2. s \in Seq(Signals) /\ t \in Seq(Signals) /\ Len(s) = 2 /\ Len(t) = 3
      BY <2>1, <2>2
    <3> HIDE DEF s, t
    <3>3. /\ Len(t) = Len(s) + 1 /\ t[Len(t)] = z
          /\ \A i \in 1 .. Len(s) : t[i] = s[i]
      BY <3>1, <3>2
    <3>4. Append(s, z) = t
      BY <3>2, <3>3, Appended
    <3> QED BY <3>4 DEF s, t
  <2> QED BY <2>3, <2>4, <2>5
<1> QED BY <1>1, <1>2

LEMMA FinishCost ==
  ASSUME NEW x \in Controls, NEW signals \in {<<>>, <<"syncError">>}
  PROVE  /\ Finish(x, signals).signals \in Emitted
         /\ Cost(Finish(x, signals))
              = Number(x.config = "busy") + Number(x.late /\ x.session = "none") + 1
<1> DEFINE next == [x EXCEPT !.state = "Idle", !.session = "none",
                             !.late = @ /\ x.session = "none"]
           said == Append(signals, "syncFinished")
<1>1. Finish(x, signals).next = next /\ Finish(x, signals).signals = said
  BY DEF Finish, Outcome
<1>2. said \in {<<"syncFinished">>, <<"syncError", "syncFinished">>}
  BY AppendShort
<1>3. /\ next.config = x.config /\ next.session = "none"
      /\ next.late = (x.late /\ x.session = "none")
  BY DEF Controls
<1> HIDE DEF next, said
<1>4. Ends(said) = 1 /\ said \in Emitted
  <2>1. <<"syncFinished">> # <<>> /\ <<"syncFinished">> # <<"syncStarted">>
    OBVIOUS
  <2>2. /\ <<"syncError", "syncFinished">> # <<>>
        /\ <<"syncError", "syncFinished">> # <<"syncStarted">>
    OBVIOUS
  <2> QED BY <1>2, <2>1, <2>2 DEF Ends, Number, Emitted
<1>5. Own(next) = Number(x.config = "busy") + Number(x.late /\ x.session = "none")
  <2>1. Number(next.late) = Number(x.late /\ x.session = "none")
    BY <1>3
  <2>2. Number(next.session \in MaySend) = 0 /\ Number(next.config = "busy") \in Nat
    BY <1>3 DEF Number, MaySend
  <2>3. Number(x.late /\ x.session = "none") \in Nat
    BY DEF Number
  <2> QED BY <1>3, <2>1, <2>2, <2>3 DEF Own
<1> QED BY <1>1, <1>4, <1>5 DEF Cost

LEMMA ContinueCost ==
  ASSUME NEW x \in Controls, NEW o \in Continue(x), o.next # Dead
  PROVE  o.signals \in Emitted /\ Cost(o) <= Own(x) + 1
<1>1. CASE o = Silent([x EXCEPT !.state = "Invalid"])
  <2>1. Own([x EXCEPT !.state = "Invalid"]) = Own(x)
    BY DEF Own, Controls
  <2> QED BY <1>1, <2>1, SilentCost, OwnType
<1>2. CASE o = Silent(Dead)
  BY <1>2 DEF Silent, Outcome
<1>3. CASE x.session = "none" /\ o = Finish([x EXCEPT !.late = FALSE], <<>>)
  <2> DEFINE y == [x EXCEPT !.late = FALSE]
  <2>1. y \in Controls /\ y.late = FALSE /\ y.config = x.config
    BY DEF Controls
  <2> HIDE DEF y
  <2>2. /\ Finish(y, <<>>).signals \in Emitted
        /\ Cost(Finish(y, <<>>))
              = Number(y.config = "busy") + Number(y.late /\ y.session = "none") + 1
    BY <2>1, FinishCost
  <2> QED BY <1>3, <2>1, <2>2 DEF Own, Number, y
<1>4. ASSUME x.session = "none", NEW s \in MaySend,
             o = Silent([x EXCEPT !.state = "AboutToSync", !.session = s])
      PROVE  o.signals \in Emitted /\ Cost(o) <= Own(x) + 1
  <2>1. Own([x EXCEPT !.state = "AboutToSync", !.session = s]) = Own(x) + 1
    BY <1>4 DEF Own, Controls, Number, MaySend
  <2> QED BY <1>4, <2>1, SilentCost, OwnType
<1> QED BY <1>1, <1>2, <1>3, <1>4 DEF Continue

LEMMA ConfiguredCost ==
  ASSUME NEW x \in Controls, NEW o \in Configured(x), o.next # Dead
  PROVE  /\ o.signals \in Emitted /\ Cost(o) <= Own(x) + 1
         /\ x.config = "busy" => Cost(o) <= Own(x)
<1> DEFINE y == [x EXCEPT !.config = "none"]
<1>1. y \in Controls /\ Own(x) = Own(y) + Number(x.config = "busy")
  BY DEF Controls, Own, Number
<1>2. o \in Continue(y)
  BY DEF Configured
<1> HIDE DEF y
<1>3. o.signals \in Emitted /\ Cost(o) <= Own(y) + 1
  BY <1>1, <1>2, ContinueCost
<1>4. Cost(o) \in Nat /\ Own(y) \in Nat
  BY OwnType, EndsType DEF Cost
<1> QED BY <1>1, <1>3, <1>4 DEF Number

LEMMA ConfigErrorCost ==
  ASSUME NEW x \in Controls
  PROVE  /\ ConfigError(x).signals \in Emitted
         /\ Cost(ConfigError(x)) = Number(x.late /\ x.session = "none") + 1
<1> DEFINE y == [x EXCEPT !.config = "none"]
<1>1. y \in Controls /\ y.config = "none" /\ y.late = x.late /\ y.session = x.session
  BY DEF Controls
<1> HIDE DEF y
<1>2. /\ Finish(y, <<"syncError">>).signals \in Emitted
      /\ Cost(Finish(y, <<"syncError">>))
            = Number(y.config = "busy") + Number(y.late /\ y.session = "none") + 1
  BY <1>1, FinishCost
<1>3. ConfigError(x) = Finish(y, <<"syncError">>)
  BY DEF ConfigError, y
<1> QED BY <1>1, <1>2, <1>3 DEF Number

LEMMA SyncCost ==
  ASSUME NEW x \in Controls, NEW o \in SyncOutcomes(x), o.next # Dead
  PROVE  o.signals \in Emitted /\ Cost(o) <= Own(x) + 1
<1>1. CASE o = Silent(x)
  BY <1>1, SilentCost, OwnType
<1>2. CASE o \in Continue(x)
  BY <1>2, ContinueCost
<1>3. CASE x.config = "none" /\ o = Silent([x EXCEPT !.state = "Configuring", !.config = "busy"])
  <2>1. Own([x EXCEPT !.state = "Configuring", !.config = "busy"]) = Own(x) + 1
    BY <1>3 DEF Own, Controls, Number
  <2> QED BY <1>3, <2>1, SilentCost, OwnType
<1>4. CASE o = ConfigError(x)
  BY <1>4, ConfigErrorCost DEF Own, Number
<1> QED BY <1>1, <1>2, <1>3, <1>4 DEF SyncOutcomes

\* The configuration goes on after its error.
Resumes(o) == o.signals = <<"syncError", "syncFinished", "resume">>

LEMMA ConfigCost ==
  ASSUME NEW x \in Controls, NEW o \in ConfigOutcomes(x), o.next # Dead
  PROVE  Resumes(o) \/ (o.signals \in Emitted /\ Cost(o) <= Own(x))
<1>1. x.config = "busy" /\ x.late = FALSE
  BY DEF ConfigOutcomes, Controls
<1>2. CASE o = Silent(x) \/ o = Silent(Dead)
  BY <1>2, SilentCost, OwnType DEF Silent, Outcome
<1>3. CASE o = ConfigError(x)
  BY <1>1, <1>3, ConfigErrorCost DEF Own, Number
<1>4. CASE o = Outcome(ConfigError(x).next, Append(ConfigError(x).signals, "resume"))
  <2>1. ConfigError(x).signals = <<"syncError", "syncFinished">>
    BY AppendShort DEF ConfigError, Finish, Outcome
  <2>2. o.signals = Append(<<"syncError", "syncFinished">>, "resume")
    BY <1>4, <2>1 DEF Outcome
  <2> QED BY <2>2, AppendShort DEF Resumes
<1>5. CASE o = Silent([x EXCEPT !.config = "lost"])
  <2>1. Own([x EXCEPT !.config = "lost"]) <= Own(x)
    BY DEF Own, Controls, Number
  <2> QED BY <1>5, <2>1, SilentCost
<1>6. CASE o \in Configured(x)
  BY <1>1, <1>6, ConfiguredCost
<1> QED BY <1>2, <1>3, <1>4, <1>5, <1>6 DEF ConfigOutcomes

LEMMA SessionCost ==
  ASSUME NEW x \in Controls, NEW o \in SessionOutcomes(x) \cup LateOutcomes(x)
  PROVE  o.signals \in Emitted /\ Cost(o) <= Own(x)
<1> DEFINE y == [x EXCEPT !.late = FALSE]
           over == [x EXCEPT !.session = "over"]
           lost == [x EXCEPT !.session = "lost"]
<1>1. /\ y \in Controls /\ y.late = FALSE /\ y.config = x.config /\ y.session = x.session
      /\ over \in Controls /\ over.config = x.config /\ over.late = x.late
      /\ over.session = "over"
      /\ lost \in Controls /\ lost.config = x.config /\ lost.late = x.late
      /\ lost.session = "lost"
  BY DEF Controls
<1>2. CASE o = Started(x)
  <2>1. Own([x EXCEPT !.state = "Syncing"]) = Own(x)
    BY DEF Own, Controls
  <2>2. Ends(<<"syncStarted">>) = 0 /\ <<"syncStarted">> \in Emitted
    BY DEF Ends, Number, Emitted
  <2> QED BY <1>2, <2>1, <2>2, SilentCost, OwnType DEF Started, Outcome, Cost
<1> HIDE DEF y, over, lost
<1>3. /\ Own(y) <= Own(x) /\ Own(over) <= Own(x)
      /\ x.session \in MaySend => Own(lost) <= Own(x)
  BY <1>1 DEF Own, Number, MaySend
<1>4. CASE o \in {Silent(y), Silent(over)} \/ (x.session \in MaySend /\ o = Silent(lost))
  BY <1>3, <1>4, SilentCost
<1>5. ASSUME x.session \in MaySend, NEW said \in {<<>>, <<"syncError">>}, o = Finish(x, said)
      PROVE  o.signals \in Emitted /\ Cost(o) <= Own(x)
  <2>1. /\ Finish(x, said).signals \in Emitted
        /\ Cost(Finish(x, said))
             = Number(x.config = "busy") + Number(x.late /\ x.session = "none") + 1
    BY FinishCost
  <2> QED BY <1>5, <2>1 DEF Own, Number, MaySend
<1>6. ASSUME x.late, NEW said \in {<<>>, <<"syncError">>}, o = Finish(y, said)
      PROVE  o.signals \in Emitted /\ Cost(o) <= Own(x)
  <2>1. /\ Finish(y, said).signals \in Emitted
        /\ Cost(Finish(y, said))
             = Number(y.config = "busy") + Number(y.late /\ y.session = "none") + 1
    BY <1>1, FinishCost
  <2> QED BY <1>1, <1>6, <2>1 DEF Own, Number
<1>7. CASE o \in SessionOutcomes(x)
  <2>1. /\ x.session \in MaySend
        /\ o \in {Started(x), Finish(x, <<>>), Finish(x, <<"syncError">>), Silent(over),
                   Silent(lost)}
    BY <1>7 DEF SessionOutcomes, over, lost
  <2> QED BY <1>2, <1>4, <1>5, <2>1
<1>8. CASE o \in LateOutcomes(x)
  <2>1. x.late /\ o \in {Started(x), Finish(y, <<>>), Finish(y, <<"syncError">>), Silent(y)}
    BY <1>8 DEF LateOutcomes, y
  <2> QED BY <1>2, <1>4, <1>6, <2>1
<1> QED BY <1>7, <1>8

-----------------------------------------------------------------------------
(* The signals of an outcome are delivered. *)

Asked(signals) == Cardinality(Named(signals, "request"))
EndsIn(signals) ==
  Cardinality(Named(signals, "syncFinished")) + Cardinality(Named(signals, "resume"))

LEMMA EndsInType ==
  ASSUME NEW s \in Seq(PendingSignals)
  PROVE  Asked(s) \in Nat /\ EndsIn(s) \in Nat
BY NamedIsFinite DEF Asked, EndsIn

LEMMA EndsInConcat ==
  ASSUME NEW s \in Seq(PendingSignals), NEW rest \in Seq(PendingSignals)
  PROVE  /\ Asked(s \o rest) = Asked(s) + Asked(rest)
         /\ EndsIn(s \o rest) = EndsIn(s) + EndsIn(rest)
<1> DEFINE all == s \o rest
           N(t, name) == Cardinality(Named(t, name))
<1>1. \A name \in {"request", "syncFinished", "resume"} :
        N(all, name) = N(s, name) + N(rest, name) /\ N(s, name) \in Nat /\ N(rest, name) \in Nat
  BY NamedConcat, NamedIsFinite
<1> QED BY <1>1 DEF Asked, EndsIn

\* What the slots hear of the signals of an outcome.
HeardOf(signals) == IF signals = <<"syncStarted">> THEN <<>> ELSE signals

LEMMA HeardOfEmitted ==
  ASSUME NEW signals \in Emitted
  PROVE  \/ HeardOf(signals) = <<>> /\ Ends(signals) = 0
         \/ HeardOf(signals) = <<"syncFinished">> /\ Ends(signals) = 1
         \/ HeardOf(signals) = <<"syncError", "syncFinished">> /\ Ends(signals) = 1
<1>1. /\ <<"syncFinished">> # <<>> /\ <<"syncFinished">> # <<"syncStarted">>
      /\ <<"syncError", "syncFinished">> # <<>>
      /\ <<"syncError", "syncFinished">> # <<"syncStarted">>
  OBVIOUS
<1>2. CASE signals \in {<<>>, <<"syncStarted">>}
  BY <1>2 DEF HeardOf, Ends, Number
<1>3. CASE signals \in {<<"syncFinished">>, <<"syncError", "syncFinished">>}
  BY <1>1, <1>3 DEF HeardOf, Ends, Number
<1> QED BY <1>2, <1>3 DEF Emitted

LEMMA NoEnd ==
  ASSUME NEW s, Named(s, "request") = {}, Named(s, "syncFinished") = {},
         Named(s, "resume") = {}
  PROVE  Asked(s) = 0 /\ EndsIn(s) = 0
<1>1. Cardinality({}) = 0
  BY FS_EmptySet
<1> QED BY <1>1 DEF Asked, EndsIn

LEMMA OneEnd ==
  ASSUME NEW s, NEW i, Named(s, "request") = {}, Named(s, "syncFinished") = {i},
         Named(s, "resume") = {}
  PROVE  Asked(s) = 0 /\ EndsIn(s) = 1
<1>1. Cardinality({}) = 0 /\ Cardinality({i}) = 1
  BY FS_EmptySet, FS_Singleton
<1> QED BY <1>1 DEF Asked, EndsIn

\* s has the signals that an account delivers with its results.
AreDelivered(s, heard, a, results) ==
  s = [i \in DOMAIN heard |-> Signal(heard[i], a, results)]

LEMMA DeliveredEnds ==
  ASSUME NEW a \in Accounts, NEW results \in Seq(ResultCodes), NEW signals \in Emitted,
         NEW s, AreDelivered(s, HeardOf(signals), a, results)
  PROVE  s \in Seq(PendingSignals) /\ Asked(s) = 0 /\ EndsIn(s) = Ends(signals)
<1>1. \A name \in {"syncError", "syncFinished"} :
        /\ Signal(name, a, results) \in PendingSignals
        /\ Signal(name, a, results).name = name
  BY DEF Signal, PendingSignals, Signals
<1>2. CASE HeardOf(signals) = <<>> /\ Ends(signals) = 0
  <2>1. s = <<>>
    BY <1>2 DEF AreDelivered
  <2>2. Named(s, "request") = {} /\ Named(s, "syncFinished") = {} /\ Named(s, "resume") = {}
    BY <2>1 DEF Named
  <2>3. Asked(s) = 0 /\ EndsIn(s) = 0
    BY <2>2, NoEnd
  <2> QED BY <1>2, <2>1, <2>3
<1>3. CASE HeardOf(signals) = <<"syncFinished">> /\ Ends(signals) = 1
  <2>1. s = [i \in 1 .. 1 |-> Signal("syncFinished", a, results)]
    BY <1>3 DEF AreDelivered
  <2>2. s \in Seq(PendingSignals) /\ Len(s) = 1 /\ s[1].name = "syncFinished"
    BY <1>1, <2>1
  <2>3. Named(s, "request") = {} /\ Named(s, "syncFinished") = {1} /\ Named(s, "resume") = {}
    BY <2>2 DEF Named
  <2>4. Asked(s) = 0 /\ EndsIn(s) = 1
    BY <2>3, OneEnd
  <2> QED BY <1>3, <2>2, <2>4
<1>4. CASE HeardOf(signals) = <<"syncError", "syncFinished">> /\ Ends(signals) = 1
  <2> DEFINE heard == HeardOf(signals)
  <2>1. /\ s = [i \in 1 .. 2 |-> Signal(heard[i], a, results)]
        /\ heard[1] = "syncError" /\ heard[2] = "syncFinished"
    BY <1>4 DEF AreDelivered
  <2> HIDE DEF heard
  <2>2. \A i \in 1 .. 2 : s[i] \in PendingSignals /\ s[i].name = heard[i]
    BY <1>1, <2>1
  <2>3. s \in Seq(PendingSignals) /\ Len(s) = 2
    BY <2>1, <2>2
  <2>4. s[1].name = "syncError" /\ s[2].name = "syncFinished"
    BY <2>1, <2>2
  <2>5. Named(s, "request") = {} /\ Named(s, "syncFinished") = {2} /\ Named(s, "resume") = {}
    BY <2>3, <2>4 DEF Named
  <2>6. Asked(s) = 0 /\ EndsIn(s) = 1
    BY <2>5, OneEnd
  <2> QED BY <1>4, <2>3, <2>6
<1> QED BY <1>2, <1>3, <1>4, HeardOfEmitted

LEMMA DeadStops ==
  ASSUME NEW a \in Accounts, NEW outcome, NEW results, NEW c, NEW d, NEW rest,
         Deliver(a, outcome, results, c, d, rest), Alive'
  PROVE  outcome.next # Dead
BY DEF Deliver, Alive

LEMMA DeliverWork ==
  ASSUME NEW a \in Accounts, NEW outcome, outcome.signals \in Emitted,
         NEW results \in Seq(ResultCodes), NEW c \in ControlsOf, NEW d,
         NEW rest \in Seq(PendingSignals),
         Deliver(a, outcome, results, c, d, rest), Alive'
  PROVE  /\ Asked(pending') = Asked(rest)
         /\ EndsOf(ctl') + EndsIn(pending') = EndsBeside(c, a) + Cost(outcome) + EndsIn(rest)
<1> DEFINE heard == HeardOf(outcome.signals)
           s == [i \in DOMAIN heard |-> Signal(heard[i], a, results)]
<1>1. outcome.next # Dead
  BY DeadStops
<1>2. ctl' = [c EXCEPT ![a] = outcome.next] /\ pending' = s \o rest
  BY <1>1 DEF Deliver, HeardOf
<1>3. s \in Seq(PendingSignals) /\ Asked(s) = 0 /\ EndsIn(s) = Ends(outcome.signals)
  <2>1. AreDelivered(s, heard, a, results)
    BY DEF AreDelivered
  <2> HIDE DEF s
  <2> QED BY <2>1, DeliveredEnds
<1> HIDE DEF s
<1>4. Asked(s \o rest) = Asked(s) + Asked(rest) /\ EndsIn(s \o rest) = EndsIn(s) + EndsIn(rest)
  BY <1>3, EndsInConcat
<1>5. EndsOf(ctl') = EndsBeside(c, a) + Own(outcome.next)
  BY <1>2, EndsOfOne
<1>6. /\ Asked(rest) \in Nat /\ EndsIn(rest) \in Nat /\ EndsBeside(c, a) \in Nat
      /\ Own(outcome.next) \in Nat /\ Ends(outcome.signals) \in Nat
  BY EndsInType, EndsSplit, OwnType, EndsType
<1>7. Asked(pending') = Asked(s) + Asked(rest) /\ EndsIn(pending') = EndsIn(s) + EndsIn(rest)
  BY <1>2, <1>4
<1> QED BY <1>3, <1>5, <1>6, <1>7 DEF Cost

\* One outcome that is not the end of the process, or the end of it.
LEMMA StopsOrNot ==
  ASSUME NEW a, NEW d, NEW outcomes, NEW outcome \in OrStops(a, d, outcomes),
         outcome.next # Dead
  PROVE  outcome \in outcomes
BY DEF OrStops, Silent, Outcome

-----------------------------------------------------------------------------
(* The work of a queue q, with changes ch to flush, accounts c and signals *)
(* to deliver.                                                             *)
Total(asked, waiting, ends) == 5 * asked + 4 * waiting + 3 * ends
Load(q, ch, c, signals) ==
  Total(Asked(signals), Len(q) + Cardinality(ch), EndsOf(c) + EndsIn(signals))

LoadNow == Load(syncQueue, changes, ctl, pending)

LEMMA ChangesCount ==
  ASSUME SyncTypes
  PROVE  IsFiniteSet(changes) /\ Cardinality(changes) \in Nat
<1>1. changes \in SUBSET (Accounts \X Sources) /\ IsFiniteSet(Accounts \X Sources)
  BY DaemonConstants, FS_Product DEF SyncTypes
<1> QED BY <1>1, FS_Subset, FS_CardinalityType

LEMMA StartJobWork ==
  ASSUME NEW job \in Jobs, NEW q \in Seq(Jobs), NEW off,
         NEW c \in ControlsOf, NEW d, NEW rest \in Seq(PendingSignals),
         SyncTypes, Alive', StartJob(job, q, off, c, d, rest)
  PROVE  /\ currentJob' = job /\ syncQueue' \in Seq(Jobs) /\ changes' = {}
         /\ Len(syncQueue') <= Len(q) + Cardinality(changes)
         /\ Asked(pending') = Asked(rest)
         /\ EndsOf(ctl') + EndsIn(pending') <= EndsOf(c) + EndsIn(rest) + 1
<1>1. PICK order \in SeqExt!SetToSeqs(changes), mobile \in BOOLEAN :
        syncQueue' = Flushed(q, order, mobile)
  BY DEF StartJob
<1>2. order \in Seq(Accounts \X Sources) /\ Len(order) = Cardinality(changes)
  <2>1. order \in Seq(changes) /\ Len(order) = Cardinality(changes)
    BY ChangesCount, OrdersAreSequences
  <2> QED BY <2>1 DEF SyncTypes
<1>3. syncQueue' \in Seq(Jobs) /\ Len(syncQueue') <= Len(q) + Cardinality(changes)
  BY <1>1, <1>2, FlushedKeeps
<1>4. currentJob' = job /\ changes' = {}
  BY DEF StartJob, Freeze
<1>5. job.acc \in Accounts
  BY JobSources
<1>6. PICK outcome \in OrStops(job.acc, d, SyncOutcomes(c[job.acc])) :
        \E results \in ConfigResults(outcome) :
          Deliver(job.acc, outcome, results, c, d, rest)
  BY DEF StartJob
<1>7. PICK results \in ConfigResults(outcome) :
        Deliver(job.acc, outcome, results, c, d, rest)
  BY <1>6
<1>8. /\ outcome.next # Dead /\ outcome \in SyncOutcomes(c[job.acc])
      /\ c[job.acc] \in Controls /\ results \in Seq(ResultCodes)
  BY <1>5, <1>7, DeadStops, StopsOrNot, ConfigResultsType DEF ControlsOf
<1>9. outcome.signals \in Emitted /\ Cost(outcome) <= Own(c[job.acc]) + 1
  BY <1>8, SyncCost
<1>10. /\ Asked(pending') = Asked(rest)
       /\ EndsOf(ctl') + EndsIn(pending')
            = EndsBeside(c, job.acc) + Cost(outcome) + EndsIn(rest)
  BY <1>5, <1>7, <1>8, <1>9, DeliverWork
<1>11. /\ EndsOf(c) = EndsBeside(c, job.acc) + Own(c[job.acc])
       /\ EndsBeside(c, job.acc) \in Nat /\ Own(c[job.acc]) \in Nat
       /\ EndsIn(rest) \in Nat /\ Cost(outcome) \in Nat
  BY <1>5, EndsSplit, OwnType, EndsInType, EndsType DEF Cost
<1>12. EndsOf(ctl') + EndsIn(pending') <= EndsOf(c) + EndsIn(rest) + 1
  BY <1>9, <1>10, <1>11
<1> QED BY <1>3, <1>4, <1>10, <1>12

LEMMA TotalType ==
  \A asked, waiting, ends \in Nat : Total(asked, waiting, ends) \in Nat
BY DEF Total

LEMMA ContinueSyncWork ==
  ASSUME NEW q \in Seq(Jobs), NEW off, NEW timerAfter, NEW c \in ControlsOf, NEW d,
         NEW rest \in Seq(PendingSignals),
         SyncTypes, pending' \in Seq(PendingSignals),
         Alive', ContinueSync(q, off, timerAfter, c, d, rest)
  PROVE  /\ LoadNow' \in Nat /\ LoadNow' <= Load(q, changes, c, rest)
         /\ IsValid(currentJob') => LoadNow' < Load(q, changes, c, rest)
<1> DEFINE job == PopNext(q)
<1>1. Cardinality(changes) \in Nat /\ Len(q) \in Nat
  BY ChangesCount
<1>2. /\ EndsOf(c) \in Nat /\ EndsOf(ctl') \in Nat
      /\ Asked(rest) \in Nat /\ EndsIn(rest) \in Nat
      /\ Asked(pending') \in Nat /\ EndsIn(pending') \in Nat
  BY EndsOfType, EndsInType
<1>3. Cardinality({}) = 0 /\ <<>> \in Seq(Jobs) /\ Len(<<>>) = 0
  BY FS_EmptySet
<1> DEFINE before == Len(q) + Cardinality(changes)
           ends == EndsOf(c) + EndsIn(rest)
           after == Len(syncQueue') + Cardinality(changes')
           left == EndsOf(ctl') + EndsIn(pending')
<1>4. /\ Load(q, changes, c, rest) = Total(Asked(rest), before, ends)
      /\ LoadNow' = Total(Asked(pending'), after, left)
  BY DEF Load, LoadNow
<1>5. before \in Nat /\ ends \in Nat /\ left \in Nat
  BY <1>1, <1>2
<1>6. CASE IsValid(job) /\ StartJob(job, AfterPop(q), off, c, d, rest)
  <2>1. q # <<>> /\ job \in Jobs /\ AfterPop(q) \in Seq(Jobs) /\ Len(AfterPop(q)) = Len(q) - 1
    BY <1>6 DEF PopNext, AfterPop, NoJob, IsValid
  <2>2. /\ syncQueue' \in Seq(Jobs) /\ changes' = {}
        /\ Len(syncQueue') <= Len(AfterPop(q)) + Cardinality(changes)
        /\ Asked(pending') = Asked(rest)
        /\ left <= ends + 1
    BY <1>6, <2>1, StartJobWork
  <2>3. Len(syncQueue') \in Nat /\ Cardinality(changes') = 0
    BY <1>3, <2>2
  <2>4. after \in Nat /\ after <= before - 1
    BY <1>1, <2>1, <2>2, <2>3
  <2> HIDE DEF before, ends, after, left
  <2>5. Total(Asked(rest), after, left) < Total(Asked(rest), before, ends)
    BY <1>2, <1>5, <2>2, <2>4 DEF Total
  <2>6. /\ Total(Asked(rest), after, left) \in Nat /\ Total(Asked(rest), before, ends) \in Nat
    BY <1>2, <1>5, <2>4, TotalType
  <2> QED BY <1>4, <2>2, <2>5, <2>6
<1>7. CASE SyncFinished(<<>>) /\ ctl' = c /\ pending' = rest
  <2>1. syncQueue' = <<>> /\ changes' = {}
    BY <1>7 DEF SyncFinished, Unfreeze
  <2>2. ~IsValid(currentJob')
    BY <1>7, ClearedJob DEF SyncFinished, SyncTypes
  <2>3. after = 0 /\ left = ends
    BY <1>3, <1>7, <2>1
  <2> HIDE DEF before, ends, after, left
  <2>4. /\ Total(Asked(rest), after, left) <= Total(Asked(rest), before, ends)
        /\ Total(Asked(rest), after, left) \in Nat
    BY <1>2, <1>5, <2>3 DEF Total
  <2> QED BY <1>4, <1>7, <2>2, <2>4
<1> QED BY <1>6, <1>7 DEF ContinueSync

LEMMA LoadType ==
  ASSUME NEW q \in Seq(Jobs), NEW c, NEW signals \in Seq(PendingSignals),
         SyncTypes
  PROVE  Load(q, changes, c, signals) \in Nat
<1>1. Len(q) + Cardinality(changes) \in Nat
  BY ChangesCount
<1>2. Asked(signals) \in Nat /\ EndsOf(c) + EndsIn(signals) \in Nat
  <2>1. EndsOf(c) \in Nat /\ EndsIn(signals) \in Nat /\ Asked(signals) \in Nat
    BY EndsOfType, EndsInType
  <2> QED BY <2>1
<1> QED BY <1>1, <1>2, TotalType DEF Load

LEMMA RequestWork ==
  ASSUME NEW a \in Accounts, NEW sources \in SUBSET Sources, NEW runNow, NEW syncOnMobile,
         NEW rest \in Seq(PendingSignals),
         SyncTypes, AccountsOK, pending' \in Seq(PendingSignals),
         Alive', Request(a, sources, runNow, syncOnMobile, rest)
  PROVE  LoadNow' <= Load(syncQueue, changes, ctl, rest) + 4
<1> DEFINE new == {s \in sources : ~Contains(syncQueue, a, {s})}
           pushed(setting) == Push(syncQueue, a, new, syncOnMobile \/ setting)
           before == Len(syncQueue) + Cardinality(changes)
           ends == EndsOf(ctl) + EndsIn(rest)
<1>1. before \in Nat /\ ends \in Nat /\ Asked(rest) \in Nat
  <2>1. before \in Nat
    BY ChangesCount DEF SyncTypes
  <2>2. EndsOf(ctl) \in Nat /\ EndsIn(rest) \in Nat /\ Asked(rest) \in Nat
    BY EndsOfType, EndsInType
  <2> QED BY <2>1, <2>2
<1>2. Load(syncQueue, changes, ctl, rest) = Total(Asked(rest), before, ends)
  BY DEF Load
<1>3. ASSUME NEW setting \in BOOLEAN
      PROVE  pushed(setting) \in Seq(Jobs) /\ Len(pushed(setting)) <= Len(syncQueue) + 1
  <2>1. new \in SUBSET Sources /\ (syncOnMobile \/ setting) \in BOOLEAN
    OBVIOUS
  <2> HIDE DEF new
  <2> QED BY <2>1, PushKeeps DEF SyncTypes
<1>4. ASSUME NEW q \in Seq(Jobs), Len(q) <= Len(syncQueue) + 1
      PROVE  Load(q, changes, ctl, rest) <= Load(syncQueue, changes, ctl, rest) + 4
  <2> DEFINE after == Len(q) + Cardinality(changes)
  <2>1. after \in Nat /\ after <= before + 1
    BY <1>4, ChangesCount DEF SyncTypes
  <2>2. Load(q, changes, ctl, rest) = Total(Asked(rest), after, ends)
    BY DEF Load
  <2> HIDE DEF after, before, ends
  <2> QED BY <1>1, <1>2, <2>1, <2>2 DEF Total
<1> HIDE DEF pushed, before, ends
<1>5. CASE pending' = rest /\ UNCHANGED <<syncQueue, ctl, eds>>
  <2>1. LoadNow' = Load(syncQueue, changes, ctl, rest)
    BY <1>5 DEF LoadNow, eds
  <2>2. Load(syncQueue, changes, ctl, rest) \in Nat
    BY LoadType DEF SyncTypes
  <2> QED BY <2>1, <2>2
<1>6. ASSUME NEW setting \in BOOLEAN,
             ContinueSync(pushed(setting), offlineQueue, FALSE, ctl, dangling, rest)
      PROVE  LoadNow' <= Load(syncQueue, changes, ctl, rest) + 4
  <2>1. pushed(setting) \in Seq(Jobs) /\ Len(pushed(setting)) <= Len(syncQueue) + 1
    BY <1>3
  <2>2. LoadNow' \in Nat /\ LoadNow' <= Load(pushed(setting), changes, ctl, rest)
    BY <1>6, <2>1, ContinueSyncWork DEF AccountsOK
  <2>3. Load(pushed(setting), changes, ctl, rest) <= Load(syncQueue, changes, ctl, rest) + 4
    BY <1>4, <2>1
  <2>4. /\ Load(pushed(setting), changes, ctl, rest) \in Nat
        /\ Load(syncQueue, changes, ctl, rest) \in Nat
    BY <2>1, LoadType DEF SyncTypes
  <2> QED BY <2>2, <2>3, <2>4
<1>7. ASSUME NEW setting \in BOOLEAN, syncQueue' = pushed(setting), pending' = rest,
             UNCHANGED <<ctl, eds>>
      PROVE  LoadNow' <= Load(syncQueue, changes, ctl, rest) + 4
  <2>1. LoadNow' = Load(pushed(setting), changes, ctl, rest)
    BY <1>7 DEF LoadNow, eds
  <2> QED BY <1>3, <1>4, <2>1
<1>8. UNCHANGED queues => syncQueue' = syncQueue
  BY DEF queues
<1>9. \/ pending' = rest /\ UNCHANGED <<queues, ctl, eds>>
      \/ \E setting \in BOOLEAN :
           \/ ContinueSync(pushed(setting), offlineQueue, FALSE, ctl, dangling, rest)
           \/ syncQueue' = pushed(setting) /\ pending' = rest /\ UNCHANGED <<ctl, eds>>
  BY Zenon DEF Request, pushed
<1> QED BY <1>5, <1>6, <1>7, <1>8, <1>9

-----------------------------------------------------------------------------
(* One lemma for each kind of action that is not external. *)

Clean(f) == {a \in Accounts : ~f[a]}

LEMMA WorkloadIs ==
  Inv => /\ LoadNow \in Nat /\ Cardinality(Clean(failed)) \in Nat
         /\ Workload = LoadNow + 2 * Cardinality(Clean(failed))
<1> SUFFICES ASSUME Inv
             PROVE  /\ LoadNow \in Nat /\ Cardinality(Clean(failed)) \in Nat
                    /\ Workload = LoadNow + 2 * Cardinality(Clean(failed))
  OBVIOUS
<1>1. SyncTypes /\ syncQueue \in Seq(Jobs) /\ pending \in Seq(PendingSignals)
  BY DEF Inv, SyncOK, SyncTypes, AccountsOK
<1>2. LoadNow \in Nat
  BY <1>1, LoadType DEF LoadNow
<1>3. Cardinality(Clean(failed)) \in Nat
  <2>1. Clean(failed) \in SUBSET Accounts
    BY DEF Clean
  <2> QED BY <2>1, DaemonConstants, FS_Subset, FS_CardinalityType
<1>4. Heard("request") = Named(pending, "request")
      /\ Heard("syncFinished") = Named(pending, "syncFinished")
      /\ Heard("resume") = Named(pending, "resume")
  BY DEF Heard, Named
<1>5. /\ Cardinality(Busy(ctl)) \in Nat /\ Cardinality(Open(ctl)) \in Nat
      /\ Cardinality(Late(ctl)) \in Nat
  <2>1. /\ Busy(ctl) \in SUBSET Accounts /\ Open(ctl) \in SUBSET Accounts
        /\ Late(ctl) \in SUBSET Accounts
    BY DEF Busy, Open, Late
  <2> QED BY <2>1, DaemonConstants, FS_Subset, FS_CardinalityType
<1>6. /\ Cardinality(Named(pending, "syncFinished")) \in Nat
      /\ Cardinality(Named(pending, "resume")) \in Nat
      /\ Cardinality(Named(pending, "request")) \in Nat
  BY <1>1, NamedIsFinite
<1>7. EndsLeft = EndsOf(ctl) + EndsIn(pending)
  <2>1. EndsLeft = Cardinality(Busy(ctl)) + Cardinality(Open(ctl)) + Cardinality(Late(ctl))
                   + Cardinality(Named(pending, "syncFinished"))
                   + Cardinality(Named(pending, "resume"))
    BY <1>4 DEF EndsLeft, Busy, Open, Late
  <2> QED BY <1>5, <1>6, <2>1 DEF EndsOf, EndsIn
<1>8. /\ Len(syncQueue) + Cardinality(changes) \in Nat /\ EndsLeft \in Nat
      /\ Asked(pending) \in Nat
  <2>1. Len(syncQueue) + Cardinality(changes) \in Nat
    BY <1>1, ChangesCount
  <2>2. EndsOf(ctl) \in Nat /\ EndsIn(pending) \in Nat /\ Asked(pending) \in Nat
    BY <1>1, EndsOfType, EndsInType
  <2> QED BY <1>7, <2>1, <2>2
<1>9. LoadNow = Total(Asked(pending), Len(syncQueue) + Cardinality(changes), EndsLeft)
  BY <1>7 DEF LoadNow, Load
<1>10. Workload = 5 * Asked(pending) + 4 * (Len(syncQueue) + Cardinality(changes))
                  + 3 * EndsLeft + 2 * Cardinality(Clean(failed))
  BY <1>4 DEF Workload, Asked, Clean
<1> QED BY <1>2, <1>3, <1>8, <1>9, <1>10 DEF Total

LEMMA WorkloadThen ==
  Inv' => /\ LoadNow' \in Nat /\ Cardinality(Clean(failed')) \in Nat
          /\ Workload' = LoadNow' + 2 * Cardinality(Clean(failed'))
<1>1. (Inv => /\ LoadNow \in Nat /\ Cardinality(Clean(failed)) \in Nat
              /\ Workload = LoadNow + 2 * Cardinality(Clean(failed)))'
  BY WorkloadIs, PTL
<1>2. (Clean(failed))' = Clean(failed')
  BY DEF Clean
<1> QED BY <1>1, <1>2

LEMMA TotalOfMore ==
  \A asked, waiting, ends, one, more \in Nat :
    Total(one + asked, waiting, ends + more)
      = Total(asked, waiting, ends) + 5 * one + 3 * more
BY DEF Total

\* The signal at the head has been taken.
LEMMA HeadWork ==
  ASSUME Inv, pending # <<>>
  PROVE  LET name == Head(pending).name
         IN  LoadNow = Load(syncQueue, changes, ctl, Tail(pending))
                       + 5 * Number(name = "request")
                       + 3 * (Number(name = "syncFinished") + Number(name = "resume"))
<1> DEFINE tail == Tail(pending)
           name == Head(pending).name
           waiting == Len(syncQueue) + Cardinality(changes)
<1>1. /\ SyncTypes /\ pending \in Seq(PendingSignals) /\ tail \in Seq(PendingSignals)
  BY DEF Inv, SyncOK, AccountsOK
<1>2. /\ Asked(pending) = Number(name = "request") + Asked(tail)
      /\ Cardinality(Named(pending, "syncFinished"))
           = Number(name = "syncFinished") + Cardinality(Named(tail, "syncFinished"))
      /\ Cardinality(Named(pending, "resume"))
           = Number(name = "resume") + Cardinality(Named(tail, "resume"))
  BY <1>1, NamedTail DEF Asked
<1>3. waiting \in Nat /\ EndsOf(ctl) \in Nat /\ Asked(tail) \in Nat
  <2>1. waiting \in Nat
    BY <1>1, ChangesCount DEF SyncTypes
  <2> QED BY <1>1, <2>1, EndsOfType, EndsInType
<1>4. /\ Cardinality(Named(tail, "syncFinished")) \in Nat
      /\ Cardinality(Named(tail, "resume")) \in Nat
  BY <1>1, NamedIsFinite
<1>5. /\ Number(name = "request") \in Nat /\ Number(name = "syncFinished") \in Nat
      /\ Number(name = "resume") \in Nat
  BY DEF Number
<1>6. EndsIn(pending) = EndsIn(tail) + Number(name = "syncFinished") + Number(name = "resume")
  BY <1>2, <1>4, <1>5 DEF EndsIn
<1>7. EndsIn(tail) \in Nat
  BY <1>1, EndsInType
<1>8. /\ LoadNow = Total(Asked(pending), waiting, EndsOf(ctl) + EndsIn(pending))
      /\ Load(syncQueue, changes, ctl, tail)
           = Total(Asked(tail), waiting, EndsOf(ctl) + EndsIn(tail))
  BY DEF LoadNow, Load
<1> HIDE DEF tail, name, waiting
<1>9. LoadNow = Load(syncQueue, changes, ctl, tail)
                + 5 * Number(name = "request")
                + 3 * (Number(name = "syncFinished") + Number(name = "resume"))
  <2> DEFINE one == Number(name = "request")
             more == Number(name = "syncFinished") + Number(name = "resume")
             ends == EndsOf(ctl) + EndsIn(tail)
  <2>1. Asked(pending) = one + Asked(tail) /\ EndsOf(ctl) + EndsIn(pending) = ends + more
    BY <1>2, <1>3, <1>5, <1>6, <1>7
  <2>2. one \in Nat /\ more \in Nat /\ ends \in Nat
    BY <1>3, <1>5, <1>7
  <2> HIDE DEF one, more, ends
  <2>3. Total(one + Asked(tail), waiting, ends + more)
          = Total(Asked(tail), waiting, ends) + 5 * one + 3 * more
    BY <1>3, <2>2, TotalOfMore
  <2>4. /\ LoadNow = Total(one + Asked(tail), waiting, ends + more)
        /\ Load(syncQueue, changes, ctl, tail) = Total(Asked(tail), waiting, ends)
    BY <1>8, <2>1 DEF ends
  <2> QED BY <2>3, <2>4 DEF one, more
<1> QED BY <1>9 DEF name, tail

Falls ==
  /\ Workload' <= Workload \/ (GoesOnUnsaved' /\ ~GoesOnUnsaved)
  /\ Works => Workload' < Workload

LEMMA LoadFalls ==
  ASSUME Inv, Inv', failed' = failed, LoadNow' <= LoadNow, Works => LoadNow' < LoadNow
  PROVE  Falls
<1>1. /\ LoadNow \in Nat /\ Cardinality(Clean(failed)) \in Nat
      /\ Workload = LoadNow + 2 * Cardinality(Clean(failed))
  BY WorkloadIs
<1>2. LoadNow' \in Nat /\ Workload' = LoadNow' + 2 * Cardinality(Clean(failed'))
  BY WorkloadThen
<1>3. Workload' <= Workload /\ (LoadNow' < LoadNow => Workload' < Workload)
  BY <1>1, <1>2
<1> QED BY <1>3 DEF Falls

\* Accounts that go on change nothing but the ends that are left.
LEMMA LoadByEnds ==
  ASSUME Inv, Inv', UNCHANGED <<syncQueue, changes>>, NEW rest \in Seq(PendingSignals),
         NEW more \in Nat, Asked(pending') = Asked(rest),
         EndsOf(ctl') + EndsIn(pending') <= EndsOf(ctl) + EndsIn(rest) + more
  PROVE  LoadNow' <= Load(syncQueue, changes, ctl, rest) + 3 * more
<1> DEFINE waiting == Len(syncQueue) + Cardinality(changes)
           before == EndsOf(ctl) + EndsIn(rest)
           after == EndsOf(ctl') + EndsIn(pending')
<1>1. SyncTypes /\ syncQueue \in Seq(Jobs) /\ pending' \in Seq(PendingSignals)
  BY DEF Inv, SyncOK, SyncTypes, AccountsOK
<1>2. waiting \in Nat
  BY <1>1, ChangesCount
<1>3. /\ EndsOf(ctl) \in Nat /\ EndsOf(ctl') \in Nat /\ EndsIn(rest) \in Nat
      /\ EndsIn(pending') \in Nat /\ Asked(rest) \in Nat
  BY <1>1, EndsOfType, EndsInType
<1>4. before \in Nat /\ after \in Nat /\ after <= before + more
  BY <1>3
<1>5. /\ LoadNow' = Total(Asked(rest), waiting, after)
      /\ Load(syncQueue, changes, ctl, rest) = Total(Asked(rest), waiting, before)
  BY DEF LoadNow, Load
<1> HIDE DEF waiting, before, after
<1> QED BY <1>2, <1>3, <1>4, <1>5 DEF Total

LEMMA AnewWork ==
  ASSUME NEW a \in Accounts, NEW rest \in Seq(PendingSignals), AccountsOK, Alive',
         ConfiguredAnew(a, rest)
  PROVE  /\ Asked(pending') = Asked(rest)
         /\ EndsOf(ctl') + EndsIn(pending') <= EndsOf(ctl) + EndsIn(rest) + 1
         /\ ctl[a].config = "busy" =>
              EndsOf(ctl') + EndsIn(pending') <= EndsOf(ctl) + EndsIn(rest)
<1>1. PICK c \in Detached(ctl) :
        \E outcome \in Configured(c[a]) :
          Deliver(a, outcome, <<>>, c, dangling \cup WithSession(ctl), rest)
  BY DEF ConfiguredAnew
<1>2. PICK outcome \in Configured(c[a]) :
        Deliver(a, outcome, <<>>, c, dangling \cup WithSession(ctl), rest)
  BY <1>1
<1>3. ctl \in ControlsOf /\ c \in ControlsOf /\ c[a] \in Controls /\ <<>> \in Seq(ResultCodes)
  BY DetachedType DEF AccountsOK, ControlsOf
<1>4. outcome.next # Dead
  BY <1>2, DeadStops
<1>5. /\ outcome.signals \in Emitted /\ Cost(outcome) <= Own(c[a]) + 1
      /\ c[a].config = "busy" => Cost(outcome) <= Own(c[a])
  BY <1>3, <1>4, ConfiguredCost
<1>6. /\ Asked(pending') = Asked(rest)
      /\ EndsOf(ctl') + EndsIn(pending') = EndsBeside(c, a) + Cost(outcome) + EndsIn(rest)
  BY <1>2, <1>3, <1>5, DeliverWork
<1>7. /\ EndsBeside(c, a) <= EndsBeside(ctl, a) /\ c[a].session \notin MaySend /\ ~c[a].late
      /\ EndsOf(c) <= EndsOf(ctl)
  BY <1>3, DetachedEnds
<1>8. /\ EndsOf(ctl) = EndsBeside(ctl, a) + Own(ctl[a])
      /\ EndsOf(c) = EndsBeside(c, a) + Own(c[a])
      /\ EndsBeside(c, a) \in Nat /\ EndsBeside(ctl, a) \in Nat
  BY EndsSplit
<1>9. /\ Own(c[a]) \in Nat /\ Own(ctl[a]) \in Nat /\ EndsIn(rest) \in Nat /\ Cost(outcome) \in Nat
  BY OwnType, EndsInType, EndsType DEF Cost
<1>10. EndsOf(ctl') + EndsIn(pending') <= EndsOf(ctl) + EndsIn(rest) + 1
  BY <1>5, <1>6, <1>7, <1>8, <1>9
<1>11. ASSUME ctl[a].config = "busy"
       PROVE  EndsOf(ctl') + EndsIn(pending') <= EndsOf(ctl) + EndsIn(rest)
  <2>1. CASE c[a].config = "busy"
    BY <1>5, <1>6, <1>7, <1>8, <1>9, <2>1
  <2>2. CASE c[a].config # "busy"
    <3>1. Own(c[a]) = 0
      BY <1>7, <2>2 DEF Own, Number
    <3>2. Own(ctl[a]) >= 1
      BY <1>11 DEF Own, Number
    <3> QED BY <1>5, <1>6, <1>7, <1>8, <1>9, <3>1, <3>2
  <2> QED BY <2>1, <2>2
<1> QED BY <1>6, <1>10, <1>11

LEMMA ErrorFalls ==
  ASSUME Inv, Inv', OnAccountSyncError PROVE Falls
<1>1. /\ SyncFinished(syncQueue) /\ pending' = Tail(pending) /\ pending # <<>>
      /\ Head(pending).name = "syncError" /\ UNCHANGED <<ctl, failed>>
  BY DEF OnAccountSyncError, Slot, accountVars
<1>2. /\ SyncTypes /\ syncQueue \in Seq(Jobs) /\ pending' \in Seq(PendingSignals)
  BY DEF Inv, SyncOK, SyncTypes, AccountsOK
<1>3. ~Works
  BY <1>1, <1>2, ClearedJob DEF Works, SyncFinished, SyncTypes
<1>4. LoadNow = Load(syncQueue, changes, ctl, pending')
  <2>1. LoadNow = Load(syncQueue, changes, ctl, Tail(pending)) + 5 * 0 + 3 * (0 + 0)
    BY <1>1, HeadWork DEF Number
  <2>2. Load(syncQueue, changes, ctl, pending') \in Nat
    BY <1>2, LoadType
  <2> QED BY <1>1, <2>1, <2>2
<1> DEFINE n == Len(syncQueue)
           ends == EndsOf(ctl) + EndsIn(pending')
<1>5. n \in Nat /\ Cardinality(changes) \in Nat /\ ends \in Nat /\ Asked(pending') \in Nat
  <2>1. n \in Nat /\ Cardinality(changes) \in Nat
    BY <1>2, ChangesCount
  <2>2. EndsOf(ctl) \in Nat /\ EndsIn(pending') \in Nat /\ Asked(pending') \in Nat
    BY <1>2, EndsOfType, EndsInType
  <2> QED BY <2>1, <2>2
<1>6. LoadNow' = Total(Asked(pending'), n + 0, ends)
  <2>1. syncQueue' = syncQueue /\ changes' = {} /\ Cardinality({}) = 0
    BY <1>1, FS_EmptySet DEF SyncFinished, Unfreeze
  <2> QED BY <1>1, <2>1 DEF LoadNow, Load
<1>7. LoadNow = Total(Asked(pending'), n + Cardinality(changes), ends)
  BY <1>4 DEF Load
<1> HIDE DEF n, ends
<1>8. LoadNow' <= LoadNow
  BY <1>5, <1>6, <1>7 DEF Total
<1> QED BY <1>1, <1>3, <1>8, LoadFalls

LEMMA RequestFalls ==
  ASSUME Inv, Inv', Alive', OnRequest PROVE Falls
<1>1. /\ Slot("request") /\ pending # <<>> /\ Head(pending).name = "request"
      /\ Request(From, {}, TRUE, TRUE, Tail(pending)) /\ failed' = failed
  BY DEF OnRequest, Slot
<1>2. From \in Accounts /\ Tail(pending) \in Seq(PendingSignals)
  BY <1>1, SlotOK
<1>3. /\ SyncTypes /\ AccountsOK /\ pending' \in Seq(PendingSignals)
      /\ syncQueue \in Seq(Jobs) /\ {} \in SUBSET Sources
  BY DEF Inv, SyncOK, SyncTypes, AccountsOK
<1>4. LoadNow' <= Load(syncQueue, changes, ctl, Tail(pending)) + 4
  BY <1>1, <1>2, <1>3, RequestWork
<1>5. LoadNow = Load(syncQueue, changes, ctl, Tail(pending)) + 5 * 1 + 3 * (0 + 0)
  BY <1>1, HeadWork DEF Number
<1>6. Load(syncQueue, changes, ctl, Tail(pending)) \in Nat /\ LoadNow' \in Nat
  BY <1>2, <1>3, LoadType, WorkloadThen
<1>7. LoadNow' < LoadNow /\ LoadNow' <= LoadNow
  BY <1>4, <1>5, <1>6
<1> QED BY <1>1, <1>7, LoadFalls

LEMMA OutcomeWork ==
  ASSUME NEW a \in Accounts, NEW outcome, outcome.signals \in Emitted,
         Cost(outcome) <= Own(ctl[a]), NEW results \in Seq(ResultCodes), NEW d,
         NEW rest \in Seq(PendingSignals), AccountsOK, Alive',
         Deliver(a, outcome, results, ctl, d, rest)
  PROVE  /\ Asked(pending') = Asked(rest)
         /\ EndsOf(ctl') + EndsIn(pending') <= EndsOf(ctl) + EndsIn(rest)
<1>1. /\ Asked(pending') = Asked(rest)
      /\ EndsOf(ctl') + EndsIn(pending') = EndsBeside(ctl, a) + Cost(outcome) + EndsIn(rest)
  BY DeliverWork DEF AccountsOK
<1>2. EndsOf(ctl) = EndsBeside(ctl, a) + Own(ctl[a]) /\ EndsBeside(ctl, a) \in Nat
  BY EndsSplit
<1>3. Own(ctl[a]) \in Nat /\ EndsIn(rest) \in Nat /\ Cost(outcome) \in Nat
  BY OwnType, EndsInType, EndsType DEF Cost
<1> QED BY <1>1, <1>2, <1>3

LEMMA ResumeFalls ==
  ASSUME Inv, Inv', Alive', OnResume PROVE Falls
<1>1. /\ Slot("resume") /\ pending # <<>> /\ Head(pending).name = "resume"
      /\ UNCHANGED <<syncQueue, currentJob, changes, failed>>
  BY DEF OnResume, Slot, queues, eds
<1>2. From \in Accounts /\ Tail(pending) \in Seq(PendingSignals)
  BY <1>1, SlotOK
<1> DEFINE rest == Tail(pending)
<1>3. /\ SyncTypes /\ AccountsOK /\ syncQueue \in Seq(Jobs) /\ <<>> \in Seq(ResultCodes)
      /\ ctl[From] \in Controls
  BY <1>2 DEF Inv, SyncOK, SyncTypes, AccountsOK, ControlsOf
<1>4. /\ Asked(pending') = Asked(rest)
      /\ EndsOf(ctl') + EndsIn(pending') <= EndsOf(ctl) + EndsIn(rest) + 1
  <2>1. EndsOf(ctl) \in Nat /\ EndsIn(rest) \in Nat
    BY <1>2, EndsOfType, EndsInType
  <2>2. CASE ConfiguredAnew(From, rest)
    BY <1>2, <1>3, <2>2, AnewWork
  <2>3. ASSUME NEW outcome \in {Silent(ctl[From]), Silent(Dead)},
               Deliver(From, outcome, <<>>, ctl, dangling, rest)
        PROVE  /\ Asked(pending') = Asked(rest)
               /\ EndsOf(ctl') + EndsIn(pending') <= EndsOf(ctl) + EndsIn(rest) + 1
    <3>1. outcome = Silent(ctl[From])
      <4>1. outcome.next # Dead
        BY <1>2, <2>3, DeadStops
      <4> QED BY <4>1 DEF Silent, Outcome
    <3>2. outcome.signals \in Emitted /\ Cost(outcome) <= Own(ctl[From])
      BY <3>1, SilentCost, OwnType
    <3>3. /\ Asked(pending') = Asked(rest)
          /\ EndsOf(ctl') + EndsIn(pending') <= EndsOf(ctl) + EndsIn(rest)
      BY <1>2, <1>3, <2>3, <3>2, OutcomeWork
    <3>4. EndsOf(ctl') \in Nat /\ EndsIn(pending') \in Nat
      <4>1. pending' \in Seq(PendingSignals)
        BY DEF Inv, AccountsOK
      <4> QED BY <4>1, EndsOfType, EndsInType
    <3> QED BY <2>1, <3>3, <3>4
  <2> QED BY <2>2, <2>3 DEF OnResume
<1>5. LoadNow' <= Load(syncQueue, changes, ctl, rest) + 3 * 1
  BY <1>1, <1>2, <1>4, LoadByEnds
<1>6. LoadNow = Load(syncQueue, changes, ctl, rest) + 5 * 0 + 3 * (0 + 1)
  BY <1>1, HeadWork DEF Number
<1>7. LoadNow' \in Nat /\ Load(syncQueue, changes, ctl, rest) \in Nat
  BY <1>2, <1>3, LoadType, WorkloadThen
<1>8. LoadNow' <= LoadNow
  BY <1>5, <1>6, <1>7
<1>9. ~Works
  BY <1>1 DEF Works
<1> QED BY <1>1, <1>8, <1>9, LoadFalls

\* Nothing is pending when an account goes on.
LEMMA EventFalls ==
  ASSUME Inv, Inv', pending = <<>>, UNCHANGED <<syncQueue, currentJob, changes, failed>>,
         Asked(pending') = Asked(<<>>),
         EndsOf(ctl') + EndsIn(pending') <= EndsOf(ctl) + EndsIn(<<>>)
  PROVE  Falls
<1>1. <<>> \in Seq(PendingSignals) /\ SyncTypes /\ syncQueue \in Seq(Jobs)
  BY DEF Inv, SyncOK, SyncTypes
<1>2. EndsOf(ctl) \in Nat /\ EndsIn(<<>>) \in Nat
  BY <1>1, EndsOfType, EndsInType
<1>3. EndsOf(ctl') + EndsIn(pending') <= EndsOf(ctl) + EndsIn(<<>>) + 0
  BY <1>2
<1>4. LoadNow' <= Load(syncQueue, changes, ctl, <<>>) + 3 * 0
  BY <1>1, <1>3, LoadByEnds
<1>5. LoadNow = Load(syncQueue, changes, ctl, <<>>) /\ LoadNow \in Nat
  BY WorkloadIs DEF LoadNow
<1>6. LoadNow' <= LoadNow
  BY <1>4, <1>5
<1>7. ~Works
  BY DEF Works
<1> QED BY <1>6, <1>7, LoadFalls

LEMMA ConfigureFalls ==
  ASSUME Inv, Inv', Alive', NEW a \in Accounts, AccountConfigures(a) PROVE Falls
<1>1. pending = <<>> /\ UNCHANGED <<syncQueue, currentJob, changes, failed>>
  BY DEF AccountConfigures, Ready, queues, eds
<1>2. /\ AccountsOK /\ ctl[a] \in Controls /\ <<>> \in Seq(PendingSignals)
  BY DEF Inv, AccountsOK, ControlsOf
<1>3. CASE ConfigOutcomes(ctl[a]) # {} /\ ConfiguredAnew(a, <<>>)
  <2>1. ctl[a].config = "busy"
    BY <1>3 DEF ConfigOutcomes
  <2>2. /\ Asked(pending') = Asked(<<>>)
        /\ EndsOf(ctl') + EndsIn(pending') <= EndsOf(ctl) + EndsIn(<<>>)
    BY <1>2, <1>3, <2>1, AnewWork
  <2> QED BY <1>1, <2>2, EventFalls
<1>4. ASSUME NEW outcome \in OrStops(a, dangling, ConfigOutcomes(ctl[a])),
             NEW results \in ConfigResults(outcome),
             Deliver(a, outcome, results, ctl, dangling, <<>>)
      PROVE  Falls
  <2>1. outcome.next # Dead /\ outcome \in ConfigOutcomes(ctl[a]) /\ results \in Seq(ResultCodes)
    BY <1>4, DeadStops, StopsOrNot, ConfigResultsType
  <2>2. CASE outcome.signals \in Emitted /\ Cost(outcome) <= Own(ctl[a])
    <3>1. /\ Asked(pending') = Asked(<<>>)
          /\ EndsOf(ctl') + EndsIn(pending') <= EndsOf(ctl) + EndsIn(<<>>)
      BY <1>2, <1>4, <2>1, <2>2, OutcomeWork
    <3> QED BY <1>1, <3>1, EventFalls
  <2>3. CASE Resumes(outcome)
    <3>1. ~GoesOnUnsaved /\ ~Works
      BY <1>1 DEF GoesOnUnsaved, Works
    <3>2. GoesOnUnsaved'
      <4> DEFINE heard == outcome.signals
                 signals == [i \in DOMAIN heard |-> Signal(heard[i], a, results)]
      <4>1. heard = <<"syncError", "syncFinished", "resume">>
        BY <2>3 DEF Resumes
      <4>2. heard # <<"syncStarted">>
        BY <4>1
      <4>3. pending' = signals \o <<>>
        BY <1>4, <4>2 DEF Deliver
      <4>4. signals = [i \in 1 .. 3 |-> Signal(heard[i], a, results)] /\ heard[3] = "resume"
        BY <4>1
      <4> HIDE DEF heard
      <4>5. 3 \in 1 .. Len(signals) /\ signals[3].name = "resume" /\ Len(signals) = 3
        BY <4>4 DEF Signal
      <4>6. signals \o <<>> = signals
        BY <4>4
      <4> QED BY <4>3, <4>5, <4>6 DEF GoesOnUnsaved
    <3> QED BY <3>1, <3>2 DEF Falls
  <2> QED BY <1>2, <2>1, <2>2, <2>3, ConfigCost
<1> QED BY <1>3, <1>4 DEF AccountConfigures

LEMMA SyncsFall ==
  ASSUME Inv, Inv', Alive', NEW a \in Accounts, AccountSyncs(a) PROVE Falls
<1>1. pending = <<>> /\ UNCHANGED <<syncQueue, currentJob, changes, failed>>
  BY DEF AccountSyncs, Ready, queues, eds
<1>2. /\ AccountsOK /\ ctl[a] \in Controls /\ <<>> \in Seq(PendingSignals)
  BY DEF Inv, AccountsOK, ControlsOf
<1>3. PICK outcome \in SessionOutcomes(ctl[a]) \cup LateOutcomes(ctl[a]) :
        \E results \in ResultLists \cup {<<>>} :
          Deliver(a, outcome, results, ctl, dangling, <<>>)
  BY DEF AccountSyncs
<1>4. PICK results \in ResultLists \cup {<<>>} :
        Deliver(a, outcome, results, ctl, dangling, <<>>)
  BY <1>3
<1>5. results \in Seq(ResultCodes)
  <2>1. <<>> \in Seq(ResultCodes) /\ (results \in ResultLists \/ results = <<>>)
    OBVIOUS
  <2> QED BY <2>1, ResultListsType
<1>6. outcome.signals \in Emitted /\ Cost(outcome) <= Own(ctl[a])
  BY <1>2, SessionCost
<1>7. /\ Asked(pending') = Asked(<<>>)
      /\ EndsOf(ctl') + EndsIn(pending') <= EndsOf(ctl) + EndsIn(<<>>)
  BY <1>2, <1>4, <1>5, <1>6, OutcomeWork
<1> QED BY <1>1, <1>7, EventFalls

LEMMA CleanCount ==
  ASSUME NEW f \in [Accounts -> BOOLEAN], NEW a \in Accounts, NEW error \in BOOLEAN,
         NEW g, g[a] = error, \A b \in Accounts \ {a} : g[b] = f[b]
  PROVE  /\ Cardinality(Clean(f) \ {a}) \in Nat
         /\ Cardinality(Clean(f)) = Cardinality(Clean(f) \ {a}) + Number(~f[a])
         /\ Cardinality(Clean(g)) = Cardinality(Clean(f) \ {a}) + Number(~error)
<1>1. Clean(f) \in SUBSET Accounts /\ Clean(g) \in SUBSET Accounts
      /\ Clean(g) \ {a} = Clean(f) \ {a}
  BY DEF Clean
<1>2. (a \in Clean(f) <=> ~f[a]) /\ (a \in Clean(g) <=> ~error)
  BY DEF Clean
<1>3. Number(a \in Clean(f)) = Number(~f[a]) /\ Number(a \in Clean(g)) = Number(~error)
  BY <1>2, Zenon DEF Number
<1>4. /\ Cardinality(Clean(f) \ {a}) \in Nat
      /\ Cardinality(Clean(f)) = Cardinality(Clean(f) \ {a}) + Number(a \in Clean(f))
      /\ Cardinality(Clean(g)) = Cardinality(Clean(g) \ {a}) + Number(a \in Clean(g))
  BY <1>1, CountBeside
<1> QED BY <1>1, <1>3, <1>4

\* What a push adds, and an account that leaves those without an error, or is back.
LEMMA RetriedIsLess ==
  \A l, m, n \in Nat :
    m <= l + 1 => m + 2 * n < l + 2 * (n + 1) /\ m + 2 * n <= l + 2 * (n + 1)
OBVIOUS

LEMMA EndedIsLess ==
  \A l, m, n, x, y \in Nat :
    y <= 1 /\ m + 3 <= l =>
      m + 2 * (n + y) < l + 2 * (n + x) /\ m + 2 * (n + y) <= l + 2 * (n + x)
OBVIOUS

\* A sync that has ended is retried only when it leaves an error that was not there.
LEMMA FinishedFalls ==
  ASSUME Inv, Inv', Alive', OnAccountSyncFinished PROVE Falls
<1> DEFINE results == Head(pending).results
           rest == Tail(pending)
           retried == Retries(failed[From], results)
           error == LastError(failed[From], results)
           q == IF retried THEN Push(syncQueue, From, {}, FALSE) ELSE syncQueue
<1>1. /\ Slot("syncFinished") /\ pending # <<>> /\ Head(pending).name = "syncFinished"
      /\ failed' = [failed EXCEPT ![From] = error]
      /\ \E c \in Detached(ctl) :
           ContinueSync(q, offlineQueue, timer, c, dangling \cup WithSession(ctl), rest)
  BY DEF OnAccountSyncFinished, Slot
<1>2. From \in Accounts /\ rest \in Seq(PendingSignals)
  BY <1>1, SlotOK
<1>3. /\ SyncTypes /\ ctl \in ControlsOf /\ pending' \in Seq(PendingSignals)
      /\ syncQueue \in Seq(Jobs) /\ failed \in [Accounts -> BOOLEAN]
  BY DEF Inv, SyncOK, SyncTypes, AccountsOK, RestOK
<1>4. error \in BOOLEAN /\ (retried => ~failed[From] /\ error)
  BY DEF LastError, Retries
<1>5. q \in Seq(Jobs) /\ Len(q) <= Len(syncQueue) + (IF retried THEN 1 ELSE 0)
  <2>1. {} \in SUBSET Sources /\ FALSE \in BOOLEAN
    OBVIOUS
  <2>2. /\ Push(syncQueue, From, {}, FALSE) \in Seq(Jobs)
        /\ Len(Push(syncQueue, From, {}, FALSE)) <= Len(syncQueue) + 1
    BY <1>2, <1>3, <2>1, PushKeeps
  <2>3. Len(syncQueue) \in Nat
    BY <1>3
  <2>4. CASE retried
    <3>1. q = Push(syncQueue, From, {}, FALSE)
      BY <2>4
    <3> QED BY <2>2, <2>4, <3>1
  <2>5. CASE ~retried
    <3>1. q = syncQueue
      BY <2>5
    <3> HIDE DEF retried, q
    <3> QED BY <1>3, <2>3, <2>5, <3>1
  <2> QED BY <2>4, <2>5
<1> HIDE DEF retried, q, error
<1>6. PICK c \in Detached(ctl) :
        ContinueSync(q, offlineQueue, timer, c, dangling \cup WithSession(ctl), rest)
  BY <1>1
<1>7. c \in ControlsOf /\ EndsOf(c) <= EndsOf(ctl)
  BY <1>2, <1>3, <1>6, DetachedType, DetachedEnds
<1>8. LoadNow' \in Nat /\ LoadNow' <= Load(q, changes, c, rest)
  BY <1>2, <1>3, <1>5, <1>6, <1>7, ContinueSyncWork
<1> DEFINE push == IF retried THEN 1 ELSE 0
<1>9. Load(q, changes, c, rest) <= Load(syncQueue, changes, ctl, rest) + 4 * push
  <2> DEFINE before == Len(syncQueue) + Cardinality(changes)
             after == Len(q) + Cardinality(changes)
             ends == EndsOf(ctl) + EndsIn(rest)
             left == EndsOf(c) + EndsIn(rest)
  <2>1. Cardinality(changes) \in Nat /\ Len(syncQueue) \in Nat /\ Len(q) \in Nat
    BY <1>3, <1>5, ChangesCount
  <2>2. /\ EndsOf(ctl) \in Nat /\ EndsOf(c) \in Nat /\ EndsIn(rest) \in Nat
        /\ Asked(rest) \in Nat
    BY <1>2, EndsOfType, EndsInType
  <2>3. before \in Nat /\ after \in Nat /\ after <= before + push
    BY <1>5, <2>1
  <2>4. ends \in Nat /\ left \in Nat /\ left <= ends
    BY <1>7, <2>2
  <2>5. /\ Load(q, changes, c, rest) = Total(Asked(rest), after, left)
        /\ Load(syncQueue, changes, ctl, rest) = Total(Asked(rest), before, ends)
    BY DEF Load
  <2>6. push \in Nat
    OBVIOUS
  <2> HIDE DEF before, after, ends, left, push
  <2> QED BY <2>2, <2>3, <2>4, <2>5, <2>6 DEF Total
<1>10. LoadNow = Load(syncQueue, changes, ctl, rest) + 5 * 0 + 3 * (1 + 0)
  BY <1>1, HeadWork DEF Number
<1> DEFINE others == Cardinality(Clean(failed) \ {From})
<1>11. /\ others \in Nat
       /\ Cardinality(Clean(failed)) = others + Number(~failed[From])
       /\ Cardinality(Clean(failed')) = others + Number(~error)
  <2>1. failed'[From] = error /\ \A b \in Accounts \ {From} : failed'[b] = failed[b]
    BY <1>1, <1>2, <1>3
  <2> QED BY <1>2, <1>3, <1>4, <2>1, CleanCount, Zenon
<1> HIDE DEF others, push, rest, results
<1>12. /\ Workload = LoadNow + 2 * Cardinality(Clean(failed))
       /\ Workload' = LoadNow' + 2 * Cardinality(Clean(failed'))
       /\ LoadNow \in Nat
  BY WorkloadIs, WorkloadThen
<1>13. Load(syncQueue, changes, ctl, rest) \in Nat /\ Load(q, changes, c, rest) \in Nat
  BY <1>2, <1>3, <1>5, LoadType DEF rest
<1> DEFINE was == Number(~failed[From])
           is == Number(~error)
<1>14. /\ Workload = LoadNow + 2 * (others + was)
       /\ Workload' = LoadNow' + 2 * (others + is)
       /\ LoadNow \in Nat /\ LoadNow' \in Nat
  BY <1>8, <1>11, <1>12
<1>15. CASE retried
  <2>1. was = 1 /\ is = 0
    BY <1>4, <1>15 DEF Number
  <2>2. LoadNow' <= LoadNow + 1
    BY <1>8, <1>9, <1>10, <1>13, <1>15 DEF push
  <2> HIDE DEF was, is
  <2>3. Workload = LoadNow + 2 * (others + 1) /\ Workload' = LoadNow' + 2 * others
    BY <1>11, <1>14, <2>1
  <2>4. Workload' < Workload /\ Workload' <= Workload
    BY <1>11, <1>14, <2>2, <2>3, RetriedIsLess
  <2> QED BY <2>4 DEF Falls
<1>16. CASE ~retried
  <2>1. was \in Nat /\ is \in Nat /\ is <= 1
    BY DEF Number
  <2>2. LoadNow' + 3 <= LoadNow
    BY <1>8, <1>9, <1>10, <1>13, <1>16 DEF push
  <2> HIDE DEF was, is
  <2>3. Workload' < Workload /\ Workload' <= Workload
    BY <1>11, <1>14, <2>1, <2>2, EndedIsLess
  <2> QED BY <2>3 DEF Falls
<1> QED BY <1>15, <1>16

LEMMA TimerFalls ==
  ASSUME Inv, Inv', Alive', Timeout \/ QuietEnds \/ ClientAttaches PROVE Falls
<1>1. CASE Timeout
  <2>1. /\ pending = <<>> /\ failed' = failed
        /\ ContinueSync(syncQueue, offlineQueue, FALSE, ctl, dangling, <<>>)
    BY <1>1 DEF Timeout, Ready, NotByRequests
  <2>2. /\ SyncTypes /\ ctl \in ControlsOf /\ pending' \in Seq(PendingSignals)
        /\ syncQueue \in Seq(Jobs) /\ <<>> \in Seq(PendingSignals)
    BY DEF Inv, SyncOK, SyncTypes, AccountsOK
  <2>3. /\ LoadNow' <= Load(syncQueue, changes, ctl, <<>>)
        /\ IsValid(currentJob') => LoadNow' < Load(syncQueue, changes, ctl, <<>>)
    BY <2>1, <2>2, ContinueSyncWork
  <2>4. Load(syncQueue, changes, ctl, <<>>) = LoadNow
    BY <2>1 DEF LoadNow
  <2>5. Works => IsValid(currentJob')
    BY <2>1 DEF Works
  <2> QED BY <2>1, <2>3, <2>4, <2>5, LoadFalls
<1>2. CASE QuietEnds \/ ClientAttaches
  <2>1. /\ pending = <<>> /\ UNCHANGED <<syncQueue, currentJob, changes, ctl, pending, failed>>
    BY <1>2 DEF QuietEnds, ClientAttaches, Ready, queues, eds, accountVars
  <2>2. LoadNow' = LoadNow /\ LoadNow \in Nat
    BY <2>1, WorkloadIs DEF LoadNow
  <2>3. ~Works
    BY <2>1 DEF Works
  <2> QED BY <2>1, <2>2, <2>3, LoadFalls
<1> QED BY <1>1, <1>2

(* Left alone, the daemon has less and less to do: whatever the accounts   *)
(* and the server answer, in every order, for any number of accounts, of   *)
(* jobs and of changes that EDS flushes, a retry included (sync,           *)
(* continueSync, onAccountSyncFinished, onDataChanged).                    *)
THEOREM DaemonRunsOutOfWork == Spec => WorkRunsOut
<1>1. ASSUME Inv, Inv', Next
      PROVE  LeftAlone => Falls
  <2> SUFFICES ASSUME LeftAlone PROVE Falls
    OBVIOUS
  <2>1. /\ Alive /\ Alive' /\ ~External
    <3>1. events \in Nat /\ events' = events
      BY <1>1, DaemonConstants DEF LeftAlone, Inv, RestOK
    <3> QED BY <3>1 DEF LeftAlone, External
  <2>2. CASE Slots
    BY <1>1, <2>1, <2>2, ErrorFalls, FinishedFalls, RequestFalls, ResumeFalls DEF Slots
  <2>3. CASE AccountProgress
    BY <1>1, <2>1, <2>3, ConfigureFalls, SyncsFall DEF AccountProgress
  <2>4. CASE Timeout \/ QuietEnds \/ ClientAttaches
    BY <1>1, <2>1, <2>4, TimerFalls
  <2>5. ~Respawn
    BY <2>1 DEF Respawn
  <2>6. ~(SyncAll \/ CancelAll \/ NetworkChanges)
    BY <2>1 DEF SyncAll, CancelAll, NetworkChanges, GoesOffline, GoesOnline, GoesPartial
  <2>7. ASSUME NEW a \in Accounts
        PROVE  /\ \A sources \in SUBSET Sources : ~SyncOne(a, sources)
               /\ \A s \in Sources : ~CalendarChanged(a, s)
               /\ ~AddAccount(a) /\ ~RemoveAccount(a) /\ ~EnableAccount(a)
               /\ \A whole \in BOOLEAN : ~DisableAccount(a, whole)
    BY <2>1 DEF SyncOne, CalendarChanged, AddAccount, RemoveAccount, EnableAccount,
                DisableAccount
  <2> QED BY <1>1, <2>2, <2>3, <2>4, <2>5, <2>6, <2>7, Zenon DEF Next
<1>2. Inv /\ [Next]_vars => Inv'
  BY NextStep DEF Step
<1>3. Inv /\ [Next]_vars =>
        [LeftAlone => /\ Workload' <= Workload \/ (GoesOnUnsaved' /\ ~GoesOnUnsaved)
                      /\ Works => Workload' < Workload]_vars
  BY <1>1, <1>2 DEF Falls
<1> QED BY <1>2, <1>3, InitInv, PTL DEF Spec, WorkRunsOut
=============================================================================
