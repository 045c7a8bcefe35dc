--------------------------- MODULE SyncQueueProofs ---------------------------
(***************************************************************************)
(* Lemmas of SyncQueue for every set of accounts and sources: each         *)
(* operation gives a queue of valid jobs, and what it keeps of the requests*)
(* the queue held.                                                         *)
(*                                                                         *)
(* PushQueue and Remove go through a queue with a recursive function.  That*)
(* it exists, and what holds of its last value, is shown in general for the*)
(* iteration of a step (IterationExists, UpTo) by least counterexample.    *)
(***************************************************************************)
EXTENDS SyncQueue, TLAPS, NaturalsInduction, WellFoundedInduction, SequenceTheorems

(* A nonempty set of natural numbers has a least element. *)
LEMMA LeastNatural ==
  ASSUME NEW T \in SUBSET Nat, T # {}
  PROVE  \E m \in T : \A k \in T : m <= k
<1> DEFINE R == {p \in Nat \X Nat : p[1] < p[2]}
<1>1. IsWellFoundedOn(R, Nat)
  BY NatLessThanWellFounded DEF OpToRel
<1>2. \A k, m \in Nat : <<k, m>> \in R <=> k < m
  OBVIOUS
<1> HIDE DEF R
<1>3. PICK m \in T : \A k \in T : ~(<<k, m>> \in R)
  BY <1>1, WFMin
<1>4. \A k \in T : m <= k
  <2>1. \A k \in T : ~(k < m)
    BY <1>2, <1>3
  <2>2. m \in Nat /\ \A k \in T : k \in Nat
    OBVIOUS
  <2> QED BY <2>1, <2>2
<1> QED BY <1>4

(* f has the values of the iteration of n steps on a set, from a start.    *)
IsIteration(f, n, start, step, S) ==
  /\ f \in [0 .. n -> S]
  /\ f[0] = start
  /\ \A i \in 1 .. n : f[i] = step[<<i, f[i - 1]>>]

(* For each number of steps there is such a function.                      *)
LEMMA IterationExists ==
  ASSUME NEW S, NEW q \in S, NEW n \in Nat, NEW step \in [(1 .. n) \X S -> S]
  PROVE  \E f : IsIteration(f, n, q, step, S)
<1> DEFINE Without == {m \in 0 .. n : ~\E f : IsIteration(f, m, q, step, S)}
<1>1. SUFFICES Without = {}
  OBVIOUS
<1>2. SUFFICES ASSUME Without # {} PROVE FALSE
  OBVIOUS
<1>3. PICK m \in Without : \A k \in Without : m <= k
  <2>1. Without \in SUBSET Nat
    OBVIOUS
  <2> QED BY <1>2, <2>1, LeastNatural
<1>4. m # 0
  <2>1. IsIteration([i \in 0 .. 0 |-> q], 0, q, step, S)
    BY DEF IsIteration
  <2> QED BY <1>3, <2>1
<1>5. PICK f : IsIteration(f, m - 1, q, step, S)
  BY <1>3, <1>4
<1> DEFINE g == [i \in 0 .. m |-> IF i < m THEN f[i] ELSE step[<<m, f[m - 1]>>]]
<1>6. IsIteration(g, m, q, step, S)
  <2>1. m \in 1 .. n /\ f[m - 1] \in S
    BY <1>3, <1>4, <1>5 DEF IsIteration
  <2>2. \A i \in 0 .. m : g[i] = IF i < m THEN f[i] ELSE step[<<m, f[m - 1]>>]
    OBVIOUS
  <2>3. step[<<m, f[m - 1]>>] \in S
    BY <2>1
  <2>4. g \in [0 .. m -> S]
    <3>1. \A i \in 0 .. m : g[i] \in S
      BY <1>5, <2>1, <2>2, <2>3 DEF IsIteration
    <3> QED BY <3>1
  <2>5. g[0] = q
    BY <1>5, <2>1, <2>2 DEF IsIteration
  <2>6. ASSUME NEW i \in 1 .. m PROVE g[i] = step[<<i, g[i - 1]>>]
    <3>1. i - 1 \in 0 .. m /\ i - 1 < m /\ i \in 0 .. m
      BY <2>1
    <3>2. g[i - 1] = f[i - 1]
      BY <2>2, <3>1
    <3>3. CASE i < m
      <4>1. i \in 1 .. m - 1
        BY <2>1, <3>3
      <4>2. g[i] = f[i]
        BY <2>2, <3>1, <3>3
      <4> QED BY <1>5, <3>2, <4>1, <4>2 DEF IsIteration
    <3>4. CASE i = m
      BY <2>2, <3>1, <3>2, <3>4
    <3> QED BY <2>1, <3>3, <3>4
  <2> QED BY <2>4, <2>5, <2>6 DEF IsIteration
<1> QED BY <1>3, <1>6

(* Induction up to a number, for a set of numbers. *)
LEMMA UpTo ==
  ASSUME NEW n \in Nat, NEW Good \in SUBSET Nat,
         0 \in Good, \A i \in 1 .. n : i - 1 \in Good => i \in Good
  PROVE  n \in Good
<1> DEFINE Bad == (0 .. n) \ Good
<1>1. SUFFICES ASSUME Bad # {} PROVE FALSE
  OBVIOUS
<1>2. PICK m \in Bad : \A k \in Bad : m <= k
  <2>1. Bad \in SUBSET Nat
    OBVIOUS
  <2> QED BY <1>1, <2>1, LeastNatural
<1>3. m \in 1 .. n
  BY <1>2
<1>4. m - 1 \in Good
  BY <1>2, <1>3
<1> QED BY <1>2, <1>3, <1>4

-----------------------------------------------------------------------------
(* The order of the accounts in a queue. *)

\* r has the accounts of q in their places, and behind them those of S only.
AddsBehind(q, r, S) ==
  /\ Len(q) <= Len(r)
  /\ \A i \in 1 .. Len(q) : r[i].acc = q[i].acc
  /\ \A i \in Len(q) + 1 .. Len(r) : r[i].acc \in S

\* r is what is left of q without some of the jobs of the account.
LeavesOut(q, r, account) ==
  \E place \in [1 .. Len(r) -> 1 .. Len(q)] :
    /\ \A i, k \in 1 .. Len(r) : i < k => place[i] < place[k]
    /\ \A i \in 1 .. Len(r) : r[i] = q[place[i]]
    /\ \A k \in 1 .. Len(q) : q[k].acc # account => \E i \in 1 .. Len(r) : place[i] = k

\* Account a has a job in q that is before every job of account b.
Before(q, a, b) ==
  \E i \in 1 .. Len(q) : q[i].acc = a /\ \A k \in 1 .. i : q[k].acc # b

\* r has jobs of the accounts of q, and nobody has been overtaken.
KeepsLine(q, r) ==
  /\ \A a \in Accounts : Waits(q, a) <=> Waits(r, a)
  /\ \A a, b \in Accounts : Before(q, a, b) => Before(r, a, b)

LEMMA BeforeBehind ==
  ASSUME NEW q \in Seq(Jobs), NEW r \in Seq(Jobs), NEW S, AddsBehind(q, r, S),
         NEW a, NEW b, Before(q, a, b)
  PROVE  Before(r, a, b)
<1>1. Len(q) \in Nat /\ Len(r) \in Nat /\ Len(q) <= Len(r)
  BY DEF AddsBehind
<1>2. PICK i \in 1 .. Len(q) : q[i].acc = a /\ \A k \in 1 .. i : q[k].acc # b
  BY DEF Before
<1>3. i \in 1 .. Len(r) /\ r[i].acc = a /\ \A k \in 1 .. i : r[k].acc # b
  BY <1>1, <1>2 DEF AddsBehind
<1> QED BY <1>3 DEF Before

LEMMA AddsNothing ==
  ASSUME NEW q \in Seq(Jobs), NEW S PROVE AddsBehind(q, q, S)
BY DEF AddsBehind

LEMMA AddsBehindTwice ==
  ASSUME NEW q \in Seq(Jobs), NEW r \in Seq(Jobs), NEW t \in Seq(Jobs),
         NEW S, NEW T \in SUBSET S, NEW U \in SUBSET S,
         AddsBehind(q, r, T), AddsBehind(r, t, U)
  PROVE  AddsBehind(q, t, S)
<1>1. Len(q) \in Nat /\ Len(r) \in Nat /\ Len(t) \in Nat
  OBVIOUS
<1>2. Len(q) <= Len(r) /\ Len(r) <= Len(t)
  BY DEF AddsBehind
<1>3. ASSUME NEW i \in 1 .. Len(q) PROVE t[i].acc = q[i].acc
  BY <1>1, <1>2 DEF AddsBehind
<1>4. ASSUME NEW i \in Len(q) + 1 .. Len(t) PROVE t[i].acc \in S
  <2>1. CASE i <= Len(r)
    BY <1>1, <1>2, <2>1 DEF AddsBehind
  <2>2. CASE i > Len(r)
    BY <1>1, <1>2, <2>2 DEF AddsBehind
  <2> QED BY <1>1, <2>1, <2>2
<1> QED BY <1>1, <1>2, <1>3, <1>4 DEF AddsBehind

LEMMA LeavesOutNothing ==
  ASSUME NEW q \in Seq(Jobs), NEW account PROVE LeavesOut(q, q, account)
<1> DEFINE place == [i \in 1 .. Len(q) |-> i]
<1>1. place \in [1 .. Len(q) -> 1 .. Len(q)] /\ \A i \in 1 .. Len(q) : place[i] = i
  OBVIOUS
<1> HIDE DEF place
<1> QED BY <1>1 DEF LeavesOut

LEMMA LeavesOutTwice ==
  ASSUME NEW q \in Seq(Jobs), NEW r \in Seq(Jobs), NEW t \in Seq(Jobs), NEW account,
         LeavesOut(q, r, account), LeavesOut(r, t, account)
  PROVE  LeavesOut(q, t, account)
<1>1. PICK first \in [1 .. Len(r) -> 1 .. Len(q)] :
        /\ \A i, k \in 1 .. Len(r) : i < k => first[i] < first[k]
        /\ \A i \in 1 .. Len(r) : r[i] = q[first[i]]
        /\ \A k \in 1 .. Len(q) : q[k].acc # account => \E i \in 1 .. Len(r) : first[i] = k
  BY DEF LeavesOut
<1>2. PICK second \in [1 .. Len(t) -> 1 .. Len(r)] :
        /\ \A i, k \in 1 .. Len(t) : i < k => second[i] < second[k]
        /\ \A i \in 1 .. Len(t) : t[i] = r[second[i]]
        /\ \A k \in 1 .. Len(r) : r[k].acc # account => \E i \in 1 .. Len(t) : second[i] = k
  BY DEF LeavesOut
<1> DEFINE place == [i \in 1 .. Len(t) |-> first[second[i]]]
<1>3. /\ place \in [1 .. Len(t) -> 1 .. Len(q)]
      /\ \A i \in 1 .. Len(t) : second[i] \in 1 .. Len(r) /\ place[i] = first[second[i]]
  BY <1>1, <1>2
<1> HIDE DEF place
<1>4. \A i, k \in 1 .. Len(t) : i < k => place[i] < place[k]
  BY <1>1, <1>2, <1>3
<1>5. \A i \in 1 .. Len(t) : t[i] = q[place[i]]
  BY <1>1, <1>2, <1>3
<1>6. ASSUME NEW k \in 1 .. Len(q), q[k].acc # account
      PROVE  \E i \in 1 .. Len(t) : place[i] = k
  <2>1. PICK j \in 1 .. Len(r) : first[j] = k
    BY <1>1, <1>6
  <2>2. r[j].acc # account
    BY <1>1, <1>6, <2>1
  <2>3. PICK i \in 1 .. Len(t) : second[i] = j
    BY <1>2, <2>2
  <2> QED BY <1>3, <2>1, <2>3
<1> QED BY <1>3, <1>4, <1>5, <1>6 DEF LeavesOut

-----------------------------------------------------------------------------
(* The functions of PushQueue and Remove. *)

IsPushed(f, q, other) ==
  f = [i \in 0 .. Len(other) |-> IF i = 0 THEN q ELSE PushJob(f[i - 1], other[i])]

LEMMA PushQueueUnfolds ==
  ASSUME NEW q, NEW other, \E f : IsPushed(f, q, other)
  PROVE  \E f : IsPushed(f, q, other) /\ PushQueue(q, other) = f[Len(other)]
BY DEF PushQueue, IsPushed

LEMMA JobSources ==
  /\ NoJob \notin Jobs
  /\ \A job \in Jobs : /\ IsValid(job) /\ job.acc \in Accounts
                       /\ SourcesOf(job) \in SUBSET Sources
  /\ \A a \in Accounts, s \in SUBSET Sources, paid \in BOOLEAN : NewJob(a, s, paid) \in Jobs
  /\ \A job \in Jobs, s \in SUBSET Sources : AppendSources(job, s) \in Jobs
BY QueueConstants DEF NoJob, Jobs, IsValid, SourcesOf, NewJob, AppendSources, SourceLists

LEMMA PushJobType ==
  ASSUME NEW q \in Seq(Jobs), NEW job \in Jobs
  PROVE  PushJob(q, job) \in Seq(Jobs)
BY DEF PushJob

LEMMA PushJobKeeps ==
  ASSUME NEW q \in Seq(Jobs), NEW job \in Jobs, NEW a \in Accounts, NEW s \in Sources,
         Wants(q, a, s)
  PROVE  Wants(PushJob(q, job), a, s)
BY DEF PushJob, Wants, Contains

LEMMA PushJobWaits ==
  ASSUME NEW q \in Seq(Jobs), NEW job \in Jobs
  PROVE  /\ \A a \in Accounts : Waits(q, a) => Waits(PushJob(q, job), a)
         /\ Waits(PushJob(q, job), job.acc)
<1>1. CASE ContainsJob(q, job)
  BY <1>1 DEF PushJob, Waits, ContainsJob, Contains, JobContains
<1>2. CASE ~ContainsJob(q, job)
  <2>1. /\ Len(Append(q, job)) = Len(q) + 1
        /\ Append(q, job)[Len(q) + 1] = job
        /\ \A i \in 1 .. Len(q) : Append(q, job)[i] = q[i]
    OBVIOUS
  <2> QED BY <1>2, <2>1 DEF PushJob, Waits
<1> QED BY <1>1, <1>2

LEMMA PushJobBehind ==
  ASSUME NEW q \in Seq(Jobs), NEW job \in Jobs
  PROVE  AddsBehind(q, PushJob(q, job), {job.acc})
<1>1. CASE ContainsJob(q, job)
  BY <1>1, AddsNothing DEF PushJob
<1>2. CASE ~ContainsJob(q, job)
  <2>1. /\ Len(Append(q, job)) = Len(q) + 1
        /\ Append(q, job)[Len(q) + 1] = job
        /\ \A i \in 1 .. Len(q) : Append(q, job)[i] = q[i]
    OBVIOUS
  <2> QED BY <1>2, <2>1 DEF PushJob, AddsBehind
<1> QED BY <1>1, <1>2

(* A job that is pushed, or is not since the queue has it, overtakes nobody*)
(* and is not overtaken.                                                   *)
LEMMA PushJobOrder ==
  ASSUME NEW q \in Seq(Jobs), NEW job \in Jobs
  PROVE  KeepsLine(Append(q, job), PushJob(q, job))
<1>1. /\ Len(q) \in Nat /\ Len(Append(q, job)) = Len(q) + 1
      /\ Append(q, job)[Len(q) + 1] = job
      /\ \A i \in 1 .. Len(q) : Append(q, job)[i] = q[i]
  OBVIOUS
<1>2. CASE ContainsJob(q, job)
  <2>1. PushJob(q, job) = q /\ Waits(q, job.acc)
    BY <1>2, PushJobWaits DEF PushJob
  <2>2. ASSUME NEW a PROVE Waits(Append(q, job), a) <=> Waits(q, a)
    BY <1>1, <2>1 DEF Waits
  <2>3. ASSUME NEW a, NEW b, Before(Append(q, job), a, b) PROVE Before(q, a, b)
    <3>1. PICK i \in 1 .. Len(q) + 1 :
            Append(q, job)[i].acc = a /\ \A k \in 1 .. i : Append(q, job)[k].acc # b
      BY <1>1, <2>3 DEF Before
    <3>2. CASE i \in 1 .. Len(q)
      <4>1. q[i].acc = a /\ \A k \in 1 .. i : q[k].acc # b
        BY <1>1, <3>1, <3>2
      <4> QED BY <3>2, <4>1 DEF Before
    <3>3. CASE i = Len(q) + 1
      <4>1. PICK k \in 1 .. Len(q) : q[k].acc = a
        BY <1>1, <2>1, <3>1, <3>3 DEF Waits
      <4>2. \A m \in 1 .. k : q[m].acc # b
        BY <1>1, <3>1, <3>3
      <4> QED BY <4>1, <4>2 DEF Before
    <3> QED BY <1>1, <3>2, <3>3
  <2> QED BY <2>1, <2>2, <2>3 DEF KeepsLine
<1>3. CASE ~ContainsJob(q, job)
  BY <1>3 DEF PushJob, KeepsLine
<1> QED BY <1>2, <1>3

LEMMA PushJobCarriesOver ==
  ASSUME NEW q \in Seq(Jobs), NEW job \in Jobs, ALL \notin job.srcs
  PROVE  CarriesOver(job, PushJob(q, job))
<1> SUFFICES ASSUME NEW source \in Sources, JobContains(job, job.acc, {source})
             PROVE  Wants(PushJob(q, job), job.acc, source)
  BY DEF CarriesOver
<1>1. source \in job.srcs /\ SourcesOf(job) = job.srcs
  BY DEF JobContains, SourcesOf
<1>2. CASE ContainsJob(q, job)
  <2>1. PICK i \in 1 .. Len(q) : JobContains(q[i], job.acc, job.srcs)
    BY <1>1, <1>2 DEF ContainsJob, Contains
  <2>2. JobContains(q[i], job.acc, {source})
    BY <1>1, <2>1 DEF JobContains
  <2> QED BY <1>2, <2>2 DEF PushJob, Wants, Contains
<1>3. CASE ~ContainsJob(q, job)
  <2>1. /\ PushJob(q, job) = Append(q, job)
        /\ Append(q, job)[Len(q) + 1] = job /\ Len(q) + 1 \in 1 .. Len(Append(q, job))
    BY <1>3 DEF PushJob
  <2> QED BY <2>1 DEF Wants, Contains
<1> QED BY <1>2, <1>3

(* A pushed job adds no request but its own. *)
LEMMA PushJobAsks ==
  ASSUME NEW q \in Seq(Jobs), NEW job \in Jobs, NEW a \in Accounts, NEW s \in Sources,
         Wants(PushJob(q, job), a, s)
  PROVE  Wants(q, a, s) \/ JobContains(job, a, {s})
<1>1. CASE ContainsJob(q, job)
  BY <1>1 DEF PushJob
<1>2. CASE ~ContainsJob(q, job)
  <2>1. /\ Len(Append(q, job)) = Len(q) + 1
        /\ Append(q, job)[Len(q) + 1] = job
        /\ \A i \in 1 .. Len(q) : Append(q, job)[i] = q[i]
    OBVIOUS
  <2> QED BY <1>2, <2>1 DEF PushJob, Wants, Contains
<1> QED BY <1>1, <1>2

(* The queues on the way, from the one to the last.                        *)
LEMMA PushQueueSteps ==
  ASSUME NEW q \in Seq(Jobs), NEW other \in Seq(Jobs)
  PROVE  \E g : /\ g[0] = q /\ PushQueue(q, other) = g[Len(other)]
               /\ \A i \in 1 .. Len(other) : g[i] = PushJob(g[i - 1], other[i])
<1> DEFINE n == Len(other)
           S == Seq(Jobs)
           step == [x \in (1 .. n) \X S |-> PushJob(x[2], other[x[1]])]
<1>1. n \in Nat /\ \A i \in 1 .. n : other[i] \in Jobs
  OBVIOUS
<1>2. step \in [(1 .. n) \X S -> S]
  <2>1. \A x \in (1 .. n) \X S : PushJob(x[2], other[x[1]]) \in S
    BY <1>1, PushJobType
  <2> QED BY <2>1
<1>3. \A i \in 1 .. n, r \in Seq(Jobs) : step[<<i, r>>] = PushJob(r, other[i])
  OBVIOUS
<1>4. PICK f : IsIteration(f, n, q, step, S)
  <2>1. q \in S /\ n \in Nat
    OBVIOUS
  <2> HIDE DEF n, S, step
  <2> QED BY <1>2, <2>1, IterationExists
<1> HIDE DEF step
<1>5. IsPushed(f, q, other)
  <2>1. \A i \in 0 .. n : f[i] = IF i = 0 THEN q ELSE PushJob(f[i - 1], other[i])
    <3> SUFFICES ASSUME NEW i \in 0 .. n, i # 0 PROVE f[i] = PushJob(f[i - 1], other[i])
      BY <1>4 DEF IsIteration
    <3>1. i \in 1 .. n /\ f[i - 1] \in Seq(Jobs)
      BY <1>1, <1>4 DEF IsIteration
    <3> QED BY <1>3, <1>4, <3>1 DEF IsIteration
  <2>2. f = [i \in 0 .. n |-> f[i]]
    BY <1>4 DEF IsIteration
  <2> QED BY <2>1, <2>2 DEF IsPushed
<1>6. PICK g : IsPushed(g, q, other) /\ PushQueue(q, other) = g[n]
  BY <1>5, PushQueueUnfolds
<1>7. g[0] = q /\ \A i \in 1 .. n : g[i] = PushJob(g[i - 1], other[i])
  <2>1. 0 \in 0 .. n /\ \A i \in 1 .. n : i \in 0 .. n /\ i # 0
    BY <1>1
  <2>2. \A i \in 0 .. n : g[i] = IF i = 0 THEN q ELSE PushJob(g[i - 1], other[i])
    BY <1>6, Zenon DEF IsPushed
  <2> QED BY <2>1, <2>2
<1> QED BY <1>6, <1>7

(* Pushing a queue gives a queue of jobs, loses no request of the one,     *)
(* carries over the jobs of the other that name their sources, has the     *)
(* requests of the two and no others, jobs of the accounts of both, and    *)
(* those of the other behind.                                              *)
LEMMA PushQueueKeeps ==
  ASSUME NEW q \in Seq(Jobs), NEW other \in Seq(Jobs)
  PROVE  /\ PushQueue(q, other) \in Seq(Jobs)
         /\ \A a \in Accounts, s \in Sources : Wants(q, a, s) => Wants(PushQueue(q, other), a, s)
         /\ \A i \in 1 .. Len(other) :
              ALL \notin other[i].srcs => CarriesOver(other[i], PushQueue(q, other))
         /\ \A a \in Accounts, s \in Sources :
              Wants(PushQueue(q, other), a, s) => Wants(q, a, s) \/ Wants(other, a, s)
         /\ \A a \in Accounts : Waits(q, a) => Waits(PushQueue(q, other), a)
         /\ \A i \in 1 .. Len(other) : Waits(PushQueue(q, other), other[i].acc)
         /\ AddsBehind(q, PushQueue(q, other), {other[i].acc : i \in 1 .. Len(other)})
<1> DEFINE n == Len(other)
           A == {other[i].acc : i \in 1 .. n}
<1>1. n \in Nat /\ \A i \in 1 .. n : other[i] \in Jobs
  OBVIOUS
<1>2. PICK g : /\ g[0] = q /\ PushQueue(q, other) = g[n]
               /\ \A i \in 1 .. n : g[i] = PushJob(g[i - 1], other[i])
  BY PushQueueSteps
<1> DEFINE Good == {i \in 0 .. n :
      /\ g[i] \in Seq(Jobs)
      /\ \A a \in Accounts, s \in Sources : Wants(q, a, s) => Wants(g[i], a, s)
      /\ \A k \in 1 .. i : ALL \notin other[k].srcs => CarriesOver(other[k], g[i])
      /\ \A a \in Accounts, s \in Sources :
           Wants(g[i], a, s) => Wants(q, a, s) \/ Wants(other, a, s)
      /\ \A a \in Accounts : Waits(q, a) => Waits(g[i], a)
      /\ \A k \in 1 .. i : Waits(g[i], other[k].acc)
      /\ AddsBehind(q, g[i], A)}
<1> HIDE DEF A
<1>3. 0 \in Good
  BY <1>1, <1>2, AddsNothing
<1>4. ASSUME NEW i \in 1 .. n, i - 1 \in Good PROVE i \in Good
  <2>1. g[i - 1] \in Seq(Jobs) /\ other[i] \in Jobs /\ g[i] = PushJob(g[i - 1], other[i])
    BY <1>1, <1>2, <1>4
  <2>2. g[i] \in Seq(Jobs)
    BY <2>1, PushJobType
  <2>3. \A a \in Accounts, s \in Sources : Wants(g[i - 1], a, s) => Wants(g[i], a, s)
    BY <2>1, PushJobKeeps
  <2>4. ASSUME NEW k \in 1 .. i, ALL \notin other[k].srcs PROVE CarriesOver(other[k], g[i])
    <3>1. CASE k = i
      BY <2>1, <2>4, <3>1, PushJobCarriesOver
    <3>2. CASE k # i
      <4>1. k \in 1 .. i - 1 /\ other[k].acc \in Accounts
        BY <1>1, <3>2 DEF Jobs
      <4>2. CarriesOver(other[k], g[i - 1])
        BY <1>4, <2>4, <4>1
      <4> QED BY <2>3, <4>1, <4>2 DEF CarriesOver
    <3> QED BY <3>1, <3>2
  <2>5. /\ \A a \in Accounts : Waits(g[i - 1], a) => Waits(g[i], a)
        /\ Waits(g[i], other[i].acc)
    BY <2>1, PushJobWaits
  <2>6. \A k \in 1 .. i : Waits(g[i], other[k].acc)
    <3> SUFFICES ASSUME NEW k \in 1 .. i, k # i PROVE Waits(g[i], other[k].acc)
      BY <2>5
    <3>1. k \in 1 .. i - 1 /\ other[k].acc \in Accounts
      BY <1>1 DEF Jobs
    <3> QED BY <1>4, <2>5, <3>1
  <2>7. AddsBehind(q, g[i], A)
    <3>1. {other[i].acc} \in SUBSET A /\ A \in SUBSET A
      BY DEF A
    <3>2. AddsBehind(g[i - 1], g[i], {other[i].acc})
      BY <2>1, PushJobBehind
    <3> QED BY <1>4, <2>1, <2>2, <3>1, <3>2, AddsBehindTwice
  <2>8. ASSUME NEW a \in Accounts, NEW s \in Sources, Wants(g[i], a, s)
        PROVE  Wants(q, a, s) \/ Wants(other, a, s)
    <3>1. Wants(g[i - 1], a, s) \/ JobContains(other[i], a, {s})
      BY <2>1, <2>8, PushJobAsks
    <3>2. JobContains(other[i], a, {s}) => Wants(other, a, s)
      BY DEF Wants, Contains
    <3> QED BY <1>4, <3>1, <3>2
  <2> QED BY <1>1, <1>4, <2>2, <2>3, <2>4, <2>5, <2>6, <2>7, <2>8
<1>5. n \in Good
  <2>1. Good \in SUBSET Nat
    BY <1>1
  <2> HIDE DEF Good
  <2> QED BY <1>1, <1>3, <1>4, <2>1, UpTo
<1> QED BY <1>2, <1>5 DEF A

(* A queue that is pushed keeps its order, behind all that was there: who  *)
(* was before another in the first queue followed by the second still is.  *)
(* The first one may itself be what is left of an earlier line.            *)
LEMMA PushQueueOrder ==
  ASSUME NEW early \in Seq(Jobs), NEW q \in Seq(Jobs), NEW other \in Seq(Jobs),
         KeepsLine(early, q)
  PROVE  KeepsLine(early \o other, PushQueue(q, other))
<1> DEFINE n == Len(other)
           m == Len(early)
           line == early \o other
<1>1. /\ n \in Nat /\ m \in Nat /\ Len(line) = m + n /\ line \in Seq(Jobs)
      /\ \A i \in 1 .. m : line[i] = early[i]
      /\ \A i \in 1 .. n : line[m + i] = other[i] /\ other[i] \in Jobs
  OBVIOUS
<1>2. PICK g : /\ g[0] = q /\ PushQueue(q, other) = g[n]
               /\ \A i \in 1 .. n : g[i] = PushJob(g[i - 1], other[i])
  BY PushQueueSteps
<1> HIDE DEF line
<1>3. ASSUME NEW a \in Accounts PROVE Waits(line, a) <=> Waits(PushQueue(q, other), a)
  <2>1. Waits(line, a) <=> Waits(early, a) \/ Waits(other, a)
    <3>1. ASSUME Waits(line, a) PROVE Waits(early, a) \/ Waits(other, a)
      <4>1. PICK i \in 1 .. m + n : line[i].acc = a
        BY <1>1, <3>1 DEF Waits
      <4>2. CASE i \in 1 .. m
        BY <1>1, <4>1, <4>2 DEF Waits
      <4>3. CASE i \notin 1 .. m
        <5>1. i - m \in 1 .. n /\ i = m + (i - m)
          BY <1>1, <4>3
        <5>2. other[i - m].acc = a
          BY <1>1, <4>1, <5>1
        <5> QED BY <5>1, <5>2 DEF Waits
      <4> QED BY <4>2, <4>3
    <3>2. ASSUME NEW i \in 1 .. m, early[i].acc = a PROVE Waits(line, a)
      <4>1. i \in 1 .. Len(line)
        BY <1>1
      <4> QED BY <1>1, <3>2, <4>1 DEF Waits
    <3>3. ASSUME NEW i \in 1 .. n, other[i].acc = a PROVE Waits(line, a)
      <4>1. m + i \in 1 .. Len(line)
        BY <1>1
      <4> QED BY <1>1, <3>3, <4>1 DEF Waits
    <3> QED BY <3>1, <3>2, <3>3 DEF Waits
  <2>2. /\ PushQueue(q, other) \in Seq(Jobs)
        /\ Waits(q, a) => Waits(PushQueue(q, other), a)
        /\ Waits(other, a) => Waits(PushQueue(q, other), a)
        /\ AddsBehind(q, PushQueue(q, other), {other[i].acc : i \in 1 .. n})
    <3>1. /\ PushQueue(q, other) \in Seq(Jobs)
          /\ Waits(q, a) => Waits(PushQueue(q, other), a)
          /\ \A i \in 1 .. n : Waits(PushQueue(q, other), other[i].acc)
          /\ AddsBehind(q, PushQueue(q, other), {other[i].acc : i \in 1 .. n})
      BY PushQueueKeeps
    <3>2. ASSUME Waits(other, a) PROVE Waits(PushQueue(q, other), a)
      <4>1. PICK i \in 1 .. n : other[i].acc = a
        BY <3>2 DEF Waits
      <4>2. Waits(PushQueue(q, other), other[i].acc)
        BY <3>1
      <4> QED BY <4>1, <4>2
    <3> QED BY <3>1, <3>2
  <2>3. ASSUME Waits(PushQueue(q, other), a) PROVE Waits(q, a) \/ Waits(other, a)
    <3>1. PICK i \in 1 .. Len(PushQueue(q, other)) : PushQueue(q, other)[i].acc = a
      BY <2>3 DEF Waits
    <3>2. i \in 1 .. Len(q) \/ i \in Len(q) + 1 .. Len(PushQueue(q, other))
      BY <2>2, <3>1
    <3> QED BY <2>2, <3>1, <3>2 DEF AddsBehind, Waits
  <2> QED BY <2>1, <2>2, <2>3 DEF KeepsLine
<1>4. ASSUME NEW a \in Accounts, NEW b \in Accounts, Before(line, a, b)
      PROVE  Before(PushQueue(q, other), a, b)
  <2>1. PICK i \in 1 .. m + n : line[i].acc = a /\ \A k \in 1 .. i : line[k].acc # b
    BY <1>1, <1>4 DEF Before
  <2> DEFINE Good == {p \in 0 .. n :
        /\ g[p] \in Seq(Jobs)
        /\ m + p <= i => ~Waits(g[p], b)
        /\ i <= m + p => Before(g[p], a, b)}
  <2>2. 0 \in Good
    <3>1. ASSUME m <= i PROVE ~Waits(q, b)
      <4>1. \A k \in 1 .. m : early[k].acc # b
        BY <1>1, <2>1, <3>1
      <4> QED BY <4>1 DEF KeepsLine, Waits
    <3>2. ASSUME i <= m PROVE Before(q, a, b)
      <4>1. i \in 1 .. m /\ early[i].acc = a /\ \A k \in 1 .. i : early[k].acc # b
        BY <1>1, <2>1, <3>2
      <4> QED BY <4>1 DEF KeepsLine, Before
    <3> QED BY <1>1, <1>2, <3>1, <3>2
  <2>3. ASSUME NEW p \in 1 .. n, p - 1 \in Good PROVE p \in Good
    <3>1. /\ p \in 0 .. n /\ g[p - 1] \in Seq(Jobs) /\ other[p] \in Jobs
          /\ g[p] = PushJob(g[p - 1], other[p]) /\ line[m + p] = other[p]
      BY <1>1, <1>2, <2>3
    <3>2. /\ g[p] \in Seq(Jobs) /\ Waits(g[p], other[p].acc)
          /\ AddsBehind(g[p - 1], g[p], {other[p].acc})
      BY <3>1, PushJobType, PushJobWaits, PushJobBehind
    <3>3. ASSUME m + p <= i PROVE ~Waits(g[p], b)
      <4>1. ~Waits(g[p - 1], b) /\ other[p].acc # b
        BY <1>1, <2>1, <2>3, <3>1, <3>3
      <4>2. ASSUME NEW k \in 1 .. Len(g[p]) PROVE g[p][k].acc # b
        <5>1. k \in 1 .. Len(g[p - 1]) \/ k \in Len(g[p - 1]) + 1 .. Len(g[p])
          BY <3>1, <3>2
        <5> QED BY <3>2, <4>1, <5>1 DEF AddsBehind, Waits
      <4> QED BY <4>2 DEF Waits
    <3>4. ASSUME i <= m + p PROVE Before(g[p], a, b)
      <4>1. CASE i <= m + (p - 1)
        <5>1. Before(g[p - 1], a, b)
          BY <2>3, <4>1
        <5> QED BY <3>1, <3>2, <5>1, BeforeBehind
      <4>2. CASE i = m + p
        <5>1. other[p].acc = a /\ ~Waits(g[p], b)
          BY <1>1, <2>1, <3>1, <3>3, <4>2
        <5>2. PICK k \in 1 .. Len(g[p]) : g[p][k].acc = a
          BY <3>2, <5>1 DEF Waits
        <5>3. \A j \in 1 .. k : g[p][j].acc # b
          BY <3>2, <5>1, <5>2 DEF Waits
        <5> QED BY <5>2, <5>3 DEF Before
      <4>3. i <= m + (p - 1) \/ i = m + p
        <5>1. i \in Nat /\ p \in Nat /\ m \in Nat
          BY <1>1
        <5> QED BY <3>4, <5>1
      <4> HIDE DEF Good
      <4> QED BY <4>1, <4>2, <4>3
    <3> QED BY <3>1, <3>2, <3>3, <3>4
  <2>4. n \in Good
    <3>1. Good \in SUBSET Nat
      BY <1>1
    <3> HIDE DEF Good
    <3> QED BY <1>1, <2>2, <2>3, <3>1, UpTo
  <2> QED BY <1>1, <1>2, <2>4
<1> QED BY <1>3, <1>4 DEF KeepsLine, line

-----------------------------------------------------------------------------
(* A request gives a queue of jobs, loses no request before it, and takes  *)
(* the account's place or one behind all others.                           *)
LEMMA PushKeeps ==
  ASSUME NEW q \in Seq(Jobs), NEW account \in Accounts, NEW sources \in SUBSET Sources,
         NEW paid \in BOOLEAN
  PROVE  /\ Push(q, account, sources, paid) \in Seq(Jobs)
         /\ \A a \in Accounts, s \in Sources :
              Wants(q, a, s) => Wants(Push(q, account, sources, paid), a, s)
         /\ OneJobPerAccount(q) => OneJobPerAccount(Push(q, account, sources, paid))
         /\ \A a \in Accounts : Waits(q, a) => Waits(Push(q, account, sources, paid), a)
         /\ Waits(Push(q, account, sources, paid), account)
         /\ AddsBehind(q, Push(q, account, sources, paid), {account})
         /\ Len(Push(q, account, sources, paid)) <= Len(q) + 1
<1> DEFINE mine == {i \in 1 .. Len(q) : q[i].acc = account}
<1>1. CASE mine = {}
  <2>1. Push(q, account, sources, paid) = PushJob(q, NewJob(account, sources, paid))
    BY <1>1 DEF Push
  <2>2. NewJob(account, sources, paid) \in Jobs /\ NewJob(account, sources, paid).acc = account
    BY JobSources DEF NewJob
  <2>3. OneJobPerAccount(q) => OneJobPerAccount(Push(q, account, sources, paid))
    BY <1>1, <2>1 DEF OneJobPerAccount, PushJob, NewJob
  <2>4. Len(Push(q, account, sources, paid)) <= Len(q) + 1
    BY <2>1, <2>2 DEF PushJob
  <2> QED BY <2>1, <2>2, <2>3, <2>4, PushJobType, PushJobKeeps, PushJobWaits, PushJobBehind
<1>2. CASE mine # {}
  <2>1. PICK first \in mine :
          Push(q, account, sources, paid)
            = [q EXCEPT ![first] = AppendSources(q[first], sources)]
    <3>1. \E i \in mine : \A k \in mine : i <= k
      <4>1. mine \in SUBSET Nat
        OBVIOUS
      <4> QED BY <1>2, <4>1, LeastNatural
    <3> QED BY <1>2, <3>1 DEF Push
  <2>2. first \in 1 .. Len(q) /\ q[first] \in Jobs
    OBVIOUS
  <2>3. AppendSources(q[first], sources) \in Jobs
    BY <2>2, JobSources
  <2>4. Push(q, account, sources, paid) \in Seq(Jobs)
    BY <2>1, <2>2, <2>3
  <2>5. ASSUME NEW a \in Accounts, NEW s \in Sources, JobContains(q[first], a, {s})
        PROVE  JobContains(AppendSources(q[first], sources), a, {s})
    BY <2>2, <2>5 DEF JobContains, AppendSources, IsValid, Jobs
  <2>6. ASSUME NEW a \in Accounts, NEW s \in Sources, Wants(q, a, s)
        PROVE  Wants(Push(q, account, sources, paid), a, s)
    BY <2>1, <2>2, <2>5, <2>6 DEF Wants, Contains
  <2>7. OneJobPerAccount(q) => OneJobPerAccount(Push(q, account, sources, paid))
    <3>1. AppendSources(q[first], sources).acc = q[first].acc
      BY <2>2 DEF AppendSources, Jobs
    <3> QED BY <2>1, <2>2, <3>1 DEF OneJobPerAccount
  <2>8. /\ \A a \in Accounts : Waits(q, a) => Waits(Push(q, account, sources, paid), a)
        /\ Waits(Push(q, account, sources, paid), account)
        /\ AddsBehind(q, Push(q, account, sources, paid), {account})
        /\ Len(Push(q, account, sources, paid)) <= Len(q) + 1
    <3>1. AppendSources(q[first], sources).acc = q[first].acc /\ q[first].acc = account
      BY <2>2 DEF AppendSources, Jobs
    <3>2. /\ Len(Push(q, account, sources, paid)) = Len(q)
          /\ \A i \in 1 .. Len(q) : Push(q, account, sources, paid)[i].acc = q[i].acc
      BY <2>1, <2>2, <3>1
    <3> QED BY <2>2, <3>1, <3>2 DEF Waits, AddsBehind
  <2> QED BY <2>4, <2>6, <2>7, <2>8
<1> QED BY <1>1, <1>2

(* What is asked for with a list of sources; the empty list is all of them. *)
LEMMA AppendSourcesAsks ==
  ASSUME NEW job \in Jobs, NEW sources \in SUBSET Sources, NEW a \in Accounts, NEW s \in Sources
  PROVE  JobContains(AppendSources(job, sources), a, {s})
           <=> JobContains(job, a, {s}) \/ (a = job.acc /\ AsksFor(sources, s))
BY QueueConstants DEF JobContains, AppendSources, AsksFor, IsValid, Jobs, SourceLists

(* After a request the queue wants what it wanted and what the request is  *)
(* for, and nothing else.                                                  *)
LEMMA PushAsks ==
  ASSUME NEW q \in Seq(Jobs), NEW account \in Accounts, NEW sources \in SUBSET Sources,
         NEW paid \in BOOLEAN, NEW a \in Accounts, NEW s \in Sources
  PROVE  Wants(Push(q, account, sources, paid), a, s)
           <=> Wants(q, a, s) \/ (a = account /\ AsksFor(sources, s))
<1> DEFINE mine == {i \in 1 .. Len(q) : q[i].acc = account}
           job == NewJob(account, sources, paid)
<1>1. CASE mine = {}
  <2>1. job \in Jobs /\ (JobContains(job, a, {s}) <=> a = account /\ AsksFor(sources, s))
    BY QueueConstants DEF NewJob, JobContains, AsksFor, IsValid, Jobs, SourceLists
  <2>2. ~ContainsJob(q, job)
    BY <1>1 DEF ContainsJob, Contains, JobContains, NewJob
  <2>3. Push(q, account, sources, paid) = Append(q, job)
    BY <1>1, <2>2 DEF Push, PushJob
  <2> DEFINE r == Append(q, job)
  <2> HIDE DEF job
  <2>4. /\ Len(r) = Len(q) + 1
        /\ r[Len(q) + 1] = job
        /\ \A i \in 1 .. Len(q) : r[i] = q[i]
    BY <2>1
  <2> HIDE DEF r, mine
  <2>5. ASSUME Wants(r, a, s) PROVE Wants(q, a, s) \/ JobContains(job, a, {s})
    BY <2>4, <2>5 DEF Wants, Contains
  <2>6. ASSUME Wants(q, a, s) \/ JobContains(job, a, {s}) PROVE Wants(r, a, s)
    <3>1. CASE Wants(q, a, s)
      BY <2>4, <3>1 DEF Wants, Contains
    <3>2. CASE JobContains(job, a, {s})
      <4>1. Len(q) + 1 \in 1 .. Len(r) /\ r[Len(q) + 1] = job
        BY <2>4
      <4> QED BY <3>2, <4>1 DEF Wants, Contains
    <3> QED BY <2>6, <3>1, <3>2
  <2> QED BY <2>1, <2>3, <2>5, <2>6 DEF r
<1>2. CASE mine # {}
  <2>1. PICK first \in mine :
          Push(q, account, sources, paid)
            = [q EXCEPT ![first] = AppendSources(q[first], sources)]
    <3>1. \E i \in mine : \A k \in mine : i <= k
      <4>1. mine \in SUBSET Nat
        OBVIOUS
      <4> QED BY <1>2, <4>1, LeastNatural
    <3> QED BY <1>2, <3>1 DEF Push
  <2>2. first \in 1 .. Len(q) /\ q[first] \in Jobs /\ q[first].acc = account
    OBVIOUS
  <2> DEFINE r == Push(q, account, sources, paid)
  <2>3. /\ Len(r) = Len(q)
        /\ r[first] = AppendSources(q[first], sources)
        /\ \A i \in 1 .. Len(q) : i # first => r[i] = q[i]
    BY <2>1, <2>2
  <2> HIDE DEF r, mine
  <2>4. JobContains(r[first], a, {s})
          <=> JobContains(q[first], a, {s}) \/ (a = account /\ AsksFor(sources, s))
    BY <2>2, <2>3, AppendSourcesAsks
  <2>5. Wants(r, a, s) <=> Wants(q, a, s) \/ (a = account /\ AsksFor(sources, s))
    BY <2>2, <2>3, <2>4 DEF Wants, Contains
  <2> QED BY <2>5 DEF r
<1> QED BY <1>1, <1>2

-----------------------------------------------------------------------------
(* removeOne() leaves the queue as it is, or takes one job of the account  *)
(* out of it.                                                              *)
IsShortened(q, r, account) ==
  \/ r = q
  \/ \E i \in 1 .. Len(q) :
       /\ q[i].acc = account
       /\ r = SubSeq(q, 1, i - 1) \o SubSeq(q, i + 1, Len(q))

LEMMA RemoveOneShortens ==
  ASSUME NEW q \in Seq(Jobs), NEW other
  PROVE  IsShortened(q, RemoveOne(q, other), other.acc)
<1> DEFINE same == {i \in 1 .. Len(q) : SameJob(q[i], other)}
<1>1. CASE same = {}
  BY <1>1 DEF RemoveOne, IsShortened
<1>2. CASE same # {}
  <2>1. \E i \in same : \A k \in same : i <= k
    <3>1. same \in SUBSET Nat
      OBVIOUS
    <3> QED BY <1>2, <3>1, LeastNatural
  <2> QED BY <1>2, <2>1 DEF RemoveOne, IsShortened, SameJob
<1> QED BY <1>1, <1>2

LEMMA ShortenedType ==
  ASSUME NEW q \in Seq(Jobs), NEW r, NEW account, IsShortened(q, r, account)
  PROVE  /\ r \in Seq(Jobs)
         /\ OneJobPerAccount(q) => OneJobPerAccount(r)
         /\ \A a \in Accounts : a # account /\ Waits(q, a) => Waits(r, a)
         /\ LeavesOut(q, r, account)
<1>1. CASE r = q
  BY <1>1, LeavesOutNothing
<1>2. ASSUME NEW i \in 1 .. Len(q), q[i].acc = account,
             r = SubSeq(q, 1, i - 1) \o SubSeq(q, i + 1, Len(q))
      PROVE  /\ r \in Seq(Jobs)
             /\ OneJobPerAccount(q) => OneJobPerAccount(r)
             /\ \A a \in Accounts : a # account /\ Waits(q, a) => Waits(r, a)
             /\ LeavesOut(q, r, account)
  <2>1. /\ r \in Seq(Jobs) /\ Len(r) = Len(q) - 1
        /\ \A k \in 1 .. Len(r) : r[k] = IF k < i THEN q[k] ELSE q[k + 1]
    <3> DEFINE before == SubSeq(q, 1, i - 1)
               after == SubSeq(q, i + 1, Len(q))
    <3>1. /\ before \in Seq(Jobs) /\ Len(before) = i - 1
          /\ \A k \in 1 .. i - 1 : before[k] = q[k]
      OBVIOUS
    <3>2. /\ after \in Seq(Jobs) /\ Len(after) = Len(q) - i
          /\ \A k \in 1 .. Len(q) - i : after[k] = q[i + k]
      OBVIOUS
    <3>3. r = before \o after
      BY <1>2
    <3> HIDE DEF before, after
    <3>4. /\ r \in Seq(Jobs) /\ Len(r) = Len(before) + Len(after)
          /\ \A k \in 1 .. Len(r) :
               r[k] = IF k <= Len(before) THEN before[k] ELSE after[k - Len(before)]
      <4>1. before \in Seq(Jobs) /\ after \in Seq(Jobs)
        BY <3>1, <3>2
      <4>2. /\ before \o after \in Seq(Jobs)
            /\ Len(before \o after) = Len(before) + Len(after)
            /\ \A k \in 1 .. Len(before) + Len(after) :
                 (before \o after)[k] = IF k <= Len(before) THEN before[k]
                                        ELSE after[k - Len(before)]
        BY <4>1, ConcatProperties
      <4> QED BY <3>3, <4>2
    <3>5. ASSUME NEW k \in 1 .. Len(r) PROVE r[k] = IF k < i THEN q[k] ELSE q[k + 1]
      <4>1. CASE k < i
        BY <3>1, <3>2, <3>4, <4>1
      <4>2. CASE ~(k < i)
        <5>1. k - (i - 1) \in 1 .. Len(q) - i /\ i + (k - (i - 1)) = k + 1
          BY <3>1, <3>2, <3>4, <4>2
        <5> QED BY <3>1, <3>2, <3>4, <4>2, <5>1
      <4> QED BY <4>1, <4>2
    <3> QED BY <3>1, <3>2, <3>4, <3>5
  <2>2. ASSUME NEW a \in Accounts, a # account, Waits(q, a) PROVE Waits(r, a)
    <3>1. PICK k \in 1 .. Len(q) : q[k].acc = a
      BY <2>2 DEF Waits
    <3>2. CASE k < i
      BY <2>1, <3>1, <3>2 DEF Waits
    <3>3. CASE k > i
      <4>1. k - 1 \in 1 .. Len(r) /\ r[k - 1] = q[k]
        BY <2>1, <3>1, <3>3
      <4> QED BY <3>1, <4>1 DEF Waits
    <3> QED BY <1>2, <2>2, <3>1, <3>2, <3>3
  <2>3. LeavesOut(q, r, account)
    <3> DEFINE place == [k \in 1 .. Len(r) |-> IF k < i THEN k ELSE k + 1]
    <3>1. /\ place \in [1 .. Len(r) -> 1 .. Len(q)]
          /\ \A k \in 1 .. Len(r) : place[k] = IF k < i THEN k ELSE k + 1
      BY <2>1
    <3> HIDE DEF place
    <3>2. \A j, k \in 1 .. Len(r) : j < k => place[j] < place[k]
      BY <2>1, <3>1
    <3>3. ASSUME NEW k \in 1 .. Len(q), q[k].acc # account
          PROVE  \E j \in 1 .. Len(r) : place[j] = k
      <4>1. CASE k < i
        BY <2>1, <3>1, <4>1
      <4>2. CASE k > i
        <5>1. k - 1 \in 1 .. Len(r) /\ ~(k - 1 < i) /\ (k - 1) + 1 = k
          BY <2>1, <4>2
        <5>2. place[k - 1] = k
          BY <3>1, <5>1
        <5> QED BY <5>1, <5>2
      <4>3. k # i
        BY <1>2, <3>3
      <4> QED BY <4>1, <4>2, <4>3
    <3>4. \A k \in 1 .. Len(r) : r[k] = q[place[k]]
      BY <2>1, <3>1
    <3> QED BY <3>1, <3>2, <3>3, <3>4 DEF LeavesOut
  <2> QED BY <2>1, <2>2, <2>3 DEF OneJobPerAccount
<1> QED BY <1>1, <1>2 DEF IsShortened

IsRemoved(f, q, account, sources) ==
  f = [i \in 0 .. Len(q) |->
         IF i = 0 THEN q
         ELSE IF /\ q[i].acc = account
                 /\ RemoveSources(q[i], sources).srcs = {}
              THEN RemoveOne(f[i - 1], RemoveSources(q[i], sources))
              ELSE f[i - 1]]

LEMMA RemoveUnfolds ==
  ASSUME NEW q, NEW account, NEW sources, \E f : IsRemoved(f, q, account, sources)
  PROVE  \E f : IsRemoved(f, q, account, sources) /\ Remove(q, account, sources) = f[Len(q)]
BY DEF Remove, IsRemoved

(* Removing leaves a queue of jobs, no second job of an account, and the   *)
(* jobs of the other accounts, in their order.                             *)
LEMMA RemoveKeeps ==
  ASSUME NEW q \in Seq(Jobs), NEW account \in Accounts, NEW sources \in SUBSET Sources
  PROVE  /\ Remove(q, account, sources) \in Seq(Jobs)
         /\ OneJobPerAccount(q) => OneJobPerAccount(Remove(q, account, sources))
         /\ \A a \in Accounts :
              a # account /\ Waits(q, a) => Waits(Remove(q, account, sources), a)
         /\ LeavesOut(q, Remove(q, account, sources), account)
<1> DEFINE n == Len(q)
           S == Seq(Jobs)
           Emptied(i) == q[i].acc = account /\ RemoveSources(q[i], sources).srcs = {}
           Without(i, r) == RemoveOne(r, RemoveSources(q[i], sources))
           step == [x \in (1 .. n) \X S |-> IF Emptied(x[1]) THEN Without(x[1], x[2]) ELSE x[2]]
<1>1. ASSUME NEW i \in 1 .. n, NEW r \in S
      PROVE  /\ Without(i, r) \in S
             /\ OneJobPerAccount(r) => OneJobPerAccount(Without(i, r))
             /\ Emptied(i) => \A a \in Accounts :
                  a # account /\ Waits(r, a) => Waits(Without(i, r), a)
             /\ Emptied(i) => LeavesOut(r, Without(i, r), account)
  <2>1. Emptied(i) => RemoveSources(q[i], sources).acc = account
    BY DEF RemoveSources, Jobs
  <2> HIDE DEF Emptied
  <2> DEFINE emptied == RemoveSources(q[i], sources)
  <2>2. IsShortened(r, RemoveOne(r, emptied), emptied.acc)
    BY RemoveOneShortens
  <2>3. /\ RemoveOne(r, emptied) \in S
        /\ OneJobPerAccount(r) => OneJobPerAccount(RemoveOne(r, emptied))
        /\ \A a \in Accounts :
             a # emptied.acc /\ Waits(r, a) => Waits(RemoveOne(r, emptied), a)
        /\ LeavesOut(r, RemoveOne(r, emptied), emptied.acc)
    BY <2>2, ShortenedType
  <2> QED BY <2>1, <2>3
<1> HIDE DEF Without, Emptied
<1>2. step \in [(1 .. n) \X S -> S]
  <2>1. \A x \in (1 .. n) \X S :
          x[2] \in S /\ (IF Emptied(x[1]) THEN Without(x[1], x[2]) ELSE x[2]) \in S
    BY <1>1
  <2> QED BY <2>1
<1>3. \A i \in 1 .. n, r \in S :
        step[<<i, r>>] = IF Emptied(i) THEN Without(i, r) ELSE r
  OBVIOUS
<1>4. PICK f : IsIteration(f, n, q, step, S)
  <2>1. q \in S /\ n \in Nat
    OBVIOUS
  <2> HIDE DEF n, S, step
  <2> QED BY <1>2, <2>1, IterationExists
<1>5. IsRemoved(f, q, account, sources)
  <2>1. \A i \in 0 .. n :
          f[i] = IF i = 0 THEN q ELSE IF Emptied(i) THEN Without(i, f[i - 1]) ELSE f[i - 1]
    <3> HIDE DEF step
    <3> SUFFICES ASSUME NEW i \in 0 .. n, i # 0
                 PROVE  f[i] = IF Emptied(i) THEN Without(i, f[i - 1]) ELSE f[i - 1]
      BY <1>4 DEF IsIteration
    <3>1. i \in 1 .. n /\ f[i - 1] \in S
      BY <1>4 DEF IsIteration
    <3> QED BY <1>3, <1>4, <3>1 DEF IsIteration
  <2>2. f = [i \in 0 .. n |-> f[i]]
    BY <1>4 DEF IsIteration
  <2>3. f = [i \in 0 .. n |->
               IF i = 0 THEN q ELSE IF Emptied(i) THEN Without(i, f[i - 1]) ELSE f[i - 1]]
    <3> QED BY <2>1, <2>2
  <2> QED BY <2>3 DEF IsRemoved, Emptied, Without
<1>6. PICK g : IsRemoved(g, q, account, sources) /\ Remove(q, account, sources) = g[n]
  BY <1>5, RemoveUnfolds
<1>7. /\ g[0] = q
      /\ \A i \in 1 .. n : g[i] = IF Emptied(i) THEN Without(i, g[i - 1]) ELSE g[i - 1]
  <2>1. 0 \in 0 .. n /\ \A i \in 1 .. n : i \in 0 .. n /\ i # 0
    OBVIOUS
  <2>2. \A i \in 0 .. n :
          g[i] = IF i = 0 THEN q ELSE IF Emptied(i) THEN Without(i, g[i - 1]) ELSE g[i - 1]
    BY <1>6, Zenon DEF IsRemoved, Emptied, Without
  <2> QED BY <2>1, <2>2
<1> DEFINE Good == {i \in 0 .. n :
      /\ g[i] \in S
      /\ OneJobPerAccount(q) => OneJobPerAccount(g[i])
      /\ \A a \in Accounts : a # account /\ Waits(q, a) => Waits(g[i], a)
      /\ LeavesOut(q, g[i], account)}
<1>8. 0 \in Good
  BY <1>7, LeavesOutNothing
<1>9. ASSUME NEW i \in 1 .. n, i - 1 \in Good PROVE i \in Good
  <2>1. g[i] \in S /\ (g[i] = g[i - 1] \/ LeavesOut(g[i - 1], g[i], account))
    BY <1>1, <1>7, <1>9
  <2>2. LeavesOut(q, g[i], account)
    BY <1>9, <2>1, LeavesOutTwice
  <2> QED BY <1>1, <1>7, <1>9, <2>2
<1>10. n \in Good
  <2>1. Good \in SUBSET Nat /\ n \in Nat
    OBVIOUS
  <2> HIDE DEF Good, n
  <2> QED BY <1>8, <1>9, <2>1, UpTo
<1> QED BY <1>6, <1>10

(* Removing asks for nothing, and takes nothing from the other accounts.   *)
LEMMA RemoveAsks ==
  ASSUME NEW q \in Seq(Jobs), NEW account \in Accounts, NEW sources \in SUBSET Sources,
         NEW a \in Accounts, NEW s \in Sources
  PROVE  /\ Wants(Remove(q, account, sources), a, s) => Wants(q, a, s)
         /\ a # account /\ Wants(q, a, s) => Wants(Remove(q, account, sources), a, s)
<1> DEFINE r == Remove(q, account, sources)
<1>1. PICK place \in [1 .. Len(r) -> 1 .. Len(q)] :
        /\ \A i \in 1 .. Len(r) : r[i] = q[place[i]]
        /\ \A k \in 1 .. Len(q) : q[k].acc # account => \E i \in 1 .. Len(r) : place[i] = k
  BY RemoveKeeps DEF LeavesOut
<1> HIDE DEF r
<1>2. Wants(r, a, s) => Wants(q, a, s)
  BY <1>1 DEF Wants, Contains
<1>3. ASSUME a # account, Wants(q, a, s) PROVE Wants(r, a, s)
  <2>1. PICK k \in 1 .. Len(q) : JobContains(q[k], a, {s})
    BY <1>3 DEF Wants, Contains
  <2>2. PICK i \in 1 .. Len(r) : place[i] = k
    BY <1>1, <1>3, <2>1 DEF JobContains
  <2> QED BY <1>1, <2>1, <2>2 DEF Wants, Contains
<1> QED BY <1>2, <1>3 DEF r

-----------------------------------------------------------------------------
(* popNext() takes the first job, and the requests of its account only. *)
LEMMA PopKeeps ==
  ASSUME NEW q \in Seq(Jobs)
  PROVE  /\ PopNext(q) \in Jobs \cup {NoJob}
         /\ AfterPop(q) \in Seq(Jobs)
         /\ OneJobPerAccount(q) => OneJobPerAccount(AfterPop(q))
BY DEF PopNext, AfterPop, OneJobPerAccount

LEMMA PopAsks ==
  ASSUME NEW q \in Seq(Jobs), NEW a \in Accounts, NEW s \in Sources
  PROVE  /\ Wants(AfterPop(q), a, s) => Wants(q, a, s)
         /\ Wants(q, a, s) /\ PopNext(q).acc # a => Wants(AfterPop(q), a, s)
<1>1. CASE q = <<>>
  BY <1>1 DEF AfterPop
<1>2. CASE q # <<>>
  <2>1. /\ AfterPop(q) = Tail(q) /\ PopNext(q) = q[1]
        /\ Len(Tail(q)) = Len(q) - 1
        /\ \A i \in 1 .. Len(q) - 1 : Tail(q)[i] = q[i + 1]
    BY <1>2 DEF AfterPop, PopNext
  <2>2. ASSUME Wants(Tail(q), a, s) PROVE Wants(q, a, s)
    BY <2>1, <2>2 DEF Wants, Contains
  <2>3. ASSUME Wants(q, a, s), q[1].acc # a PROVE Wants(Tail(q), a, s)
    <3>1. PICK k \in 1 .. Len(q) : JobContains(q[k], a, {s})
      BY <2>3 DEF Wants, Contains
    <3>2. k - 1 \in 1 .. Len(q) - 1 /\ Tail(q)[k - 1] = q[k]
      BY <2>1, <2>3, <3>1 DEF JobContains
    <3> QED BY <2>1, <3>1, <3>2 DEF Wants, Contains
  <2> QED BY <2>1, <2>2, <2>3
<1> QED BY <1>1, <1>2
=============================================================================
