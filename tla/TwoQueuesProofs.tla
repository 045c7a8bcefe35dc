--------------------------- MODULE TwoQueuesProofs ---------------------------
(***************************************************************************)
(* Theorems of TwoQueues for every set of accounts and sources: the queues *)
(* hold valid jobs only, no push loses a request, and requests are merged. *)
(* What each operation does to a queue is in the lemmas of SyncQueueProofs.*)
(***************************************************************************)
EXTENDS TwoQueues, SyncQueueProofs

(* Each call keeps the queues well typed. *)
LEMMA TypeOKStep ==
  ASSUME TypeOK, [Next]_vars
  PROVE  TypeOK'
<1>1. \A n \in QueueNames : queues[n] \in Seq(Jobs)
  BY DEF TypeOK
<1>2. ASSUME NEW n \in QueueNames, NEW account \in Accounts, NEW sources \in SUBSET Sources,
             NEW paid \in BOOLEAN, PushSources(n, account, sources, paid)
      PROVE  TypeOK'
  <2>1. Push(queues[n], account, sources, paid) \in Seq(Jobs)
    BY <1>1, PushKeeps
  <2> QED BY <1>2, <2>1 DEF PushSources, TypeOK
<1>3. ASSUME NEW n \in QueueNames, NEW account \in Accounts, NEW sources \in SUBSET Sources,
             RemoveFrom(n, account, sources)
      PROVE  TypeOK'
  <2>1. Remove(queues[n], account, sources) \in Seq(Jobs)
    BY <1>1, RemoveKeeps
  <2> QED BY <1>3, <2>1 DEF RemoveFrom, TypeOK
<1>4. ASSUME NEW n \in QueueNames, PushPopped(n) PROVE TypeOK'
  <2>1. popped \in Jobs
    BY <1>4 DEF PushPopped, TypeOK, IsValid, NoJob
  <2>2. PushJob(queues[n], popped) \in Seq(Jobs)
    BY <1>1, <2>1, PushJobType
  <2> QED BY <1>4, <2>2 DEF PushPopped, TypeOK
<1>5. ASSUME NEW n \in QueueNames, NEW m \in QueueNames, PushOther(n, m) PROVE TypeOK'
  <2>1. PushQueue(queues[n], queues[m]) \in Seq(Jobs)
    BY <1>1, PushQueueKeeps
  <2> QED BY <1>5, <2>1 DEF PushOther, TypeOK
<1>6. ASSUME NEW n \in QueueNames, Pop(n) PROVE TypeOK'
  <2>1. AfterPop(queues[n]) \in Seq(Jobs) /\ PopNext(queues[n]) \in Jobs \cup {NoJob}
    BY <1>1, PopKeeps
  <2> QED BY <1>6, <2>1 DEF Pop, TypeOK
<1>7. ASSUME NEW n \in QueueNames, Clear(n) PROVE TypeOK'
  BY <1>7 DEF Clear, TypeOK
<1>8. CASE UNCHANGED vars
  BY <1>8 DEF TypeOK, vars
<1> QED BY <1>2, <1>3, <1>4, <1>5, <1>6, <1>7, <1>8 DEF Next

(* A call is on one queue, and leaves the other alone. *)
LEMMA OnOneQueue ==
  ASSUME TypeOK, [Next]_vars, NEW n \in QueueNames
  PROVE  \/ queues[n]' = queues[n]
         \/ \E account \in Accounts, sources \in SUBSET Sources :
              \/ \E paid \in BOOLEAN : PushSources(n, account, sources, paid)
              \/ RemoveFrom(n, account, sources)
         \/ PushPopped(n)
         \/ \E m \in QueueNames : PushOther(n, m)
         \/ Pop(n)
         \/ Clear(n)
<1>1. CASE UNCHANGED vars
  BY <1>1 DEF vars
<1>2. ASSUME NEW k \in QueueNames, NEW q, k # n, queues' = [queues EXCEPT ![k] = q]
      PROVE  queues[n]' = queues[n]
  BY <1>2 DEF TypeOK
<1> QED BY <1>1, <1>2 DEF Next, PushSources, RemoveFrom, PushPopped, PushOther, Pop, Clear

(* The queues hold valid jobs only, for every number of accounts, sources  *)
(* and jobs (SyncQueue::push, popNext, remove).                            *)
THEOREM QueuesAreTyped == Spec => []TypeOK
<1>1. Init => TypeOK
  BY DEF Init, TypeOK
<1>2. TypeOK /\ [Next]_vars => TypeOK'
  BY TypeOKStep
<1> QED BY <1>1, <1>2, PTL DEF Spec

(* A queue forgets a request only when it is popped, cleared or told to    *)
(* remove (SyncQueue::push, SyncJob::appendSources).                       *)
THEOREM RequestsStayQueued == Spec => RequestsAreKept
<1>1. ASSUME TypeOK, [Next]_vars PROVE NoPushForgets
  <2> SUFFICES ASSUME NEW n \in QueueNames, NEW account \in Accounts, NEW source \in Sources,
                      Wants(queues[n], account, source), ~Forgets(n, account)
               PROVE  Wants(queues[n]', account, source)
    BY DEF NoPushForgets
  <2>1. \A k \in QueueNames : queues[k] \in Seq(Jobs)
    BY <1>1 DEF TypeOK
  <2>2. ASSUME NEW a \in Accounts, NEW s \in SUBSET Sources, NEW paid \in BOOLEAN,
               PushSources(n, a, s, paid)
        PROVE  Wants(queues[n]', account, source)
    <3>1. queues[n]' = Push(queues[n], a, s, paid)
      BY <1>1, <2>2 DEF PushSources, TypeOK
    <3> QED BY <2>1, <3>1, PushAsks
  <2>3. CASE PushPopped(n)
    <3>1. popped \in Jobs /\ queues[n]' = PushJob(queues[n], popped)
      BY <1>1, <2>3 DEF PushPopped, TypeOK, IsValid, NoJob
    <3> QED BY <2>1, <3>1, PushJobKeeps
  <2>4. ASSUME NEW m \in QueueNames, PushOther(n, m) PROVE Wants(queues[n]', account, source)
    <3>1. queues[n]' = PushQueue(queues[n], queues[m])
      BY <1>1, <2>4 DEF PushOther, TypeOK
    <3>2. \A a \in Accounts, s \in Sources :
            Wants(queues[n], a, s) => Wants(PushQueue(queues[n], queues[m]), a, s)
      BY <2>1, PushQueueKeeps
    <3> QED BY <3>1, <3>2
  <2>5. CASE queues[n]' = queues[n]
    BY <2>5
  <2>6. ASSUME NEW a \in Accounts, NEW s \in SUBSET Sources, RemoveFrom(n, a, s)
        PROVE  Wants(queues[n]', account, source)
    <3>1. a # account
      BY <2>6 DEF Forgets
    <3>2. queues[n]' = Remove(queues[n], a, s)
      BY <1>1, <2>6 DEF RemoveFrom, TypeOK
    <3> QED BY <2>1, <3>1, <3>2, RemoveAsks
  <2>7. CASE Pop(n)
    <3>1. popped' = PopNext(queues[n]) /\ queues[n]' = AfterPop(queues[n])
      BY <1>1, <2>7 DEF Pop, TypeOK
    <3>2. popped'.acc # account
      BY <2>7 DEF Forgets
    <3> QED BY <2>1, <3>1, <3>2, PopAsks
  <2>8. ~Clear(n)
    BY DEF Forgets
  <2> QED BY <1>1, <2>2, <2>3, <2>4, <2>5, <2>6, <2>7, <2>8, OnOneQueue
<1>2. Spec => []TypeOK
  BY QueuesAreTyped
<1>3. TypeOK /\ [Next]_vars => [NoPushForgets]_vars
  BY <1>1
<1> QED BY <1>2, <1>3, PTL DEF Spec, RequestsAreKept

(* After a request the queue wants what it wanted before and the sources   *)
(* the request is for, and nothing else (push(account, sources),           *)
(* appendSources()).                                                       *)
THEOREM RequestsAreTaken == Spec => []RequestsAreHeard
<1>1. TypeOK => RequestsAreHeard
  BY PushAsks DEF TypeOK, RequestsAreHeard
<1> QED BY <1>1, QueuesAreTyped, PTL

(* Only a job that is pushed as an object gives an account a second job in *)
(* a queue: requests of clients, accounts and EDS are merged into the job  *)
(* of the account (SyncQueue::push, remove, popNext).                      *)
THEOREM RequestsAreMerged == Spec => RequestsShareAJob
<1>1. ASSUME TypeOK, [Next]_vars PROVE SharesAJob
  <2> SUFFICES ASSUME NEW n \in QueueNames, OneJobPerAccount(queues[n]),
                      ~PushPopped(n), ~\E m \in QueueNames : PushOther(n, m)
               PROVE  OneJobPerAccount(queues[n]')
    BY DEF SharesAJob
  <2>1. queues[n] \in Seq(Jobs)
    BY <1>1 DEF TypeOK
  <2>2. ASSUME NEW a \in Accounts, NEW s \in SUBSET Sources, NEW paid \in BOOLEAN,
               PushSources(n, a, s, paid)
        PROVE  OneJobPerAccount(queues[n]')
    <3>1. queues[n]' = Push(queues[n], a, s, paid)
      BY <1>1, <2>2 DEF PushSources, TypeOK
    <3>2. OneJobPerAccount(Push(queues[n], a, s, paid))
      BY <2>1, PushKeeps
    <3> QED BY <3>1, <3>2
  <2>3. ASSUME NEW a \in Accounts, NEW s \in SUBSET Sources, RemoveFrom(n, a, s)
        PROVE  OneJobPerAccount(queues[n]')
    <3>1. queues[n]' = Remove(queues[n], a, s)
      BY <1>1, <2>3 DEF RemoveFrom, TypeOK
    <3> QED BY <2>1, <3>1, RemoveKeeps
  <2>4. CASE Pop(n)
    <3>1. queues[n]' = AfterPop(queues[n])
      BY <1>1, <2>4 DEF Pop, TypeOK
    <3> QED BY <2>1, <3>1, PopKeeps
  <2>5. CASE Clear(n)
    BY <1>1, <2>5 DEF Clear, TypeOK, OneJobPerAccount
  <2>6. CASE queues[n]' = queues[n]
    BY <2>6
  <2> QED BY <1>1, <2>2, <2>3, <2>4, <2>5, <2>6, OnOneQueue
<1>2. Spec => []TypeOK
  BY QueuesAreTyped
<1>3. TypeOK /\ [Next]_vars => [SharesAJob]_vars
  BY <1>1
<1> QED BY <1>2, <1>3, PTL DEF Spec, RequestsShareAJob

(* Resuming a queue of parked jobs carries over every job that names its   *)
(* sources (push(const SyncQueue &)).                                      *)
THEOREM NamedJobsResume == Spec => []NamedJobsAreCarriedOver
<1>1. TypeOK => NamedJobsAreCarriedOver
  BY PushQueueKeeps DEF TypeOK, NamedJobsAreCarriedOver
<1> QED BY <1>1, QueuesAreTyped, PTL
=============================================================================
