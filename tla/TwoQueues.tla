------------------------------ MODULE TwoQueues ------------------------------
(***************************************************************************)
(* The two SyncQueue objects of the daemon, m_syncQueue and m_offlineQueue,*)
(* under every sequence of calls of their public methods, and the job that *)
(* was last taken out of one of them.  One action per method that changes  *)
(* a queue.  It leaves out who calls the methods and when: SyncDaemon has  *)
(* that.  The jobs that enter a queue as objects are jobs that left one.   *)
(***************************************************************************)
EXTENDS SyncQueue

CONSTANT MaxJobs   \* bound: no call pushes onto a queue of this length

ASSUME MaxJobsAssumption == MaxJobs \in Nat \ {0}

QueueNames == {"sync", "offline"}

VARIABLES
  queues,   \* QueueNames -> the m_jobs of the queue
  popped    \* the job popNext() returned last, m_currentJob in the daemon

vars == <<queues, popped>>

Init ==
  /\ queues = [n \in QueueNames |-> <<>>]
  /\ popped = NoJob

Room(n) == Len(queues[n]) < MaxJobs

\* push(account, sources, paid): a request of a client, an account or EDS.
PushSources(n, account, sources, paid) ==
  /\ Room(n)
  /\ queues' = [queues EXCEPT ![n] = Push(@, account, sources, paid)]
  /\ UNCHANGED popped

\* push(job): the daemon parks the job it took out.
PushPopped(n) ==
  /\ Room(n)
  /\ IsValid(popped)
  /\ queues' = [queues EXCEPT ![n] = PushJob(@, popped)]
  /\ UNCHANGED popped

\* push(queue): the daemon resumes the parked jobs.
PushOther(n, m) ==
  /\ Len(queues[n]) + Len(queues[m]) <= MaxJobs
  /\ queues' = [queues EXCEPT ![n] = PushQueue(@, queues[m])]
  /\ UNCHANGED popped

Pop(n) ==
  /\ popped' = PopNext(queues[n])
  /\ queues' = [queues EXCEPT ![n] = AfterPop(@)]

RemoveFrom(n, account, sources) ==
  /\ queues' = [queues EXCEPT ![n] = Remove(@, account, sources)]
  /\ UNCHANGED popped

Clear(n) ==
  /\ queues' = [queues EXCEPT ![n] = <<>>]
  /\ UNCHANGED popped

Next ==
  \E n \in QueueNames :
    \/ \E account \in Accounts, sources \in SUBSET Sources :
         \/ \E paid \in BOOLEAN : PushSources(n, account, sources, paid)
         \/ RemoveFrom(n, account, sources)
    \/ PushPopped(n)
    \/ \E m \in QueueNames \ {n} : PushOther(n, m)
    \/ Pop(n)
    \/ Clear(n)

Spec == Init /\ [][Next]_vars

-----------------------------------------------------------------------------
(* Every queue holds jobs that are valid: an account of the daemon and at  *)
(* least one source, with ALL never beside a named source.  popNext() of an*)
(* empty queue gives the invalid job (SyncJob::isValid).                   *)
TypeOK ==
  /\ queues \in [QueueNames -> Seq(Jobs)]
  /\ popped \in Jobs \cup {NoJob}

Forgets(n, account) ==
  \/ Pop(n) /\ popped'.acc = account
  \/ Clear(n)
  \/ \E sources \in SUBSET Sources : RemoveFrom(n, account, sources)

NoPushForgets ==
  \A n \in QueueNames, account \in Accounts, source \in Sources :
    Wants(queues[n], account, source) /\ ~Wants(queues[n]', account, source) =>
      Forgets(n, account)

(* A request for a source stays in its queue until a job of its account is *)
(* popped, the queue is cleared or told to remove that account: no push,   *)
(* neither of sources nor of jobs nor of a whole queue, and no call for    *)
(* another account makes a queue forget a source it already held           *)
(* (SyncQueue::push, popNext, remove, SyncJob::appendSources).             *)
RequestsAreKept == [][NoPushForgets]_vars

(* A request is taken for what it is, whatever jobs the queue has: it is   *)
(* for the sources it lists or, with an empty list, for all of them.  After*)
(* the call the queue wants these beside what it wanted before, and nothing*)
(* else for any account (push(account, sources), appendSources()).         *)
RequestsAreHeard ==
  \A n \in QueueNames, account \in Accounts, sources \in SUBSET Sources, paid \in BOOLEAN :
    \A a \in Accounts, source \in Sources :
      Wants(Push(queues[n], account, sources, paid), a, source) <=>
        Wants(queues[n], a, source) \/ (a = account /\ AsksFor(sources, source))

(* Resuming the parked jobs carries over every job that names its sources: *)
(* after the call the queue wants all of them (push(const SyncQueue &)).   *)
(* It is not so for a job that asks for all the sources: contains() finds  *)
(* its empty list in any job of the account, and push(job) drops it.       *)
NamedJobsAreCarriedOver ==
  \A n, m \in QueueNames :
    \A i \in 1 .. Len(queues[m]) :
      ALL \notin queues[m][i].srcs =>
        CarriesOver(queues[m][i], PushQueue(queues[n], queues[m]))

SharesAJob ==
  \A n \in QueueNames :
    OneJobPerAccount(queues[n]) /\ ~OneJobPerAccount(queues[n]') =>
      PushPopped(n) \/ \E m \in QueueNames : PushOther(n, m)

(* push(account, ...) keeps one job per account, as its comment says: only *)
(* jobs that are pushed as objects can give an account a second one.       *)
RequestsShareAJob == [][SharesAJob]_vars

(* remove(account): "remove all services from account", as the unit test   *)
(* says; no job of the account is left.  It fails for a job that names its *)
(* sources.                                                                *)
RemoveForgetsTheAccount ==
  \A n \in QueueNames, account \in Accounts :
    \A i \in DOMAIN Remove(queues[n], account, {}) :
      Remove(queues[n], account, {})[i].acc # account
=============================================================================
