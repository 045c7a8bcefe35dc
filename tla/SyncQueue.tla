------------------------------ MODULE SyncQueue ------------------------------
(***************************************************************************)
(* The job queue of the daemon: the classes SyncJob and SyncQueue of       *)
(* src/src/sync-queue.{h,cpp}, as operators on values.                     *)
(*                                                                         *)
(* A job asks for the synchronization of a set of remote sources of one    *)
(* account; the keyword ALL stands for every source.  A QStringList of     *)
(* sources is a set here: no caller depends on its order and no caller     *)
(* puts a source in it twice.  An empty list passed as an argument means   *)
(* "every source", and sources() returns an empty list for an ALL job.     *)
(***************************************************************************)
EXTENDS Integers, Sequences

CONSTANTS
  Accounts,    \* the accounts a job can be for
  NoAccount,   \* the null SyncAccount pointer
  Sources,     \* the remote ids of the calendars of the accounts
  ALL          \* SyncJob::SyncAllKeyword

ASSUME QueueConstants ==
  /\ NoAccount \notin Accounts
  /\ ALL \notin Sources

\* What m_sources of a job can hold; a job with no source is cleared or emptied.
SourceLists == (SUBSET Sources) \cup {{ALL}}

Jobs == [acc : Accounts, srcs : SourceLists \ {{}}, paid : BOOLEAN]

-----------------------------------------------------------------------------
(* SyncJob *)

\* SyncJob(): the invalid job, also what clear() leaves (but for the flag).
NoJob == [acc |-> NoAccount, srcs |-> {}, paid |-> FALSE]

\* Mutant of NewJob: the empty list is taken as it is.
NewJobAsIs(account, sources, paid) ==
  [acc |-> account, srcs |-> sources, paid |-> paid]

NewJob(account, sources, paid) ==
  [acc |-> account, srcs |-> IF sources = {} THEN {ALL} ELSE sources, paid |-> paid]

\* Mutant of ClearJob: the sources stay.
ClearAccount(job) == [job EXCEPT !.acc = NoAccount]

\* clear(): the account and the sources go, m_runOnPayedConnection stays.
ClearJob(job) == [NoJob EXCEPT !.paid = job.paid]

IsValid(job) == job.acc # NoAccount /\ job.srcs # {}

\* sources(): the empty list when the job is for every source.
SourcesOf(job) == IF ALL \in job.srcs THEN {} ELSE job.srcs

\* Mutants of AppendSources: the new sources replace the old ones; the empty list
\* adds nothing.
AddSources(job, sources) ==
  [job EXCEPT !.srcs = IF ALL \in job.srcs THEN job.srcs ELSE job.srcs \cup sources]

ReplaceSources(job, sources) == [job EXCEPT !.srcs = NewJob(job.acc, sources, job.paid).srcs]

AppendSources(job, sources) ==
  [job EXCEPT !.srcs = CASE ALL \in job.srcs -> job.srcs
                         [] ALL \notin job.srcs /\ sources = {} -> {ALL}
                         [] OTHER -> job.srcs \cup sources]

RemoveSources(job, sources) ==
  [job EXCEPT !.srcs = IF sources = {} THEN {} ELSE job.srcs \ sources]

\* contains(account, sources).  No named source is asked for when sources is
\* empty, so that a job of the account with any sources contains it.
JobContains(job, account, sources) ==
  /\ IsValid(job)
  /\ job.acc = account
  /\ ALL \in job.srcs \/ sources \subseteq job.srcs

\* compareSources(): an empty list stands for ALL on either side.
CompareSources(listA, listB) ==
  LET Normal(list) == IF list = {} THEN {ALL} ELSE list
  IN  Normal(listA) = Normal(listB)

\* operator==: the left side is compared by m_sources, the right by sources().
SameJob(job, other) ==
  job.acc = other.acc /\ CompareSources(job.srcs, SourcesOf(other))

-----------------------------------------------------------------------------
(* SyncQueue: a sequence of jobs, the next one to run first. *)

\* QList::removeOne(): q without the first job that equals the other one.
RemoveOne(q, other) ==
  LET same == {i \in 1 .. Len(q) : SameJob(q[i], other)}
      first == CHOOSE i \in same : \A k \in same : i <= k
  IN  IF same = {} THEN q ELSE SubSeq(q, 1, first - 1) \o SubSeq(q, first + 1, Len(q))

Contains(q, account, sources) ==
  \E i \in 1 .. Len(q) : JobContains(q[i], account, sources)

ContainsJob(q, job) == Contains(q, job.acc, SourcesOf(job))

\* Mutants of PushJob: the job comes first; any job of the account is taken for the
\* same.
PushJobFirst(q, job) == IF ContainsJob(q, job) THEN q ELSE <<job>> \o q

PushJobOfNewAccount(q, job) ==
  IF \E i \in 1 .. Len(q) : q[i].acc = job.acc THEN q ELSE Append(q, job)

PushJob(q, job) == IF ContainsJob(q, job) THEN q ELSE Append(q, job)

\* push(const SyncQueue &): the jobs of the other queue, one after the other.
PushQueue(q, other) ==
  LET pushed[i \in 0 .. Len(other)] ==
        IF i = 0 THEN q ELSE PushJob(pushed[i - 1], other[i])
  IN  pushed[Len(other)]

\* Mutant of Push: no look for a job of the account.
PushNewJob(q, account, sources, paid) == PushJob(q, NewJob(account, sources, paid))

\* push(account, sources, paid): the first job of the account takes the
\* sources, and keeps its own flag; only without one is there a new job.
Push(q, account, sources, paid) ==
  LET mine == {i \in 1 .. Len(q) : q[i].acc = account}
      first == CHOOSE i \in mine : \A k \in mine : i <= k
  IN  IF mine = {}
      THEN PushJob(q, NewJob(account, sources, paid))
      ELSE [q EXCEPT ![first] = AppendSources(q[first], sources)]

PopNext(q) == IF q = <<>> THEN NoJob ELSE Head(q)
AfterPop(q) == IF q = <<>> THEN q ELSE Tail(q)

\* remove(account, sources).  The sources are taken out of the jobs of m_jobs,
\* but what is kept is newList, the copy made before: a job leaves it only
\* when it equals (operator==) a job that has just been emptied, and the edits
\* themselves are lost.
Remove(q, account, sources) ==
  LET Emptied(i) == /\ q[i].acc = account
                    /\ RemoveSources(q[i], sources).srcs = {}
      after[i \in 0 .. Len(q)] ==
        IF i = 0 THEN q
        ELSE IF Emptied(i)
             THEN RemoveOne(after[i - 1], RemoveSources(q[i], sources))
             ELSE after[i - 1]
  IN  after[Len(q)]

RemoveJob(q, job) == Remove(q, job.acc, {})

-----------------------------------------------------------------------------
(* What the properties say of a queue. *)

Wants(q, account, source) == Contains(q, account, {source})

\* A request for a list of sources is for this one; an empty list is for all.
AsksFor(sources, source) == sources = {} \/ source \in sources

\* The queue has a job of the account.
Waits(q, account) == \E i \in 1 .. Len(q) : q[i].acc = account

\* The queue asks for every source the job asks for.
CarriesOver(job, q) ==
  \A source \in Sources :
    JobContains(job, job.acc, {source}) => Wants(q, job.acc, source)

OneJobPerAccount(q) ==
  \A i, k \in 1 .. Len(q) : q[i].acc = q[k].acc => i = k
=============================================================================
