---------------------------- MODULE SyncConfigure ----------------------------
(***************************************************************************)
(* What SyncConfigure (src/src/sync-configure.cpp) does to the stored      *)
(* configuration: the sources of the peer of an account, the local sources *)
(* in "@default", which all accounts share, and the EDS collections these  *)
(* are bound to.  SyncAccount has its control; here continuePeerConfig()   *)
(* is one step, with every way it can fail or be cut short by the end of   *)
(* the process.                                                            *)
(*                                                                         *)
(* A remote calendar stands for its remote id and its URL.  A source of the*)
(* peer is bound to a calendar, and the local source of the same name to a *)
(* collection.  Names are what formatSourceName() makes of account and     *)
(* remote id: it drops all but letters and digits and cuts, so that two    *)
(* calendars, of one account or of two, may get the same name.             *)
(*                                                                         *)
(* EDS gives no id twice: a local source whose collection was removed, or  *)
(* could not be created, is bound to an id of no collection from then on.  *)
(* What start-up removes of accounts that are gone (cleanupConfig,         *)
(* cleanupLogs, removeAccountConfig) is a part of Restart.                 *)
(*                                                                         *)
(* Left out: collections from before accounts had ids (account 0), what a  *)
(* source holds beside its database, the sync config "<peer>" and the files*)
(* of removed sources.  Assumed of EDS and the SyncEvolution server: ids of*)
(* collections have the prefix that sourceById() is called with, and a     *)
(* stored source has the backend CALENDAR_EDS_BACKEND.                     *)
(***************************************************************************)
CONSTANTS
  Accounts,
  Calendars,      \* the remote calendars an account may have
  Names,          \* the names of sources
  SourceName,     \* formatSourceName(), by account and calendar
  None,           \* no source
  NoCollection    \* an id that is of no collection

\* What createSource() keeps in a collection: the account and the remote id.
Collections == [acc : Accounts, cal : Calendars]

ASSUME ConfigureConstants ==
  /\ SourceName \in [Accounts -> [Calendars -> Names]]
  /\ None \notin Calendars
  /\ {None, NoCollection} \cap Collections = {} /\ None # NoCollection

VARIABLES
  known,        \* the accounts there are
  fetched,      \* m_remoteDatabasesByService of the last SyncConfigure, or {}
  done,         \* the accounts whose last SyncConfigure has emitted done()
  stuck,        \* the accounts whose last SyncConfigure has stopped half way
  peer,         \* "target-config@<peer>": the calendar of each source
  local,        \* "@default": the collection of each source
  collections,  \* the EDS collections there are
  disturbed     \* history: accounts that were not spared a failure

vars == <<known, fetched, done, stuck, peer, local, collections, disturbed>>

Init ==
  /\ known = Accounts
  /\ fetched = [a \in Accounts |-> {}]
  /\ done = {}
  /\ stuck = {}
  /\ peer = [a \in Accounts |-> [n \in Names |-> None]]
  /\ local = [n \in Names |-> None]
  /\ collections = {}
  /\ disturbed = {}

-----------------------------------------------------------------------------
(* The sources of the peer *)

\* The sources whose database is a fetched calendar.
InUse(a) == {n \in Names : peer[a][n] \in fetched[a]}

Wanting(a, n) == {c \in fetched[a] : SourceName[a][c] = n}

\* A name that is taken is not given to another calendar; what has it stays.
Taken(a) == {n \in Names : peer[a][n] # None /\ Wanting(a, n) # {}}

\* The new sources; of several calendars the first one listed gets the name.
NewSources(a) ==
  {new \in [Names -> fetched[a] \cup {None}] :
     \A n \in Names :
       IF peer[a][n] = None /\ Wanting(a, n) # {}
       THEN new[n] \in Wanting(a, n) ELSE new[n] = None}

\* Mutant of PeerWith: nothing is removed.
PeerWithAll(a, new) ==
  [n \in Names |-> IF peer[a][n] # None THEN peer[a][n] ELSE new[n]]

\* The sources, without those that are not in use.
PeerWith(a, new) ==
  [n \in Names |-> IF n \in InUse(a) \cup Taken(a) THEN peer[a][n] ELSE new[n]]

-----------------------------------------------------------------------------
(* The collections *)

Collection(a, c) == [acc |-> a, cal |-> c]

\* The calendars sourceByRemoteId() finds no collection for.
Missing(a) == {c \in fetched[a] : Collection(a, c) \notin collections}

\* createSource() for the calendars in `made'.
CollectionsWith(a, made) == collections \cup {Collection(a, c) : c \in made}

\* Mutant of DatabaseOf: the remote id instead of the id of the collection.
RemoteIdOf(a, c, made) == c

\* localDbId, which is empty when the collection could not be created.
DatabaseOf(a, c, made) ==
  IF Collection(a, c) \in CollectionsWith(a, made) THEN Collection(a, c) ELSE NoCollection

-----------------------------------------------------------------------------
(* The local sources *)

NewOnes(a, new) == {n \in Names : new[n] # None}   \* mutant of Wanted

\* The keys of sourceToDatabase: the sources in use and the new ones.
Wanted(a, new) == InUse(a) \cup {n \in Names : new[n] # None}

\* Local sources are created where there are none.
LocalWith(a, new, made) ==
  [n \in Names |->
     IF local[n] = None /\ n \in Wanted(a, new)
     THEN DatabaseOf(a, PeerWith(a, new)[n], made) ELSE local[n]]

\* Mutant of Unused: whatever account the collection is of.
UnusedByAll(a, wanted, sources, existing) ==
  {n \in Names \ wanted : sources[n] \in existing}

\* The sources that are not wanted, with a collection that exists and is of the
\* account.
Unused(a, wanted, sources, existing) ==
  {n \in Names \ wanted : sources[n] \in existing /\ sources[n].acc = a}

\* Local sources that were bound to a collection in `gone' are bound to none.
Unbound(sources, gone) ==
  [n \in Names |-> IF sources[n] \in gone THEN NoCollection ELSE sources[n]]

\* The end of continuePeerConfig() after a change.  It stops there when the local
\* session is queueing, and with the process, which may end at any point of it.
\* Collections are removed first, but those EDS fails to remove; then "@default"
\* is saved or not.
ConfigureLocal(a, new, made, complete) ==
  LET existing == CollectionsWith(a, made)
      sources == LocalWith(a, new, made)
      unused == Unused(a, Wanted(a, new), sources, existing)
      toRemove == {sources[n] : n \in unused}
      kept == [n \in Names |-> IF n \in unused THEN None ELSE sources[n]]
  IN  \E gone \in SUBSET toRemove, saved \in BOOLEAN, finished \in BOOLEAN :
        /\ saved => finished
        /\ collections' = existing \ gone
        /\ local' = Unbound(IF saved THEN kept ELSE local, gone)
        /\ done' = IF finished THEN done \cup {a} ELSE done
        /\ stuck' = IF finished THEN stuck ELSE stuck \cup {a}
        /\ disturbed' = IF complete /\ saved /\ gone = toRemove
                        THEN disturbed ELSE disturbed \cup {a}

-----------------------------------------------------------------------------
(* Actions *)

\* configure() and onRemoteSourcesAvailable(): with no calendar it is an error.
OnRemoteSourcesAvailable(a) ==
  /\ a \in known
  /\ fetched[a] = {} \/ a \in done
  /\ \E dbs \in SUBSET Calendars : fetched' = [fetched EXCEPT ![a] = dbs]
  /\ done' = done \ {a}
  /\ UNCHANGED <<known, stuck, peer, local, collections, disturbed>>

\* continuePeerConfig().  Collections are created, or not; a peer that is not
\* saved is an error, but the function goes on; and with a peer that has not
\* changed it is done.
ContinuePeerConfig(a) ==
  /\ fetched[a] # {} /\ a \notin done \cup stuck
  /\ \E new \in NewSources(a), made \in SUBSET Missing(a) :
       \/ /\ PeerWith(a, new) = peer[a]
          /\ collections' = CollectionsWith(a, made)
          /\ done' = done \cup {a}
          /\ disturbed' = IF made = Missing(a) THEN disturbed ELSE disturbed \cup {a}
          /\ UNCHANGED <<stuck, peer, local>>
       \/ /\ PeerWith(a, new) # peer[a]
          /\ \E saved \in BOOLEAN :
               /\ peer' = IF saved THEN [peer EXCEPT ![a] = PeerWith(a, new)] ELSE peer
               /\ ConfigureLocal(a, new, made, saved /\ made = Missing(a))
  /\ UNCHANGED <<known, fetched>>

\* removeAccount(): the account is forgotten, its configuration stays.
RemoveAccount(a) ==
  /\ a \in known
  /\ known' = known \ {a}
  /\ UNCHANGED <<fetched, done, stuck, peer, local, collections, disturbed>>

\* The user removes a calendar from EDS.
CollectionRemoved(k) ==
  /\ k \in collections
  /\ collections' = collections \ {k}
  /\ local' = Unbound(local, {k})
  /\ disturbed' = disturbed \cup {k.acc}
  /\ UNCHANGED <<known, fetched, done, stuck, peer>>

\* Accounts that are gone and have a peer, or a result in the log, at start-up.
LeftOver(logged) ==
  {a \in Accounts \ known : a \in logged \/ \E n \in Names : peer[a][n] # None}

\* removeAccountConfig() for each: its peer goes, and with it every local source,
\* of any account, that is bound to no collection.
RemoveAccountConfig(gone) ==
  /\ peer' = [a \in Accounts |-> IF a \in gone THEN [n \in Names |-> None] ELSE peer[a]]
  /\ local' = IF gone = {} THEN local
              ELSE [n \in Names |-> IF local[n] = NoCollection THEN None ELSE local[n]]

\* The process ends and starts again.
Restart ==
  /\ fetched' = [a \in Accounts |-> {}]
  /\ done' = {}
  /\ stuck' = {}
  /\ \E logged \in SUBSET Accounts : RemoveAccountConfig(LeftOver(logged))
  /\ UNCHANGED <<known, collections, disturbed>>

Next ==
  \/ \E a \in Accounts :
       OnRemoteSourcesAvailable(a) \/ ContinuePeerConfig(a) \/ RemoveAccount(a)
  \/ \E k \in Collections : CollectionRemoved(k)
  \/ Restart

Spec == Init /\ [][Next]_vars

-----------------------------------------------------------------------------
TypeOK ==
  /\ known \subseteq Accounts
  /\ fetched \in [Accounts -> SUBSET Calendars]
  /\ done \subseteq Accounts
  /\ stuck \subseteq Accounts
  /\ peer \in [Accounts -> [Names -> Calendars \cup {None}]]
  /\ local \in [Names -> Collections \cup {None, NoCollection}]
  /\ collections \subseteq Collections
  /\ disturbed \subseteq Accounts

\* No other calendar, of this account or another, gets the same name.
OwnName(a, c) ==
  \A b \in Accounts, d \in Calendars :
    SourceName[b][d] = SourceName[a][c] => b = a /\ d = c

\* The step is continuePeerConfig() of account a, to its end or half way.
Configures(a) == a \in (done' \cup stuck') \ (done \cup stuck)

OthersKept ==
  \A a \in Accounts :
    Configures(a) =>
      \A b \in Accounts \ {a} :
        /\ b \in known => peer'[b] = peer[b]
        /\ \A k \in collections : k.acc = b => k \in collections'
        /\ \A n \in Names :
             local[n] \in Collections /\ local[n].acc = b => local'[n] = local[n]

(* The configuration of an account leaves what is of other accounts alone, *)
(* in the local sources they share and in EDS, whatever names collide and  *)
(* whatever fails (continuePeerConfig, "remove local configs and databases"*)
(* tests the account of the collection).                                   *)
OthersAreKept == [][OthersKept]_vars

RemovedWhenGone ==
  \A a \in Accounts, k \in collections \ collections' :
    Configures(a) /\ OwnName(k.acc, k.cal) => k.cal \notin fetched[k.acc]

(* A configuration removes a collection, with the events in it, only when  *)
(* the service no longer lists its calendar: so for a calendar whose name  *)
(* is its own, even after a configuration that failed half way             *)
(* (continuePeerConfig, "source exits on remote side").                    *)
CalendarsStay == [][RemovedWhenGone]_vars

\* Account a has a source for calendar c on both sides, bound to a collection
\* of its own that exists.
Configured(a, c) ==
  /\ peer[a][SourceName[a][c]] = c
  /\ local[SourceName[a][c]] = Collection(a, c)
  /\ Collection(a, c) \in collections

\* Nothing is left of calendar c.
Absent(a, c) ==
  /\ peer[a][SourceName[a][c]] # c
  /\ local[SourceName[a][c]] # Collection(a, c)
  /\ Collection(a, c) \notin collections

(* When a configuration is done, its account has exactly the calendars the *)
(* service has listed, but for those whose names collide: so long as none  *)
(* of its configurations failed or was cut short and the user has removed  *)
(* none of its calendars, whatever has happened to other accounts          *)
(* (continuePeerConfig, which compares the peer with the list and only then*)
(* the local sources with the peer).                                       *)
DoneIsConfigured ==
  \A a \in done \ disturbed, c \in Calendars :
    OwnName(a, c) => IF c \in fetched[a] THEN Configured(a, c) ELSE Absent(a, c)

\* The peer of account a has the sources continuePeerConfig() would give it.
PeerIsRight(a) ==
  /\ \A n \in Names : peer[a][n] # None => n \in InUse(a)
  /\ \A c \in fetched[a] : peer[a][SourceName[a][c]] = c

ConfiguredWhenDone ==
  \A a \in done' \ done :
    PeerIsRight(a) => \A c \in fetched[a] : OwnName(a, c) => Configured(a, c)'

(* "Sources config did not change. No confign needed": a configuration that*)
(* finds the peer as it should be, and is done with that, leaves every     *)
(* calendar of the list configured.  It fails: the peer is saved first, and*)
(* when what comes after that has failed, or the process has ended, or the *)
(* collection is removed later, no configuration looks at the local sources*)
(* again.                                                                  *)
UnchangedNeedsNothing == [][ConfiguredWhenDone]_vars
=============================================================================
