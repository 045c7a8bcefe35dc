------------------------ MODULE SyncConfigureProofs ------------------------
(* Proofs about SyncConfigure: what a configuration may touch.             *)
EXTENDS SyncConfigure, TLAPS

(* What continuePeerConfig() makes of the peer is again a peer.            *)
LEMMA PeerTyped ==
  ASSUME TypeOK, NEW a \in Accounts, NEW new \in NewSources(a)
  PROVE  PeerWith(a, new) \in [Names -> Calendars \cup {None}]
  BY DEF TypeOK, NewSources, PeerWith

(* The database of a wanted source is a collection or the empty id.        *)
LEMMA LocalTyped ==
  ASSUME TypeOK, NEW a \in Accounts, NEW new \in NewSources(a),
         NEW made \in SUBSET Missing(a)
  PROVE  /\ CollectionsWith(a, made) \subseteq Collections
         /\ LocalWith(a, new, made) \in [Names -> Collections \cup {None, NoCollection}]
<1>1. made \subseteq Calendars
  BY DEF TypeOK, Missing
<1>2. CollectionsWith(a, made) \subseteq Collections
  BY <1>1 DEF TypeOK, CollectionsWith, Collection, Collections
<1>3. ASSUME NEW c PROVE DatabaseOf(a, c, made) \in Collections \cup {NoCollection}
  BY <1>2 DEF DatabaseOf
<1>4. LocalWith(a, new, made) \in [Names -> Collections \cup {None, NoCollection}]
  BY <1>3 DEF TypeOK, LocalWith
<1>5. QED
  BY <1>2, <1>4

(* What ConfigureLocal() does to the local sources and the collections.  A *)
(* local source changes only where there was none, or where it is bound to *)
(* a collection of the account that is configured.                         *)
LEMMA LocalStep ==
  ASSUME TypeOK, NEW a \in Accounts, NEW new \in NewSources(a),
         NEW made \in SUBSET Missing(a), NEW complete,
         ConfigureLocal(a, new, made, complete)
  PROVE  /\ collections' \subseteq Collections
         /\ local' \in [Names -> Collections \cup {None, NoCollection}]
         /\ \A k \in collections : k.acc # a => k \in collections'
         /\ \A n \in Names :
              local[n] \in Collections /\ local[n].acc # a => local'[n] = local[n]
         /\ done' \in {done, done \cup {a}}
         /\ stuck' \in {stuck, stuck \cup {a}}
         /\ disturbed' \in {disturbed, disturbed \cup {a}}
<1> DEFINE existing == CollectionsWith(a, made)
           sources == LocalWith(a, new, made)
           unused == Unused(a, Wanted(a, new), sources, existing)
           toRemove == {sources[n] : n \in unused}
           kept == [n \in Names |-> IF n \in unused THEN None ELSE sources[n]]
<1>1. PICK gone \in SUBSET toRemove, saved \in BOOLEAN, finished \in BOOLEAN :
        /\ collections' = existing \ gone
        /\ local' = Unbound(IF saved THEN kept ELSE local, gone)
        /\ done' = IF finished THEN done \cup {a} ELSE done
        /\ stuck' = IF finished THEN stuck ELSE stuck \cup {a}
        /\ disturbed' = IF complete /\ saved /\ gone = toRemove
                     THEN disturbed ELSE disturbed \cup {a}
  BY DEF ConfigureLocal
<1>2. /\ existing \subseteq Collections
      /\ sources \in [Names -> Collections \cup {None, NoCollection}]
  BY LocalTyped
<1>3. \A k \in gone : k.acc = a
  BY DEF Unused
<1>4. \A n \in unused : sources[n].acc = a
  BY DEF Unused
<1>5. \A n \in Names : local[n] \in Collections => sources[n] = local[n]
  BY ConfigureConstants DEF LocalWith
<1> HIDE DEF existing, sources, unused, toRemove
<1>6. unused \subseteq Names
  BY DEF unused, Unused
<1>7. kept \in [Names -> Collections \cup {None, NoCollection}]
  BY <1>2
<1>8. \A n \in Names : local[n] \in Collections /\ local[n].acc # a => kept[n] = local[n]
  BY <1>4, <1>5
<1> HIDE DEF kept
<1> DEFINE base == IF saved THEN kept ELSE local
<1>9. /\ base \in [Names -> Collections \cup {None, NoCollection}]
      /\ \A n \in Names : local[n] \in Collections /\ local[n].acc # a => base[n] = local[n]
  BY <1>7, <1>8 DEF TypeOK
<1> HIDE DEF base
<1>10. local' = Unbound(base, gone)
  BY <1>1 DEF base
<1>11. /\ local' \in [Names -> Collections \cup {None, NoCollection}]
       /\ \A n \in Names :
            local[n] \in Collections /\ local[n].acc # a => local'[n] = local[n]
  BY <1>3, <1>9, <1>10 DEF Unbound
<1>12. /\ collections' \subseteq Collections
       /\ \A k \in collections : k.acc # a => k \in collections'
  BY <1>1, <1>2, <1>3 DEF existing, CollectionsWith
<1>13. QED
  BY <1>1, <1>11, <1>12

-----------------------------------------------------------------------------
(* A step keeps the types, and the step of one account leaves what is of   *)
(* the others alone.                                                       *)
LEMMA OneStep ==
  ASSUME TypeOK, [Next]_vars
  PROVE  TypeOK' /\ OthersKept
<1>1. CASE UNCHANGED vars
  BY <1>1 DEF vars, TypeOK, OthersKept, Configures
<1>2. ASSUME NEW a \in Accounts, OnRemoteSourcesAvailable(a)
      PROVE  TypeOK' /\ OthersKept
  <2>1. TypeOK'
    BY <1>2 DEF OnRemoteSourcesAvailable, TypeOK
  <2>2. OthersKept
    BY <1>2 DEF OnRemoteSourcesAvailable, OthersKept, Configures
  <2>3. QED
    BY <2>1, <2>2
<1>3. ASSUME NEW a \in Accounts, ContinuePeerConfig(a)
      PROVE  TypeOK' /\ OthersKept
  <2>1. PICK new \in NewSources(a), made \in SUBSET Missing(a) :
          \/ /\ PeerWith(a, new) = peer[a]
             /\ collections' = CollectionsWith(a, made)
             /\ done' = done \cup {a}
             /\ disturbed' = IF made = Missing(a) THEN disturbed ELSE disturbed \cup {a}
             /\ UNCHANGED <<stuck, peer, local>>
          \/ /\ PeerWith(a, new) # peer[a]
             /\ \E saved \in BOOLEAN :
                  /\ peer' = IF saved THEN [peer EXCEPT ![a] = PeerWith(a, new)] ELSE peer
                  /\ ConfigureLocal(a, new, made, saved /\ made = Missing(a))
    BY <1>3 DEF ContinuePeerConfig
  <2>2. /\ PeerWith(a, new) \in [Names -> Calendars \cup {None}]
        /\ CollectionsWith(a, made) \subseteq Collections
    BY PeerTyped, LocalTyped
  <2>3. /\ collections' \subseteq Collections
        /\ local' \in [Names -> Collections \cup {None, NoCollection}]
        /\ \A k \in collections : k.acc # a => k \in collections'
        /\ \A n \in Names :
             local[n] \in Collections /\ local[n].acc # a => local'[n] = local[n]
        /\ done' \in {done, done \cup {a}}
        /\ stuck' \in {stuck, stuck \cup {a}}
        /\ disturbed' \in {disturbed, disturbed \cup {a}}
    <3>1. CASE PeerWith(a, new) = peer[a]
      BY <2>1, <2>2, <3>1 DEF TypeOK, CollectionsWith
    <3>2. CASE PeerWith(a, new) # peer[a]
      BY <2>1, <3>2, LocalStep
    <3>3. QED
      BY <3>1, <3>2
  <2>4. peer' = peer \/ peer' = [peer EXCEPT ![a] = PeerWith(a, new)]
    BY <2>1
  <2>5. known' = known /\ fetched' = fetched
    BY <1>3 DEF ContinuePeerConfig
  <2>6. TypeOK'
    BY <2>2, <2>3, <2>4, <2>5 DEF TypeOK
  <2>7. \A b \in Accounts : Configures(b) => b = a
    BY <1>3, <2>3 DEF TypeOK, Configures, ContinuePeerConfig
  <2>8. OthersKept
    BY <2>3, <2>4, <2>7 DEF TypeOK, OthersKept
  <2>9. QED
    BY <2>6, <2>8
<1>4. ASSUME NEW a \in Accounts, RemoveAccount(a)
      PROVE  TypeOK' /\ OthersKept
  BY <1>4 DEF RemoveAccount, TypeOK, OthersKept, Configures
<1>5. ASSUME NEW k \in Collections, CollectionRemoved(k)
      PROVE  TypeOK' /\ OthersKept
  <2>1. local' \in [Names -> Collections \cup {None, NoCollection}]
    BY <1>5 DEF CollectionRemoved, Unbound, TypeOK
  <2>2. k.acc \in Accounts
    BY DEF Collections
  <2>3. TypeOK'
    BY <1>5, <2>1, <2>2 DEF CollectionRemoved, TypeOK
  <2>4. OthersKept
    BY <1>5 DEF CollectionRemoved, TypeOK, OthersKept, Configures
  <2>5. QED
    BY <2>3, <2>4
<1>6. ASSUME Restart
      PROVE  TypeOK' /\ OthersKept
  <2>1. PICK logged \in SUBSET Accounts : RemoveAccountConfig(LeftOver(logged))
    BY <1>6 DEF Restart
  <2>2. \A a \in LeftOver(logged) : a \notin known
    BY DEF LeftOver
  <2>3. /\ peer' \in [Accounts -> [Names -> Calendars \cup {None}]]
        /\ local' \in [Names -> Collections \cup {None, NoCollection}]
    BY <2>1 DEF RemoveAccountConfig, TypeOK
  <2>4. /\ \A b \in known : peer'[b] = peer[b]
        /\ \A n \in Names : local[n] \in Collections => local'[n] = local[n]
    BY <2>1, <2>2, ConfigureConstants DEF RemoveAccountConfig, TypeOK
  <2>5. TypeOK'
    BY <1>6, <2>3 DEF Restart, TypeOK
  <2>6. OthersKept
    BY <1>6, <2>4 DEF Restart, OthersKept, Configures
  <2>7. QED
    BY <2>5, <2>6
<1>7. QED
  BY <1>1, <1>2, <1>3, <1>4, <1>5, <1>6 DEF Next

(* The variables have their types, whatever fails.                         *)
THEOREM ConfigurationsTyped == Spec => []TypeOK
<1>1. Init => TypeOK
  BY DEF Init, TypeOK
<1>2. TypeOK /\ [Next]_vars => TypeOK'
  BY OneStep
<1>3. QED
  BY <1>1, <1>2, PTL DEF Spec

(* A configuration leaves the sources and collections of the other accounts*)
(* alone: for any number of accounts, and whatever names are the same.     *)
THEOREM ConfigurationsKeepOthers == Spec => OthersAreKept
<1>1. TypeOK /\ [Next]_vars => [OthersKept]_vars
  BY OneStep
<1>2. QED
  BY <1>1, ConfigurationsTyped, PTL DEF Spec, OthersAreKept

-----------------------------------------------------------------------------
(* Every source of a peer and every local source has the name of what it is*)
(* bound to.                                                               *)
NamesMatch ==
  /\ \A a \in Accounts, n \in Names : peer[a][n] # None => SourceName[a][peer[a][n]] = n
  /\ \A n \in Names :
       local[n] \in Collections => SourceName[local[n].acc][local[n].cal] = n

(* The sources a configuration gives to a peer have the names of their     *)
(* calendars, and the wanted ones are among them.                          *)
LEMMA PeerNames ==
  ASSUME TypeOK, NamesMatch, NEW a \in Accounts, NEW new \in NewSources(a),
         NEW n \in Names
  PROVE  /\ PeerWith(a, new)[n] # None => SourceName[a][PeerWith(a, new)[n]] = n
         /\ n \in Wanted(a, new) => PeerWith(a, new)[n] \in Calendars
<1>1. new[n] # None => /\ peer[a][n] = None
                       /\ new[n] \in Calendars
                       /\ SourceName[a][new[n]] = n
  BY DEF TypeOK, NewSources, Wanting
<1>2. n \in InUse(a) => peer[a][n] \in Calendars
  BY DEF TypeOK, InUse
<1>3. n \in InUse(a) \cup Taken(a) => peer[a][n] # None
  BY <1>2, ConfigureConstants DEF InUse, Taken
<1>4. PeerWith(a, new)[n] = IF n \in InUse(a) \cup Taken(a) THEN peer[a][n] ELSE new[n]
  BY DEF PeerWith
<1>5. PeerWith(a, new)[n] # None => SourceName[a][PeerWith(a, new)[n]] = n
  BY <1>1, <1>4 DEF NamesMatch
<1>6. n \in Wanted(a, new) => PeerWith(a, new)[n] \in Calendars
  BY <1>1, <1>2, <1>3, <1>4 DEF Wanted
<1>7. QED
  BY <1>5, <1>6

(* So have the local sources, those a configuration creates among them.    *)
LEMMA LocalNames ==
  ASSUME TypeOK, NamesMatch, NEW a \in Accounts, NEW new \in NewSources(a),
         NEW made \in SUBSET Missing(a), NEW n \in Names,
         LocalWith(a, new, made)[n] \in Collections
  PROVE  SourceName[LocalWith(a, new, made)[n].acc][LocalWith(a, new, made)[n].cal] = n
<1>1. CASE local[n] = None /\ n \in Wanted(a, new)
  <2>1. /\ PeerWith(a, new)[n] \in Calendars
        /\ SourceName[a][PeerWith(a, new)[n]] = n
    BY <1>1, PeerNames, ConfigureConstants
  <2>2. LocalWith(a, new, made)[n] = DatabaseOf(a, PeerWith(a, new)[n], made)
    BY <1>1 DEF LocalWith
  <2>3. LocalWith(a, new, made)[n] = Collection(a, PeerWith(a, new)[n])
    BY <2>2, ConfigureConstants DEF DatabaseOf
  <2>4. QED
    BY <2>1, <2>3 DEF Collection
<1>2. CASE ~(local[n] = None /\ n \in Wanted(a, new))
  BY <1>2 DEF LocalWith, NamesMatch
<1>3. QED
  BY <1>1, <1>2

(* A calendar with a name of its own that is listed has a wanted source.   *)
LEMMA OwnNameIsWanted ==
  ASSUME TypeOK, NamesMatch, NEW a \in Accounts, NEW new \in NewSources(a),
         NEW c \in fetched[a], OwnName(a, c)
  PROVE  SourceName[a][c] \in Wanted(a, new)
<1> DEFINE n == SourceName[a][c]
<1>1. c \in Calendars
  BY DEF TypeOK
<1>2. n \in Names
  BY <1>1, ConfigureConstants
<1> HIDE DEF n
<1>3. CASE peer[a][n] = None
  <2>1. c \in Wanting(a, n)
    BY DEF Wanting, n
  <2>2. new[n] \in Wanting(a, n)
    BY <1>2, <1>3, <2>1 DEF NewSources
  <2>3. new[n] # None
    BY <2>2, ConfigureConstants DEF Wanting, TypeOK
  <2>4. QED
    BY <1>2, <2>3 DEF Wanted, n
<1>4. CASE peer[a][n] # None
  <2>1. /\ peer[a][n] \in Calendars
        /\ SourceName[a][peer[a][n]] = SourceName[a][c]
    BY <1>2, <1>4 DEF TypeOK, NamesMatch, n
  <2>2. peer[a][n] = c
    BY <2>1 DEF OwnName
  <2>3. QED
    BY <1>2, <2>2 DEF Wanted, InUse, n
<1>5. QED
  BY <1>3, <1>4

(* ConfigureLocal() keeps the names, and removes no collection of a listed *)
(* calendar with a name of its own.                                        *)
LEMMA LocalRemoves ==
  ASSUME TypeOK, NamesMatch, NEW a \in Accounts, NEW new \in NewSources(a),
         NEW made \in SUBSET Missing(a), NEW complete,
         ConfigureLocal(a, new, made, complete)
  PROVE  /\ \A n \in Names : local'[n] \in Collections
                            => SourceName[local'[n].acc][local'[n].cal] = n
         /\ RemovedWhenGone
<1> DEFINE existing == CollectionsWith(a, made)
           sources == LocalWith(a, new, made)
           unused == Unused(a, Wanted(a, new), sources, existing)
           toRemove == {sources[n] : n \in unused}
           kept == [n \in Names |-> IF n \in unused THEN None ELSE sources[n]]
<1>1. PICK gone \in SUBSET toRemove, saved \in BOOLEAN :
        /\ collections' = existing \ gone
        /\ local' = Unbound(IF saved THEN kept ELSE local, gone)
  BY DEF ConfigureLocal
<1>2. sources \in [Names -> Collections \cup {None, NoCollection}]
  BY LocalTyped
<1>3. \A n \in unused : /\ n \in Names \ Wanted(a, new)
                        /\ sources[n] \in Collections
                        /\ sources[n].acc = a
  BY LocalTyped DEF Unused
<1>4. \A n \in Names : sources[n] \in Collections
                       => SourceName[sources[n].acc][sources[n].cal] = n
  BY LocalNames
<1> HIDE DEF sources, unused, existing
<1>5. \A n \in Names : kept[n] \in Collections => SourceName[kept[n].acc][kept[n].cal] = n
  BY <1>4, ConfigureConstants
<1>6. \A n \in Names : local'[n] \in Collections
                       => SourceName[local'[n].acc][local'[n].cal] = n
  <2> DEFINE base == IF saved THEN kept ELSE local
  <2>1. \A n \in Names : base[n] \in Collections
                         => SourceName[base[n].acc][base[n].cal] = n
    BY <1>5 DEF NamesMatch
  <2> HIDE DEF base
  <2>2. \A n \in Names : local'[n] = IF base[n] \in gone THEN NoCollection ELSE base[n]
    BY <1>1 DEF Unbound, base
  <2>3. QED
    BY <2>1, <2>2, ConfigureConstants
<1>7. RemovedWhenGone
  <2> SUFFICES ASSUME NEW k \in collections \ collections',
                      OwnName(k.acc, k.cal), k.cal \in fetched[k.acc]
               PROVE  FALSE
    BY DEF RemovedWhenGone
  <2>1. k \in gone
    BY <1>1 DEF existing, CollectionsWith
  <2>2. PICK n \in unused : k = sources[n]
    BY <2>1
  <2>3. k.acc = a /\ SourceName[k.acc][k.cal] = n
    BY <1>3, <1>4, <2>2
  <2>4. n \in Wanted(a, new)
    BY <2>3, OwnNameIsWanted
  <2>5. QED
    BY <1>3, <2>4
<1>8. QED
  BY <1>6, <1>7

(* A step keeps the names and removes no collection that is still listed.  *)
LEMMA NamesStep ==
  ASSUME TypeOK, NamesMatch, [Next]_vars
  PROVE  NamesMatch' /\ (RemovedWhenGone \/ UNCHANGED vars)
<1>1. CASE UNCHANGED vars
  BY <1>1 DEF vars, NamesMatch
<1>2. ASSUME NEW a \in Accounts, OnRemoteSourcesAvailable(a)
      PROVE  NamesMatch' /\ RemovedWhenGone
  BY <1>2 DEF OnRemoteSourcesAvailable, NamesMatch, RemovedWhenGone
<1>3. ASSUME NEW a \in Accounts, ContinuePeerConfig(a)
      PROVE  NamesMatch' /\ RemovedWhenGone
  <2>1. PICK new \in NewSources(a), made \in SUBSET Missing(a) :
          \/ /\ PeerWith(a, new) = peer[a]
             /\ collections' = CollectionsWith(a, made)
             /\ UNCHANGED <<peer, local>>
          \/ /\ PeerWith(a, new) # peer[a]
             /\ \E saved \in BOOLEAN :
                  /\ peer' = IF saved THEN [peer EXCEPT ![a] = PeerWith(a, new)] ELSE peer
                  /\ ConfigureLocal(a, new, made, saved /\ made = Missing(a))
    BY <1>3 DEF ContinuePeerConfig
  <2>2. CASE PeerWith(a, new) = peer[a]
    <3>1. /\ collections' = CollectionsWith(a, made)
          /\ UNCHANGED <<peer, local>>
      BY <2>1, <2>2
    <3>2. QED
      BY <3>1 DEF CollectionsWith, NamesMatch, RemovedWhenGone
  <2>3. CASE PeerWith(a, new) # peer[a]
    <3>1. PICK saved \in BOOLEAN :
            /\ peer' = IF saved THEN [peer EXCEPT ![a] = PeerWith(a, new)] ELSE peer
            /\ ConfigureLocal(a, new, made, saved /\ made = Missing(a))
      BY <2>1, <2>3
    <3>2. /\ \A n \in Names : local'[n] \in Collections
                              => SourceName[local'[n].acc][local'[n].cal] = n
          /\ RemovedWhenGone
      BY <3>1, LocalRemoves
    <3>3. \A b \in Accounts, n \in Names :
            peer'[b][n] # None => SourceName[b][peer'[b][n]] = n
      BY <3>1, PeerNames DEF TypeOK, NamesMatch
    <3>4. QED
      BY <3>2, <3>3 DEF NamesMatch
  <2>4. QED
    BY <2>2, <2>3
<1>4. ASSUME NEW a \in Accounts, RemoveAccount(a)
      PROVE  NamesMatch' /\ RemovedWhenGone
  BY <1>4 DEF RemoveAccount, NamesMatch, RemovedWhenGone
<1>5. ASSUME NEW k \in Collections, CollectionRemoved(k)
      PROVE  NamesMatch' /\ RemovedWhenGone
  <2>1. \A n \in Names : local'[n] = local[n] \/ local'[n] = NoCollection
    BY <1>5 DEF CollectionRemoved, Unbound
  <2>2. NamesMatch'
    BY <1>5, <2>1, ConfigureConstants DEF CollectionRemoved, NamesMatch
  <2>3. RemovedWhenGone
    BY <1>5 DEF CollectionRemoved, TypeOK, RemovedWhenGone, Configures
  <2>4. QED
    BY <2>2, <2>3
<1>6. ASSUME Restart
      PROVE  NamesMatch' /\ RemovedWhenGone
  <2>1. PICK logged \in SUBSET Accounts : RemoveAccountConfig(LeftOver(logged))
    BY <1>6 DEF Restart
  <2>2. /\ \A a \in Accounts, n \in Names : peer'[a][n] \in {None, peer[a][n]}
        /\ \A n \in Names : local'[n] \in {None, local[n]}
    BY <2>1 DEF RemoveAccountConfig, TypeOK
  <2>3. NamesMatch'
    BY <2>2, ConfigureConstants DEF NamesMatch
  <2>4. RemovedWhenGone
    BY <1>6 DEF Restart, RemovedWhenGone
  <2>5. QED
    BY <2>3, <2>4
<1>7. QED
  BY <1>1, <1>2, <1>3, <1>4, <1>5, <1>6 DEF Next

(* A collection is removed only when its calendar is no longer listed, but *)
(* for those whose names collide: whatever fails, for any calendars.       *)
THEOREM ListedCalendarsStay == Spec => CalendarsStay
<1>1. Init => NamesMatch
  BY ConfigureConstants DEF Init, NamesMatch
<1>2. TypeOK /\ NamesMatch /\ [Next]_vars => NamesMatch' /\ [RemovedWhenGone]_vars
  BY NamesStep
<1>3. QED
  BY <1>1, <1>2, ConfigurationsTyped, PTL DEF Spec, CalendarsStay

-----------------------------------------------------------------------------
\* Account a has a source for calendar c.
Mine(a, c) == peer[a][SourceName[a][c]] = c

\* It has all three of them, or none: the source of the peer, the local source,
\* the collection.
Linked(a, c) ==
  /\ local[SourceName[a][c]] # NoCollection
  /\ local[SourceName[a][c]] = Collection(a, c) <=> Mine(a, c)
  /\ Collection(a, c) \in collections <=> Mine(a, c)

\* The calendars of an account that may still be configured.
AllAreLinked ==
  \A a \in Accounts \ disturbed, c \in Calendars :
    OwnName(a, c) /\ (a \in known \/ fetched[a] # {}) => Linked(a, c)

\* A configuration that is done has had a list, and the peer is like it.
DoneHasList ==
  \A a \in done :
    /\ fetched[a] # {}
    /\ a \notin disturbed =>
         \A c \in Calendars : OwnName(a, c) => (Mine(a, c) <=> c \in fetched[a])

(* What has the name of a calendar that shares it with no other is of that *)
(* calendar, and no other account wants a source of that name.             *)
LEMMA OwnNames ==
  ASSUME TypeOK, NamesMatch, NEW a \in Accounts, NEW c \in Calendars, OwnName(a, c)
  PROVE  /\ SourceName[a][c] \in Names
         /\ peer[a][SourceName[a][c]] \in {None, c}
         /\ local[SourceName[a][c]] \in {None, NoCollection, Collection(a, c)}
         /\ \A b \in Accounts \ {a} : \A new \in NewSources(b) :
              SourceName[a][c] \notin Wanted(b, new)
<1> DEFINE n == SourceName[a][c]
<1>1. n \in Names
  BY ConfigureConstants
<1>2. peer[a][n] \in {None, c}
  <2>1. peer[a][n] \in Calendars => SourceName[a][peer[a][n]] = SourceName[a][c]
    BY <1>1, ConfigureConstants DEF NamesMatch
  <2>2. QED
    BY <1>1, <2>1 DEF TypeOK, OwnName
<1>3. local[n] \in {None, NoCollection, Collection(a, c)}
  <2>1. ASSUME local[n] \in Collections PROVE local[n] = Collection(a, c)
    <3>1. PICK b \in Accounts, d \in Calendars : local[n] = [acc |-> b, cal |-> d]
      BY <2>1 DEF Collections
    <3>2. SourceName[b][d] = SourceName[a][c]
      BY <1>1, <2>1, <3>1 DEF NamesMatch
    <3>3. QED
      BY <3>1, <3>2 DEF OwnName, Collection
  <2>2. QED
    BY <1>1, <2>1 DEF TypeOK
<1>4. ASSUME NEW b \in Accounts \ {a}, NEW new \in NewSources(b), n \in Wanted(b, new)
      PROVE  FALSE
  <2>1. /\ PeerWith(b, new)[n] \in Calendars
        /\ SourceName[b][PeerWith(b, new)[n]] = SourceName[a][c]
    BY <1>1, <1>4, PeerNames, ConfigureConstants
  <2>2. QED
    BY <2>1 DEF OwnName
<1>5. QED
  BY <1>1, <1>2, <1>3, <1>4

(* A configuration leaves such a calendar of another account as it is.     *)
LEMMA OthersStayLinked ==
  ASSUME TypeOK, NamesMatch, NEW a \in Accounts, NEW c \in Calendars, OwnName(a, c),
         NEW b \in Accounts \ {a}, NEW new \in NewSources(b),
         NEW made \in SUBSET Missing(b), NEW complete,
         ConfigureLocal(b, new, made, complete),
         local[SourceName[a][c]] # NoCollection
  PROVE  /\ local'[SourceName[a][c]] = local[SourceName[a][c]]
         /\ Collection(a, c) \in collections' <=> Collection(a, c) \in collections
<1> DEFINE n == SourceName[a][c]
           existing == CollectionsWith(b, made)
           sources == LocalWith(b, new, made)
           unused == Unused(b, Wanted(b, new), sources, existing)
           toRemove == {sources[m] : m \in unused}
           kept == [m \in Names |-> IF m \in unused THEN None ELSE sources[m]]
<1>1. PICK gone \in SUBSET toRemove, saved \in BOOLEAN :
        /\ collections' = existing \ gone
        /\ local' = Unbound(IF saved THEN kept ELSE local, gone)
  BY DEF ConfigureLocal
<1>2. \A k \in toRemove : k.acc = b
  BY DEF Unused
<1>3. /\ n \in Names /\ n \notin Wanted(b, new)
      /\ local[n] \in {None, Collection(a, c)}
  BY OwnNames
<1>4. sources[n] = local[n]
  BY <1>3 DEF LocalWith
<1>5. Collection(a, c) \notin toRemove /\ None \notin toRemove
  <2>1. Collection(a, c).acc = a
    BY DEF Collection
  <2>2. \A k \in toRemove : k \in Collections
    BY LocalTyped DEF Unused
  <2>3. QED
    BY <1>2, <2>1, <2>2, ConfigureConstants
<1>6. Collection(a, c) \in existing <=> Collection(a, c) \in collections
  <2>1. \A d : Collection(b, d).acc = b /\ Collection(a, c).acc = a
    BY DEF Collection
  <2>2. QED
    BY <2>1 DEF CollectionsWith
<1>7. n \notin unused
  <2>1. n \in unused => sources[n] \in toRemove
    OBVIOUS
  <2>2. QED
    BY <1>3, <1>4, <1>5, <2>1
<1>8. local'[n] = local[n]
  <2>1. (IF saved THEN kept ELSE local)[n] = local[n]
    BY <1>3, <1>4, <1>7
  <2>2. local[n] \notin gone
    BY <1>3, <1>5
  <2>3. QED
    BY <1>1, <1>3, <2>1, <2>2 DEF Unbound
<1>9. Collection(a, c) \in collections' <=> Collection(a, c) \in collections
  BY <1>1, <1>5, <1>6
<1>10. QED
  BY <1>8, <1>9

(* What continuePeerConfig() makes of the peer has the calendar if it is   *)
(* listed, and only then.                                                  *)
LEMMA PeerHasList ==
  ASSUME TypeOK, NamesMatch, NEW a \in Accounts, NEW new \in NewSources(a),
         NEW c \in Calendars, OwnName(a, c)
  PROVE  /\ PeerWith(a, new)[SourceName[a][c]] = c <=> c \in fetched[a]
         /\ SourceName[a][c] \in Wanted(a, new) <=> c \in fetched[a]
<1> DEFINE n == SourceName[a][c]
<1>1. n \in Names /\ peer[a][n] \in {None, c}
  BY OwnNames
<1>2. Wanting(a, n) = IF c \in fetched[a] THEN {c} ELSE {}
  BY DEF Wanting, OwnName, TypeOK
<1>3. PeerWith(a, new)[n] = IF n \in InUse(a) \cup Taken(a) THEN peer[a][n] ELSE new[n]
  BY <1>1 DEF PeerWith
<1>4. new[n] = IF peer[a][n] = None /\ c \in fetched[a] THEN c ELSE None
  BY <1>1, <1>2 DEF NewSources
<1>5. None \notin fetched[a] /\ c # None
  BY ConfigureConstants DEF TypeOK
<1>6. n \in InUse(a) \cup Taken(a) <=> peer[a][n] = c /\ c \in fetched[a]
  BY <1>1, <1>2, <1>5 DEF InUse, Taken
<1>7. n \in InUse(a) <=> peer[a][n] = c /\ c \in fetched[a]
  BY <1>1, <1>5 DEF InUse
<1>8. n \in Wanted(a, new) <=> c \in fetched[a]
  BY <1>1, <1>4, <1>5, <1>7 DEF Wanted
<1>9. PeerWith(a, new)[n] = c <=> c \in fetched[a]
  BY <1>1, <1>3, <1>4, <1>5, <1>6
<1>10. QED
  BY <1>8, <1>9

(* A configuration that changes its peer and is spared a failure gives each*)
(* listed calendar all it needs, and leaves nothing of the others.         *)
LEMMA OwnStaysLinked ==
  ASSUME TypeOK, NamesMatch, NEW a \in Accounts, NEW new \in NewSources(a),
         NEW c \in Calendars, OwnName(a, c), Linked(a, c),
         NEW complete, ConfigureLocal(a, new, Missing(a), complete), a \notin disturbed'
  PROVE  /\ local'[SourceName[a][c]] # NoCollection
         /\ local'[SourceName[a][c]] = Collection(a, c) <=> c \in fetched[a]
         /\ Collection(a, c) \in collections' <=> c \in fetched[a]
<1> DEFINE n == SourceName[a][c]
           k == Collection(a, c)
           existing == CollectionsWith(a, Missing(a))
           sources == LocalWith(a, new, Missing(a))
           unused == Unused(a, Wanted(a, new), sources, existing)
           toRemove == {sources[m] : m \in unused}
           kept == [m \in Names |-> IF m \in unused THEN None ELSE sources[m]]
<1>1. /\ collections' = existing \ toRemove
      /\ local' = Unbound(kept, toRemove)
  BY DEF ConfigureLocal
<1>2. /\ n \in Names
      /\ local[n] \in {None, k}
      /\ local[n] = k <=> k \in collections
  BY OwnNames DEF Linked
<1>3. /\ PeerWith(a, new)[n] = c <=> c \in fetched[a]
      /\ n \in Wanted(a, new) <=> c \in fetched[a]
  BY PeerHasList
<1>4. /\ k \in Collections /\ k.acc = a /\ k.cal = c
      /\ k \notin {None, NoCollection} /\ None \notin Collections /\ None # NoCollection
  BY ConfigureConstants DEF Collection, Collections
<1>5. existing \subseteq Collections
  BY LocalTyped
<1>6. k \in existing <=> k \in collections \/ c \in fetched[a]
  <2>1. \A d \in Missing(a) : Collection(a, d) = k => d = c
    BY DEF Collection
  <2>2. \A d : d \in Missing(a) <=> d \in fetched[a] /\ Collection(a, d) \notin collections
    BY DEF Missing
  <2>3. QED
    BY <2>1, <2>2 DEF CollectionsWith
<1>7. sources[n] = IF c \in fetched[a] THEN k ELSE local[n]
  <2>1. CASE c \in fetched[a] /\ local[n] = None
    BY <1>2, <1>3, <1>6, <2>1 DEF LocalWith, DatabaseOf
  <2>2. CASE c \in fetched[a] /\ local[n] = k
    BY <1>2, <1>4, <2>2 DEF LocalWith
  <2>3. CASE c \notin fetched[a]
    BY <1>2, <1>3, <2>3 DEF LocalWith
  <2>4. QED
    BY <1>2, <2>1, <2>2, <2>3
<1>8. \A m \in Names : sources[m] = k => m = n
  <2> SUFFICES ASSUME NEW m \in Names, sources[m] = k PROVE m = n
    OBVIOUS
  <2>1. SourceName[sources[m].acc][sources[m].cal] = m
    BY <1>4, LocalNames
  <2>2. QED
    BY <1>4, <2>1
<1>9. /\ \A m : m \in unused <=> /\ m \in Names \ Wanted(a, new)
                               /\ sources[m] \in existing
                               /\ sources[m].acc = a
      /\ unused \subseteq Names
  BY DEF Unused
<1> HIDE DEF existing, sources, unused, n, k
<1>10. toRemove \subseteq Collections
  BY <1>5, <1>9
<1>11. local'[n] = IF n \in unused THEN None
                   ELSE IF sources[n] \in toRemove THEN NoCollection ELSE sources[n]
  BY <1>1, <1>2, <1>4, <1>10 DEF Unbound
<1>12. k \in toRemove <=> n \in unused /\ sources[n] = k
  BY <1>8, <1>9
<1>13. CASE c \in fetched[a]
  <2>1. n \notin unused
    BY <1>3, <1>9, <1>13 DEF n
  <2>2. QED
    BY <1>1, <1>4, <1>6, <1>7, <1>11, <1>12, <1>13, <2>1 DEF n, k
<1>14. CASE c \notin fetched[a] /\ local[n] = k
  <2>1. sources[n] = k /\ k \in existing /\ n \notin Wanted(a, new)
    BY <1>2, <1>3, <1>6, <1>7, <1>14 DEF n
  <2>2. n \in unused /\ k \in toRemove
    BY <1>2, <1>4, <1>9, <1>12, <2>1
  <2>3. QED
    BY <1>1, <1>4, <1>11, <1>14, <2>2 DEF n, k
<1>15. CASE c \notin fetched[a] /\ local[n] = None
  <2>1. sources[n] = None /\ k \notin existing
    BY <1>2, <1>4, <1>6, <1>7, <1>15
  <2>2. n \notin unused /\ None \notin toRemove
    BY <1>4, <1>5, <1>9, <1>10, <2>1
  <2>3. QED
    BY <1>1, <1>4, <1>11, <1>15, <2>1, <2>2 DEF n, k
<1>16. QED
  BY <1>2, <1>13, <1>14, <1>15

-----------------------------------------------------------------------------
(* A configuration of b keeps the invariant.                               *)
LEMMA LinkedByConfigure ==
  ASSUME TypeOK, NamesMatch, AllAreLinked, DoneHasList,
         NEW b \in Accounts, ContinuePeerConfig(b)
  PROVE  AllAreLinked' /\ DoneHasList'
<1>1. PICK new \in NewSources(b), made \in SUBSET Missing(b) :
        \/ /\ PeerWith(b, new) = peer[b]
           /\ collections' = CollectionsWith(b, made)
           /\ done' = done \cup {b}
           /\ disturbed' = IF made = Missing(b) THEN disturbed ELSE disturbed \cup {b}
           /\ UNCHANGED <<stuck, peer, local>>
        \/ /\ PeerWith(b, new) # peer[b]
           /\ \E saved \in BOOLEAN :
                /\ peer' = IF saved THEN [peer EXCEPT ![b] = PeerWith(b, new)] ELSE peer
                /\ ConfigureLocal(b, new, made, saved /\ made = Missing(b))
  BY DEF ContinuePeerConfig
<1>2. /\ known' = known /\ fetched' = fetched /\ fetched[b] # {}
      /\ done' \in {done, done \cup {b}}
      /\ disturbed \subseteq disturbed' /\ disturbed' \subseteq disturbed \cup {b}
  BY <1>1 DEF ContinuePeerConfig, ConfigureLocal
<1>3. \A a \in Accounts \ {b} : peer'[a] = peer[a]
  BY <1>1 DEF TypeOK
<1>4. ASSUME NEW a \in Accounts \ disturbed', NEW c \in Calendars, OwnName(a, c),
             a \in known \/ fetched[a] # {}
      PROVE  /\ Linked(a, c)'
             /\ a = b => (Mine(a, c)' <=> c \in fetched[a])
  <2>1. Linked(a, c)
    BY <1>2, <1>4 DEF AllAreLinked
  <2>2. CASE a # b
    <3>1. /\ local'[SourceName[a][c]] = local[SourceName[a][c]]
          /\ Collection(a, c) \in collections' <=> Collection(a, c) \in collections
      <4>1. CASE PeerWith(b, new) = peer[b]
        <5>1. \A d : Collection(b, d) # Collection(a, c)
          BY <2>2 DEF Collection
        <5>2. QED
          BY <1>1, <4>1, <5>1 DEF CollectionsWith
      <4>2. CASE PeerWith(b, new) # peer[b]
        BY <1>1, <1>4, <2>1, <2>2, <4>2, OthersStayLinked DEF Linked
      <4>3. QED
        BY <4>1, <4>2
    <3>2. peer'[a] = peer[a]
      BY <1>3, <2>2
    <3>3. QED
      BY <2>1, <2>2, <3>1, <3>2 DEF Linked, Mine, Collection
  <2>3. CASE a = b
    <3>1. peer'[a] = PeerWith(a, new)
      BY <1>1, <1>4, <2>3 DEF TypeOK, ConfigureLocal
    <3>2. Mine(a, c)' <=> c \in fetched[a]
      BY <2>3, <1>4, <3>1, PeerHasList DEF Mine
    <3>3. CASE PeerWith(b, new) = peer[b]
      <4>1. /\ made = Missing(a) /\ local' = local /\ peer' = peer
            /\ collections' = CollectionsWith(a, made)
        BY <1>1, <1>4, <2>3, <3>3
      <4>2. c \in Missing(a) => c \in fetched[a] /\ Collection(a, c) \notin collections
        BY DEF Missing
      <4>3. \A d : Collection(a, d) = Collection(a, c) => d = c
        BY DEF Collection
      <4>4. Mine(a, c) <=> c \in fetched[a]
        BY <3>2, <4>1 DEF Mine
      <4>5. Collection(a, c) \in collections' <=> Collection(a, c) \in collections
        BY <2>1, <4>1, <4>2, <4>3, <4>4 DEF CollectionsWith, Linked
      <4>6. QED
        BY <2>1, <2>3, <3>2, <4>1, <4>4, <4>5 DEF Linked, Mine, Collection
    <3>4. CASE PeerWith(b, new) # peer[b]
      <4>1. PICK saved \in BOOLEAN :
              ConfigureLocal(a, new, made, saved /\ made = Missing(a))
        BY <1>1, <2>3, <3>4
      <4>2. made = Missing(a)
        BY <1>4, <4>1 DEF ConfigureLocal
      <4>3. ConfigureLocal(a, new, Missing(a), saved /\ made = Missing(a))
        BY <4>1, <4>2
      <4>4. /\ local'[SourceName[a][c]] # NoCollection
            /\ local'[SourceName[a][c]] = Collection(a, c) <=> c \in fetched[a]
            /\ Collection(a, c) \in collections' <=> c \in fetched[a]
        BY <1>4, <2>1, <2>3, <4>3, OwnStaysLinked
      <4>5. QED
        BY <2>3, <3>2, <4>4 DEF Linked, Mine, Collection
    <3>5. QED
      BY <3>3, <3>4
  <2>4. QED
    BY <2>2, <2>3
<1>5. AllAreLinked'
  BY <1>2, <1>4 DEF AllAreLinked, OwnName
<1>6. DoneHasList'
  <2> SUFFICES ASSUME NEW a \in done'
               PROVE  /\ fetched'[a] # {}
                      /\ a \notin disturbed' =>
                           \A c \in Calendars :
                             OwnName(a, c) => (Mine(a, c)' <=> c \in fetched'[a])
    BY DEF DoneHasList, OwnName
  <2>1. CASE a = b
    BY <1>2, <1>4, <2>1
  <2>2. CASE a # b
    <3>1. a \in done /\ a \in Accounts /\ peer'[a] = peer[a]
      BY <1>2, <1>3, <2>2 DEF TypeOK
    <3>2. QED
      BY <1>2, <3>1 DEF DoneHasList, Mine
  <2>3. QED
    BY <2>1, <2>2
<1>7. QED
  BY <1>5, <1>6

(* Every step keeps it.                                                    *)
LEMMA LinkedStep ==
  ASSUME TypeOK, NamesMatch, AllAreLinked, DoneHasList, [Next]_vars
  PROVE  AllAreLinked' /\ DoneHasList'
<1>1. CASE UNCHANGED vars
  BY <1>1 DEF vars, AllAreLinked, DoneHasList, Linked, Mine, OwnName, Collection
<1>2. ASSUME NEW a \in Accounts, OnRemoteSourcesAvailable(a)
      PROVE  AllAreLinked' /\ DoneHasList'
  <2>1. /\ a \in known /\ done' = done \ {a}
        /\ UNCHANGED <<known, peer, local, collections, disturbed>>
        /\ \A b \in Accounts \ {a} : fetched'[b] = fetched[b]
    BY <1>2 DEF OnRemoteSourcesAvailable, TypeOK
  <2>2. AllAreLinked'
    BY <2>1 DEF AllAreLinked, Linked, Mine, OwnName, Collection
  <2>3. DoneHasList'
    BY <2>1 DEF TypeOK, DoneHasList, Mine, OwnName
  <2>4. QED
    BY <2>2, <2>3
<1>3. ASSUME NEW a \in Accounts, ContinuePeerConfig(a)
      PROVE  AllAreLinked' /\ DoneHasList'
  BY <1>3, LinkedByConfigure
<1>4. ASSUME NEW a \in Accounts, RemoveAccount(a)
      PROVE  AllAreLinked' /\ DoneHasList'
  BY <1>4 DEF RemoveAccount, AllAreLinked, DoneHasList, Linked, Mine, OwnName, Collection
<1>5. ASSUME NEW k \in Collections, CollectionRemoved(k)
      PROVE  AllAreLinked' /\ DoneHasList'
  <2>1. /\ UNCHANGED <<known, fetched, done, peer>>
        /\ disturbed' = disturbed \cup {k.acc}
        /\ collections' = collections \ {k}
        /\ local' = Unbound(local, {k})
    BY <1>5 DEF CollectionRemoved
  <2>2. ASSUME NEW a \in Accounts \ disturbed', NEW c \in Calendars, OwnName(a, c),
               Linked(a, c)
        PROVE  Linked(a, c)'
    <3>1. Collection(a, c) # k
      BY <2>1 DEF Collection
    <3>2. /\ SourceName[a][c] \in Names
          /\ local[SourceName[a][c]] \in {None, NoCollection, Collection(a, c)}
      BY <2>2, OwnNames
    <3>3. local'[SourceName[a][c]] = local[SourceName[a][c]]
      BY <2>1, <3>1, <3>2, ConfigureConstants DEF Unbound
    <3>4. QED
      BY <2>1, <2>2, <3>1, <3>3 DEF Linked, Mine, Collection
  <2>3. AllAreLinked'
    BY <2>1, <2>2 DEF AllAreLinked, OwnName
  <2>4. DoneHasList'
    BY <2>1 DEF DoneHasList, Mine, OwnName
  <2>5. QED
    BY <2>3, <2>4
<1>6. ASSUME Restart
      PROVE  AllAreLinked' /\ DoneHasList'
  <2>1. PICK logged \in SUBSET Accounts : RemoveAccountConfig(LeftOver(logged))
    BY <1>6 DEF Restart
  <2>2. /\ UNCHANGED <<known, collections, disturbed>>
        /\ done' = {} /\ \A a \in Accounts : fetched'[a] = {}
    BY <1>6 DEF Restart
  <2>3. /\ \A a \in known : peer'[a] = peer[a]
        /\ \A n \in Names : local[n] # NoCollection => local'[n] = local[n]
    BY <2>1 DEF RemoveAccountConfig, LeftOver, TypeOK
  <2>4. ASSUME NEW a \in known, NEW c \in Calendars, Linked(a, c)
        PROVE  Linked(a, c)'
    <3>1. SourceName[a][c] \in Names
      BY ConfigureConstants DEF TypeOK
    <3>2. QED
      BY <2>2, <2>3, <2>4, <3>1 DEF Linked, Mine, Collection
  <2>5. AllAreLinked'
    BY <2>2, <2>4 DEF AllAreLinked, OwnName
  <2>6. QED
    BY <2>2, <2>5 DEF DoneHasList
<1>7. QED
  BY <1>1, <1>2, <1>3, <1>4, <1>5, <1>6 DEF Next

(* A configuration that is done leaves the account with the calendars of   *)
(* its list and no others, if it was spared failures: whatever fails for   *)
(* the others, for any number of accounts and calendars.                   *)
THEOREM DoneMeansConfigured == Spec => []DoneIsConfigured
<1>1. Init => NamesMatch /\ AllAreLinked /\ DoneHasList
  <2> SUFFICES ASSUME Init PROVE NamesMatch /\ AllAreLinked /\ DoneHasList
    OBVIOUS
  <2>1. \A a \in Accounts, c \in Calendars : SourceName[a][c] \in Names
    BY ConfigureConstants
  <2>2. \A a \in Accounts, c \in Calendars : Collection(a, c) \in Collections
    BY DEF Collection, Collections
  <2>3. AllAreLinked
    BY <2>1, <2>2, ConfigureConstants DEF Init, AllAreLinked, Linked, Mine
  <2>4. QED
    BY <2>3, ConfigureConstants DEF Init, NamesMatch, DoneHasList
<1>2. /\ TypeOK /\ NamesMatch /\ AllAreLinked /\ DoneHasList
      /\ [Next]_vars
      => (NamesMatch /\ AllAreLinked /\ DoneHasList)'
  <2> SUFFICES ASSUME TypeOK, NamesMatch, AllAreLinked, DoneHasList, [Next]_vars
               PROVE  (NamesMatch /\ AllAreLinked /\ DoneHasList)'
    OBVIOUS
  <2>1. NamesMatch'
    BY NamesStep
  <2>2. AllAreLinked' /\ DoneHasList'
    BY LinkedStep
  <2>3. QED
    BY <2>1, <2>2
<1>3. TypeOK /\ AllAreLinked /\ DoneHasList => DoneIsConfigured
  <2> SUFFICES ASSUME TypeOK, AllAreLinked, DoneHasList,
                      NEW a \in done \ disturbed, NEW c \in Calendars, OwnName(a, c)
               PROVE  IF c \in fetched[a] THEN Configured(a, c) ELSE Absent(a, c)
    BY DEF DoneIsConfigured
  <2>1. Linked(a, c) /\ (Mine(a, c) <=> c \in fetched[a])
    BY DEF TypeOK, AllAreLinked, DoneHasList
  <2>2. QED
    BY <2>1 DEF Linked, Mine, Configured, Absent
<1>4. QED
  BY <1>1, <1>2, <1>3, ConfigurationsTyped, PTL DEF Spec
=============================================================================
