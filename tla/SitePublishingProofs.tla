------------------------ MODULE SitePublishingProofs ------------------------
(***************************************************************************)
(* For any pages, versions, contents, schedules and limits: the read cache *)
(* agrees with the pages since the last purge, unless the scheduler or a   *)
(* failed publication came between, and never answers with a content that  *)
(* was gone for longer than CACHE_STALE_TTL.                               *)
(*                                                                         *)
(* For those two, what a pass of the scheduler computes is not looked at:  *)
(* it may leave any pages behind.  The second part follows the pass entry  *)
(* by entry: each entry of the schedule is kept, settled, or behind one    *)
(* that had failed before the pass.  The last part is about types, the     *)
(* number of tries and the length of the publish log.                      *)
(***************************************************************************)
EXTENDS SitePublishing, FiniteSetTheorems, WellFoundedInduction, TLAPS

\* The clock, the cache and the history have the shapes the proof relies on.
Shapes ==
    /\ now \in Nat
    /\ cache = [k \in Keys |-> cache[k]]
    /\ \A k \in Keys : cache[k] # NoVal =>
          cache[k].ts \in Nat /\ cache[k].ts <= now /\ cache[k].content # NoVal
    /\ \A l \in live : l.at \in Nat /\ l.at <= now

\* Content c was readable under k at time t or later.
SeenSince(k, c, t) ==
    \/ Readable(pages, k) = c
    \/ \E l \in live : l.key = k /\ l.content = c /\ l.at >= t

\* The content of an entry still served was readable when it was cached.
Recent ==
    \A k \in Keys :
        cache[k] # NoVal /\ now - cache[k].ts <= CACHE_STALE_TTL
            => SeenSince(k, cache[k].content, cache[k].ts)

IInv == Shapes /\ Recent /\ CacheCoherent /\ BoundedStaleness

LEMMA InitInv ==
    ASSUME Init PROVE IInv
  BY DEF Init, IInv, Shapes, Recent, CacheCoherent, BoundedStaleness, EmptyCache

\* A step that records what was and is readable forgets nothing a fresh cache
\* entry depends on.
LEMMA LiveKeeps ==
    ASSUME Shapes, NEW s, pages' = s, live' = LiveAfter(s),
           NEW k \in Keys, NEW c, c # NoVal, NEW t \in Nat, t <= now,
           now - t <= CACHE_STALE_TTL, SeenSince(k, c, t)
    PROVE  SeenSince(k, c, t)'
  <1> DEFINE seen == {x \in {<<j, Readable(pages, j)>> : j \in Keys}
                            \cup {<<j, Readable(s, j)>> : j \in Keys} : x[2] # NoVal}
             new == [key |-> k, content |-> c, at |-> now]
  <1>0. now \in Nat /\ CACHE_STALE_TTL \in Nat
    BY PublishingAssumption DEF Shapes
  <1>1. live' = {l \in live : <<l.key, l.content>> \notin seen
                              /\ l.at >= now - CACHE_STALE_TTL}
                \cup {[key |-> x[1], content |-> x[2], at |-> now] : x \in seen}
    BY DEF LiveAfter
  <1>2. CASE <<k, c>> \in seen
    <2>1. new \in live'
      BY <1>1, <1>2
    <2> QED
      BY <1>0, <2>1 DEF SeenSince
  <1>3. CASE <<k, c>> \notin seen
    <2>1. Readable(pages, k) # c
      BY <1>3
    <2>2. PICK l \in live : l.key = k /\ l.content = c /\ l.at >= t
      BY <2>1 DEF SeenSince
    <2>3. l.at \in Nat /\ l.at >= now - CACHE_STALE_TTL
      BY <1>0, <2>2 DEF Shapes
    <2>4. l \in live'
      BY <1>1, <1>3, <2>2, <2>3
    <2> QED
      BY <2>2, <2>4 DEF SeenSince
  <1> QED
    BY <1>2, <1>3

\* The history never holds a moment yet to come.
LEMMA LiveShape ==
    ASSUME Shapes, NEW s, live' = LiveAfter(s)
    PROVE  \A l \in live' : l.at \in Nat /\ l.at <= now
  BY DEF LiveAfter, Shapes

\* A handler that may change the pages and either purges the cache or leaves it
\* alone, in which case a change of the pages is marked.
LEMMA WriteStep ==
    ASSUME IInv, now' = now, served' = NoVal,
           \/ UNCHANGED <<pages, live>>
           \/ live' = LiveAfter(pages'),
           \/ cache' = EmptyCache
           \/ cache' = cache /\ behind' = (behind \/ pages' # pages)
           \/ UNCHANGED <<cache, behind, pages>>
    PROVE  IInv'
  <1>0. Shapes /\ Recent /\ CacheCoherent
    BY DEF IInv
  <1>1. \A l \in live' : l.at \in Nat /\ l.at <= now
    BY <1>0, LiveShape DEF Shapes
  <1>2. BoundedStaleness'
    BY DEF BoundedStaleness
  <1>3. CASE cache' = EmptyCache
    BY <1>0, <1>1, <1>2, <1>3 DEF IInv, Shapes, Recent, CacheCoherent, EmptyCache
  <1>4. CASE cache' = cache /\ (behind' = (behind \/ pages' # pages)
                                \/ UNCHANGED <<behind, pages>>)
    <2>1. Shapes'
      BY <1>0, <1>1, <1>4 DEF Shapes
    <2>2. CacheCoherent'
      BY <1>0, <1>4 DEF CacheCoherent, Readable
    <2>3. ASSUME NEW k \in Keys, cache[k] # NoVal,
                 now - cache[k].ts <= CACHE_STALE_TTL
          PROVE  SeenSince(k, cache[k].content, cache[k].ts)'
      <3>0. PICK c, t : c = cache[k].content /\ t = cache[k].ts
        OBVIOUS
      <3>1. SeenSince(k, c, t) /\ c # NoVal /\ t \in Nat /\ t <= now
        BY <1>0, <2>3, <3>0 DEF Recent, Shapes
      <3>2. SeenSince(k, c, t)'
        <4>1. CASE UNCHANGED <<pages, live>>
          BY <3>1, <4>1 DEF SeenSince, Readable
        <4>2. CASE live' = LiveAfter(pages')
          <5>1. PICK s : s = pages'
            OBVIOUS
          <5>2. now - t <= CACHE_STALE_TTL
            BY <2>3, <3>0
          <5> QED
            BY <1>0, <3>1, <4>2, <5>1, <5>2, LiveKeeps
        <4> QED
          BY <4>1, <4>2
      <3>3. c = cache'[k].content /\ t = cache'[k].ts
        BY <1>4, <3>0
      <3> QED
        BY <3>2, <3>3 DEF SeenSince
    <2>4. Recent'
      BY <1>4, <2>3 DEF Recent
    <2> QED
      BY <1>2, <2>1, <2>2, <2>4 DEF IInv
  <1> QED
    BY <1>3, <1>4

\* A read: what it answers was readable lately, and what it caches is what the
\* store holds.
LEMMA GetPageInv ==
    ASSUME IInv, NEW p \in Pages, NEW version \in Optional(Versions), GetPage(p, version)
    PROVE  IInv'
  <1>1. PICK k \in Keys :
          /\ \/ /\ cache[k] # NoVal /\ now - cache[k].ts <= CACHE_STALE_TTL
                /\ served' = [key |-> k, content |-> cache[k].content]
                /\ cache' = cache
             \/ /\ served' = [key |-> k, content |-> Readable(pages, k)]
                /\ cache' = [cache EXCEPT ![k] =
                      IF Readable(pages, k) = NoVal THEN NoVal
                      ELSE [content |-> Readable(pages, k), ts |-> now]]
          /\ UNCHANGED <<now, pages, live, behind>>
    BY DEF GetPage, CacheHit, Keys
  <1>0. Shapes /\ Recent /\ CacheCoherent /\ now \in Nat /\ CACHE_STALE_TTL \in Nat
    BY PublishingAssumption DEF IInv, Shapes
  <1>2. CASE /\ cache[k] # NoVal /\ now - cache[k].ts <= CACHE_STALE_TTL
             /\ served' = [key |-> k, content |-> cache[k].content]
             /\ cache' = cache
    <2>1. Shapes' /\ Recent' /\ CacheCoherent'
      BY <1>0, <1>1, <1>2 DEF Shapes, Recent, CacheCoherent, SeenSince, Readable
    <2>2. SeenSince(k, cache[k].content, cache[k].ts)
      BY <1>0, <1>2 DEF Recent
    <2>3. cache[k].ts \in Nat /\ cache[k].ts >= now - CACHE_STALE_TTL
      BY <1>0, <1>2 DEF Shapes
    <2>4. BoundedStaleness'
      BY <1>0, <1>1, <1>2, <2>2, <2>3 DEF BoundedStaleness, SeenSince, Readable, Shapes
    <2> QED
      BY <2>1, <2>4 DEF IInv
  <1>3. CASE /\ served' = [key |-> k, content |-> Readable(pages, k)]
             /\ cache' = [cache EXCEPT ![k] =
                   IF Readable(pages, k) = NoVal THEN NoVal
                   ELSE [content |-> Readable(pages, k), ts |-> now]]
    <2>1. \A j \in Keys : cache'[j] =
             IF j # k THEN cache[j]
             ELSE IF Readable(pages, k) = NoVal THEN NoVal
             ELSE [content |-> Readable(pages, k), ts |-> now]
      BY <1>0, <1>3 DEF Shapes
    <2>2. Shapes'
      BY <1>0, <1>1, <1>3, <2>1 DEF Shapes
    <2>3. Recent'
      BY <1>0, <1>1, <2>1 DEF Recent, SeenSince, Readable
    <2>4. CacheCoherent'
      BY <1>0, <1>1, <2>1 DEF CacheCoherent, Readable
    <2>5. BoundedStaleness'
      BY <1>1, <1>3 DEF BoundedStaleness, Readable
    <2> QED
      BY <2>2, <2>3, <2>4, <2>5 DEF IInv
  <1> QED
    BY <1>1, <1>2, <1>3

\* Time passes: what was readable until now is remembered.
LEMMA TickInv ==
    ASSUME IInv, Tick PROVE IInv'
  <1>0. Shapes /\ Recent /\ CacheCoherent /\ now \in Nat /\ CACHE_STALE_TTL \in Nat
    BY PublishingAssumption DEF IInv, Shapes
  <1>1. live' = LiveAfter(pages) /\ now' = now + 1 /\ served' = NoVal
        /\ UNCHANGED <<pages, cache, behind>>
    BY DEF Tick
  <1>2. \A l \in live' : l.at \in Nat /\ l.at <= now
    BY <1>0, <1>1, LiveShape
  <1>3. Shapes' /\ CacheCoherent' /\ BoundedStaleness'
    BY <1>0, <1>1, <1>2 DEF Shapes, CacheCoherent, BoundedStaleness, Readable
  <1>4. ASSUME NEW k \in Keys, cache[k] # NoVal, now' - cache[k].ts <= CACHE_STALE_TTL
        PROVE  SeenSince(k, cache[k].content, cache[k].ts)'
    <2>0. PICK c, t : c = cache[k].content /\ t = cache[k].ts
      OBVIOUS
    <2>1. c # NoVal /\ t \in Nat /\ t <= now /\ now - t <= CACHE_STALE_TTL
      BY <1>0, <1>1, <1>4, <2>0 DEF Shapes
    <2>2. SeenSince(k, c, t)
      BY <1>0, <1>4, <2>0, <2>1 DEF Recent
    <2>3. PICK s : s = pages
      OBVIOUS
    <2>4. SeenSince(k, c, t)'
      BY <1>0, <1>1, <2>1, <2>2, <2>3, LiveKeeps
    <2> QED
      BY <1>1, <2>0, <2>4 DEF SeenSince
  <1>5. Recent'
    BY <1>1, <1>4 DEF Recent
  <1> QED
    BY <1>3, <1>5 DEF IInv

LEMMA NextInv ==
    ASSUME IInv, [Next]_vars PROVE IInv'
  <1>1. ASSUME NEW p \in Pages, NEW content \in Contents, PutDraft(p, content)
        PROVE  IInv'
    BY <1>1, WriteStep DEF PutDraft
  <1>2. ASSUME NEW p \in Pages, RequestPublish(p) \/ ApprovePublish(p)
        PROVE  IInv'
    BY <1>2, WriteStep DEF RequestPublish, ApprovePublish, Review
  <1>3. ASSUME NEW v \in Versions, NEW expected \in Optional(Versions),
               NEW fits \in BOOLEAN, PublishVersion(v, expected, fits)
        PROVE  IInv'
    <2>1. live' = LiveAfter(pages') /\ now' = now /\ served' = NoVal
      BY <1>3 DEF PublishVersion
    <2>2. \/ cache' = EmptyCache
          \/ cache' = cache /\ behind' = (behind \/ pages' # pages)
      BY <1>3 DEF PublishVersion
    <2> QED
      BY <2>1, <2>2, WriteStep
  <1>4. ASSUME NEW p \in Pages, NEW v \in Optional(Versions), ArchivePage(p, v)
        PROVE  IInv'
    <2>1. live' = LiveAfter(pages') /\ now' = now /\ served' = NoVal /\ cache' = EmptyCache
      BY <1>4 DEF ArchivePage
    <2> QED
      BY <2>1, WriteStep
  <1>5. ASSUME NEW p \in Pages, NEW v \in Versions, NEW publishAt \in Optional(Times),
               NEW expireAt \in Optional(Times), SchedulePublish(p, v, publishAt, expireAt)
        PROVE  IInv'
    BY <1>5, WriteStep DEF SchedulePublish
  <1>6. CASE RunPublishScheduler
    <2>1. /\ live' = LiveAfter(pages') /\ now' = now /\ served' = NoVal
          /\ cache' = cache /\ behind' = (behind \/ pages' # pages)
      BY <1>6 DEF RunPublishScheduler
    <2> QED
      BY <2>1, WriteStep
  <1>7. CASE Tick
    BY <1>7, TickInv
  <1>8. ASSUME NEW p \in Pages, NEW v \in Optional(Versions), GetPage(p, v)
        PROVE  IInv'
    BY <1>8, GetPageInv
  <1>9. CASE UNCHANGED vars
    BY <1>9 DEF vars, IInv, Shapes, Recent, SeenSince, CacheCoherent, BoundedStaleness, Readable
  <1> QED
    BY <1>1, <1>2, <1>3, <1>4, <1>5, <1>6, <1>7, <1>8, <1>9 DEF Next

LEMMA CacheInvariant == Spec => []IInv
  BY InitInv, NextInv, PTL DEF Spec

\* Every handler but the scheduler and a failed PublishVersion keeps the cache
\* in agreement with the pages it changes.
THEOREM CacheCoherentCorrect == Spec => []CacheCoherent
  BY CacheInvariant, PTL DEF IInv

\* No reader is ever answered with a content that left the store more than
\* CACHE_STALE_TTL seconds ago.
THEOREM BoundedStalenessCorrect == Spec => []BoundedStaleness
  BY CacheInvariant, PTL DEF IInv

-----------------------------------------------------------------------------
(***************************************************************************)
(* Finite sets: induction over subsets and numbers, the last of a set of   *)
(* positions                                                               *)
(***************************************************************************)

\* Induction over the subsets of a finite set, for a property given as a set.
LEMMA SubsetInduction ==
    ASSUME NEW S, IsFiniteSet(S), NEW G,
           \A T \in SUBSET S : (\A U \in SUBSET T : U # T => U \in G) => T \in G
    PROVE  \A T \in SUBSET S : T \in G
  <1>1. IsWellFoundedOn(StrictSubsetOrdering(S), SUBSET S)
    BY FS_StrictSubsetOrderingWellFounded, FS_FiniteSubsetsOfFinite
  <1> DEFINE Bad == {T \in SUBSET S : T \notin G}
  <1>2. SUFFICES ASSUME Bad # {} PROVE FALSE
    OBVIOUS
  <1>3. PICK T \in Bad : \A U \in Bad : <<U, T>> \notin StrictSubsetOrdering(S)
    <2>1. Bad \subseteq SUBSET S
      OBVIOUS
    <2> HIDE DEF Bad
    <2> QED
      BY <1>1, <1>2, <2>1, WFMin
  <1>4. \A U \in SUBSET T : U # T => U \in G
    BY <1>3 DEF StrictSubsetOrdering
  <1> QED
    BY <1>3, <1>4

\* Counting up to n, for a property given as the set of numbers that have it.
LEMMA UptoInduction ==
    ASSUME NEW n \in Nat, NEW G, 0 \in G, \A m \in 0 .. n - 1 : m \in G => m + 1 \in G
    PROVE  \A m \in 0 .. n : m \in G
  <1> DEFINE H == {T \in SUBSET (1 .. n) : \A m \in 0 .. n : T = 1 .. m => m \in G}
  <1>1. IsFiniteSet(1 .. n)
    BY FS_Interval
  <1>2. ASSUME NEW T \in SUBSET (1 .. n), \A U \in SUBSET T : U # T => U \in H
        PROVE  T \in H
    <2> SUFFICES ASSUME NEW m \in 0 .. n, T = 1 .. m PROVE m \in G
      OBVIOUS
    <2>1. CASE m = 0
      BY <2>1
    <2>2. CASE m # 0
      <3>1. 1 .. m - 1 \in SUBSET T /\ m \in T /\ m \notin 1 .. m - 1
        BY <2>2
      <3>2. 1 .. m - 1 \in H
        BY <1>2, <3>1
      <3>3. m - 1 \in G
        BY <2>2, <3>2
      <3> QED
        BY <2>2, <3>3
    <2> QED
      BY <2>1, <2>2
  <1> HIDE DEF H
  <1>3. \A T \in SUBSET (1 .. n) : T \in H
    BY <1>1, <1>2, SubsetInduction
  <1>4. ASSUME NEW m \in 0 .. n PROVE m \in G
    <2>1. 1 .. m \in SUBSET (1 .. n)
      OBVIOUS
    <2>2. 1 .. m \in H
      BY <1>3, <2>1
    <2> QED
      BY <2>2 DEF H
  <1> QED
    BY <1>4

\* A non-empty set of positions has a last one.
LEMMA MaxIn ==
    ASSUME NEW n \in Nat, NEW D \in SUBSET (1 .. n), D # {}
    PROVE  Max(D) \in D
  <1> DEFINE G == {T \in SUBSET (1 .. n) : T # {} => \E x \in T : \A y \in T : x >= y}
  <1>1. ASSUME NEW T \in SUBSET (1 .. n), \A U \in SUBSET T : U # T => U \in G
        PROVE  T \in G
    <2> SUFFICES ASSUME T # {} PROVE \E x \in T : \A y \in T : x >= y
      OBVIOUS
    <2>1. PICK z \in T : TRUE
      OBVIOUS
    <2>2. T \ {z} \in G
      BY <1>1, <2>1
    <2>3. CASE T \ {z} = {}
      BY <2>1, <2>3
    <2>4. CASE T \ {z} # {}
      <3>1. PICK x \in T \ {z} : \A y \in T \ {z} : x >= y
        BY <2>2, <2>4
      <3>2. CASE x >= z
        BY <3>1, <3>2
      <3>3. CASE ~(x >= z)
        <4>1. \A y \in T : z >= y
          BY <3>1, <3>3
        <4> QED
          BY <2>1, <4>1
      <3> QED
        BY <3>2, <3>3
    <2> QED
      BY <2>3, <2>4
  <1>2. IsFiniteSet(1 .. n)
    BY FS_Interval
  <1> HIDE DEF G
  <1>3. \A T \in SUBSET (1 .. n) : T \in G
    BY <1>1, <1>2, SubsetInduction
  <1> QED
    BY <1>3 DEF G, Max

LEMMA MaxUpto == \A m \in Nat \ {0} : Max(1 .. m) = m
  <1> SUFFICES ASSUME NEW m \in Nat \ {0} PROVE Max(1 .. m) = m
    OBVIOUS
  <1>1. m \in 1 .. m /\ \A y \in 1 .. m : m >= y
    OBVIOUS
  <1>2. \A x \in 1 .. m : (\A y \in 1 .. m : x >= y) => x = m
    OBVIOUS
  <1> QED
    BY <1>1, <1>2 DEF Max

-----------------------------------------------------------------------------
(***************************************************************************)
(* The pass of the scheduler, entry by entry                               *)
(***************************************************************************)

Started == [drafts |-> drafts, pages |-> pages, active |-> active, log |-> logSize,
            pending |-> <<>>, stopped |-> FALSE, fate |-> fate]

\* The run over the positions D of the schedule, given the runs over fewer of them.
RunOver(runs, D) ==
    IF D = {} THEN Started ELSE ProcessEntry(runs[D \ {Max(D)}], schedule[Max(D)])

AreRuns(runs) == runs = [D \in SUBSET DOMAIN schedule |-> RunOver(runs, D)]

LEMMA RunsExist ==
    ASSUME NEW n \in Nat, DOMAIN schedule = 1 .. n
    PROVE  \E runs : AreRuns(runs)
  <1> DEFINE S == 1 .. n
             Upto(k, runs) == \A D \in SUBSET S : Cardinality(D) <= k => runs[D] = RunOver(runs, D)
             G == {T \in SUBSET S : \E runs : Upto(Cardinality(T), runs)}
  <1>i. IsFiniteSet(S)
    BY FS_Interval
  <1>0. \A D \in SUBSET S : /\ IsFiniteSet(D) /\ Cardinality(D) \in Nat
                            /\ Cardinality(D) <= Cardinality(S)
    <2> HIDE DEF S
    <2> QED
      BY <1>i, FS_Subset, FS_CardinalityType
  <1>a. \A D \in SUBSET S : D # {} => /\ Max(D) \in D
                                      /\ Cardinality(D \ {Max(D)}) = Cardinality(D) - 1
    <2> SUFFICES ASSUME NEW D \in SUBSET S, D # {}
                 PROVE  Max(D) \in D /\ Cardinality(D \ {Max(D)}) = Cardinality(D) - 1
      OBVIOUS
    <2>1. Max(D) \in D
      BY MaxIn
    <2> QED
      BY <1>0, <2>1, FS_RemoveElement
  <1>1. ASSUME NEW T \in SUBSET S, \A U \in SUBSET T : U # T => U \in G
        PROVE  T \in G
    <2>1. CASE T = {}
      <3> DEFINE none == [D \in SUBSET S |-> Started]
      <3>1. ASSUME NEW D \in SUBSET S, Cardinality(D) <= 0
            PROVE  D = {}
        BY <1>0, <3>1, FS_EmptySet
      <3>2. Upto(0, none)
        BY <3>1 DEF RunOver
      <3> QED
        BY <2>1, <3>2, FS_EmptySet
    <2>2. CASE T # {}
      <3>1. PICK U \in SUBSET T : U # T /\ Cardinality(T) = Cardinality(U) + 1
        <4>1. Max(T) \in T /\ Cardinality(T \ {Max(T)}) = Cardinality(T) - 1
          BY <1>a, <2>2
        <4> QED
          BY <1>0, <4>1
      <3>2. PICK runs : Upto(Cardinality(U), runs)
        BY <1>1, <3>1
      <3> DEFINE next == [D \in SUBSET S |-> RunOver(runs, D)]
      <3>3. ASSUME NEW D \in SUBSET S, Cardinality(D) <= Cardinality(T)
            PROVE  next[D] = RunOver(next, D)
        <4>1. CASE D = {}
          BY <4>1 DEF RunOver
        <4>2. CASE D # {}
          <5>1. Cardinality(D \ {Max(D)}) <= Cardinality(U) /\ D \ {Max(D)} \in SUBSET S
            <6>1. /\ Cardinality(D \ {Max(D)}) = Cardinality(D) - 1
                  /\ Cardinality(D) <= Cardinality(U) + 1
              BY <1>a, <3>1, <3>3, <4>2
            <6>2. Cardinality(D) \in Nat /\ Cardinality(U) \in Nat
              <7> HIDE DEF S
              <7> QED
                BY <1>0
            <6> DEFINE c == Cardinality(D \ {Max(D)})
                       d == Cardinality(D)
                       u == Cardinality(U)
            <6>3. c = d - 1 /\ d <= u + 1 /\ d \in Nat /\ u \in Nat
              BY <6>1, <6>2
            <6> HIDE DEF c, d, u
            <6>4. c <= u
              BY <6>3
            <6>5. D \ {Max(D)} \in SUBSET S
              OBVIOUS
            <6> QED
              BY <6>4, <6>5 DEF c, u
          <5>2. next[D \ {Max(D)}] = runs[D \ {Max(D)}]
            BY <3>2, <5>1
          <5> QED
            BY <4>2, <5>2 DEF RunOver
        <4> QED
          BY <4>1, <4>2
      <3> QED
        BY <3>3
    <2> QED
      BY <2>1, <2>2
  <1>2. S \in G
    <2> HIDE DEF G, S
    <2>1. \A T \in SUBSET S : T \in G
      BY <1>i, <1>1, SubsetInduction
    <2> QED
      BY <2>1
  <1>3. PICK runs : Upto(Cardinality(S), runs)
    BY <1>2
  <1> DEFINE all == [D \in SUBSET S |-> RunOver(runs, D)]
  <1>4. \A D \in SUBSET S : all[D] = runs[D]
    BY <1>0, <1>3
  <1>5. ASSUME NEW D \in SUBSET S PROVE RunOver(runs, D) = RunOver(all, D)
    <2>1. all[D \ {Max(D)}] = runs[D \ {Max(D)}]
      BY <1>4
    <2> QED
      BY <2>1 DEF RunOver
  <1>6. all = [D \in SUBSET S |-> RunOver(all, D)]
    BY <1>5
  <1> QED
    BY <1>6 DEF AreRuns

\* A pass is a chain of runs, each taking one entry more.
IsChain(runs) ==
    /\ runs[0] = Started
    /\ \A m \in 0 .. Len(schedule) - 1 :
          runs[m + 1] = ProcessEntry(runs[m], schedule[m + 1])
    /\ Pass = runs[Len(schedule)]

LEMMA PassIsChain ==
    ASSUME Len(schedule) \in Nat, DOMAIN schedule = 1 .. Len(schedule)
    PROVE  \E runs : IsChain(runs)
  <1>1. \E runs : AreRuns(runs)
    BY RunsExist
  <1>2. PICK runs : AreRuns(runs) /\ Pass = runs[DOMAIN schedule]
    BY <1>1 DEF Pass, FoldLeft, MapThenFoldSet, AreRuns, RunOver, Started
  <1> DEFINE chain == [m \in 0 .. Len(schedule) |-> runs[1 .. m]]
  <1>3. chain[0] = Started
    BY <1>2 DEF AreRuns, RunOver
  <1>4. ASSUME NEW m \in 0 .. Len(schedule) - 1
        PROVE  chain[m + 1] = ProcessEntry(chain[m], schedule[m + 1])
    <2>1. 1 .. m + 1 \in SUBSET DOMAIN schedule /\ 1 .. m + 1 # {}
      <3>1. m + 1 \in 1 .. m + 1 /\ m + 1 <= Len(schedule)
        OBVIOUS
      <3> QED
        BY <3>1
    <2>2. Max(1 .. m + 1) = m + 1 /\ (1 .. m + 1) \ {m + 1} = 1 .. m
      BY MaxUpto
    <2>3. runs[1 .. m + 1] = ProcessEntry(runs[1 .. m], schedule[m + 1])
      BY <1>2, <2>1, <2>2 DEF AreRuns, RunOver
    <2> QED
      BY <2>3
  <1>5. Pass = chain[Len(schedule)]
    BY <1>2
  <1> HIDE DEF chain
  <1> QED
    BY <1>3, <1>4, <1>5 DEF IsChain

-----------------------------------------------------------------------------
(***************************************************************************)
(* What a pass keeps of the schedule                                       *)
(***************************************************************************)

Slot == [id : Ids, pageId : Pages, version : Versions,
         publishAt : Times \cup {NoVal}, expireAt : Times \cup {NoVal},
         status : {"pending", "failed"}, retryCount : Nat]

Waiting == {"scheduled", "failed"}
Settled == {"published", "expired"}

\* Each scheduled entry has an id of its own, and is not settled.
Filed ==
    /\ schedule \in Seq(Slot)
    /\ fate = [i \in Ids |-> fate[i]]
    /\ \A j \in DOMAIN schedule : fate[schedule[j].id] \in Waiting
    /\ \A j, k \in DOMAIN schedule : schedule[j].id = schedule[k].id => j = k

RunFields == {"drafts", "pages", "active", "log", "pending", "stopped", "fate"}

IsRun(run) ==
    /\ run = [x \in RunFields |-> run[x]]
    /\ run.pending \in Seq(Slot)
    /\ run.stopped \in BOOLEAN
    /\ run.fate = [i \in Ids |-> run.fate[i]]

Same(run, next) ==
    next.pending = run.pending /\ next.stopped = run.stopped /\ next.fate = run.fate

\* The four things that can become of an entry.
Halts(run, e, next) == run.stopped /\ next = run

Stops(run, e, next) ==
    /\ ~run.stopped /\ next.stopped
    /\ e.status = "failed"
    /\ next.pending = Append(run.pending, e) /\ next.fate = run.fate

Keeps(run, e, next) ==
    /\ ~run.stopped /\ ~next.stopped
    /\ \E f \in Slot : f.id = e.id /\ next.pending = Append(run.pending, f)
    /\ next.fate = run.fate \/ next.fate = [run.fate EXCEPT ![e.id] = "failed"]

Settles(run, e, next) ==
    /\ ~run.stopped /\ ~next.stopped
    /\ next.pending = run.pending
    /\ \E x \in Settled : next.fate = [run.fate EXCEPT ![e.id] = x]

LEMMA KeepRun ==
    ASSUME NEW run, IsRun(run), NEW f \in Slot
    PROVE  /\ IsRun(Keep(run, f))
           /\ Keep(run, f).pending = Append(run.pending, f)
           /\ Keep(run, f).stopped = run.stopped /\ Keep(run, f).fate = run.fate
  <1> DEFINE more == Append(run.pending, f)
             next == [run EXCEPT !.pending = more]
  <1>1. more \in Seq(Slot)
    BY DEF IsRun
  <1>2. Keep(run, f) = next
    BY DEF Keep
  <1> HIDE DEF more
  <1>3. IsRun(next) /\ next.pending = more /\ next.stopped = run.stopped
        /\ next.fate = run.fate
    BY <1>1 DEF IsRun, RunFields
  <1> QED
    BY <1>2, <1>3 DEF more

LEMMA ExpireRun ==
    ASSUME NEW run, IsRun(run), NEW e
    PROVE  IsRun(ExpireEntry(run, e)) /\ Same(run, ExpireEntry(run, e))
  BY DEF IsRun, RunFields, Same, ExpireEntry

\* An update of any other field leaves what the schedule depends on as it was.
LEMMA OtherField ==
    ASSUME NEW run, IsRun(run), NEW x \in {"drafts", "pages", "active", "log"}, NEW v
    PROVE  IsRun([run EXCEPT ![x] = v]) /\ Same(run, [run EXCEPT ![x] = v])
  BY DEF IsRun, RunFields, Same

LEMMA FateField ==
    ASSUME NEW run, IsRun(run), NEW i \in Ids, NEW v
    PROVE  /\ IsRun([run EXCEPT !.fate[i] = v])
           /\ [run EXCEPT !.fate[i] = v].pending = run.pending
           /\ [run EXCEPT !.fate[i] = v].stopped = run.stopped
           /\ [run EXCEPT !.fate[i] = v].fate = [run.fate EXCEPT ![i] = v]
  BY DEF IsRun, RunFields

LEMMA PublishRun ==
    ASSUME NEW run, IsRun(run), NEW e \in Slot
    PROVE  /\ IsRun(PublishEntry(run, e))
           /\ PublishEntry(run, e).pending = run.pending
           /\ PublishEntry(run, e).stopped = run.stopped
           /\ PublishEntry(run, e).fate = [run.fate EXCEPT ![e.id] = "published"]
  <1> DEFINE page == [content |-> run.drafts[e.pageId].content, archived |-> FALSE]
             shown == [run EXCEPT !.pages = [run.pages EXCEPT ![<<e.pageId, e.version>>] = page]]
             marked == [shown EXCEPT !.drafts =
                           [shown.drafts EXCEPT ![e.pageId].status = "published"]]
             turned == [marked EXCEPT !.active = e.version]
             logged == [turned EXCEPT !.log = turned.log + 1]
             next == [logged EXCEPT !.fate[e.id] = "published"]
  <1>0. PublishEntry(run, e) = next /\ e.id \in Ids
    BY DEF PublishEntry, Slot
  <1>1. IsRun(shown) /\ Same(run, shown)
    BY OtherField
  <1> HIDE DEF shown
  <1>2. IsRun(marked) /\ Same(shown, marked)
    BY <1>1, OtherField
  <1> HIDE DEF marked
  <1>3. IsRun(turned) /\ Same(marked, turned)
    BY <1>2, OtherField
  <1> HIDE DEF turned
  <1>4. IsRun(logged) /\ Same(turned, logged)
    BY <1>3, OtherField
  <1> HIDE DEF logged
  <1>5. /\ IsRun(next) /\ next.pending = logged.pending
        /\ next.stopped = logged.stopped
        /\ next.fate = [logged.fate EXCEPT ![e.id] = "published"]
    BY <1>0, <1>4, FateField
  <1> HIDE DEF next
  <1> QED
    BY <1>0, <1>1, <1>2, <1>3, <1>4, <1>5 DEF Same

LEMMA MissingRun ==
    ASSUME NEW run, IsRun(run), NEW e \in Slot, ~run.stopped
    PROVE  IsRun(MissingDraft(run, e)) /\ Keeps(run, e, MissingDraft(run, e))
  <1> DEFINE tries == e.retryCount + 1
             gone == tries >= MAX_PUBLISH_RETRY
             status == IF gone THEN "failed" ELSE e.status
             counted == [e EXCEPT !.retryCount = tries]
             kept == [counted EXCEPT !.status = status]
             more == Keep(run, kept)
             size == more.log + (IF gone THEN 2 ELSE 1)
             logged == [more EXCEPT !.log = size]
             left == IF gone THEN "failed" ELSE logged.fate[e.id]
             next == [logged EXCEPT !.fate[e.id] = left]
  <1>s. status \in {"pending", "failed"} /\ e.id \in Ids
    BY DEF Slot
  <1>l. left = "failed" \/ left = logged.fate[e.id]
    OBVIOUS
  <1>m. MissingDraft(run, e) = next
    BY DEF MissingDraft
  <1>t. tries \in Nat
    BY DEF Slot
  <1> HIDE DEF tries, gone, status
  <1>1. counted \in Slot /\ counted.id = e.id
    BY <1>t DEF Slot
  <1> HIDE DEF counted
  <1>2. kept \in Slot /\ kept.id = e.id
    BY <1>1, <1>s DEF Slot
  <1> HIDE DEF kept
  <1>3. /\ IsRun(more) /\ more.pending = Append(run.pending, kept)
        /\ ~more.stopped /\ more.fate = run.fate
    BY <1>2, KeepRun
  <1> HIDE DEF more, size
  <1>4. IsRun(logged) /\ Same(more, logged)
    BY <1>3, OtherField
  <1> HIDE DEF logged, left
  <1>5. /\ IsRun(next) /\ next.pending = logged.pending
        /\ next.stopped = logged.stopped
        /\ next.fate = [logged.fate EXCEPT ![e.id] = left]
    BY <1>s, <1>4, FateField
  <1>6. next.fate = run.fate \/ next.fate = [run.fate EXCEPT ![e.id] = "failed"]
    <2>1. logged.fate = [i \in Ids |-> logged.fate[i]] /\ logged.fate = run.fate
      BY <1>3, <1>4 DEF IsRun, Same
    <2>2. left = logged.fate[e.id] => [logged.fate EXCEPT ![e.id] = left] = logged.fate
      BY <2>1
    <2> QED
      BY <1>5, <1>l, <2>1, <2>2
  <1> HIDE DEF next
  <1>7. Keeps(run, e, next)
    BY <1>2, <1>3, <1>4, <1>5, <1>6 DEF Keeps, Same
  <1> QED
    BY <1>5, <1>7, <1>m

\* An entry halts with the pass, stops it, is kept, or is settled.
LEMMA Outcomes ==
    ASSUME NEW run, IsRun(run), NEW e \in Slot
    PROVE  LET next == ProcessEntry(run, e) IN
           /\ IsRun(next)
           /\ \/ Halts(run, e, next) \/ Stops(run, e, next)
              \/ Keeps(run, e, next) \/ Settles(run, e, next)
  <1>1. CASE run.stopped
    BY <1>1 DEF ProcessEntry, Halts
  <1>2. CASE ~run.stopped /\ e.status = "failed"
    <2> DEFINE kept == Keep(run, e)
               next == [kept EXCEPT !.stopped = TRUE]
    <2>1. /\ IsRun(kept) /\ kept.pending = Append(run.pending, e)
          /\ kept.stopped = run.stopped /\ kept.fate = run.fate
      BY KeepRun
    <2>2. ProcessEntry(run, e) = next
      BY <1>2 DEF ProcessEntry
    <2> HIDE DEF kept
    <2>3. /\ IsRun(next) /\ next.pending = kept.pending /\ next.stopped
          /\ next.fate = kept.fate
      BY <2>1 DEF IsRun, RunFields
    <2> QED
      BY <1>2, <2>1, <2>2, <2>3 DEF Stops
  <1>3. CASE ~run.stopped /\ e.status # "failed" /\ ~Due(e.publishAt) /\ Due(e.expireAt)
    <2> DEFINE gone == ExpireEntry(run, e)
               next == [gone EXCEPT !.fate[e.id] = "expired"]
    <2>1. ProcessEntry(run, e) = next /\ e.id \in Ids
      BY <1>3 DEF ProcessEntry, Outdated, Slot
    <2>2. IsRun(gone) /\ Same(run, gone)
      BY ExpireRun
    <2> HIDE DEF gone
    <2>3. /\ IsRun(next) /\ next.pending = gone.pending /\ next.stopped = gone.stopped
          /\ next.fate = [gone.fate EXCEPT ![e.id] = "expired"]
      BY <2>1, <2>2, FateField
    <2> HIDE DEF next
    <2> QED
      BY <1>3, <2>1, <2>2, <2>3 DEF Settles, Settled, Same
  <1>4. CASE ~run.stopped /\ e.status # "failed" /\ ~Due(e.publishAt) /\ ~Due(e.expireAt)
    <2> DEFINE next == Keep(run, e)
    <2>1. ProcessEntry(run, e) = next
      BY <1>4 DEF ProcessEntry
    <2>2. /\ IsRun(next) /\ next.pending = Append(run.pending, e)
          /\ next.stopped = run.stopped /\ next.fate = run.fate
      BY KeepRun
    <2> HIDE DEF next
    <2> QED
      BY <1>4, <2>1, <2>2 DEF Keeps
  <1>5. CASE ~run.stopped /\ e.status # "failed" /\ Due(e.publishAt)
    <2> DEFINE tried == IF run.drafts[e.pageId] # NoVal THEN PublishEntry(run, e)
                        ELSE MissingDraft(run, e)
    <2>1. IsRun(tried) /\ (Keeps(run, e, tried) \/ Settles(run, e, tried))
      <3>1. CASE run.drafts[e.pageId] # NoVal
        <4>1. tried = PublishEntry(run, e)
          BY <3>1
        <4> HIDE DEF tried
        <4>2. /\ IsRun(tried) /\ tried.pending = run.pending
              /\ tried.stopped = run.stopped
              /\ tried.fate = [run.fate EXCEPT ![e.id] = "published"]
          BY <4>1, PublishRun
        <4> QED
          BY <1>5, <4>2 DEF Settles, Settled
      <3>2. CASE run.drafts[e.pageId] = NoVal
        BY <1>5, <3>2, MissingRun
      <3> QED
        BY <3>1, <3>2
    <2>2. ProcessEntry(run, e) = IF Due(e.expireAt) THEN ExpireEntry(tried, e) ELSE tried
      BY <1>5 DEF ProcessEntry
    <2> HIDE DEF tried
    <2>3. CASE ~Due(e.expireAt)
      BY <2>1, <2>2, <2>3
    <2>4. CASE Due(e.expireAt)
      <3> DEFINE next == ExpireEntry(tried, e)
      <3>1. IsRun(next) /\ Same(tried, next)
        BY <2>1, ExpireRun
      <3>2. ProcessEntry(run, e) = next
        BY <2>2, <2>4
      <3> HIDE DEF next
      <3>3. Keeps(run, e, next) \/ Settles(run, e, next)
        BY <2>1, <3>1 DEF Keeps, Settles, Same
      <3> QED
        BY <3>1, <3>2, <3>3
    <2> QED
      BY <2>3, <2>4
  <1> QED
    BY <1>1, <1>2, <1>3, <1>4, <1>5

\* What became of an entry by the middle of a pass: kept for the next one, or settled.
Accounted(run, i) ==
    (\E p \in DOMAIN run.pending : run.pending[p].id = i) \/ run.fate[i] \in Settled

\* The entries accounted for when the pass reached a failed one, or its m-th.
Reached(run, m) ==
    \E j \in 0 .. m :
        /\ \A k \in 1 .. j : Accounted(run, schedule[k].id)
        /\ IF run.stopped THEN j # 0 /\ schedule[j].status = "failed" ELSE j = m

\* The pass after m entries: what it keeps is scheduled, under ids of their own,
\* and the entries to come are as they were.
KeptScheduled(run, m) ==
    \A p \in DOMAIN run.pending :
        /\ run.fate[run.pending[p].id] \in Waiting
        /\ \E j \in 1 .. m : schedule[j].id = run.pending[p].id

KeptOnce(run) ==
    \A p, q \in DOMAIN run.pending : run.pending[p].id = run.pending[q].id => p = q

RestWaits(run, m) ==
    \A j \in DOMAIN schedule : j > m => run.fate[schedule[j].id] \in Waiting

FatesMove(run) ==
    \A i \in Ids : run.fate[i] = fate[i] \/ run.fate[i] \in Settled \cup {"failed"}

Filing(run, m) ==
    /\ IsRun(run) /\ Reached(run, m) /\ KeptScheduled(run, m) /\ KeptOnce(run)
    /\ RestWaits(run, m) /\ FatesMove(run)

LEMMA AppendAt ==
    ASSUME NEW s \in Seq(Slot), NEW f \in Slot
    PROVE  /\ Append(s, f) \in Seq(Slot) /\ Len(Append(s, f)) = Len(s) + 1
           /\ DOMAIN Append(s, f) = DOMAIN s \cup {Len(s) + 1}
           /\ Len(s) + 1 \notin DOMAIN s
           /\ Append(s, f)[Len(s) + 1] = f
           /\ \A p \in DOMAIN s : Append(s, f)[p] = s[p] /\ s[p] \in Slot
  OBVIOUS

LEMMA EntryAt ==
    ASSUME Filed, NEW m \in 0 .. Len(schedule) - 1
    PROVE  /\ m + 1 \in DOMAIN schedule /\ schedule[m + 1] \in Slot
           /\ schedule[m + 1].id \in Ids /\ Len(schedule) \in Nat
           /\ DOMAIN schedule = 1 .. Len(schedule)
           /\ \A j \in DOMAIN schedule : schedule[j] \in Slot /\ schedule[j].id \in Ids
  <1>1. schedule \in Seq(Slot)
    BY DEF Filed
  <1>2. \A e \in Slot : e.id \in Ids
    BY DEF Slot
  <1> HIDE DEF Slot
  <1>3. /\ Len(schedule) \in Nat /\ DOMAIN schedule = 1 .. Len(schedule)
        /\ \A j \in DOMAIN schedule : schedule[j] \in Slot
    BY <1>1
  <1>4. m + 1 \in DOMAIN schedule
    BY <1>3
  <1> QED
    BY <1>2, <1>3, <1>4

\* A step of the pass over the entry with id, its m-th, that is not behind a stop.
Onward(run, next, m, id) ==
    /\ KeptScheduled(next, m) /\ KeptOnce(next) /\ RestWaits(next, m) /\ FatesMove(next)
    /\ \A i \in Ids : Accounted(run, i) => Accounted(next, i)
    /\ Accounted(next, id)

\* An entry kept: its place is the last, and no other entry bears its id.
LEMMA FilingKept ==
    ASSUME Filed, NEW m \in 0 .. Len(schedule) - 1, NEW run, Filing(run, m),
           NEW next, IsRun(next), NEW f \in Slot, f.id = schedule[m + 1].id,
           next.pending = Append(run.pending, f),
           \/ next.fate = run.fate
           \/ next.fate = [run.fate EXCEPT ![f.id] = "failed"]
    PROVE  Onward(run, next, m + 1, f.id)
  <1> DEFINE s == run.pending
             t == next.pending
             e == schedule[m + 1]
  <1>1. /\ s \in Seq(Slot) /\ DOMAIN t = DOMAIN s \cup {Len(s) + 1}
        /\ Len(s) + 1 \notin DOMAIN s /\ t[Len(s) + 1] = f
        /\ \A p \in DOMAIN s : t[p] = s[p] /\ s[p] \in Slot
    <2>1. s \in Seq(Slot)
      BY DEF Filing, IsRun
    <2> QED
      BY <2>1, AppendAt
  <1>2. /\ m + 1 \in DOMAIN schedule /\ f.id \in Ids
        /\ \A j \in DOMAIN schedule : schedule[j] \in Slot /\ schedule[j].id \in Ids
    BY EntryAt
  <1>3. \A i \in Ids : i # f.id => next.fate[i] = run.fate[i]
    BY <1>2 DEF Filing, IsRun
  <1>4. run.fate[f.id] \in Waiting
    BY <1>2 DEF Filing, RestWaits
  <1>5. next.fate[f.id] = run.fate[f.id] \/ next.fate[f.id] = "failed"
    BY <1>2 DEF Filing, IsRun
  <1>6. \A p \in DOMAIN s : s[p].id \in Ids /\ s[p].id # f.id
    <2> SUFFICES ASSUME NEW p \in DOMAIN s PROVE s[p].id \in Ids /\ s[p].id # f.id
      OBVIOUS
    <2>1. s[p].id \in Ids
      BY <1>1 DEF Slot
    <2>2. PICK j \in 1 .. m : schedule[j].id = s[p].id
      BY DEF Filing, KeptScheduled
    <2>3. j \in DOMAIN schedule /\ j # m + 1
      BY <1>2 DEF Filed
    <2> QED
      BY <1>2, <2>1, <2>2, <2>3 DEF Filed
  <1>7. KeptScheduled(next, m + 1)
    <2> SUFFICES ASSUME NEW p \in DOMAIN t
                 PROVE  /\ next.fate[t[p].id] \in Waiting
                        /\ \E j \in 1 .. m + 1 : schedule[j].id = t[p].id
      BY DEF KeptScheduled
    <2>1. CASE p \in DOMAIN s
      <3>1. run.fate[s[p].id] \in Waiting /\ \E j \in 1 .. m : schedule[j].id = s[p].id
        BY <2>1 DEF Filing, KeptScheduled
      <3> QED
        BY <1>1, <1>3, <1>6, <2>1, <3>1
    <2>2. CASE p = Len(s) + 1
      <3>1. m + 1 \in 1 .. m + 1
        OBVIOUS
      <3> QED
        BY <1>1, <1>4, <1>5, <2>2, <3>1 DEF Waiting
    <2> QED
      BY <1>1, <2>1, <2>2
  <1>8. KeptOnce(next)
    BY <1>1, <1>6 DEF KeptOnce, Filing
  <1>9. RestWaits(next, m + 1)
    BY <1>2, <1>3, <1>4, <1>5 DEF RestWaits, Filing, Waiting
  <1>10. FatesMove(next)
    BY <1>2, <1>3, <1>5 DEF FatesMove, Filing
  <1>11. \A i \in Ids : Accounted(run, i) => Accounted(next, i)
    <2> SUFFICES ASSUME NEW i \in Ids, Accounted(run, i) PROVE Accounted(next, i)
      OBVIOUS
    <2>1. CASE \E p \in DOMAIN s : s[p].id = i
      BY <1>1, <2>1 DEF Accounted
    <2>2. CASE run.fate[i] \in Settled
      <3>1. i # f.id
        BY <1>4, <2>2 DEF Waiting, Settled
      <3> QED
        BY <1>3, <2>2, <3>1 DEF Accounted
    <2> QED
      BY <2>1, <2>2 DEF Accounted
  <1>12. Accounted(next, f.id)
    BY <1>1 DEF Accounted
  <1> QED
    BY <1>7, <1>8, <1>9, <1>10, <1>11, <1>12 DEF Onward

\* An entry settled.
LEMMA FilingSettled ==
    ASSUME Filed, NEW m \in 0 .. Len(schedule) - 1, NEW run, Filing(run, m),
           NEW next, IsRun(next), next.pending = run.pending,
           NEW x \in Settled, next.fate = [run.fate EXCEPT ![schedule[m + 1].id] = x]
    PROVE  Onward(run, next, m + 1, schedule[m + 1].id)
  <1> DEFINE s == run.pending
             e == schedule[m + 1]
  <1>1. \A p \in DOMAIN s : s[p] \in Slot
    BY DEF Filing, IsRun
  <1>2. /\ m + 1 \in DOMAIN schedule /\ e.id \in Ids
        /\ \A j \in DOMAIN schedule : schedule[j] \in Slot /\ schedule[j].id \in Ids
    BY EntryAt
  <1>3. /\ \A i \in Ids : i # e.id => next.fate[i] = run.fate[i]
        /\ next.fate[e.id] = x
    BY <1>2 DEF Filing, IsRun
  <1>4. \A p \in DOMAIN s : s[p].id \in Ids /\ s[p].id # e.id
    <2> SUFFICES ASSUME NEW p \in DOMAIN s PROVE s[p].id \in Ids /\ s[p].id # e.id
      OBVIOUS
    <2>1. s[p].id \in Ids
      BY <1>1 DEF Slot
    <2>2. PICK j \in 1 .. m : schedule[j].id = s[p].id
      BY DEF Filing, KeptScheduled
    <2>3. j \in DOMAIN schedule /\ j # m + 1
      BY <1>2 DEF Filed
    <2> QED
      BY <1>2, <2>1, <2>2, <2>3 DEF Filed
  <1>5. KeptScheduled(next, m + 1)
    <2> SUFFICES ASSUME NEW p \in DOMAIN s
                 PROVE  /\ next.fate[s[p].id] \in Waiting
                        /\ \E j \in 1 .. m + 1 : schedule[j].id = s[p].id
      BY DEF KeptScheduled
    <2>1. run.fate[s[p].id] \in Waiting /\ \E j \in 1 .. m : schedule[j].id = s[p].id
      BY DEF Filing, KeptScheduled
    <2> QED
      BY <1>3, <1>4, <2>1
  <1>6. KeptOnce(next)
    BY DEF KeptOnce, Filing
  <1>7. RestWaits(next, m + 1)
    <2> SUFFICES ASSUME NEW j \in DOMAIN schedule, j > m + 1
                 PROVE  next.fate[schedule[j].id] \in Waiting
      BY DEF RestWaits
    <2>1. schedule[j].id # e.id /\ j > m
      BY <1>2 DEF Filed
    <2> QED
      BY <1>2, <1>3, <2>1 DEF Filing, RestWaits
  <1>8. FatesMove(next)
    BY <1>3 DEF FatesMove, Filing
  <1>9. \A i \in Ids : Accounted(run, i) => Accounted(next, i)
    BY <1>3 DEF Accounted
  <1>10. Accounted(next, e.id)
    BY <1>3 DEF Accounted
  <1> QED
    BY <1>5, <1>6, <1>7, <1>8, <1>9, <1>10 DEF Onward

LEMMA FilingStep ==
    ASSUME Filed, NEW m \in 0 .. Len(schedule) - 1, NEW run, Filing(run, m),
           NEW next, next = ProcessEntry(run, schedule[m + 1])
    PROVE  Filing(next, m + 1)
  <1> DEFINE e == schedule[m + 1]
  <1>0. e \in Slot /\ e.id \in Ids /\ IsRun(run) /\ Len(schedule) \in Nat
    BY EntryAt DEF Filing, Filed
  <1>1. /\ IsRun(next)
        /\ \/ Halts(run, e, next) \/ Stops(run, e, next)
           \/ Keeps(run, e, next) \/ Settles(run, e, next)
    BY <1>0, Outcomes
  <1>2. \A k \in 1 .. m + 1 : schedule[k].id \in Ids
    <2> SUFFICES ASSUME NEW k \in 1 .. m + 1 PROVE schedule[k].id \in Ids
      OBVIOUS
    <2>1. k \in DOMAIN schedule
      BY <1>0, EntryAt
    <2> QED
      BY <2>1, EntryAt
  <1>r. PICK j \in 0 .. m :
            /\ \A k \in 1 .. j : Accounted(run, schedule[k].id)
            /\ IF run.stopped THEN j # 0 /\ schedule[j].status = "failed" ELSE j = m
    BY DEF Filing, Reached
  <1>3. CASE Halts(run, e, next)
    <2>1. Reached(next, m + 1)
      <3>1. j \in 0 .. m + 1
        OBVIOUS
      <3> QED
        BY <1>3, <1>r, <3>1 DEF Reached, Halts
    <2>2. KeptScheduled(next, m + 1) /\ RestWaits(next, m + 1)
      BY <1>0, <1>3 DEF Halts, Filing, KeptScheduled, RestWaits
    <2> QED
      BY <1>1, <1>3, <2>1, <2>2 DEF Filing, Halts
  <1>4. ASSUME ~run.stopped,
               Onward(run, next, m + 1, e.id),
               next.stopped => e.status = "failed"
        PROVE  Filing(next, m + 1)
    <2>1. \A k \in 1 .. m + 1 : Accounted(next, schedule[k].id)
      <3> SUFFICES ASSUME NEW k \in 1 .. m + 1 PROVE Accounted(next, schedule[k].id)
        OBVIOUS
      <3>1. CASE k = m + 1
        BY <1>4, <3>1 DEF Onward
      <3>2. CASE k \in 1 .. m
        BY <1>2, <1>4, <1>r, <3>2 DEF Onward
      <3> QED
        BY <3>1, <3>2
    <2>2. Reached(next, m + 1)
      <3>1. m + 1 \in 0 .. m + 1 /\ m + 1 # 0
        OBVIOUS
      <3> QED
        BY <1>4, <2>1, <3>1 DEF Reached
    <2> QED
      BY <1>1, <1>4, <2>2 DEF Filing, Onward
  <1>5. CASE Stops(run, e, next)
    <2>1. next.pending = Append(run.pending, e) /\ next.fate = run.fate
      BY <1>5 DEF Stops
    <2>2. Onward(run, next, m + 1, e.id)
      BY <1>0, <1>1, <2>1, FilingKept
    <2> QED
      BY <1>4, <1>5, <2>2 DEF Stops
  <1>6. CASE Keeps(run, e, next)
    <2>1. PICK f \in Slot : f.id = e.id /\ next.pending = Append(run.pending, f)
      BY <1>6 DEF Keeps
    <2>2. next.fate = run.fate \/ next.fate = [run.fate EXCEPT ![f.id] = "failed"]
      BY <1>6, <2>1 DEF Keeps
    <2>3. Onward(run, next, m + 1, f.id)
      BY <1>1, <2>1, <2>2, FilingKept
    <2> QED
      BY <1>4, <1>6, <2>1, <2>3 DEF Keeps
  <1>7. CASE Settles(run, e, next)
    <2>1. PICK x \in Settled : next.fate = [run.fate EXCEPT ![e.id] = x]
      BY <1>7 DEF Settles
    <2>2. next.pending = run.pending
      BY <1>7 DEF Settles
    <2>3. Onward(run, next, m + 1, e.id)
      BY <1>1, <2>1, <2>2, FilingSettled
    <2> QED
      BY <1>4, <1>7, <2>3 DEF Settles
  <1> QED
    BY <1>1, <1>3, <1>5, <1>6, <1>7

LEMMA FilingStart ==
    ASSUME Filed PROVE Filing(Started, 0)
  <1> DEFINE run == Started
  <1>1. /\ run.pending = <<>> /\ run.stopped = FALSE /\ run.fate = fate
        /\ run = [x \in RunFields |-> run[x]]
    BY DEF Started, RunFields
  <1> HIDE DEF run
  <1>2. IsRun(run)
    <2>1. run.pending \in Seq(Slot)
      BY <1>1
    <2>2. run.fate = [i \in Ids |-> run.fate[i]]
      BY <1>1 DEF Filed
    <2>3. run.stopped \in BOOLEAN
      BY <1>1
    <2> QED
      BY <1>1, <2>1, <2>2, <2>3 DEF IsRun
  <1>3. Reached(run, 0)
    BY <1>1 DEF Reached
  <1>4. KeptScheduled(run, 0) /\ KeptOnce(run)
    BY <1>1 DEF KeptScheduled, KeptOnce
  <1>5. RestWaits(run, 0) /\ FatesMove(run)
    BY <1>1 DEF Filed, RestWaits, FatesMove
  <1>6. Filing(run, 0)
    BY <1>2, <1>3, <1>4, <1>5 DEF Filing
  <1> QED
    BY <1>6 DEF run

LEMMA PassFiling ==
    ASSUME Filed PROVE Filing(Pass, Len(schedule))
  <1> DEFINE n == Len(schedule)
  <1>1. n \in Nat /\ DOMAIN schedule = 1 .. n
    BY DEF Filed
  <1>2. PICK runs : IsChain(runs)
    BY <1>1, PassIsChain
  <1> DEFINE G == {m \in 0 .. n : Filing(runs[m], m)}
  <1>3. 0 \in G
    BY <1>1, <1>2, FilingStart DEF IsChain
  <1>4. ASSUME NEW m \in 0 .. n - 1, m \in G
        PROVE  m + 1 \in G
    <2>1. runs[m + 1] = ProcessEntry(runs[m], schedule[m + 1])
      BY <1>2 DEF IsChain
    <2>2. Filing(runs[m + 1], m + 1)
      BY <1>4, <2>1, FilingStep
    <2> QED
      BY <1>1, <2>2
  <1> HIDE DEF G
  <1>5. \A m \in 0 .. n : m \in G
    BY <1>1, <1>3, <1>4, UptoInduction
  <1>6. Filing(runs[n], n)
    BY <1>1, <1>5 DEF G
  <1> QED
    BY <1>2, <1>6 DEF IsChain

\* What RunPublishScheduler makes of the schedule and of the fates.
LEMMA RunFiled ==
    ASSUME Filed, RunPublishScheduler
    PROVE  /\ Filed'
           /\ \A i \in Ids : fate'[i] = "dropped" /\ fate[i] # "dropped" =>
                 \E j, k \in DOMAIN schedule :
                    j < k /\ schedule[j].status = "failed" /\ schedule[k].id = i
  <1> DEFINE n == Len(schedule)
  <1>1. PICK run : /\ run = Pass
                   /\ schedule' = run.pending
                   /\ fate' = [i \in Ids |-> IF i \in Dropped(run) THEN "dropped"
                                             ELSE run.fate[i]]
    BY DEF RunPublishScheduler
  <1>2. Filing(run, n)
    BY <1>1, PassFiling
  <1>s. /\ n \in Nat /\ DOMAIN schedule = 1 .. n
        /\ \A j \in DOMAIN schedule : schedule[j] \in Slot
    BY DEF Filed
  <1>i. \A e \in Slot : e.id \in Ids
    BY DEF Slot
  <1>p. run.pending \in Seq(Slot) /\ \A p \in DOMAIN run.pending : run.pending[p] \in Slot
    BY <1>2 DEF Filing, IsRun
  <1>3. \A i : i \in Dropped(run) <=>
            /\ \E k \in DOMAIN schedule : schedule[k].id = i
            /\ ~\E p \in DOMAIN run.pending : run.pending[p].id = i
            /\ ~(i \in Ids /\ run.fate[i] # fate[i])
    BY DEF Dropped, ToSet
  <1>4. Filed'
    <2>1. schedule' \in Seq(Slot)
      BY <1>1, <1>p
    <2>2. fate' = [i \in Ids |-> fate'[i]]
      BY <1>1
    <2>3. \A p \in DOMAIN schedule' : fate'[schedule'[p].id] \in Waiting
      <3> SUFFICES ASSUME NEW p \in DOMAIN run.pending
                   PROVE  fate'[run.pending[p].id] \in Waiting
        BY <1>1
      <3>1. run.pending[p].id \in Ids /\ run.pending[p].id \notin Dropped(run)
        BY <1>3, <1>i, <1>p
      <3>2. run.fate[run.pending[p].id] \in Waiting
        BY <1>2 DEF Filing, KeptScheduled
      <3> QED
        BY <1>1, <3>1, <3>2
    <2>4. \A j, k \in DOMAIN schedule' : schedule'[j].id = schedule'[k].id => j = k
      BY <1>1, <1>2 DEF Filing, KeptOnce
    <2> QED
      BY <2>1, <2>2, <2>3, <2>4 DEF Filed
  <1>5. ASSUME NEW i \in Ids, fate'[i] = "dropped", fate[i] # "dropped"
        PROVE  \E j, k \in DOMAIN schedule :
                  j < k /\ schedule[j].status = "failed" /\ schedule[k].id = i
    <2>1. i \in Dropped(run)
      <3>1. run.fate[i] # "dropped"
        BY <1>2, <1>5 DEF Filing, FatesMove, Settled
      <3> QED
        BY <1>1, <1>5, <3>1
    <2>2. PICK k \in DOMAIN schedule : schedule[k].id = i
      BY <1>3, <2>1
    <2>3. ~Accounted(run, schedule[k].id)
      <3>1. run.fate[i] = fate[i] /\ ~\E p \in DOMAIN run.pending : run.pending[p].id = i
        BY <1>3, <2>1
      <3>2. fate[i] \in Waiting
        BY <2>2 DEF Filed
      <3> QED
        BY <2>2, <3>1, <3>2 DEF Accounted, Waiting, Settled
    <2>4. PICK j \in 0 .. n :
              /\ \A l \in 1 .. j : Accounted(run, schedule[l].id)
              /\ IF run.stopped THEN j # 0 /\ schedule[j].status = "failed" ELSE j = n
      BY <1>2 DEF Filing, Reached
    <2>5. j < k
      <3>1. j \in Nat /\ k \in 1 .. n /\ ~(k \in 1 .. j)
        <4>1. k \notin 1 .. j
          BY <2>3, <2>4
        <4> QED
          BY <1>s, <4>1
      <3> HIDE DEF n
      <3> QED
        BY <1>s, <3>1
    <2>6. run.stopped
      <3>1. j # n
        <4>1. k \in 1 .. n
          BY <1>s
        <4> HIDE DEF n
        <4> QED
          BY <1>s, <2>5, <4>1
      <3> QED
        BY <2>4, <3>1
    <2>7. j \in DOMAIN schedule /\ schedule[j].status = "failed"
      BY <1>s, <2>4, <2>6
    <2> QED
      BY <2>2, <2>5, <2>7
  <1> QED
    BY <1>4, <1>5

\* No other action touches the fate of an entry that is in the schedule.
LEMMA FiledStep ==
    ASSUME Filed, [Next]_vars
    PROVE  /\ Filed'
           /\ \A i \in Ids : fate'[i] = "dropped" /\ fate[i] # "dropped" =>
                 \E j, k \in DOMAIN schedule :
                    j < k /\ schedule[j].status = "failed" /\ schedule[k].id = i
  <1>1. CASE UNCHANGED <<schedule, fate>>
    BY <1>1 DEF Filed
  <1>2. CASE RunPublishScheduler
    BY <1>2, RunFiled
  <1>3. ASSUME NEW p \in Pages, NEW v \in Versions, NEW publishAt \in Optional(Times),
               NEW expireAt \in Optional(Times), SchedulePublish(p, v, publishAt, expireAt)
        PROVE  /\ Filed'
               /\ \A i \in Ids : fate'[i] = "dropped" => fate[i] = "dropped"
    <2>1. PICK id \in Ids :
              /\ fate[id] = "none"
              /\ schedule' = Append(schedule,
                    [id |-> id, pageId |-> p, version |-> v, publishAt |-> publishAt,
                     expireAt |-> expireAt, status |-> "pending", retryCount |-> 0])
              /\ fate' = [fate EXCEPT ![id] = "scheduled"]
      BY <1>3 DEF SchedulePublish
    <2> DEFINE e == [id |-> id, pageId |-> p, version |-> v, publishAt |-> publishAt,
                     expireAt |-> expireAt, status |-> "pending", retryCount |-> 0]
    <2>2. e \in Slot /\ e.id = id
      BY DEF Slot, Optional
    <2>3. schedule \in Seq(Slot)
      BY DEF Filed
    <2>4. schedule' = Append(schedule, e)
      BY <2>1
    <2> HIDE DEF e
    <2>5. /\ schedule' \in Seq(Slot)
          /\ DOMAIN schedule' = DOMAIN schedule \cup {Len(schedule) + 1}
          /\ Len(schedule) + 1 \notin DOMAIN schedule
          /\ schedule'[Len(schedule) + 1] = e
          /\ \A j \in DOMAIN schedule : schedule'[j] = schedule[j]
      BY <2>2, <2>3, <2>4, AppendAt
    <2>6. \A j \in DOMAIN schedule : schedule[j].id \in Ids /\ schedule[j].id # id
      <3>1. \A x \in Slot : x.id \in Ids
        BY DEF Slot
      <3>2. \A j \in DOMAIN schedule : schedule[j] \in Slot
        BY <2>3
      <3> QED
        BY <2>1, <3>1, <3>2 DEF Filed, Waiting
    <2>7. /\ fate' = [i \in Ids |-> fate'[i]] /\ fate'[id] = "scheduled"
          /\ \A i \in Ids : i # id => fate'[i] = fate[i]
      BY <2>1 DEF Filed
    <2>8. \A j \in DOMAIN schedule' : fate'[schedule'[j].id] \in Waiting
      BY <2>2, <2>5, <2>6, <2>7 DEF Filed, Waiting
    <2>9. \A j, k \in DOMAIN schedule' : schedule'[j].id = schedule'[k].id => j = k
      BY <2>2, <2>5, <2>6 DEF Filed
    <2> QED
      BY <2>5, <2>7, <2>8, <2>9 DEF Filed
  <1>4. CASE Next
    BY <1>1, <1>2, <1>3, <1>4 DEF Next, PutDraft, RequestPublish, ApprovePublish, Review,
       PublishVersion, ArchivePage, GetPage, Tick
  <1> QED
    BY <1>1, <1>4 DEF vars

LEMMA FiledInvariant == Spec => []Filed
  <1>1. Init => Filed
    BY DEF Init, Filed
  <1>2. Filed /\ [Next]_vars => Filed'
    BY FiledStep
  <1> QED
    BY <1>1, <1>2, PTL DEF Spec

\* A pass of the scheduler loses an entry, neither published nor expired nor
\* kept, only behind one that had failed before the pass (the break in the loop
\* of RunPublishScheduler).
THEOREM LostOnlyBehindFailedCorrect == Spec => LostOnlyBehindFailed
  <1> DEFINE Lost == \A i \in Ids : fate'[i] = "dropped" /\ fate[i] # "dropped" =>
                        \E j, k \in DOMAIN schedule :
                           j < k /\ schedule[j].status = "failed" /\ schedule[k].id = i
  <1>1. Filed /\ [Next]_vars => Lost
    BY FiledStep
  <1>2. Filed /\ [Next]_vars => [Lost]_vars
    BY <1>1
  <1>3. LostOnlyBehindFailed <=> [][Lost]_vars
    BY DEF LostOnlyBehindFailed
  <1> HIDE DEF Lost
  <1> QED
    BY <1>2, <1>3, FiledInvariant, PTL DEF Spec


-----------------------------------------------------------------------------
(***************************************************************************)
(* Types, retries and the length of the publish log                        *)
(***************************************************************************)

Fates == {"none", "scheduled", "published", "failed", "expired", "dropped"}

\* Entries as they stand in the schedule between two messages.
TriesLeft(s) ==
    \A j \in DOMAIN s : s[j].status = "pending" => s[j].retryCount < MAX_PUBLISH_RETRY

Typed(run) ==
    /\ IsRun(run)
    /\ run.drafts \in [Pages -> Draft \cup {NoVal}]
    /\ run.pages \in [Keys -> Page \cup {NoVal}]
    /\ run.active \in Versions \cup {NoVal}
    /\ run.log \in Nat
    /\ run.pending \in Seq(Entry) /\ TriesLeft(run.pending)
    /\ run.fate \in [Ids -> Fates]

LEMMA EntrySlot ==
    \A e \in Entry : e \in Slot /\ e.id \in Ids /\ <<e.pageId, e.version>> \in Keys
                     /\ e.pageId \in Pages /\ e.version \in Versions
  BY PublishingAssumption DEF Entry, Slot, Keys

LEMMA SetField ==
    ASSUME NEW run, IsRun(run), NEW x \in RunFields, NEW v
    PROVE  \A y \in RunFields : [run EXCEPT ![x] = v][y] = IF y = x THEN v ELSE run[y]
  BY DEF IsRun

LEMMA AppendTried ==
    ASSUME NEW s \in Seq(Entry), TriesLeft(s), NEW f \in Entry,
           f.status = "pending" => f.retryCount < MAX_PUBLISH_RETRY
    PROVE  Append(s, f) \in Seq(Entry) /\ TriesLeft(Append(s, f))
  <1>1. /\ Append(s, f) \in Seq(Entry)
        /\ DOMAIN Append(s, f) = DOMAIN s \cup {Len(s) + 1}
        /\ Append(s, f)[Len(s) + 1] = f
        /\ \A p \in DOMAIN s : Append(s, f)[p] = s[p]
        /\ Len(s) + 1 \notin DOMAIN s
    OBVIOUS
  <1> DEFINE t == Append(s, f)
  <1> HIDE DEF t
  <1>2. DOMAIN t = DOMAIN s \cup {Len(s) + 1} /\ t[Len(s) + 1] = f
        /\ \A p \in DOMAIN s : t[p] = s[p]
    BY <1>1 DEF t
  <1>3. TriesLeft(t)
    BY <1>2 DEF TriesLeft
  <1> QED
    BY <1>1, <1>3 DEF t

LEMMA KeepTyped ==
    ASSUME NEW run, Typed(run), NEW f \in Entry,
           f.status = "pending" => f.retryCount < MAX_PUBLISH_RETRY
    PROVE  Typed(Keep(run, f))
  <1> DEFINE more == Append(run.pending, f)
             next == [run EXCEPT !.pending = more]
  <1>1. IsRun(run) /\ f \in Slot
    BY EntrySlot DEF Typed
  <1>2. more \in Seq(Entry) /\ TriesLeft(more)
    BY AppendTried DEF Typed
  <1>3. Keep(run, f) = next
    BY DEF Keep
  <1>4. IsRun(next)
    BY <1>1, <1>3, KeepRun
  <1> HIDE DEF more
  <1>5. /\ next.pending = more /\ next.drafts = run.drafts /\ next.pages = run.pages
        /\ next.active = run.active /\ next.log = run.log /\ next.fate = run.fate
    BY <1>1 DEF IsRun, RunFields
  <1> HIDE DEF next
  <1> QED
    BY <1>2, <1>3, <1>4, <1>5 DEF Typed

\* The effect of one assignment on the types.
LEMMA FieldTyped ==
    ASSUME NEW run, Typed(run), NEW x \in {"drafts", "pages", "active", "log"}, NEW v,
           x = "drafts" => v \in [Pages -> Draft \cup {NoVal}],
           x = "pages" => v \in [Keys -> Page \cup {NoVal}],
           x = "active" => v \in Versions \cup {NoVal},
           x = "log" => v \in Nat
    PROVE  Typed([run EXCEPT ![x] = v])
  <1> DEFINE next == [run EXCEPT ![x] = v]
  <1>1. IsRun(next)
    BY OtherField DEF Typed
  <1>2. \A y \in RunFields : next[y] = IF y = x THEN v ELSE run[y]
    <2>1. IsRun(run) /\ x \in RunFields
      BY DEF Typed, RunFields
    <2> QED
      BY <2>1, SetField
  <1> HIDE DEF next
  <1>3. /\ next.drafts = IF x = "drafts" THEN v ELSE run.drafts
        /\ next.pages = IF x = "pages" THEN v ELSE run.pages
        /\ next.active = IF x = "active" THEN v ELSE run.active
        /\ next.log = IF x = "log" THEN v ELSE run.log
        /\ next.pending = run.pending /\ next.fate = run.fate
    BY <1>2 DEF RunFields
  <1>4. Typed(next)
    BY <1>1, <1>3 DEF Typed
  <1> QED
    BY <1>4 DEF next

LEMMA FateTyped ==
    ASSUME NEW run, Typed(run), NEW i \in Ids, NEW x \in Fates
    PROVE  Typed([run EXCEPT !.fate[i] = x])
  <1> DEFINE after == [run.fate EXCEPT ![i] = x]
             next == [run EXCEPT !.fate = after]
  <1>1. after \in [Ids -> Fates]
    BY DEF Typed
  <1>2. IsRun(next)
    BY FateField DEF Typed
  <1> HIDE DEF after
  <1>3. /\ next.drafts = run.drafts /\ next.pages = run.pages /\ next.fate = after
        /\ next.active = run.active /\ next.log = run.log /\ next.pending = run.pending
    BY DEF Typed, IsRun, RunFields
  <1> HIDE DEF next
  <1>4. Typed(next)
    BY <1>1, <1>2, <1>3 DEF Typed
  <1> QED
    BY <1>4 DEF next, after

LEMMA PublishTyped ==
    ASSUME NEW run, Typed(run), NEW e \in Entry, run.drafts[e.pageId] # NoVal
    PROVE  Typed(PublishEntry(run, e))
  <1> DEFINE page == [content |-> run.drafts[e.pageId].content, archived |-> FALSE]
             written == [run.pages EXCEPT ![<<e.pageId, e.version>>] = page]
             shown == [run EXCEPT !.pages = written]
             done == [shown.drafts EXCEPT ![e.pageId].status = "published"]
             marked == [shown EXCEPT !.drafts = done]
             turned == [marked EXCEPT !.active = e.version]
             logged == [turned EXCEPT !.log = turned.log + 1]
             next == [logged EXCEPT !.fate[e.id] = "published"]
  <1>0. PublishEntry(run, e) = next
    BY DEF PublishEntry
  <1>1. run.drafts[e.pageId] \in Draft
    BY EntrySlot DEF Typed
  <1>2. written \in [Keys -> Page \cup {NoVal}]
    <2>1. page \in Page
      BY <1>1 DEF Draft, Page
    <2> QED
      BY <2>1 DEF Typed
  <1>3. shown.drafts = run.drafts
    BY DEF Typed, IsRun, RunFields
  <1>4. done \in [Pages -> Draft \cup {NoVal}]
    <2>1. [run.drafts[e.pageId] EXCEPT !.status = "published"] \in Draft
      BY <1>1 DEF Draft
    <2> HIDE DEF shown
    <2> QED
      BY <1>3, <2>1 DEF Typed
  <1> HIDE DEF written
  <1>5. Typed(shown)
    BY <1>2, FieldTyped
  <1> HIDE DEF shown, done
  <1>6. Typed(marked)
    BY <1>4, <1>5, FieldTyped
  <1> HIDE DEF marked
  <1>7. Typed(turned)
    BY <1>6, EntrySlot, FieldTyped
  <1> HIDE DEF turned
  <1>8. turned.log + 1 \in Nat
    BY <1>7 DEF Typed
  <1>9. Typed(logged)
    BY <1>7, <1>8, FieldTyped
  <1> HIDE DEF logged
  <1>10. Typed(next)
    BY <1>9, EntrySlot, FateTyped DEF Fates
  <1> QED
    BY <1>0, <1>10

LEMMA MissingTyped ==
    ASSUME NEW run, Typed(run), NEW e \in Entry, e.status = "pending",
           e.retryCount < MAX_PUBLISH_RETRY
    PROVE  Typed(MissingDraft(run, e))
  <1> DEFINE tries == e.retryCount + 1
             gone == tries >= MAX_PUBLISH_RETRY
             status == IF gone THEN "failed" ELSE e.status
             counted == [e EXCEPT !.retryCount = tries]
             kept == [counted EXCEPT !.status = status]
             more == Keep(run, kept)
             size == more.log + (IF gone THEN 2 ELSE 1)
             logged == [more EXCEPT !.log = size]
             left == IF gone THEN "failed" ELSE logged.fate[e.id]
             next == [logged EXCEPT !.fate[e.id] = left]
  <1>m. MissingDraft(run, e) = next
    BY DEF MissingDraft
  <1>1. tries \in 0 .. MAX_PUBLISH_RETRY /\ (~gone => tries < MAX_PUBLISH_RETRY)
    BY PublishingAssumption DEF Entry
  <1> HIDE DEF tries
  <1>2. status \in {"pending", "failed"} /\ (status = "pending" => ~gone)
    BY DEF Entry
  <1> HIDE DEF status
  <1>3. counted \in Entry /\ counted.retryCount = tries
    BY <1>1 DEF Entry
  <1> HIDE DEF counted
  <1>4. kept \in Entry /\ kept.status = status /\ kept.retryCount = tries
    BY <1>2, <1>3 DEF Entry
  <1> HIDE DEF kept
  <1>5. Typed(more)
    BY <1>1, <1>2, <1>4, KeepTyped
  <1> HIDE DEF more
  <1>6. size \in Nat
    BY <1>5 DEF Typed
  <1> HIDE DEF size
  <1>7. Typed(logged)
    BY <1>5, <1>6, FieldTyped
  <1> HIDE DEF logged
  <1>8. left \in Fates /\ e.id \in Ids
    BY <1>7, EntrySlot DEF Typed, Fates
  <1> HIDE DEF left
  <1>9. Typed(next)
    BY <1>7, <1>8, FateTyped
  <1> QED
    BY <1>m, <1>9

LEMMA ExpireTyped ==
    ASSUME NEW run, Typed(run), NEW e \in Entry
    PROVE  Typed(ExpireEntry(run, e))
  <1> DEFINE k == <<e.pageId, e.version>>
             gone == [run.pages EXCEPT ![k].archived = TRUE]
             hidden == [run EXCEPT !.pages = gone]
             next == [hidden EXCEPT !.log = hidden.log + 1]
  <1>1. ExpireEntry(run, e) = IF run.pages[k] = NoVal THEN run ELSE next
    BY DEF ExpireEntry
  <1>2. ASSUME run.pages[k] # NoVal PROVE Typed(next)
    <2>1. gone \in [Keys -> Page \cup {NoVal}]
      <3>1. k \in Keys /\ run.pages[k] \in Page
        BY <1>2, EntrySlot DEF Typed
      <3>2. [run.pages[k] EXCEPT !.archived = TRUE] \in Page
        BY <3>1 DEF Page
      <3> HIDE DEF k
      <3> QED
        BY <3>1, <3>2 DEF Typed
    <2> HIDE DEF gone
    <2>2. Typed(hidden)
      BY <2>1, FieldTyped
    <2> HIDE DEF hidden
    <2>3. hidden.log + 1 \in Nat
      BY <2>2 DEF Typed
    <2> QED
      BY <2>2, <2>3, FieldTyped
  <1> HIDE DEF next
  <1> QED
    BY <1>1, <1>2

LEMMA StepTyped ==
    ASSUME NEW run, Typed(run), NEW e \in Entry,
           e.status = "pending" => e.retryCount < MAX_PUBLISH_RETRY
    PROVE  Typed(ProcessEntry(run, e))
  <1>0. e.id \in Ids /\ e.status \in {"pending", "failed"}
    BY EntrySlot DEF Entry
  <1>1. CASE run.stopped
    BY <1>1 DEF ProcessEntry
  <1>2. CASE ~run.stopped /\ e.status = "failed"
    <2> DEFINE kept == Keep(run, e)
               next == [kept EXCEPT !.stopped = TRUE]
    <2>1. Typed(kept)
      BY KeepTyped
    <2>2. ProcessEntry(run, e) = next
      BY <1>2 DEF ProcessEntry
    <2> HIDE DEF kept
    <2>3. /\ IsRun(next) /\ next.drafts = kept.drafts /\ next.pages = kept.pages
          /\ next.active = kept.active /\ next.log = kept.log
          /\ next.pending = kept.pending /\ next.fate = kept.fate
      BY <2>1 DEF Typed, IsRun, RunFields
    <2> HIDE DEF next
    <2>4. Typed(next)
      BY <2>1, <2>3 DEF Typed
    <2> QED
      BY <2>2, <2>4
  <1>3. CASE ~run.stopped /\ e.status # "failed" /\ ~Due(e.publishAt)
    <2>1. CASE Due(e.expireAt)
      <3> DEFINE gone == ExpireEntry(run, e)
      <3>1. Typed(gone)
        BY ExpireTyped
      <3>2. ProcessEntry(run, e) = [gone EXCEPT !.fate[e.id] = "expired"]
        BY <1>3, <2>1 DEF ProcessEntry, Outdated
      <3> HIDE DEF gone
      <3> QED
        BY <1>0, <3>1, <3>2, FateTyped DEF Fates
    <2>2. CASE ~Due(e.expireAt)
      BY <1>3, <2>2, KeepTyped DEF ProcessEntry
    <2> QED
      BY <2>1, <2>2
  <1>4. CASE ~run.stopped /\ e.status # "failed" /\ Due(e.publishAt)
    <2> DEFINE tried == IF run.drafts[e.pageId] # NoVal THEN PublishEntry(run, e)
                        ELSE MissingDraft(run, e)
    <2>1. Typed(tried)
      BY <1>0, <1>4, PublishTyped, MissingTyped
    <2>2. ProcessEntry(run, e) = IF Due(e.expireAt) THEN ExpireEntry(tried, e) ELSE tried
      BY <1>4 DEF ProcessEntry
    <2> HIDE DEF tried
    <2>3. Typed(ExpireEntry(tried, e))
      BY <2>1, ExpireTyped
    <2> QED
      BY <2>1, <2>2, <2>3
  <1> QED
    BY <1>1, <1>2, <1>3, <1>4

LEMMA PassTyped ==
    ASSUME TypeOK PROVE Typed(Pass)
  <1> DEFINE n == Len(schedule)
  <1>1. n \in Nat /\ DOMAIN schedule = 1 .. n
    BY DEF TypeOK
  <1>2. PICK runs : IsChain(runs)
    BY <1>1, PassIsChain
  <1> DEFINE G == {m \in 0 .. n : Typed(runs[m])}
  <1>3. 0 \in G
    <2> DEFINE run == Started
    <2>1. /\ run.drafts = drafts /\ run.pages = pages /\ run.active = active
          /\ run.log = logSize /\ run.pending = <<>> /\ run.stopped = FALSE
          /\ run.fate = fate /\ run = [x \in RunFields |-> run[x]]
      BY DEF Started, RunFields
    <2> HIDE DEF run
    <2>2. run.pending \in Seq(Slot) /\ run.pending \in Seq(Entry) /\ TriesLeft(run.pending)
      BY <2>1 DEF TriesLeft
    <2>3. run.stopped \in BOOLEAN
      BY <2>1
    <2>4. run.fate \in [Ids -> Fates] /\ run.fate = [i \in Ids |-> run.fate[i]]
      BY <2>1 DEF TypeOK, Fates
    <2>5. IsRun(run)
      BY <2>1, <2>2, <2>3, <2>4 DEF IsRun
    <2>6. logSize \in Nat
      BY PublishingAssumption DEF TypeOK
    <2>7. Typed(run)
      BY <2>1, <2>2, <2>4, <2>5, <2>6 DEF Typed, TypeOK
    <2>8. Typed(runs[0])
      BY <1>2, <2>7 DEF IsChain, run
    <2> QED
      BY <1>1, <2>8
  <1>4. ASSUME NEW m \in 0 .. n - 1, m \in G
        PROVE  m + 1 \in G
    <2>1. runs[m + 1] = ProcessEntry(runs[m], schedule[m + 1])
      BY <1>2 DEF IsChain
    <2>2. m + 1 \in DOMAIN schedule
      BY <1>1
    <2>3. /\ schedule[m + 1] \in Entry
          /\ schedule[m + 1].status = "pending" =>
                schedule[m + 1].retryCount < MAX_PUBLISH_RETRY
      BY <2>2 DEF TypeOK
    <2>4. Typed(runs[m + 1])
      BY <1>4, <2>1, <2>3, StepTyped
    <2> QED
      BY <1>1, <2>4
  <1> HIDE DEF G
  <1>5. \A m \in 0 .. n : m \in G
    BY <1>1, <1>3, <1>4, UptoInduction
  <1>6. Typed(runs[n])
    BY <1>1, <1>5 DEF G
  <1> QED
    BY <1>2, <1>6 DEF IsChain

-----------------------------------------------------------------------------

Moments == 0 .. MaxTime

LEMMA ReadableType ==
    ASSUME NEW s \in [Keys -> Page \cup {NoVal}], NEW k \in Keys
    PROVE  Readable(s, k) \in Contents \cup {NoVal}
  <1>1. s[k] # NoVal => s[k].content \in Contents
    BY DEF Page
  <1> QED
    BY <1>1 DEF Readable

LEMMA LiveType ==
    ASSUME TypeOK, NEW s \in [Keys -> Page \cup {NoVal}]
    PROVE  LiveAfter(s) \subseteq [key : Keys, content : Contents, at : Moments]
  <1> DEFINE seen == {x \in {<<k, Readable(pages, k)>> : k \in Keys}
                            \cup {<<k, Readable(s, k)>> : k \in Keys} : x[2] # NoVal}
  <1>1. pages \in [Keys -> Page \cup {NoVal}] /\ now \in Moments
        /\ live \subseteq [key : Keys, content : Contents, at : Moments]
    BY DEF TypeOK, Moments
  <1>2. \A x \in seen : x[1] \in Keys /\ x[2] \in Contents
    BY <1>1, ReadableType
  <1>3. LiveAfter(s) = {l \in live : <<l.key, l.content>> \notin seen
                                     /\ l.at >= now - CACHE_STALE_TTL}
                       \cup {[key |-> x[1], content |-> x[2], at |-> now] : x \in seen}
    BY DEF LiveAfter
  <1> HIDE DEF seen
  <1> QED
    BY <1>1, <1>2, <1>3

LEMMA PromotedType ==
    ASSUME TypeOK, NEW v \in Versions
    PROVE  Promoted(v) \in [Keys -> Page \cup {NoVal}]
  <1>1. \A k \in Keys : k[1] \in Pages
    BY DEF Keys
  <1>2. \A p \in Pages : drafts[p] # NoVal =>
            [content |-> drafts[p].content, archived |-> FALSE] \in Page
    BY DEF TypeOK, Draft, Page
  <1> QED
    BY <1>1, <1>2 DEF Promoted, TypeOK

\* Each handler leaves the store, the cache and the history with their types.
LEMMA TypeStep ==
    ASSUME TypeOK, [Next]_vars PROVE TypeOK'
  <1> USE PublishingAssumption
  <1>a. EmptyCache \in [Keys -> [content : Contents, ts : Moments] \cup {NoVal}]
    BY DEF EmptyCache
  <1>1. ASSUME NEW p \in Pages, NEW content \in Contents, PutDraft(p, content)
        PROVE  TypeOK'
    <2>1. [content |-> content, status |-> "draft"] \in Draft
      BY DEF Draft
    <2> QED
      BY <1>1, <1>a, <2>1 DEF PutDraft, TypeOK, Moments
  <1>2. ASSUME NEW p \in Pages, NEW status \in {"in_review", "approved"}, Review(p, status)
        PROVE  TypeOK'
    <2>1. [drafts[p] EXCEPT !.status = status] \in Draft
      BY <1>2 DEF Review, TypeOK, Draft
    <2> QED
      BY <1>2, <2>1 DEF Review, TypeOK
  <1>3. ASSUME NEW v \in Versions, NEW expected \in Optional(Versions), NEW fits \in BOOLEAN,
               PublishVersion(v, expected, fits)
        PROVE  TypeOK'
    <2>1. /\ pages' \in [Keys -> Page \cup {NoVal}]
          /\ live' \subseteq [key : Keys, content : Contents, at : Moments]
      BY <1>3, PromotedType, LiveType DEF PublishVersion
    <2>2. /\ active' \in Versions \cup {NoVal} /\ behind' \in BOOLEAN
          /\ cache' \in [Keys -> [content : Contents, ts : Moments] \cup {NoVal}]
      BY <1>3, <1>a DEF PublishVersion, TypeOK, Moments
    <2> QED
      BY <1>3, <2>1, <2>2 DEF PublishVersion, TypeOK, Moments
  <1>4. ASSUME NEW p \in Pages, NEW version \in Optional(Versions), ArchivePage(p, version)
        PROVE  TypeOK'
    <2> DEFINE v == IF version = NoVal THEN active ELSE version
               s == IF v = NoVal THEN pages
                    ELSE IF pages[<<p, v>>] = NoVal THEN pages
                    ELSE [pages EXCEPT ![<<p, v>>].archived = TRUE]
    <2>1. s \in [Keys -> Page \cup {NoVal}]
      <3>1. v # NoVal => <<p, v>> \in Keys
        BY DEF TypeOK, Keys, Optional
      <3>2. CASE v # NoVal /\ pages[<<p, v>>] # NoVal
        <4>1. pages[<<p, v>>] \in Page /\ <<p, v>> \in Keys
          BY <3>1, <3>2 DEF TypeOK
        <4>2. [pages[<<p, v>>] EXCEPT !.archived = TRUE] \in Page
          BY <4>1 DEF Page
        <4> HIDE DEF v
        <4> QED
          BY <3>2, <4>1, <4>2 DEF TypeOK
      <3> QED
        BY <3>2 DEF TypeOK
    <2>2. pages' = s /\ live' = LiveAfter(s)
      BY <1>4 DEF ArchivePage
    <2> HIDE DEF s
    <2>3. live' \subseteq [key : Keys, content : Contents, at : Moments]
      BY <2>1, <2>2, LiveType
    <2> QED
      BY <1>4, <1>a, <2>1, <2>2, <2>3 DEF ArchivePage, TypeOK, Moments
  <1>5. ASSUME NEW p \in Pages, NEW v \in Versions, NEW publishAt \in Optional(Times),
               NEW expireAt \in Optional(Times), SchedulePublish(p, v, publishAt, expireAt)
        PROVE  TypeOK'
    <2>1. PICK id \in Ids :
              /\ schedule' = Append(schedule,
                    [id |-> id, pageId |-> p, version |-> v, publishAt |-> publishAt,
                     expireAt |-> expireAt, status |-> "pending", retryCount |-> 0])
              /\ fate' = [fate EXCEPT ![id] = "scheduled"]
      BY <1>5 DEF SchedulePublish
    <2> DEFINE e == [id |-> id, pageId |-> p, version |-> v, publishAt |-> publishAt,
                     expireAt |-> expireAt, status |-> "pending", retryCount |-> 0]
    <2>2. e \in Entry /\ e.retryCount < MAX_PUBLISH_RETRY
      BY DEF Entry, Optional
    <2>3. schedule' = Append(schedule, e)
      BY <2>1
    <2> HIDE DEF e
    <2>4. schedule' \in Seq(Entry) /\ TriesLeft(schedule')
      BY <2>2, <2>3, AppendTried DEF TypeOK, TriesLeft
    <2> QED
      BY <1>5, <2>1, <2>4 DEF SchedulePublish, TypeOK, TriesLeft
  <1>6. CASE RunPublishScheduler
    <2>1. PICK run : /\ run = Pass
                     /\ drafts' = run.drafts /\ pages' = run.pages /\ active' = run.active
                     /\ schedule' = run.pending /\ logSize' = CutLog(run.log)
                     /\ fate' = [i \in Ids |-> IF i \in Dropped(run) THEN "dropped"
                                               ELSE run.fate[i]]
                     /\ live' = LiveAfter(run.pages)
                     /\ behind' = (behind \/ run.pages # pages)
                     /\ served' = NoVal /\ UNCHANGED <<now, cache>>
      BY <1>6 DEF RunPublishScheduler
    <2>2. Typed(run)
      BY <2>1, PassTyped
    <2>3. logSize' \in 0 .. PUBLISH_LOG_LIMIT
      BY <2>1, <2>2 DEF CutLog, Typed
    <2>4. fate' \in [Ids -> Fates]
      BY <2>1, <2>2 DEF Typed, Fates
    <2>5. live' \subseteq [key : Keys, content : Contents, at : Moments]
      BY <2>1, <2>2, LiveType DEF Typed
    <2>6. /\ schedule' \in Seq(Entry) /\ TriesLeft(schedule')
          /\ drafts' \in [Pages -> Draft \cup {NoVal}]
          /\ pages' \in [Keys -> Page \cup {NoVal}] /\ active' \in Versions \cup {NoVal}
      BY <2>1, <2>2 DEF Typed
    <2>7. behind' \in BOOLEAN
      BY <2>1
    <2> QED
      BY <2>1, <2>3, <2>4, <2>5, <2>6, <2>7 DEF TypeOK, Moments, TriesLeft, Fates
  <1>7. ASSUME NEW p \in Pages, NEW version \in Optional(Versions), GetPage(p, version)
        PROVE  TypeOK'
    <2> DEFINE v == IF version = NoVal THEN active ELSE version
               k == <<p, v>>
               found == Readable(pages, k)
    <2>1. k \in Keys
      BY <1>7 DEF GetPage, Keys
    <2>2. found \in Contents \cup {NoVal}
      BY <2>1, ReadableType DEF TypeOK
    <2>3. cache[k] # NoVal => cache[k].content \in Contents
      BY <2>1 DEF TypeOK
    <2>4. \/ served' = [key |-> k, content |-> cache[k].content] /\ cache' = cache
             /\ cache[k] # NoVal
          \/ /\ served' = [key |-> k, content |-> found]
             /\ cache' = [cache EXCEPT ![k] =
                   IF found = NoVal THEN NoVal ELSE [content |-> found, ts |-> now]]
      BY <1>7 DEF GetPage, CacheHit
    <2> HIDE DEF k, found
    <2>5. served' \in [key : Keys, content : Contents \cup {NoVal}] \cup {NoVal}
      BY <2>1, <2>2, <2>3, <2>4
    <2>6. cache' \in [Keys -> [content : Contents, ts : Moments] \cup {NoVal}]
      BY <2>1, <2>2, <2>4 DEF TypeOK, Moments
    <2> QED
      BY <1>7, <2>5, <2>6 DEF GetPage, TypeOK, Moments
  <1>8. CASE Tick
    <2>1. live' \subseteq [key : Keys, content : Contents, at : Moments]
      BY <1>8, LiveType DEF Tick, TypeOK
    <2>2. now' \in Moments
      BY <1>8 DEF Tick, TypeOK, Moments
    <2> QED
      BY <1>8, <2>1, <2>2 DEF Tick, TypeOK, Moments
  <1>9. CASE UNCHANGED vars
    BY <1>9 DEF vars, TypeOK
  <1> QED
    BY <1>1, <1>2, <1>3, <1>4, <1>5, <1>6, <1>7, <1>8, <1>9
       DEF Next, RequestPublish, ApprovePublish

\* Drafts, pages, schedule, cache and histories keep their types; whatever is
\* scheduled and however often the scheduler runs (RunPublishScheduler), an entry
\* that still waits has been tried less than MAX_PUBLISH_RETRY times, and the
\* publish log is within PUBLISH_LOG_LIMIT.
THEOREM TypeCorrect == Spec => []TypeOK
  <1>1. Init => TypeOK
    <2> SUFFICES ASSUME Init PROVE TypeOK
      OBVIOUS
    <2>1. now \in 0 .. MaxTime /\ logSize \in 0 .. PUBLISH_LOG_LIMIT
      <3>1. MaxTime \in Nat /\ PUBLISH_LOG_LIMIT \in Nat
        BY PublishingAssumption
      <3> QED
        BY <3>1 DEF Init
    <2>2. live = {} /\ behind \in BOOLEAN
      BY DEF Init
    <2>3. /\ schedule \in Seq(Entry)
          /\ \A j \in DOMAIN schedule :
                schedule[j].status = "pending" => schedule[j].retryCount < MAX_PUBLISH_RETRY
      <3>1. schedule = <<>>
        BY DEF Init
      <3> QED
        BY <3>1
    <2>4. /\ drafts \in [Pages -> Draft \cup {NoVal}]
          /\ pages \in [Keys -> Page \cup {NoVal}]
          /\ cache \in [Keys -> [content : Contents, ts : 0 .. MaxTime] \cup {NoVal}]
      BY DEF Init, EmptyCache
    <2>5. /\ active \in Versions \cup {NoVal}
          /\ served \in [key : Keys, content : Contents \cup {NoVal}] \cup {NoVal}
          /\ fate \in [Ids -> {"none", "scheduled", "published", "failed", "expired",
                                "dropped"}]
      BY DEF Init
    <2> QED
      BY <2>1, <2>2, <2>3, <2>4, <2>5 DEF TypeOK
  <1>2. TypeOK /\ [Next]_vars => TypeOK'
    BY TypeStep
  <1> QED
    BY <1>1, <1>2, PTL DEF Spec

=============================================================================
