-------------------------- MODULE RequestGateProofs --------------------------
(***************************************************************************)
(* For any stores, limits and clocks: when the Request-Id registry         *)
(* and the nonce store remember at least as long as a timestamp stays      *)
(* fresh, a signed message runs twice only if its last run excuses it; the *)
(* stores keep to their limits; and a nonce stays bound to the Request-Id  *)
(* that took it until its time is over or the store loses its entry.       *)
(***************************************************************************)
EXTENDS RequestGate, FiniteSetTheorems, TLAPS

\* History entries are never in the future.
InPast == (\A d \in done : d.at <= now) /\ (\A l \in lost : l.at <= now)

\* After a run with a Request-Id that did not throw, the registry remembers it,
\* or the time to remember is over, or the entry was lost.
Remembered ==
    \A d \in done : d.msg.rid \in Rids /\ ~d.threw =>
        \/ LostSince(KeyOf(d.msg), d.at)
        \/ now > d.at + IDEM_TTL
        \/ \E e \in idem : e.id = KeyOf(d.msg) /\ e.exp >= d.at + IDEM_TTL

\* The registry holds one entry per key.
IdemUnique == \A f, g \in idem : f.id = g.id => f = g

IInv == TypeOK /\ InPast /\ IdemUnique /\ Remembered

\* Pruning only removes entries, the expired ones always.
LEMMA PruneSubset ==
    ASSUME NEW store, NEW max, NEW p \in Prunes(store, max)
    PROVE  p \subseteq Live(store) /\ p \subseteq store
  BY DEF Prunes, Live

\* A step that records losses keeps the older ones.
LEMMA LosingKeeps ==
    ASSUME TypeOK, InPast, NEW new, \A k \in new : k.at = now,
           lost' = Losing(new), NEW id, NEW t \in Nat, t <= now, LostSince(id, t)
    PROVE  LostSince(id, t)'
  <1>1. PICK l \in lost : l.id = id /\ l.at >= t
    BY DEF LostSince
  <1>2. CASE \A k \in new : k.id # l.id
    BY <1>1, <1>2 DEF Losing, LostSince
  <1>3. CASE \E k \in new : k.id = l.id
    <2>1. PICK k \in new : k.id = l.id
      BY <1>3
    <2>2. k \in lost' /\ k.at >= t
      BY <2>1 DEF Losing, TypeOK
    <2> QED
      BY <1>1, <2>1, <2>2 DEF LostSince
  <1> QED
    BY <1>2, <1>3

\* A step that records losses records each of them.
LEMMA LosingAdds ==
    ASSUME TypeOK, NEW new, lost' = Losing(new), NEW k \in new, k.at = now,
           NEW t \in Nat, t <= now
    PROVE  LostSince(k.id, t)'
  <1>1. k \in lost' /\ k.at >= t
    BY DEF Losing, TypeOK
  <1> QED
    BY <1>1 DEF LostSince

\* What Drops collects carries the current time.
LEMMA DropsNow ==
    ASSUME NEW before, NEW after, NEW k \in Drops(before, after)
    PROVE  k.at = now /\ \E e \in before : k = [id |-> e.id, at |-> now]
  BY DEF Drops, Live

\* A live entry that does not survive is dropped.
LEMMA DropsAll ==
    ASSUME NEW before, NEW after, NEW e \in before, e.exp >= now,
           \A g \in after : g.id # e.id
    PROVE  [id |-> e.id, at |-> now] \in Drops(before, after)
  BY DEF Drops, Live

\* The same for the nonces.
LEMMA NonceDropsNow ==
    ASSUME NEW n \in Nonces, NEW rid \in AnyRid, NEW r, TypeOK,
           NEW k \in NonceDrops(n, rid, r)
    PROVE  k.at = now /\ k.id \in Nonces
  <1>1. NonceEntry(n, rid).id = n
    BY DEF NonceEntry
  <1>2. PICK e \in nonces \cup {NonceEntry(n, rid)} : k = [id |-> e.id, at |-> now]
    BY DropsNow DEF NonceDrops
  <1> QED
    BY <1>1, <1>2 DEF TypeOK

\* The results of Require_nonce are stores of nonces.
LEMMA NonceTypes ==
    ASSUME TypeOK, NEW n \in Nonces, NEW rid \in AnyRid, NEW r \in RequireNonce(n, rid)
    PROVE  /\ r.store \subseteq [id : Nonces, rid : AnyRid, exp : Nat]
           /\ r.db \subseteq [id : Nonces, rid : AnyRid, exp : Nat]
  <1> DEFINE Entry == [id : Nonces, rid : AnyRid, exp : Nat]
  <1>1. NonceEntry(n, rid) \in Entry
    BY GateAssumption DEF NonceEntry, TypeOK
  <1>2. PICK pruned \in Prunes(nonces, NONCE_MAX) :
          \/ r.store = pruned /\ r.db = ndb
          \/ /\ r.store \in Prunes({e \in pruned : e.id # n} \cup {NonceEntry(n, rid)},
                                   NONCE_MAX)
             /\ \/ r.db = ndb
                \/ r.db = {e \in Live(ndb) : e.id # n} \cup {NonceEntry(n, rid)}
    <2>1. PICK pruned \in Prunes(nonces, NONCE_MAX) : r \in NonceResults(pruned, n, rid)
      BY DEF RequireNonce
    <2>2. CASE Known(pruned, n) # {}
      BY <2>1, <2>2 DEF NonceResults
    <2>3. CASE Known(pruned, n) = {}
      BY <2>1, <2>3 DEF NonceResults
    <2> QED
      BY <2>2, <2>3
  <1>3. pruned \subseteq Entry
    BY PruneSubset DEF TypeOK
  <1>4. r.store \subseteq Entry
    BY <1>1, <1>2, <1>3, PruneSubset
  <1>5. r.db \subseteq Entry
    BY <1>1, <1>2 DEF TypeOK, Live
  <1> QED
    BY <1>4, <1>5

\* The response to m is recorded.
Noted(m, x) == m.rid \in Rids /\ x.verdict = "executed"

\* What a lookup followed by a run leaves in the registry.
LEMMA ExecutionShape ==
    ASSUME TypeOK, NEW m \in Message, NEW x \in Executions(m)
    PROVE  /\ x.looked \in Prunes(idem, IDEM_MAX) \/ x.looked = idem
           /\ x.verdict \in {"executed", "threw", "replayed"}
           /\ m.rid \notin Rids => x.verdict # "replayed"
           /\ m.rid \in Rids /\ x.verdict # "replayed" => \A e \in x.looked : e.id # KeyOf(m)
           /\ ~Noted(m, x) => x.left = x.looked
           /\ Noted(m, x) => \E kept \in Prunes(x.looked, IDEM_MAX) :
                                x.left = {e \in kept : e.id # KeyOf(m)}
                                         \cup {[id |-> KeyOf(m), exp |-> now + IDEM_TTL]}
           /\ Noted(m, x) => x.looked \in Prunes(idem, IDEM_MAX)
           /\ x.left \subseteq [id : IdemKey, exp : Nat]
           /\ x.looked \subseteq [id : IdemKey, exp : Nat]
  <1>1. CASE m.rid \notin Rids
    <2>1. PICK v \in {"executed", "threw"} :
             x = [looked |-> idem, left |-> idem, verdict |-> v]
      BY <1>1 DEF Executions
    <2> QED
      BY <1>1, <2>1 DEF Noted, TypeOK
  <1>2. CASE m.rid \in Rids
    <2>1. PICK pruned \in Prunes(idem, IDEM_MAX) : x \in Lookup(pruned, m)
      BY <1>2 DEF Executions
    <2>2. pruned \subseteq [id : IdemKey, exp : Nat]
      BY PruneSubset DEF TypeOK
    <2>3. [id |-> KeyOf(m), exp |-> now + IDEM_TTL] \in [id : IdemKey, exp : Nat]
      BY <1>2, GateAssumption DEF KeyOf, IdemKey, Message, TypeOK
    <2>4. CASE x = [looked |-> pruned, left |-> pruned, verdict |-> "replayed"]
      BY <1>2, <2>1, <2>2, <2>4 DEF Noted
    <2>5. CASE /\ x = [looked |-> pruned, left |-> pruned, verdict |-> "threw"]
               /\ \A e \in pruned : e.id # KeyOf(m)
      BY <1>2, <2>1, <2>2, <2>5 DEF Noted
    <2>6. ASSUME NEW left \in Recorded(pruned, KeyOf(m)),
                 x = [looked |-> pruned, left |-> left, verdict |-> "executed"],
                 \A e \in pruned : e.id # KeyOf(m)
          PROVE  /\ x.left \subseteq [id : IdemKey, exp : Nat]
                 /\ \E kept \in Prunes(x.looked, IDEM_MAX) :
                      x.left = {e \in kept : e.id # KeyOf(m)}
                               \cup {[id |-> KeyOf(m), exp |-> now + IDEM_TTL]}
      <3>1. PICK kept \in Prunes(pruned, IDEM_MAX) :
               left = {e \in kept : e.id # KeyOf(m)}
                      \cup {[id |-> KeyOf(m), exp |-> now + IDEM_TTL]}
        BY DEF Recorded
      <3>2. left \subseteq [id : IdemKey, exp : Nat]
        BY <2>2, <2>3, <3>1, PruneSubset
      <3> QED
        BY <2>6, <3>1, <3>2
    <2>7. \/ x = [looked |-> pruned, left |-> pruned, verdict |-> "replayed"]
          \/ /\ \A e \in pruned : e.id # KeyOf(m)
             /\ \/ x = [looked |-> pruned, left |-> pruned, verdict |-> "threw"]
                \/ \E left \in Recorded(pruned, KeyOf(m)) :
                     x = [looked |-> pruned, left |-> left, verdict |-> "executed"]
      BY <2>1 DEF Lookup, Runs
    <2>8. CASE /\ \A e \in pruned : e.id # KeyOf(m)
               /\ \E left \in Recorded(pruned, KeyOf(m)) :
                     x = [looked |-> pruned, left |-> left, verdict |-> "executed"]
      <3>1. x.looked = pruned /\ x.verdict = "executed"
        BY <2>8
      <3> QED
        BY <1>2, <2>1, <2>2, <2>6, <2>8, <3>1 DEF Noted
    <2> QED
      BY <2>4, <2>5, <2>7, <2>8
  <1> QED
    BY <1>1, <1>2

\* The nonce part of a step keeps the types of what it writes.
LEMMA NonceStepTypes ==
    ASSUME TypeOK, NEW n \in Nonces, NEW rid \in AnyRid,
           NEW r \in RequireNonce(n, rid), NonceStep(n, rid, r)
    PROVE  /\ nonces' \subseteq [id : Nonces, rid : AnyRid, exp : Nat]
           /\ ndb' \subseteq [id : Nonces, rid : AnyRid, exp : Nat]
           /\ claims' \subseteq [id : Nonces, rid : AnyRid, at : Nat]
  <1>1. claims' \subseteq claims \cup {[id |-> n, rid |-> rid, at |-> now]}
    BY DEF NonceStep
  <1> QED
    BY <1>1, NonceTypes DEF NonceStep, TypeOK

\* Losses keep their type.
LEMMA LosingType ==
    ASSUME TypeOK, NEW new, new \subseteq [id : Nonces \cup IdemKey, at : Nat],
           lost' = Losing(new)
    PROVE  lost' \subseteq [id : Nonces \cup IdemKey, at : Nat]
  BY DEF Losing, TypeOK

LEMMA DropsType ==
    ASSUME TypeOK, NEW S, NEW before, NEW after,
           \A e \in before : e.id \in S
    PROVE  Drops(before, after) \subseteq [id : S, at : Nat]
  BY DEF Drops, Live, TypeOK

LEMMA NonceDropsType ==
    ASSUME TypeOK, NEW n \in Nonces, NEW rid \in AnyRid, NEW r
    PROVE  /\ NonceDrops(n, rid, r) \subseteq [id : Nonces \cup IdemKey, at : Nat]
           /\ \A k \in NonceDrops(n, rid, r) : k.at = now
  <1>1. \A e \in nonces \cup (IF r.taken THEN {NonceEntry(n, rid)} ELSE {}) :
           e.id \in Nonces \cup IdemKey
    BY DEF NonceEntry, TypeOK
  <1>2. NonceDrops(n, rid, r) \subseteq [id : Nonces \cup IdemKey, at : Nat]
    BY <1>1, DropsType DEF NonceDrops
  <1> QED
    BY <1>2, NonceDropsNow

\* A step that executes m: what happens to the registry and the histories.
Executed(m, x, dn) ==
    /\ idem' = x.left
    /\ done' = Ran(m, x.verdict)
    /\ lost' = Losing(dn \cup Drops(idem, x.looked) \cup Drops(x.looked, x.left))
    /\ now' = now

\* The losses of an execution.
LEMMA ExecutedLosses ==
    ASSUME TypeOK, NEW m \in Message, NEW x \in Executions(m), NEW dn,
           dn \subseteq [id : Nonces \cup IdemKey, at : Nat], \A k \in dn : k.at = now
    PROVE  LET new == dn \cup Drops(idem, x.looked) \cup Drops(x.looked, x.left) IN
           /\ new \subseteq [id : Nonces \cup IdemKey, at : Nat]
           /\ \A k \in new : k.at = now
  <1>1. \A e \in idem : e.id \in Nonces \cup IdemKey
    BY DEF TypeOK
  <1>2. \A e \in x.looked : e.id \in Nonces \cup IdemKey
    BY ExecutionShape
  <1> QED
    BY <1>1, <1>2, DropsType, DropsNow

\* An entry that outlives now is still there after an execution, or is lost.
LEMMA KeptOrLost ==
    ASSUME TypeOK, InPast, NEW m \in Message, NEW x \in Executions(m), NEW dn,
           dn \subseteq [id : Nonces \cup IdemKey, at : Nat], \A k \in dn : k.at = now,
           Executed(m, x, dn), NEW e \in idem, e.exp >= now, NEW t \in Nat, t <= now,
           Noted(m, x) => e.id # KeyOf(m), e \notin idem',
           \A f, g \in idem : f.id = g.id => f = g
    PROVE  LostSince(e.id, t)'
  <1> DEFINE new == dn \cup Drops(idem, x.looked) \cup Drops(x.looked, x.left)
             k == [id |-> e.id, at |-> now]
  <1>1. x.looked \subseteq idem
    BY ExecutionShape, PruneSubset
  <1>2. CASE \A g \in x.looked : g.id # e.id
    <2>1. k \in new
      BY <1>2, DropsAll
    <2> QED
      BY <2>1, LosingAdds DEF Executed
  <1>3. CASE \E g \in x.looked : g.id = e.id
    <2>1. e \in x.looked
      BY <1>1, <1>3
    <2>2. Noted(m, x)
      BY <2>1, ExecutionShape DEF Executed
    <2>3. PICK kept \in Prunes(x.looked, IDEM_MAX) :
            x.left = {f \in kept : f.id # KeyOf(m)}
                     \cup {[id |-> KeyOf(m), exp |-> now + IDEM_TTL]}
      BY <2>2, ExecutionShape
    <2>4. \A g \in x.left : g.id # e.id
      <3>1. kept \subseteq idem
        BY <1>1, <2>3, PruneSubset
      <3> QED
        BY <2>2, <2>3, <3>1 DEF Executed
    <2>5. k \in new
      BY <2>1, <2>4, DropsAll
    <2> QED
      BY <2>5, LosingAdds DEF Executed
  <1> QED
    BY <1>2, <1>3

\* The losses of a step never lie in the future.
LEMMA LosingInPast ==
    ASSUME TypeOK, InPast, NEW new, \A k \in new : k.at = now, lost' = Losing(new)
    PROVE  \A l \in lost' : l.at <= now
  BY DEF Losing, InPast, TypeOK

\* An execution keeps what it finds remembered, and its own run.
LEMMA ExecuteStep ==
    ASSUME IInv, NEW m \in Message, NEW x \in Executions(m), NEW dn,
           dn \subseteq [id : Nonces \cup IdemKey, at : Nat], \A k \in dn : k.at = now,
           Executed(m, x, dn)
    PROVE  /\ idem' \subseteq [id : IdemKey, exp : Nat]
           /\ done' \subseteq [msg : Message, at : Nat, threw : BOOLEAN]
           /\ lost' \subseteq [id : Nonces \cup IdemKey, at : Nat]
           /\ InPast' /\ IdemUnique' /\ Remembered'
  <1> DEFINE new == dn \cup Drops(idem, x.looked) \cup Drops(x.looked, x.left)
             entry == [id |-> KeyOf(m), exp |-> now + IDEM_TTL]
  <1>0. TypeOK /\ InPast /\ IdemUnique /\ Remembered /\ now \in Nat /\ IDEM_TTL \in Nat
    BY GateAssumption DEF IInv, TypeOK
  <1>1. new \subseteq [id : Nonces \cup IdemKey, at : Nat] /\ \A k \in new : k.at = now
    BY <1>0, ExecutedLosses
  <1>2. lost' = Losing(new) /\ now' = now /\ idem' = x.left
    BY DEF Executed
  <1>3. idem' \subseteq [id : IdemKey, exp : Nat]
    BY <1>0, <1>2, ExecutionShape
  <1>4. done' \subseteq [msg : Message, at : Nat, threw : BOOLEAN]
    <2>1. [msg |-> m, at |-> now, threw |-> x.verdict = "threw"]
            \in [msg : Message, at : Nat, threw : BOOLEAN]
      <3>1. (x.verdict = "threw") \in BOOLEAN
        OBVIOUS
      <3> QED
        BY <1>0, <3>1
    <2> QED
      BY <1>0, <2>1 DEF Executed, Ran, TypeOK
  <1>5. lost' \subseteq [id : Nonces \cup IdemKey, at : Nat]
    BY <1>0, <1>1, <1>2, LosingType
  <1>6. InPast'
    <2>1. \A l \in lost' : l.at <= now'
      BY <1>0, <1>1, <1>2, LosingInPast
    <2>2. \A d \in done' : d.at <= now'
      BY <1>0, <1>2 DEF Executed, Ran, InPast
    <2> QED
      BY <2>1, <2>2 DEF InPast
  <1>7. IdemUnique'
    <2>1. x.looked \subseteq idem
      BY <1>0, ExecutionShape, PruneSubset
    <2>2. CASE ~Noted(m, x)
      BY <1>0, <1>2, <2>1, <2>2, ExecutionShape DEF IdemUnique
    <2>3. CASE Noted(m, x)
      <3>1. PICK kept \in Prunes(x.looked, IDEM_MAX) :
               x.left = {f \in kept : f.id # KeyOf(m)} \cup {entry}
        BY <1>0, <2>3, ExecutionShape
      <3>2. kept \subseteq idem
        BY <2>1, <3>1, PruneSubset
      <3> QED
        BY <1>0, <1>2, <3>1, <3>2 DEF IdemUnique
    <2> QED
      BY <2>2, <2>3
  <1>8. Noted(m, x) => entry \in idem'
    BY <1>0, <1>2, ExecutionShape
  <1>9. ASSUME NEW d \in done', d.msg.rid \in Rids, ~d.threw
        PROVE  \/ LostSince(KeyOf(d.msg), d.at)'
               \/ now' > d.at + IDEM_TTL
               \/ \E e \in idem' : e.id = KeyOf(d.msg) /\ e.exp >= d.at + IDEM_TTL
    <2>1. CASE d \in done
      <3>0. d.at \in Nat /\ d.at <= now
        BY <1>0, <2>1 DEF TypeOK, InPast
      <3>1. CASE LostSince(KeyOf(d.msg), d.at)
        BY <1>0, <1>1, <1>2, <3>0, <3>1, LosingKeeps
      <3>2. CASE now > d.at + IDEM_TTL
        BY <1>2, <3>2
      <3>3. ASSUME NEW e \in idem, e.id = KeyOf(d.msg), e.exp >= d.at + IDEM_TTL,
                   ~(now > d.at + IDEM_TTL)
            PROVE  \/ LostSince(KeyOf(d.msg), d.at)'
                   \/ \E f \in idem' : f.id = KeyOf(d.msg) /\ f.exp >= d.at + IDEM_TTL
        <4>0. e.exp \in Nat /\ e.exp >= now
          BY <1>0, <3>0, <3>3 DEF TypeOK
        <4>1. CASE e \in idem'
          BY <3>3, <4>1
        <4>2. CASE Noted(m, x) /\ e.id = KeyOf(m)
          <5>1. entry.id = KeyOf(d.msg) /\ entry.exp >= d.at + IDEM_TTL
            BY <1>0, <3>0, <3>3, <4>2
          <5> QED
            BY <1>8, <4>2, <5>1
        <4>3. CASE e \notin idem' /\ ~(Noted(m, x) /\ e.id = KeyOf(m))
          BY <1>0, <3>0, <3>3, <4>0, <4>3, KeptOrLost DEF IdemUnique
        <4> QED
          BY <4>1, <4>2, <4>3
      <3> QED
        BY <1>0, <1>9, <2>1, <3>1, <3>2, <3>3 DEF Remembered
    <2>2. CASE d \notin done
      <3>0. x.verdict # "replayed"
            /\ d = [msg |-> m, at |-> now, threw |-> x.verdict = "threw"]
        BY <2>2 DEF Executed, Ran
      <3>1. Noted(m, x) /\ d.msg = m /\ d.at = now
        BY <1>0, <1>9, <3>0, ExecutionShape DEF Noted
      <3>2. entry.id = KeyOf(d.msg) /\ entry.exp >= d.at + IDEM_TTL
        BY <1>0, <3>1
      <3> QED
        BY <1>8, <3>1, <3>2
    <2> QED
      BY <2>1, <2>2
  <1>10. Remembered'
    BY <1>9 DEF Remembered
  <1> QED
    BY <1>3, <1>4, <1>5, <1>6, <1>7, <1>10

\* A step that leaves the registry and the executions alone keeps them
\* remembered, whatever nonces it drops.
LEMMA IdleStep ==
    ASSUME IInv, NEW dn, dn \subseteq [id : Nonces \cup IdemKey, at : Nat],
           \A k \in dn : k.at = now, lost' = Losing(dn), UNCHANGED <<now, idem, done>>
    PROVE  /\ lost' \subseteq [id : Nonces \cup IdemKey, at : Nat]
           /\ InPast' /\ IdemUnique' /\ Remembered'
  <1>0. TypeOK /\ InPast /\ IdemUnique /\ Remembered
    BY DEF IInv
  <1>1. lost' \subseteq [id : Nonces \cup IdemKey, at : Nat]
    BY <1>0, LosingType
  <1>2. InPast'
    <2>1. \A l \in lost' : l.at <= now
      BY <1>0, LosingInPast
    <2> QED
      BY <1>0, <2>1 DEF InPast
  <1>3. ASSUME NEW d \in done, d.msg.rid \in Rids, ~d.threw
        PROVE  \/ LostSince(KeyOf(d.msg), d.at)'
               \/ now' > d.at + IDEM_TTL
               \/ \E e \in idem' : e.id = KeyOf(d.msg) /\ e.exp >= d.at + IDEM_TTL
    <2>1. d.at \in Nat /\ d.at <= now
      BY <1>0 DEF TypeOK, InPast
    <2>2. CASE LostSince(KeyOf(d.msg), d.at)
      BY <1>0, <2>1, <2>2, LosingKeeps
    <2> QED
      BY <1>0, <1>3, <2>2 DEF Remembered
  <1>4. Remembered'
    BY <1>3 DEF Remembered
  <1> QED
    BY <1>0, <1>1, <1>2, <1>4 DEF IdemUnique

LEMMA InitInv ==
    ASSUME Init PROVE IInv
  BY DEF Init, IInv, TypeOK, InPast, IdemUnique, Remembered

\* A delivery keeps the invariant, whether it executes, replays or is refused.
LEMMA DeliverInv ==
    ASSUME IInv, NEW m \in sent, NEW passes \in BOOLEAN, Deliver(m, passes)
    PROVE  IInv'
  <1>0. TypeOK /\ m \in Message /\ m.nonce \in Nonces /\ m.rid \in AnyRid
    BY DEF IInv, TypeOK, Message
  <1>1. PICK r \in RequireNonce(m.nonce, m.rid) :
          /\ NonceStep(m.nonce, m.rid, r)
          /\ \/ \E x \in Executions(m) : Executed(m, x, NonceDrops(m.nonce, m.rid, r))
             \/ /\ lost' = Losing(NonceDrops(m.nonce, m.rid, r))
                /\ UNCHANGED <<idem, done>>
          /\ UNCHANGED <<now, sent>>
    BY DEF Deliver, Executed
  <1> DEFINE dn == NonceDrops(m.nonce, m.rid, r)
  <1>2. dn \subseteq [id : Nonces \cup IdemKey, at : Nat] /\ \A k \in dn : k.at = now
    BY <1>0, NonceDropsType
  <1>3. /\ nonces' \subseteq [id : Nonces, rid : AnyRid, exp : Nat]
        /\ ndb' \subseteq [id : Nonces, rid : AnyRid, exp : Nat]
        /\ claims' \subseteq [id : Nonces, rid : AnyRid, at : Nat]
    BY <1>0, <1>1, NonceStepTypes
  <1> HIDE DEF dn
  <1>4. CASE \E x \in Executions(m) : Executed(m, x, dn)
    <2>1. PICK x \in Executions(m) : Executed(m, x, dn)
      BY <1>4
    <2>2. /\ idem' \subseteq [id : IdemKey, exp : Nat]
          /\ done' \subseteq [msg : Message, at : Nat, threw : BOOLEAN]
          /\ lost' \subseteq [id : Nonces \cup IdemKey, at : Nat]
          /\ InPast' /\ IdemUnique' /\ Remembered'
      BY <1>0, <1>2, <2>1, ExecuteStep
    <2> QED
      BY <1>0, <1>1, <1>3, <2>2 DEF IInv, TypeOK
  <1>5. CASE lost' = Losing(dn) /\ UNCHANGED <<idem, done>>
    <2>1. /\ lost' \subseteq [id : Nonces \cup IdemKey, at : Nat]
          /\ InPast' /\ IdemUnique' /\ Remembered'
      BY <1>1, <1>2, <1>5, IdleStep
    <2> QED
      BY <1>0, <1>1, <1>3, <1>5, <2>1 DEF IInv, TypeOK
  <1> QED
    BY <1>1, <1>4, <1>5 DEF dn

LEMMA DeliverUnsignedInv ==
    ASSUME IInv, NEW n \in Nonces, NEW rid \in AnyRid, DeliverUnsigned(n, rid)
    PROVE  IInv'
  <1>0. TypeOK
    BY DEF IInv
  <1>1. PICK r \in RequireNonce(n, rid) :
          /\ NonceStep(n, rid, r)
          /\ lost' = Losing(NonceDrops(n, rid, r))
          /\ UNCHANGED <<now, sent, idem, done>>
    BY DEF DeliverUnsigned
  <1> DEFINE dn == NonceDrops(n, rid, r)
  <1>2. dn \subseteq [id : Nonces \cup IdemKey, at : Nat] /\ \A k \in dn : k.at = now
    BY <1>0, NonceDropsType
  <1>3. /\ nonces' \subseteq [id : Nonces, rid : AnyRid, exp : Nat]
        /\ ndb' \subseteq [id : Nonces, rid : AnyRid, exp : Nat]
        /\ claims' \subseteq [id : Nonces, rid : AnyRid, at : Nat]
    BY <1>0, <1>1, NonceStepTypes
  <1>4. /\ lost' \subseteq [id : Nonces \cup IdemKey, at : Nat]
        /\ InPast' /\ IdemUnique' /\ Remembered'
    BY <1>1, <1>2, IdleStep
  <1> QED
    BY <1>0, <1>1, <1>3, <1>4 DEF IInv, TypeOK

\* A restart empties the registry: the entries still live are lost.
LEMMA RestartInv ==
    ASSUME IInv, Restart
    PROVE  IInv'
  <1> DEFINE new == Drops(idem, {}) \cup (IF NONCE_SQLITE THEN {} ELSE Drops(nonces, {}))
  <1>0. TypeOK /\ InPast /\ Remembered /\ now \in Nat /\ IDEM_TTL \in Nat
    BY GateAssumption DEF IInv, TypeOK
  <1>1. /\ \A e \in idem : e.id \in Nonces \cup IdemKey
        /\ \A e \in nonces : e.id \in Nonces \cup IdemKey
    BY <1>0 DEF TypeOK
  <1>2. new \subseteq [id : Nonces \cup IdemKey, at : Nat] /\ \A k \in new : k.at = now
    BY <1>0, <1>1, DropsType, DropsNow
  <1>3. /\ lost' = Losing(new) /\ nonces' = {} /\ idem' = {}
        /\ UNCHANGED <<now, sent, ndb, done, claims>>
    BY DEF Restart
  <1>4. lost' \subseteq [id : Nonces \cup IdemKey, at : Nat]
    BY <1>0, <1>2, <1>3, LosingType
  <1>5. InPast'
    <2>1. \A l \in lost' : l.at <= now
      BY <1>0, <1>2, <1>3, LosingInPast
    <2> QED
      BY <1>0, <1>3, <2>1 DEF InPast
  <1>6. ASSUME NEW d \in done, d.msg.rid \in Rids, ~d.threw
        PROVE  LostSince(KeyOf(d.msg), d.at)' \/ now' > d.at + IDEM_TTL
    <2>1. d.at \in Nat /\ d.at <= now
      BY <1>0 DEF TypeOK, InPast
    <2>2. CASE LostSince(KeyOf(d.msg), d.at)
      BY <1>0, <1>2, <1>3, <2>1, <2>2, LosingKeeps
    <2>3. CASE now > d.at + IDEM_TTL
      BY <1>3, <2>3
    <2>4. ASSUME NEW e \in idem, e.id = KeyOf(d.msg), e.exp >= d.at + IDEM_TTL,
                 ~(now > d.at + IDEM_TTL)
          PROVE  LostSince(KeyOf(d.msg), d.at)'
      <3> DEFINE k == [id |-> e.id, at |-> now]
      <3>1. e.exp >= now
        BY <1>0, <2>1, <2>4 DEF TypeOK
      <3>2. k \in new
        BY <3>1, DropsAll
      <3>3. k.at = now /\ k.id = KeyOf(d.msg)
        BY <2>4
      <3> HIDE DEF k, new
      <3> QED
        BY <1>0, <1>3, <2>1, <3>2, <3>3, LosingAdds
    <2> QED
      BY <1>0, <1>6, <2>2, <2>3, <2>4 DEF Remembered
  <1>7. Remembered'
    BY <1>3, <1>6 DEF Remembered
  <1> QED
    BY <1>0, <1>3, <1>4, <1>5, <1>7 DEF IInv, TypeOK, IdemUnique

\* Signing and the clock touch neither the registry nor the histories.
LEMMA QuietInv ==
    ASSUME IInv, UNCHANGED <<nonces, ndb, idem, done, claims, lost>>,
           now' \in Nat, now' >= now, sent' \subseteq Message
    PROVE  IInv'
  <1>0. TypeOK /\ InPast /\ IdemUnique /\ Remembered /\ now \in Nat /\ IDEM_TTL \in Nat
    BY GateAssumption DEF IInv, TypeOK
  <1>1. TypeOK'
    BY <1>0 DEF TypeOK
  <1>2. InPast'
    BY <1>0 DEF InPast, TypeOK
  <1>3. IdemUnique'
    BY <1>0 DEF IdemUnique
  <1>4. Remembered'
    BY <1>0 DEF Remembered, LostSince, TypeOK
  <1> QED
    BY <1>1, <1>2, <1>3, <1>4 DEF IInv

LEMMA NextInv ==
    ASSUME IInv, [Next]_vars PROVE IInv'
  <1>0. TypeOK /\ now \in Nat
    BY DEF IInv, TypeOK
  <1>1. CASE \E m \in sent, passes \in BOOLEAN : Deliver(m, passes)
    BY <1>1, DeliverInv
  <1>2. CASE \E n \in Nonces, rid \in AnyRid : DeliverUnsigned(n, rid)
    BY <1>2, DeliverUnsignedInv
  <1>3. ASSUME NEW n \in Nonces, NEW rid \in AnyRid, NEW scope \in Scopes,
               NEW skew \in Skews, Sign(n, rid, scope, skew)
        PROVE  IInv'
    <2>1. sent' \subseteq Message
      BY <1>0, <1>3, GateAssumption DEF Sign, Message, TypeOK
    <2> QED
      BY <1>0, <1>3, <2>1, QuietInv DEF Sign
  <1>4. CASE Tick
    BY <1>0, <1>4, QuietInv DEF Tick, TypeOK
  <1>5. CASE Restart
    BY <1>5, RestartInv
  <1>6. CASE UNCHANGED vars
    BY <1>0, <1>6, QuietInv DEF vars, TypeOK
  <1> QED
    BY <1>1, <1>2, <1>3, <1>4, <1>5, <1>6 DEF Next

LEMMA GateInvariant == Spec => []IInv
  BY InitInv, NextInv, PTL DEF Spec

\* The stores and histories keep their shapes, for any limits and clocks.
THEOREM TypeCorrect == Spec => []TypeOK
  BY GateInvariant, PTL DEF IInv

-----------------------------------------------------------------------------
(* The limits of the stores. *)

\* The stores are finite.
StoresFinite == IsFiniteSet(nonces) /\ IsFiniteSet(idem)

SizeInv == IInv /\ StoresFinite /\ StoresBounded

\* Pruning a store that exceeds its limit by at most one entry brings it back.
LEMMA PrunesBound ==
    ASSUME NEW store, IsFiniteSet(store), NEW max \in Nat, Cardinality(store) <= max + 1,
           NEW p \in Prunes(store, max)
    PROVE  IsFiniteSet(p) /\ Cardinality(p) <= max
  <1> DEFINE live == Live(store)
             first == {e \in live : \A f \in live : e.exp <= f.exp}
  <1>1. /\ IsFiniteSet(live) /\ Cardinality(live) \in Nat
        /\ Cardinality(live) <= Cardinality(store) /\ Cardinality(store) \in Nat
    BY FS_Subset, FS_CardinalityType DEF Live
  <1>2. CASE Cardinality(live) > max
    <2>1. PICK e \in first : p = live \ {e}
      BY <1>2 DEF Prunes
    <2>2. e \in live
      BY <2>1
    <2> HIDE DEF live
    <2>3. IsFiniteSet(p) /\ Cardinality(p) = Cardinality(live) - 1
      BY <1>1, <2>1, <2>2, FS_RemoveElement
    <2> QED
      BY <1>1, <2>3
  <1>3. CASE ~(Cardinality(live) > max)
    <2>1. p = live
      BY <1>3 DEF Prunes
    <2> QED
      BY <1>1, <1>3, <2>1
  <1> QED
    BY <1>2, <1>3

\* A store within its limit loses only what has expired.
LEMMA PrunesWithin ==
    ASSUME NEW store, IsFiniteSet(store), NEW max \in Nat, Cardinality(store) <= max,
           NEW p \in Prunes(store, max)
    PROVE  p = Live(store)
  <1>1. Cardinality(Live(store)) <= Cardinality(store) /\ Cardinality(Live(store)) \in Nat
        /\ Cardinality(store) \in Nat
    BY FS_Subset, FS_CardinalityType DEF Live
  <1>2. ~(Cardinality(Live(store)) > max)
    BY <1>1
  <1> QED
    BY <1>2 DEF Prunes

\* Putting in an entry in the place of those with its key.
LEMMA Replaced ==
    ASSUME NEW store, IsFiniteSet(store), NEW max \in Nat, Cardinality(store) <= max,
           \A e, f \in store : e.id = f.id => e = f, NEW x
    PROVE  LET after == {e \in store : e.id # x.id} \cup {x} IN
           /\ IsFiniteSet(after) /\ Cardinality(after) <= max + 1
           /\ \A e, f \in after : e.id = f.id => e = f
  <1> DEFINE kept == {e \in store : e.id # x.id}
  <1>1. IsFiniteSet(kept) /\ Cardinality(kept) \in Nat
        /\ Cardinality(kept) <= Cardinality(store) /\ Cardinality(store) \in Nat
    BY FS_Subset, FS_CardinalityType
  <1>2. \A e, f \in kept \cup {x} : e.id = f.id => e = f
    OBVIOUS
  <1> HIDE DEF kept
  <1>3. /\ IsFiniteSet(kept \cup {x})
        /\ Cardinality(kept \cup {x}) = IF x \in kept THEN Cardinality(kept)
                                        ELSE Cardinality(kept) + 1
    BY <1>1, FS_AddElement
  <1>4. Cardinality(kept \cup {x}) <= max + 1
    BY <1>1, <1>3
  <1> QED
    BY <1>2, <1>3, <1>4 DEF kept

\* The nonce store that Require_nonce leaves keeps to its limit.
LEMMA NonceBounded ==
    ASSUME TypeOK, StoresFinite, StoresBounded, NEW n \in Nonces, NEW rid \in AnyRid,
           NEW r \in RequireNonce(n, rid)
    PROVE  /\ IsFiniteSet(r.store) /\ Cardinality(r.store) <= NONCE_MAX
           /\ \A e, f \in r.store : e.id = f.id => e = f
  <1> DEFINE entry == NonceEntry(n, rid)
  <1>0. entry.id = n /\ NONCE_MAX \in Nat
    BY GateAssumption DEF NonceEntry
  <1>1. PICK pruned \in Prunes(nonces, NONCE_MAX) : r \in NonceResults(pruned, n, rid)
    BY DEF RequireNonce
  <1>2. IsFiniteSet(nonces) /\ Cardinality(nonces) \in Nat /\ Cardinality(nonces) <= NONCE_MAX
    BY FS_CardinalityType DEF StoresFinite, StoresBounded
  <1>3. IsFiniteSet(pruned) /\ Cardinality(pruned) <= NONCE_MAX
    <2>1. Cardinality(nonces) <= NONCE_MAX + 1
      BY <1>0, <1>2
    <2> QED
      BY <1>0, <1>2, <2>1, PrunesBound
  <1>4. \A e, f \in pruned : e.id = f.id => e = f
    BY PruneSubset DEF StoresBounded
  <1>5. CASE Known(pruned, n) # {}
    BY <1>1, <1>3, <1>4, <1>5 DEF NonceResults
  <1>6. CASE Known(pruned, n) = {}
    <2> DEFINE full == {e \in pruned : e.id # entry.id} \cup {entry}
    <2>1. r.store \in Prunes(full, NONCE_MAX)
      BY <1>0, <1>1, <1>6 DEF NonceResults
    <2>2. /\ IsFiniteSet(full) /\ Cardinality(full) <= NONCE_MAX + 1
          /\ \A e, f \in full : e.id = f.id => e = f
      <3> HIDE DEF entry
      <3> QED
        BY <1>0, <1>3, <1>4, Replaced
    <2> HIDE DEF full
    <2>3. IsFiniteSet(r.store) /\ Cardinality(r.store) <= NONCE_MAX
      BY <1>0, <2>1, <2>2, PrunesBound
    <2> QED
      BY <2>1, <2>2, <2>3, PruneSubset
  <1> QED
    BY <1>5, <1>6

\* The registry an execution leaves exceeds its limit by at most the new entry.
LEMMA IdemBounded ==
    ASSUME TypeOK, StoresFinite, StoresBounded, NEW m \in Message, NEW x \in Executions(m)
    PROVE  /\ IsFiniteSet(x.left) /\ Cardinality(x.left) <= IDEM_MAX + 1
           /\ \A e, f \in x.left : e.id = f.id => e = f
  <1> DEFINE entry == [id |-> KeyOf(m), exp |-> now + IDEM_TTL]
  <1>0. IDEM_MAX \in Nat
    BY GateAssumption
  <1>1. x.looked \in Prunes(idem, IDEM_MAX) \/ x.looked = idem
    BY ExecutionShape
  <1>2. x.looked \in Prunes(idem, IDEM_MAX)
        => IsFiniteSet(x.looked) /\ Cardinality(x.looked) <= IDEM_MAX
    BY <1>0, PrunesBound DEF StoresFinite, StoresBounded
  <1>3. IsFiniteSet(x.looked) /\ Cardinality(x.looked) \in Nat
    BY <1>1, <1>2, FS_CardinalityType DEF StoresFinite
  <1>4. Cardinality(x.looked) <= IDEM_MAX + 1
    BY <1>0, <1>1, <1>2, <1>3 DEF StoresBounded
  <1>5. \A e, f \in x.looked : e.id = f.id => e = f
    BY <1>1, PruneSubset DEF StoresBounded
  <1>6. CASE ~Noted(m, x)
    <2>1. x.left = x.looked
      BY <1>6, ExecutionShape
    <2> QED
      BY <1>3, <1>4, <1>5, <2>1
  <1>7. CASE Noted(m, x)
    <2>1. PICK kept \in Prunes(x.looked, IDEM_MAX) :
             x.left = {e \in kept : e.id # entry.id} \cup {entry}
      BY <1>7, ExecutionShape
    <2>2. IsFiniteSet(kept) /\ Cardinality(kept) <= IDEM_MAX
      BY <1>0, <1>3, <1>4, PrunesBound
    <2>3. \A e, f \in kept : e.id = f.id => e = f
      BY <1>5, PruneSubset
    <2> DEFINE after == {e \in kept : e.id # entry.id} \cup {entry}
    <2> HIDE DEF entry
    <2>4. /\ IsFiniteSet(after) /\ Cardinality(after) <= IDEM_MAX + 1
          /\ \A e, f \in after : e.id = f.id => e = f
      BY <1>0, <2>2, <2>3, Replaced
    <2>5. x.left = after
      BY <2>1
    <2> HIDE DEF after
    <2> QED
      BY <2>4, <2>5
  <1> QED
    BY <1>6, <1>7

LEMMA SizeInit ==
    ASSUME Init PROVE SizeInv
  <1>1. NONCE_MAX \in Nat /\ IDEM_MAX \in Nat
    BY GateAssumption
  <1> QED
    BY <1>1, InitInv, FS_EmptySet DEF Init, SizeInv, StoresFinite, StoresBounded

LEMMA SizeNext ==
    ASSUME SizeInv, [Next]_vars PROVE SizeInv'
  <1>0. TypeOK /\ StoresFinite /\ StoresBounded /\ NONCE_MAX \in Nat /\ IDEM_MAX \in Nat
    BY GateAssumption DEF SizeInv, IInv
  <1>1. IInv'
    BY NextInv DEF SizeInv
  <1>2. CASE UNCHANGED <<nonces, idem>>
    BY <1>0, <1>1, <1>2 DEF SizeInv, StoresFinite, StoresBounded
  <1>3. ASSUME NEW m \in sent, NEW passes \in BOOLEAN, Deliver(m, passes)
        PROVE  SizeInv'
    <2>0. m \in Message /\ m.nonce \in Nonces /\ m.rid \in AnyRid
      BY <1>0 DEF TypeOK, Message
    <2>1. PICK r \in RequireNonce(m.nonce, m.rid) :
            /\ nonces' = r.store
            /\ (\E x \in Executions(m) : idem' = x.left) \/ idem' = idem
      BY <1>3 DEF Deliver, NonceStep
    <2>2. /\ IsFiniteSet(nonces') /\ Cardinality(nonces') <= NONCE_MAX
          /\ \A e, f \in nonces' : e.id = f.id => e = f
      BY <1>0, <2>0, <2>1, NonceBounded
    <2>3. /\ IsFiniteSet(idem') /\ Cardinality(idem') <= IDEM_MAX + 1
          /\ \A e, f \in idem' : e.id = f.id => e = f
      <3>1. CASE idem' = idem
        BY <1>0, <3>1 DEF StoresFinite, StoresBounded
      <3>2. CASE \E x \in Executions(m) : idem' = x.left
        BY <1>0, <2>0, <3>2, IdemBounded
      <3> QED
        BY <2>1, <3>1, <3>2
    <2> QED
      BY <1>1, <2>2, <2>3 DEF SizeInv, StoresFinite, StoresBounded
  <1>4. ASSUME NEW n \in Nonces, NEW rid \in AnyRid, DeliverUnsigned(n, rid)
        PROVE  SizeInv'
    <2>1. PICK r \in RequireNonce(n, rid) : nonces' = r.store /\ idem' = idem
      BY <1>4 DEF DeliverUnsigned, NonceStep
    <2>2. /\ IsFiniteSet(nonces') /\ Cardinality(nonces') <= NONCE_MAX
          /\ \A e, f \in nonces' : e.id = f.id => e = f
      BY <1>0, <2>1, NonceBounded
    <2> QED
      BY <1>0, <1>1, <2>1, <2>2 DEF SizeInv, StoresFinite, StoresBounded
  <1>5. CASE Restart
    BY <1>0, <1>1, <1>5, FS_EmptySet DEF Restart, SizeInv, StoresFinite, StoresBounded
  <1> QED
    BY <1>2, <1>3, <1>4, <1>5 DEF Next, Sign, Tick, vars

LEMMA SizeInvariant == Spec => []SizeInv
  BY SizeInit, SizeNext, PTL DEF Spec

\* For any limits: after every message the nonce store is within its limit, the
\* Request-Id registry at most one entry over its own, and no key is held twice.
THEOREM StoresBoundedCorrect == Spec => []StoresBounded
  BY SizeInvariant, PTL DEF SizeInv

-----------------------------------------------------------------------------
(* The binding of a nonce to the Request-Id that took it. *)

\* The entries Require_nonce can know, and those that outlive the process's
\* memory if the database is there.
Stored == nonces \cup (IF NONCE_SQLITE THEN ndb ELSE {})
Backing == IF NONCE_SQLITE THEN ndb ELSE nonces

ClaimsPast == \A c \in claims : c.at <= now

\* Until its time is over, or its entry is lost, a claimed nonce is held under
\* the Request-Id of the claim and under no other.
Bound ==
    \A c \in claims :
        \/ LostSince(c.id, c.at)
        \/ now > c.at + NONCE_TTL
        \/ /\ \E e \in Backing : e.id = c.id /\ e.exp >= c.at + NONCE_TTL
           /\ \A e \in Live(Stored) : e.id = c.id => e.rid = c.rid

BindInv == SizeInv /\ ClaimsPast /\ Bound

\* Require_nonce as it is while the store keeps to its limit: the first pruning
\* drops expired entries only.
LEMMA NonceShape ==
    ASSUME SizeInv, NEW n \in Nonces, NEW rid \in AnyRid, NEW r \in RequireNonce(n, rid)
    PROVE  LET known == {e \in Live(Stored) : e.id = n}
               entry == NonceEntry(n, rid)
           IN  \/ /\ known # {} /\ ~r.taken /\ r.store = Live(nonces) /\ r.db = ndb
                  /\ r.ok <=> \E e \in known : e.rid = rid /\ rid # NoRid
               \/ /\ known = {} /\ r.taken /\ r.ok
                  /\ r.store \in Prunes({e \in Live(nonces) : e.id # n} \cup {entry},
                                        NONCE_MAX)
                  /\ r.db = IF NONCE_SQLITE THEN {e \in Live(ndb) : e.id # n} \cup {entry}
                                            ELSE ndb
  <1>0. IsFiniteSet(nonces) /\ Cardinality(nonces) <= NONCE_MAX /\ NONCE_MAX \in Nat
    BY GateAssumption DEF SizeInv, StoresFinite, StoresBounded
  <1>1. PICK pruned \in Prunes(nonces, NONCE_MAX) : r \in NonceResults(pruned, n, rid)
    BY DEF RequireNonce
  <1>2. pruned = Live(nonces)
    BY <1>0, <1>1, PrunesWithin
  <1>3. Known(pruned, n) = {e \in Live(Stored) : e.id = n}
    BY <1>2 DEF Known, Stored, Live
  <1> DEFINE known == {e \in Live(Stored) : e.id = n}
             entry == NonceEntry(n, rid)
  <1>4. CASE known # {}
    <2>1. r = [ok |-> \E e \in Known(pruned, n) : e.rid = rid /\ rid # NoRid, taken |-> FALSE,
               store |-> pruned, db |-> ndb]
      BY <1>1, <1>3, <1>4 DEF NonceResults
    <2>2. /\ ~r.taken /\ r.store = pruned /\ r.db = ndb
          /\ r.ok <=> \E e \in Known(pruned, n) : e.rid = rid /\ rid # NoRid
      <3> DEFINE found == \E e \in Known(pruned, n) : e.rid = rid /\ rid # NoRid
      <3>1. r = [ok |-> found, taken |-> FALSE, store |-> pruned, db |-> ndb]
        BY <2>1
      <3> HIDE DEF found
      <3>2. /\ ~r.taken /\ r.store = pruned /\ r.db = ndb
            /\ r.ok <=> found
        BY <3>1
      <3> QED
        BY <3>2 DEF found
    <2> QED
      BY <1>2, <1>3, <1>4, <2>2
  <1>5. CASE known = {}
    <2>1. PICK store \in Prunes({e \in pruned : e.id # n} \cup {entry}, NONCE_MAX) :
             r = [ok |-> TRUE, taken |-> TRUE, store |-> store,
                  db |-> IF NONCE_SQLITE THEN {e \in Live(ndb) : e.id # n} \cup {entry}
                                         ELSE ndb]
      BY <1>1, <1>3, <1>5 DEF NonceResults
    <2>2. /\ r.taken /\ r.ok /\ r.store = store
          /\ r.db = IF NONCE_SQLITE THEN {e \in Live(ndb) : e.id # n} \cup {entry}
                                    ELSE ndb
      BY <2>1
    <2> QED
      BY <1>2, <1>5, <2>1, <2>2
  <1> QED
    BY <1>4, <1>5

\* What every step with a nonce does to the nonces and the losses.
NonceEffect(n, rid, r, more) ==
    /\ NonceStep(n, rid, r)
    /\ lost' = Losing(NonceDrops(n, rid, r) \cup more)
    /\ now' = now

\* An entry of the store in memory, live but gone after the step, is lost.
LEMMA NonceGone ==
    ASSUME TypeOK, NEW n \in Nonces, NEW rid \in AnyRid, NEW r, NEW more,
           NonceEffect(n, rid, r, more), ~NONCE_SQLITE, NEW t \in Nat, t <= now,
           NEW e \in nonces \cup (IF r.taken THEN {NonceEntry(n, rid)} ELSE {}),
           e.exp >= now, \A g \in r.store : g.id # e.id
    PROVE  LostSince(e.id, t)'
  <1> DEFINE k == [id |-> e.id, at |-> now]
  <1>1. k \in NonceDrops(n, rid, r)
    BY DropsAll DEF NonceDrops
  <1>2. k \in NonceDrops(n, rid, r) \cup more /\ k.at = now /\ k.id = e.id
    BY <1>1
  <1> HIDE DEF k
  <1> QED
    BY <1>2, LosingAdds DEF NonceEffect

\* A step with a nonce keeps the bindings made before.
LEMMA BoundKept ==
    ASSUME BindInv, NEW n \in Nonces, NEW rid \in AnyRid, NEW r \in RequireNonce(n, rid),
           NEW more, \A k \in more : k.at = now, NonceEffect(n, rid, r, more),
           NEW c \in claims
    PROVE  \/ LostSince(c.id, c.at)'
           \/ now' > c.at + NONCE_TTL
           \/ /\ \E e \in Backing' : e.id = c.id /\ e.exp >= c.at + NONCE_TTL
              /\ \A e \in Live(Stored)' : e.id = c.id => e.rid = c.rid
  <1> DEFINE entry == NonceEntry(n, rid)
             known == {e \in Live(Stored) : e.id = n}
             dn == NonceDrops(n, rid, r) \cup more
  <1>0. /\ TypeOK /\ InPast /\ now \in Nat /\ NONCE_TTL \in Nat
        /\ NONCE_SQLITE \in BOOLEAN /\ c.at \in Nat /\ c.at <= now
        /\ c \in [id : Nonces, rid : AnyRid, at : Nat]
    BY GateAssumption DEF BindInv, SizeInv, IInv, TypeOK, ClaimsPast
  <1>1. entry.id = n /\ entry.exp = now + NONCE_TTL /\ entry.rid = rid
    BY DEF NonceEntry
  <1>2. nonces' = r.store /\ ndb' = r.db /\ lost' = Losing(dn) /\ now' = now
    BY DEF NonceEffect, NonceStep
  <1>3. \A k \in dn : k.at = now
    BY <1>0, NonceDropsType
  <1>4. CASE LostSince(c.id, c.at)
    BY <1>0, <1>2, <1>3, <1>4, LosingKeeps
  <1>5. CASE now > c.at + NONCE_TTL
    BY <1>2, <1>5
  <1>6. ASSUME ~LostSince(c.id, c.at), ~(now > c.at + NONCE_TTL)
        PROVE  \/ LostSince(c.id, c.at)'
               \/ /\ \E e \in Backing' : e.id = c.id /\ e.exp >= c.at + NONCE_TTL
                  /\ \A e \in Live(Stored)' : e.id = c.id => e.rid = c.rid
    <2>1. /\ \E e \in Backing : e.id = c.id /\ e.exp >= c.at + NONCE_TTL
          /\ \A e \in Live(Stored) : e.id = c.id => e.rid = c.rid
      BY <1>6 DEF BindInv, Bound
    <2>2. PICK e \in Backing : e.id = c.id /\ e.exp >= c.at + NONCE_TTL
      BY <2>1
    <2>3. e.exp \in Nat /\ e.exp >= now /\ e \in Live(Stored)
      BY <1>0, <1>6, <2>2 DEF Backing, Stored, Live, TypeOK
    <2>4. e \in Live(Backing)
      BY <2>2, <2>3 DEF Live
    <2>5. CASE known # {} /\ ~r.taken /\ r.store = Live(nonces) /\ r.db = ndb
      <3>1. e \in Backing'
        BY <1>2, <2>2, <2>3, <2>5 DEF Backing, Live
      <3>2. Live(Stored)' \subseteq Live(Stored)
        BY <1>2, <2>5 DEF Stored, Live
      <3> QED
        BY <2>1, <2>2, <3>1, <3>2
    <2>6. CASE /\ known = {} /\ r.taken
               /\ r.store \in Prunes({f \in Live(nonces) : f.id # n} \cup {entry}, NONCE_MAX)
               /\ r.db = IF NONCE_SQLITE THEN {f \in Live(ndb) : f.id # n} \cup {entry}
                                         ELSE ndb
      <3>1. c.id # n
        BY <2>2, <2>3, <2>6
      <3>2. r.store \subseteq {f \in Live(nonces) : f.id # n} \cup {entry}
        BY <2>6, PruneSubset
      <3>3. \A f \in Live(Stored)' : f.id = c.id => f \in Live(Stored)
        BY <1>1, <1>2, <2>6, <3>1, <3>2 DEF Stored, Live
      <3>4. CASE NONCE_SQLITE
        <4>1. e \in Backing'
          BY <1>2, <2>2, <2>4, <2>6, <3>1, <3>4 DEF Backing, Live
        <4> QED
          BY <2>1, <2>2, <3>3, <4>1
      <3>5. CASE ~NONCE_SQLITE /\ e \in r.store
        <4>1. e \in Backing'
          BY <1>2, <3>5 DEF Backing
        <4> QED
          BY <2>1, <2>2, <3>3, <4>1
      <3>6. CASE ~NONCE_SQLITE /\ e \notin r.store
        <4>1. e \in nonces
          BY <2>2, <3>6 DEF Backing
        <4>2. \A g \in r.store : g.id # e.id
          BY <1>1, <2>2, <3>1, <3>2, <3>6, <4>1 DEF Live, BindInv, SizeInv, StoresBounded
        <4>3. LostSince(e.id, c.at)'
          BY <1>0, <2>3, <3>6, <4>1, <4>2, NonceGone
        <4> QED
          BY <2>2, <4>3
      <3> QED
        BY <1>0, <3>4, <3>5, <3>6
    <2> QED
      BY <2>5, <2>6, NonceShape DEF BindInv
  <1> QED
    BY <1>4, <1>5, <1>6

\* A nonce taken in a step is bound by it, or its entry is lost at once.
LEMMA BoundMade ==
    ASSUME BindInv, NEW n \in Nonces, NEW rid \in AnyRid, NEW r \in RequireNonce(n, rid),
           NEW more, NonceEffect(n, rid, r, more), r.taken, NEW t \in Nat, t = now
    PROVE  \/ LostSince(n, t)'
           \/ /\ \E e \in Backing' : e.id = n /\ e.exp >= t + NONCE_TTL
              /\ \A e \in Live(Stored)' : e.id = n => e.rid = rid
  <1>0. /\ TypeOK /\ NONCE_TTL \in Nat /\ NONCE_SQLITE \in BOOLEAN
    BY GateAssumption DEF BindInv, SizeInv, IInv, TypeOK
  <1>1. PICK entry : /\ entry = NonceEntry(n, rid)
                     /\ entry.id = n /\ entry.exp = t + NONCE_TTL /\ entry.rid = rid
    <2>1. /\ NonceEntry(n, rid).id = n /\ NonceEntry(n, rid).exp = t + NONCE_TTL
          /\ NonceEntry(n, rid).rid = rid
      BY DEF NonceEntry
    <2> QED
      BY <2>1
  <1>2. nonces' = r.store /\ ndb' = r.db /\ now' = now
    BY DEF NonceEffect, NonceStep
  <1>3. /\ {e \in Live(Stored) : e.id = n} = {}
        /\ r.store \in Prunes({f \in Live(nonces) : f.id # n} \cup {entry}, NONCE_MAX)
        /\ r.db = IF NONCE_SQLITE THEN {f \in Live(ndb) : f.id # n} \cup {entry} ELSE ndb
    <2> DEFINE e0 == NonceEntry(n, rid)
    <2>1. /\ {e \in Live(Stored) : e.id = n} = {}
          /\ r.store \in Prunes({f \in Live(nonces) : f.id # n} \cup {e0}, NONCE_MAX)
          /\ r.db = IF NONCE_SQLITE THEN {f \in Live(ndb) : f.id # n} \cup {e0} ELSE ndb
      BY NonceShape DEF BindInv
    <2>2. e0 = entry
      BY <1>1
    <2> HIDE DEF e0
    <2> QED
      BY <2>1, <2>2
  <1>4. r.store \subseteq {f \in Live(nonces) : f.id # n} \cup {entry}
    BY <1>3, PruneSubset
  <1>5. \A e \in Live(Stored)' : e.id = n => e.rid = rid
    BY <1>1, <1>2, <1>3, <1>4 DEF Stored, Live
  <1>6. CASE entry \in Backing'
    BY <1>0, <1>1, <1>5, <1>6
  <1>7. CASE entry \notin Backing'
    <2>1. ~NONCE_SQLITE /\ entry \notin r.store
      BY <1>0, <1>2, <1>3, <1>7 DEF Backing
    <2>2. \A g \in r.store : g.id # entry.id
      BY <1>1, <1>4, <2>1
    <2>3. /\ entry \in nonces \cup (IF r.taken THEN {NonceEntry(n, rid)} ELSE {})
          /\ entry.exp >= now /\ t <= now
      BY <1>0, <1>1
    <2>4. LostSince(entry.id, t)'
      BY <1>0, <2>1, <2>2, <2>3, NonceGone
    <2> QED
      BY <1>1, <2>4
  <1> QED
    BY <1>6, <1>7

\* Together: a step with a nonce keeps every claim bound.
LEMMA BoundStep ==
    ASSUME BindInv, NEW n \in Nonces, NEW rid \in AnyRid, NEW r \in RequireNonce(n, rid),
           NEW more, \A k \in more : k.at = now, NonceEffect(n, rid, r, more)
    PROVE  ClaimsPast' /\ Bound'
  <1>0. now \in Nat
    BY DEF BindInv, SizeInv, IInv, TypeOK
  <1>1. /\ claims' \subseteq claims \cup {[id |-> n, rid |-> rid, at |-> now]}
        /\ ~r.taken => claims' \subseteq claims
        /\ now' = now
    BY DEF NonceEffect, NonceStep
  <1>2. ClaimsPast'
    BY <1>0, <1>1 DEF BindInv, ClaimsPast
  <1>3. ASSUME NEW c \in claims'
        PROVE  \/ LostSince(c.id, c.at)'
               \/ now' > c.at + NONCE_TTL
               \/ /\ \E e \in Backing' : e.id = c.id /\ e.exp >= c.at + NONCE_TTL
                  /\ \A e \in Live(Stored)' : e.id = c.id => e.rid = c.rid
    <2>1. CASE c \in claims
      BY <2>1, BoundKept
    <2>2. CASE c \notin claims
      <3>1. r.taken /\ c.id = n /\ c.rid = rid /\ c.at = now
        BY <1>1, <2>2
      <3>2. \/ LostSince(n, c.at)'
            \/ /\ \E e \in Backing' : e.id = n /\ e.exp >= c.at + NONCE_TTL
               /\ \A e \in Live(Stored)' : e.id = n => e.rid = rid
        BY <1>0, <3>1, BoundMade
      <3> QED
        BY <3>1, <3>2
    <2> QED
      BY <2>1, <2>2
  <1> QED
    BY <1>2, <1>3 DEF Bound

\* A restart loses the nonces in memory, or leaves them in the database.
LEMMA BoundRestart ==
    ASSUME BindInv, Restart
    PROVE  ClaimsPast' /\ Bound'
  <1> DEFINE new == Drops(idem, {}) \cup (IF NONCE_SQLITE THEN {} ELSE Drops(nonces, {}))
  <1>0. /\ TypeOK /\ InPast /\ now \in Nat /\ NONCE_TTL \in Nat
        /\ NONCE_SQLITE \in BOOLEAN
    BY GateAssumption DEF BindInv, SizeInv, IInv, TypeOK
  <1>1. /\ lost' = Losing(new) /\ nonces' = {} /\ UNCHANGED <<now, ndb, claims>>
    BY DEF Restart
  <1>2. \A k \in new : k.at = now
    BY DropsNow
  <1>3. ASSUME NEW c \in claims
        PROVE  \/ LostSince(c.id, c.at)'
               \/ now' > c.at + NONCE_TTL
               \/ /\ \E e \in Backing' : e.id = c.id /\ e.exp >= c.at + NONCE_TTL
                  /\ \A e \in Live(Stored)' : e.id = c.id => e.rid = c.rid
    <2>0. c.at \in Nat /\ c.at <= now
      BY <1>0 DEF BindInv, ClaimsPast, TypeOK
    <2>1. CASE LostSince(c.id, c.at)
      <3> HIDE DEF new
      <3> QED
        BY <1>0, <1>1, <1>2, <2>0, <2>1, LosingKeeps
    <2>2. CASE now > c.at + NONCE_TTL
      BY <1>1, <2>2
    <2>3. ASSUME ~(now > c.at + NONCE_TTL),
                 NEW e \in Backing, e.id = c.id, e.exp >= c.at + NONCE_TTL,
                 \A f \in Live(Stored) : f.id = c.id => f.rid = c.rid
          PROVE  \/ LostSince(c.id, c.at)'
                 \/ /\ \E f \in Backing' : f.id = c.id /\ f.exp >= c.at + NONCE_TTL
                    /\ \A f \in Live(Stored)' : f.id = c.id => f.rid = c.rid
      <3>1. CASE NONCE_SQLITE
        BY <1>1, <2>3, <3>1 DEF Backing, Stored, Live
      <3>2. CASE ~NONCE_SQLITE
        <4> DEFINE k == [id |-> e.id, at |-> now]
        <4>1. e \in nonces /\ e.exp >= now
          BY <1>0, <2>0, <2>3, <3>2 DEF Backing, TypeOK
        <4>2. k \in new
          BY <3>2, <4>1, DropsAll
        <4>3. k.at = now /\ k.id = c.id
          BY <2>3
        <4> HIDE DEF k, new
        <4> QED
          BY <1>0, <1>1, <2>0, <4>2, <4>3, LosingAdds
      <3> QED
        BY <1>0, <3>1, <3>2
    <2> QED
      BY <2>1, <2>2, <2>3 DEF BindInv, Bound
  <1> QED
    BY <1>0, <1>1, <1>3 DEF BindInv, ClaimsPast, Bound

\* The clock only lets claims and entries expire.
LEMMA BoundQuiet ==
    ASSUME BindInv, UNCHANGED <<nonces, ndb, claims, lost>>, now' \in Nat, now' >= now
    PROVE  ClaimsPast' /\ Bound'
  <1>0. /\ TypeOK /\ now \in Nat /\ NONCE_TTL \in Nat
    BY GateAssumption DEF BindInv, SizeInv, IInv, TypeOK
  <1>1. ClaimsPast'
    BY <1>0 DEF BindInv, ClaimsPast, TypeOK
  <1>2. Live(Stored)' \subseteq Live(Stored)
    BY <1>0 DEF Live, Stored, TypeOK
  <1>3. ASSUME NEW c \in claims
        PROVE  \/ LostSince(c.id, c.at)'
               \/ now' > c.at + NONCE_TTL
               \/ /\ \E e \in Backing' : e.id = c.id /\ e.exp >= c.at + NONCE_TTL
                  /\ \A e \in Live(Stored)' : e.id = c.id => e.rid = c.rid
    <2>1. CASE LostSince(c.id, c.at)
      BY <2>1 DEF LostSince
    <2>2. CASE now > c.at + NONCE_TTL
      BY <1>0, <2>2 DEF TypeOK
    <2>3. CASE /\ \E e \in Backing : e.id = c.id /\ e.exp >= c.at + NONCE_TTL
               /\ \A e \in Live(Stored) : e.id = c.id => e.rid = c.rid
      BY <1>2, <2>3 DEF Backing
    <2> QED
      BY <2>1, <2>2, <2>3 DEF BindInv, Bound
  <1> QED
    BY <1>1, <1>3 DEF Bound

LEMMA BindInit ==
    ASSUME Init PROVE BindInv
  BY SizeInit DEF Init, BindInv, ClaimsPast, Bound

LEMMA Verdicts ==
    ASSUME NEW m, NEW x \in Executions(m)
    PROVE  x.verdict \in {"executed", "threw", "replayed"}
  BY DEF Executions, Lookup, Runs

\* A delivery is a step with the nonce of its message.
LEMMA DeliverEffect ==
    ASSUME NEW m, NEW passes, Deliver(m, passes)
    PROVE  \E r \in RequireNonce(m.nonce, m.rid) : \E more :
             /\ NonceEffect(m.nonce, m.rid, r, more) /\ \A k \in more : k.at = now
             /\ \/ r.ok /\ \E v \in {"executed", "threw", "replayed"} : outcome' = Verdict(v, m)
                \/ outcome' = Verdict(IF ~r.ok THEN "replay_nonce"
                                      ELSE IF ~Fresh(m.ts) THEN "timestamp_skew"
                                      ELSE "refused", m)
  <1> DEFINE n == m.nonce
             rid == m.rid
  <1>1. PICK r \in RequireNonce(n, rid) :
          /\ NonceStep(n, rid, r) /\ now' = now
          /\ \/ /\ r.ok
                /\ \E x \in Executions(m) :
                     /\ lost' = Losing(NonceDrops(n, rid, r) \cup Drops(idem, x.looked)
                                       \cup Drops(x.looked, x.left))
                     /\ outcome' = Verdict(x.verdict, m)
             \/ /\ lost' = Losing(NonceDrops(n, rid, r))
                /\ outcome' = Verdict(IF ~r.ok THEN "replay_nonce"
                                      ELSE IF ~Fresh(m.ts) THEN "timestamp_skew"
                                      ELSE "refused", m)
    BY DEF Deliver
  <1>2. ASSUME r.ok, NEW x \in Executions(m),
               lost' = Losing(NonceDrops(n, rid, r) \cup Drops(idem, x.looked)
                              \cup Drops(x.looked, x.left)),
               outcome' = Verdict(x.verdict, m)
        PROVE  \E more : /\ NonceEffect(n, rid, r, more) /\ \A k \in more : k.at = now
                         /\ \E v \in {"executed", "threw", "replayed"} : outcome' = Verdict(v, m)
    <2> DEFINE more == Drops(idem, x.looked) \cup Drops(x.looked, x.left)
    <2>1. \A k \in more : k.at = now
      BY DropsNow
    <2>2. NonceDrops(n, rid, r) \cup Drops(idem, x.looked) \cup Drops(x.looked, x.left)
          = NonceDrops(n, rid, r) \cup more
      OBVIOUS
    <2> HIDE DEF more
    <2>3. NonceEffect(n, rid, r, more)
      BY <1>1, <1>2, <2>2 DEF NonceEffect
    <2>4. \E v \in {"executed", "threw", "replayed"} : outcome' = Verdict(v, m)
      BY <1>2, Verdicts
    <2> QED
      BY <2>1, <2>3, <2>4
  <1>3. ASSUME lost' = Losing(NonceDrops(n, rid, r))
        PROVE  \E more : NonceEffect(n, rid, r, more) /\ \A k \in more : k.at = now
    <2>1. NonceDrops(n, rid, r) = NonceDrops(n, rid, r) \cup {}
      OBVIOUS
    <2>2. NonceEffect(n, rid, r, {})
      BY <1>1, <1>3, <2>1 DEF NonceEffect
    <2> QED
      BY <2>2
  <1>4. CASE /\ r.ok
             /\ \E x \in Executions(m) :
                  /\ lost' = Losing(NonceDrops(n, rid, r) \cup Drops(idem, x.looked)
                                    \cup Drops(x.looked, x.left))
                  /\ outcome' = Verdict(x.verdict, m)
    BY <1>2, <1>4
  <1>5. CASE /\ lost' = Losing(NonceDrops(n, rid, r))
             /\ outcome' = Verdict(IF ~r.ok THEN "replay_nonce"
                                   ELSE IF ~Fresh(m.ts) THEN "timestamp_skew"
                                   ELSE "refused", m)
    <2>1. PICK more : NonceEffect(n, rid, r, more) /\ \A k \in more : k.at = now
      BY <1>3, <1>5
    <2> QED
      BY <1>5, <2>1
  <1> QED
    BY <1>1, <1>4, <1>5

LEMMA BindNext ==
    ASSUME BindInv, [Next]_vars PROVE BindInv'
  <1>0. TypeOK /\ now \in Nat
    BY DEF BindInv, SizeInv, IInv, TypeOK
  <1>1. SizeInv'
    BY SizeNext DEF BindInv
  <1>2. ASSUME NEW m \in sent, NEW passes \in BOOLEAN, Deliver(m, passes)
        PROVE  ClaimsPast' /\ Bound'
    <2>1. m.nonce \in Nonces /\ m.rid \in AnyRid
      BY <1>0 DEF TypeOK, Message
    <2> QED
      BY <1>2, <2>1, DeliverEffect, BoundStep
  <1>3. ASSUME NEW n \in Nonces, NEW rid \in AnyRid, DeliverUnsigned(n, rid)
        PROVE  ClaimsPast' /\ Bound'
    <2>1. PICK r \in RequireNonce(n, rid) :
            NonceStep(n, rid, r) /\ now' = now /\ lost' = Losing(NonceDrops(n, rid, r))
      BY <1>3 DEF DeliverUnsigned
    <2>2. NonceDrops(n, rid, r) = NonceDrops(n, rid, r) \cup {}
      OBVIOUS
    <2>3. NonceEffect(n, rid, r, {})
      BY <2>1, <2>2 DEF NonceEffect
    <2> QED
      BY <2>3, BoundStep
  <1>4. ASSUME Restart PROVE ClaimsPast' /\ Bound'
    BY <1>4, BoundRestart
  <1>5. ASSUME UNCHANGED <<nonces, ndb, claims, lost>>, now' = now \/ now' = now + 1
        PROVE  ClaimsPast' /\ Bound'
    <2>1. now' \in Nat /\ now' >= now
      BY <1>0, <1>5
    <2> QED
      BY <1>5, <2>1, BoundQuiet
  <1>6. CASE Next
    BY <1>2, <1>3, <1>4, <1>5, <1>6, <1>1 DEF Next, Sign, Tick, BindInv
  <1>7. CASE UNCHANGED vars
    BY <1>1, <1>5, <1>7 DEF vars, BindInv
  <1> QED
    BY <1>6, <1>7

LEMMA BindInvariant == Spec => []BindInv
  BY BindInit, BindNext, PTL DEF Spec

\* In a step where a message gets past the nonce check with the nonce of another
\* Request-Id's claim, the claim is over or its entry is lost.
LEMMA PastTheNonce ==
    ASSUME BindInv, Next, NEW c \in claims,
           outcome'.verdict \in {"executed", "threw", "replayed", "refused", "timestamp_skew"},
           outcome'.msg.nonce = c.id, outcome'.msg.rid # c.rid \/ c.rid = NoRid
    PROVE  now > c.at + NONCE_TTL \/ LostSince(c.id, c.at)'
  <1>0. TypeOK /\ InPast /\ c.at \in Nat /\ c.at <= now
    BY DEF BindInv, SizeInv, IInv, TypeOK, ClaimsPast
  <1>1. outcome' # Nothing
    BY DEF Nothing
  <1>2. PICK m \in sent, passes \in BOOLEAN : Deliver(m, passes)
    BY <1>1 DEF Next, DeliverUnsigned, Sign, Tick, Restart
  <1> DEFINE n == m.nonce
             rid == m.rid
  <1>3. n \in Nonces /\ rid \in AnyRid
    BY <1>0 DEF TypeOK, Message
  <1> DEFINE Effects(r, more) ==
          /\ NonceEffect(n, rid, r, more) /\ \A k \in more : k.at = now
          /\ \/ r.ok /\ \E v \in {"executed", "threw", "replayed"} : outcome' = Verdict(v, m)
             \/ outcome' = Verdict(IF ~r.ok THEN "replay_nonce"
                                   ELSE IF ~Fresh(m.ts) THEN "timestamp_skew"
                                   ELSE "refused", m)
  <1>8. PICK r \in RequireNonce(n, rid) : \E more : Effects(r, more)
    BY <1>2, DeliverEffect
  <1>4. PICK more : Effects(r, more)
    BY <1>8
  <1>5. r.ok /\ c.id = n /\ (c.rid # rid \/ c.rid = NoRid)
    BY <1>4 DEF Verdict
  <1>6. LostSince(c.id, c.at) \/ now > c.at + NONCE_TTL
    <2>1. CASE \E e \in Live(Stored) : e.id = n
      <3>1. PICK e \in Live(Stored) : e.id = n /\ e.rid = rid /\ rid # NoRid
        BY <1>3, <1>5, <2>1, NonceShape DEF BindInv
      <3> QED
        BY <1>5, <3>1 DEF BindInv, Bound
    <2>2. CASE ~\E e \in Live(Stored) : e.id = n
      <3>1. ASSUME NEW e \in Backing, e.id = c.id, e.exp >= c.at + NONCE_TTL,
                   ~(now > c.at + NONCE_TTL)
            PROVE  FALSE
        <4>1. e.exp >= now
          BY <1>0, <3>1, GateAssumption DEF Backing, TypeOK
        <4> QED
          BY <1>5, <2>2, <3>1, <4>1 DEF Backing, Stored, Live
      <3> QED
        BY <3>1 DEF BindInv, Bound
    <2> QED
      BY <2>1, <2>2
  <1>7. CASE LostSince(c.id, c.at)
    <2> DEFINE new == NonceDrops(n, rid, r) \cup more
    <2>1. lost' = Losing(new) /\ \A k \in new : k.at = now
      BY <1>0, <1>3, <1>4, NonceDropsType DEF NonceEffect
    <2> HIDE DEF new
    <2> QED
      BY <1>0, <1>7, <2>1, LosingKeeps
  <1> QED
    BY <1>6, <1>7

\* For any limits and clocks, with or without the database: for NONCE_TTL seconds
\* after a nonce is taken, no message with another Request-Id gets past the nonce
\* check, none at all when it was taken without one, unless the store has lost
\* the entry.
THEOREM NonceBindingCorrect == Spec => NonceBinding
  <1>1. ASSUME BindInv, [Next]_vars
        PROVE  [\A c \in claims :
                  /\ outcome'.verdict \in {"executed", "threw", "replayed", "refused", "timestamp_skew"}
                  /\ outcome'.msg.nonce = c.id
                  /\ outcome'.msg.rid # c.rid \/ c.rid = NoRid
                  => now > c.at + NONCE_TTL \/ LostSince(c.id, c.at)']_vars
    BY <1>1, PastTheNonce
  <1> QED
    BY <1>1, BindInvariant, PTL DEF Spec, NonceBinding

-----------------------------------------------------------------------------
(* What a second run takes. *)

\* A message that ran without a Request-Id took its nonce then, and the claim is
\* kept as long as the nonce.
RidlessClaimed ==
    \A d \in done : d.msg.rid = NoRid =>
        \/ now > d.at + NONCE_TTL
        \/ [id |-> d.msg.nonce, rid |-> NoRid, at |-> d.at] \in claims

RunInv == BindInv /\ RidlessClaimed

\* A step with a nonce keeps the claims that are not over.
LEMMA ClaimKept ==
    ASSUME TypeOK, NEW n, NEW rid, NEW r, NonceStep(n, rid, r), NEW d \in done,
           now' = now, d.msg.rid = NoRid, RidlessClaimed
    PROVE  \/ now' > d.at + NONCE_TTL
           \/ [id |-> d.msg.nonce, rid |-> NoRid, at |-> d.at] \in claims'
  <1> DEFINE c == [id |-> d.msg.nonce, rid |-> NoRid, at |-> d.at]
  <1>1. d.at \in Nat /\ now \in Nat /\ NONCE_TTL \in Nat
    BY GateAssumption DEF TypeOK
  <1>2. CASE now > d.at + NONCE_TTL
    BY <1>2
  <1>3. CASE c \in claims /\ ~(now > d.at + NONCE_TTL)
    <2>1. c.at + NONCE_TTL >= now
      BY <1>1, <1>3
    <2> QED
      BY <1>3, <2>1 DEF NonceStep
  <1> QED
    BY <1>2, <1>3 DEF RidlessClaimed

\* Only a delivery of m that gets past the nonce, the timestamp and the registry
\* reports that m ran.
LEMMA RunShape ==
    ASSUME Next, NEW m, outcome' \in {Verdict("executed", m), Verdict("threw", m)}
    PROVE  /\ m \in sent /\ Fresh(m.ts)
           /\ \E r \in RequireNonce(m.nonce, m.rid), x \in Executions(m) :
                /\ r.ok /\ x.verdict # "replayed"
                /\ Executed(m, x, NonceDrops(m.nonce, m.rid, r))
  <1>1. outcome' # Nothing
    BY DEF Nothing, Verdict
  <1>2. PICK k \in sent, passes \in BOOLEAN : Deliver(k, passes)
    BY <1>1 DEF Next, DeliverUnsigned, Sign, Tick, Restart
  <1>3. PICK r \in RequireNonce(k.nonce, k.rid) :
          \/ /\ Fresh(k.ts) /\ r.ok
             /\ \E x \in Executions(k) :
                  /\ Executed(k, x, NonceDrops(k.nonce, k.rid, r))
                  /\ outcome' = Verdict(x.verdict, k)
          \/ \E v \in {"replay_nonce", "timestamp_skew", "refused"} : outcome' = Verdict(v, k)
    BY <1>2 DEF Deliver, Executed
  <1>4. PICK x \in Executions(k) :
          /\ Fresh(k.ts) /\ r.ok
          /\ Executed(k, x, NonceDrops(k.nonce, k.rid, r))
          /\ outcome' = Verdict(x.verdict, k)
    BY <1>3 DEF Verdict
  <1>5. k = m /\ x.verdict # "replayed"
    BY <1>4 DEF Verdict
  <1> QED
    BY <1>4, <1>5

\* A run that Deliver records, if it has no Request-Id, comes with its nonce taken.
LEMMA RidlessTakes ==
    ASSUME BindInv, NEW n \in Nonces, NEW r \in RequireNonce(n, NoRid), r.ok
    PROVE  r.taken
  <1>1. NoRid \in AnyRid
    BY DEF AnyRid
  <1> QED
    BY <1>1, NonceShape DEF BindInv

LEMMA RunNext ==
    ASSUME RunInv, [Next]_vars PROVE RunInv'
  <1>0. TypeOK /\ BindInv /\ RidlessClaimed /\ now \in Nat
    BY DEF RunInv, BindInv, SizeInv, IInv, TypeOK
  <1>1. BindInv'
    BY <1>0, BindNext
  <1>2. ASSUME NEW m \in sent, NEW passes \in BOOLEAN, Deliver(m, passes)
        PROVE  RidlessClaimed'
    <2>0. m.nonce \in Nonces /\ m.rid \in AnyRid
      BY <1>0 DEF TypeOK, Message
    <2>1. PICK r \in RequireNonce(m.nonce, m.rid) :
            /\ NonceStep(m.nonce, m.rid, r) /\ now' = now
            /\ done' = done \/ (r.ok /\ \E v : done' = Ran(m, v))
      BY <1>2 DEF Deliver
    <2>2. ASSUME NEW d \in done', d.msg.rid = NoRid
          PROVE  \/ now' > d.at + NONCE_TTL
                 \/ [id |-> d.msg.nonce, rid |-> NoRid, at |-> d.at] \in claims'
      <3>1. CASE d \in done
        BY <1>0, <2>1, <2>2, <3>1, ClaimKept
      <3>2. CASE d \notin done
        <4>1. r.ok /\ d.msg = m /\ d.at = now
          BY <2>1, <3>2 DEF Ran
        <4>2. r.taken
          BY <1>0, <2>0, <2>2, <4>1, RidlessTakes
        <4> QED
          BY <2>1, <2>2, <4>1, <4>2 DEF NonceStep
      <3> QED
        BY <3>1, <3>2
    <2> QED
      BY <2>2 DEF RidlessClaimed
  <1>3. ASSUME NEW n \in Nonces, NEW rid \in AnyRid, DeliverUnsigned(n, rid)
        PROVE  RidlessClaimed'
    <2>1. PICK r \in RequireNonce(n, rid) : NonceStep(n, rid, r) /\ now' = now /\ done' = done
      BY <1>3 DEF DeliverUnsigned
    <2>2. ASSUME NEW d \in done, d.msg.rid = NoRid
          PROVE  \/ now' > d.at + NONCE_TTL
                 \/ [id |-> d.msg.nonce, rid |-> NoRid, at |-> d.at] \in claims'
      BY <1>0, <2>1, <2>2, ClaimKept
    <2> QED
      BY <2>1, <2>2 DEF RidlessClaimed
  <1>4. ASSUME UNCHANGED <<done, claims>>, now' = now \/ now' = now + 1
        PROVE  RidlessClaimed'
    <2>1. ASSUME NEW d \in done, d.msg.rid = NoRid, now > d.at + NONCE_TTL
          PROVE  now' > d.at + NONCE_TTL
      <3>1. d.at \in Nat /\ NONCE_TTL \in Nat /\ now' \in Nat /\ now' >= now
        BY <1>0, <1>4, GateAssumption DEF TypeOK
      <3> QED
        BY <1>0, <2>1, <3>1
    <2> QED
      BY <1>0, <1>4, <2>1 DEF RidlessClaimed
  <1>5. CASE Next
    BY <1>1, <1>2, <1>3, <1>4, <1>5 DEF Next, Sign, Tick, Restart, RunInv
  <1>6. CASE UNCHANGED vars
    BY <1>1, <1>4, <1>6 DEF vars, RunInv
  <1> QED
    BY <1>5, <1>6

LEMMA RunInvariant == Spec => []RunInv
  <1>1. ASSUME Init PROVE RunInv
    BY <1>1, BindInit DEF Init, RunInv, RidlessClaimed
  <1> QED
    BY <1>1, RunNext, PTL DEF Spec

\* A run with a Request-Id, after a run of the same message that returned: the
\* signer's clock was ahead or the registry has lost the entry.
LEMMA SecondWithRid ==
    ASSUME IInv, Next, IDEM_TTL >= TS_DRIFT, NEW d \in done, d.msg.rid \in Rids, ~d.threw,
           outcome' \in {Verdict("executed", d.msg), Verdict("threw", d.msg)}
    PROVE  d.msg.ts > d.at \/ LostSince(KeyOf(d.msg), d.at)'
  <1> DEFINE m == d.msg
  <1>0. /\ TypeOK /\ InPast /\ Remembered
        /\ now \in Nat /\ IDEM_TTL \in Nat /\ TS_DRIFT \in Nat
        /\ m \in Message /\ m.ts \in Int /\ m.nonce \in Nonces /\ m.rid \in AnyRid
        /\ d.at \in Nat /\ d.at <= now
    BY GateAssumption DEF IInv, TypeOK, InPast, Message
  <1>1. PICK r \in RequireNonce(m.nonce, m.rid), x \in Executions(m) :
          /\ Fresh(m.ts) /\ x.verdict # "replayed"
          /\ Executed(m, x, NonceDrops(m.nonce, m.rid, r))
    BY <1>0, RunShape
  <1> DEFINE dn == NonceDrops(m.nonce, m.rid, r)
             new == dn \cup Drops(idem, x.looked) \cup Drops(x.looked, x.left)
  <1>2. dn \subseteq [id : Nonces \cup IdemKey, at : Nat] /\ \A k \in dn : k.at = now
    BY <1>0, NonceDropsType
  <1>3. lost' = Losing(new)
    BY <1>1 DEF Executed
  <1>4. \A k \in new : k.at = now
    BY <1>0, <1>2, ExecutedLosses
  <1>5. CASE LostSince(KeyOf(m), d.at)
    BY <1>0, <1>3, <1>4, <1>5, LosingKeeps
  <1>6. CASE now > d.at + IDEM_TTL
    BY <1>0, <1>1, <1>6 DEF Fresh
  <1>7. ASSUME NEW e \in idem, e.id = KeyOf(m), e.exp >= d.at + IDEM_TTL,
               ~(now > d.at + IDEM_TTL)
        PROVE  LostSince(KeyOf(m), d.at)'
    <2> DEFINE k == [id |-> e.id, at |-> now]
    <2>1. e.exp >= now
      BY <1>0, <1>7 DEF TypeOK
    <2>2. \A g \in x.looked : g.id # e.id
      BY <1>0, <1>1, <1>7, ExecutionShape
    <2>3. k \in new
      BY <2>1, <2>2, DropsAll
    <2>4. k.at = now /\ k.id = KeyOf(m)
      BY <1>7
    <2> HIDE DEF k, new
    <2> QED
      BY <1>0, <1>3, <2>3, <2>4, LosingAdds
  <1> QED
    BY <1>0, <1>5, <1>6, <1>7 DEF Remembered

\* A run without a Request-Id, after another of the same message: the signer's
\* clock was ahead or the nonce's entry was lost.
LEMMA SecondRidless ==
    ASSUME RunInv, Next, NONCE_TTL >= TS_DRIFT, NEW d \in done, d.msg.rid = NoRid,
           outcome' \in {Verdict("executed", d.msg), Verdict("threw", d.msg)}
    PROVE  d.msg.ts > d.at \/ LostSince(d.msg.nonce, d.at)'
  <1> DEFINE m == d.msg
             c == [id |-> m.nonce, rid |-> NoRid, at |-> d.at]
  <1>0. /\ now \in Nat /\ NONCE_TTL \in Nat /\ TS_DRIFT \in Nat
        /\ m.ts \in Int /\ d.at \in Nat /\ BindInv
    BY GateAssumption DEF RunInv, BindInv, SizeInv, IInv, TypeOK, Message
  <1>1. Fresh(m.ts)
    BY RunShape
  <1>2. CASE now > d.at + NONCE_TTL
    BY <1>0, <1>1, <1>2 DEF Fresh
  <1>3. CASE c \in claims /\ ~(now > d.at + NONCE_TTL)
    <2>1. /\ outcome'.verdict \in {"executed", "threw", "replayed", "refused", "timestamp_skew"}
          /\ outcome'.msg.nonce = c.id
          /\ c.rid = NoRid /\ c.at = d.at /\ c.id = m.nonce
      BY DEF Verdict
    <2> HIDE DEF c
    <2>2. now > c.at + NONCE_TTL \/ LostSince(c.id, c.at)'
      BY <1>0, <1>3, <2>1, PastTheNonce
    <2> QED
      BY <1>3, <2>1, <2>2
  <1> QED
    BY <1>2, <1>3 DEF RunInv, RidlessClaimed

\* With IDEM_TTL_SECONDS and AUTH_NONCE_TTL_SECONDS at least
\* AUTH_MAX_CLOCK_SKEW, the handler runs a second time for a signed message only
\* if its last run excuses it: a signer's clock ahead, an entry lost, a handler
\* that threw, or an empty Request-Id.
THEOREM RunsTwiceOnlyIfCorrect ==
    ASSUME IDEM_TTL >= TS_DRIFT, NONCE_TTL >= TS_DRIFT
    PROVE  Spec => RunsTwiceOnlyIf
  <1>1. ASSUME RunInv, Next, NEW d \in done,
               outcome' \in {Verdict("executed", d.msg), Verdict("threw", d.msg)}
        PROVE  Excused(d)'
    <2>1. d.msg.rid \in Rids \/ d.msg.rid \in {NoRid, EmptyRid}
      BY <1>1 DEF RunInv, BindInv, SizeInv, IInv, TypeOK, Message, AnyRid
    <2>2. IInv
      BY <1>1 DEF RunInv, BindInv, SizeInv
    <2>3. CASE d.msg.rid \in Rids /\ ~d.threw
      BY <1>1, <2>2, <2>3, SecondWithRid DEF Excused
    <2>4. CASE d.msg.rid = NoRid
      BY <1>1, <2>4, SecondRidless DEF Excused
    <2> QED
      BY <2>1, <2>3, <2>4 DEF Excused
  <1>2. ASSUME RunInv, [Next]_vars
        PROVE  [\A d \in done :
                  outcome' \in {Verdict("executed", d.msg), Verdict("threw", d.msg)}
                  => Excused(d)']_vars
    BY <1>1, <1>2
  <1> QED
    BY <1>2, RunInvariant, PTL DEF Spec, RunsTwiceOnlyIf

=============================================================================
