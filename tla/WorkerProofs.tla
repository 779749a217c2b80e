----------------------------- MODULE WorkerProofs -----------------------------
(***************************************************************************)
(* What worker/src/index.ts keeps between requests and checks before it    *)
(* serves one, for any number of requests, isolates and nonces and any     *)
(* limits, lifetimes, environments and speed of the requests:              *)
(*   WorkerInbox: who wins the replay check, and what becomes of the       *)
(*     messages in KV;                                                     *)
(*   WorkerSigning: what POST /sign signs twice;                           *)
(*   WorkerAccess: what the tokens and secrets let through;                *)
(*   WorkerNotify: the dedupe marker, the breaker and the limits.          *)
(***************************************************************************)
EXTENDS WorkerInbox, WorkerAccess, WorkerSigning, WorkerNotify, FiniteSetTheorems,
        TLAPS

-----------------------------------------------------------------------------
(***************************************************************************)
(* The mailbox: types and the replay check                                 *)
(***************************************************************************)

LEMMA LockTtlType == LockTtl \in Nat /\ LockTtl > 0 /\ LockTtl <= REPLAY_TTL
  BY InboxAssumption DEF LockTtl

\* A request that has left "new" has a nonce and an isolate.
LEMMA RequestFields ==
    ASSUME Shapes, NEW p \in Posts, posts[p].pc # "new"
    PROVE  posts[p].nonce \in Nonces /\ posts[p].iso \in Isolates /\ posts[p].start \in Nat
  BY DEF Shapes, Request, Waiting

\* Moving a request on keeps it a request.
LEMMA GotoType ==
    ASSUME Shapes, NEW p \in Posts, posts[p].pc \in Stages, NEW pc \in Stages, Goto(p, pc)
    PROVE  posts' \in [Posts -> Request]
  <1>1. posts[p] \in [pc : Stages, nonce : Nonces, iso : Isolates, start : Nat]
    BY DEF Shapes, Request, Waiting, Stages
  <1>2. [posts[p] EXCEPT !.pc = pc]
           \in [pc : Stages, nonce : Nonces, iso : Isolates, start : Nat]
    BY <1>1
  <1> QED
    BY <1>2 DEF Shapes, Goto, Request

LEMMA ReleaseType ==
    ASSUME Shapes, NEW p \in Posts, Release(p)
    PROVE  claims' \in [Isolates -> SUBSET [nonce : Nonces, exp : Nat]]
  BY DEF Shapes, Release

LEMMA GrantedType ==
    ASSUME Shapes, NEW p \in Posts, posts[p].pc # "new", Granted(p)
    PROVE  grants' \subseteq [post : Posts, nonce : Nonces, at : Nat]
  BY RequestFields DEF Shapes, Granted

LEMMA MarkerType ==
    ASSUME Shapes, NEW p \in Posts
    PROVE  Marker(p) \in [by : Posts, val : {"1", "claim"}, exp : Nat]
  BY InboxAssumption DEF Shapes, Marker

LEMMA ClaimReplayKeyType ==
    ASSUME Shapes, NEW p \in Posts, NEW i \in Isolates, NEW n \in Nonces,
           ClaimReplayKey(p, i, n)
    PROVE  Shapes'
  <1> DEFINE valid == {c \in claims[i] : c.exp > now}
             claim == [nonce |-> n, exp |-> now + CLAIM_TTL]
  <1>1. claim \in [nonce : Nonces, exp : Nat] /\ valid \subseteq [nonce : Nonces, exp : Nat]
    BY InboxAssumption DEF Shapes
  <1>2. \A pc \in Stages :
           [pc |-> pc, nonce |-> n, iso |-> i, start |-> now] \in Request
    BY DEF Shapes, Request
  <1>3. posts' \in [Posts -> Request]
    BY <1>2 DEF ClaimReplayKey, Shapes, Stages
  <1>4. claims' \in [Isolates -> SUBSET [nonce : Nonces, exp : Nat]]
    <2>1. \/ claims' = [claims EXCEPT ![i] = valid]
          \/ claims' = [claims EXCEPT ![i] = valid \cup {claim}]
      BY DEF ClaimReplayKey
    <2> HIDE DEF valid, claim
    <2> QED
      BY <1>1, <2>1 DEF Shapes
  <1> QED
    BY <1>3, <1>4 DEF ClaimReplayKey, Shapes

LEMMA LockClaimType ==
    ASSUME Shapes, NEW p \in Posts, NEW answered \in BOOLEAN, LockClaim(p, answered)
    PROVE  Shapes'
  <1>1. posts[p].pc \in Stages /\ posts[p].nonce \in Nonces /\ posts[p].pc # "new"
    BY RequestFields DEF LockClaim, At, Stages
  <1>2. posts' \in [Posts -> Request]
    <2>1. \E pc \in Stages : Goto(p, pc)
      BY DEF LockClaim, Stages
    <2> QED
      BY <1>1, <2>1, GotoType
  <1>3. claims' \in [Isolates -> SUBSET [nonce : Nonces, exp : Nat]]
    BY ReleaseType DEF LockClaim, Shapes
  <1>4. locks' \in [Nonces -> Nat]
    BY <1>1, LockTtlType DEF LockClaim, Shapes
  <1>5. grants' \subseteq [post : Posts, nonce : Nonces, at : Nat]
    BY <1>1, GrantedType DEF LockClaim, Shapes
  <1> QED
    BY <1>2, <1>3, <1>4, <1>5 DEF LockClaim, Shapes

LEMMA PersistMarkerType ==
    ASSUME Shapes, NEW p \in Posts, NEW ok \in BOOLEAN, PersistMarker(p, ok)
    PROVE  Shapes'
  <1>1. posts[p].pc \in Stages /\ posts[p].nonce \in Nonces
    BY RequestFields DEF PersistMarker, At, Stages
  <1>2. posts' \in [Posts -> Request]
    <2>1. \E pc \in Stages : Goto(p, pc)
      BY DEF PersistMarker, Stages
    <2> QED
      BY <1>1, <2>1, GotoType
  <1>3. claims' \in [Isolates -> SUBSET [nonce : Nonces, exp : Nat]]
    BY ReleaseType DEF PersistMarker, Shapes
  <1>4. markers' \in [Nonces -> {None} \cup [by : Posts, val : {"1", "claim"}, exp : Nat]]
    BY <1>1, MarkerType DEF PersistMarker, Shapes
  <1> QED
    BY <1>2, <1>3, <1>4 DEF PersistMarker, Shapes

LEMMA ClearLockType ==
    ASSUME Shapes, NEW p \in Posts, NEW ok \in BOOLEAN, ClearLock(p, ok)
    PROVE  Shapes'
  <1>1. posts[p].pc \in Stages /\ posts[p].nonce \in Nonces
    BY RequestFields DEF ClearLock, At, Stages
  <1>2. posts' \in [Posts -> Request]
    BY <1>1, GotoType DEF ClearLock, Stages
  <1>3. claims' \in [Isolates -> SUBSET [nonce : Nonces, exp : Nat]]
    BY ReleaseType DEF ClearLock
  <1>4. locks' \in [Nonces -> Nat] /\ cleared' \subseteq [nonce : Nonces, at : Nat]
    BY <1>1 DEF ClearLock, Shapes
  <1> QED
    BY <1>2, <1>3, <1>4 DEF ClearLock, Shapes

\* The replay check without the Durable Object.
LEMMA KvCheckType ==
    ASSUME Shapes, NEW p \in Posts,
           LookMarker(p) \/ PutClaimMarker(p) \/ CheckOwner(p) \/ SealMarker(p)
             \/ CheckThrows(p) \/ Refuse(p)
    PROVE  Shapes'
  <1>1. posts[p].pc \in Stages /\ posts[p].nonce \in Nonces /\ posts[p].pc # "new"
    <2>1. posts[p].pc \in {"look", "put", "own", "seal", "won"}
      BY DEF LookMarker, PutClaimMarker, CheckOwner, SealMarker, CheckThrows, Refuse, At
    <2> QED
      BY <2>1, RequestFields DEF Stages
  <1>2. posts' \in [Posts -> Request]
    <2>1. \E pc \in Stages : Goto(p, pc)
      BY DEF LookMarker, PutClaimMarker, CheckOwner, SealMarker, CheckThrows, Refuse, Stages
    <2> QED
      BY <1>1, <2>1, GotoType
  <1>3. claims' \in [Isolates -> SUBSET [nonce : Nonces, exp : Nat]]
    <2>1. Release(p) \/ claims' = claims
      BY DEF LookMarker, PutClaimMarker, CheckOwner, SealMarker, CheckThrows, Refuse
    <2> QED
      BY <2>1, ReleaseType DEF Shapes
  <1>4. markers' \in [Nonces -> {None} \cup [by : Posts, val : {"1", "claim"}, exp : Nat]]
    <2>1. [by |-> p, val |-> "claim", exp |-> now + REPLAY_TTL]
             \in [by : Posts, val : {"1", "claim"}, exp : Nat]
      BY InboxAssumption DEF Shapes
    <2>2. \/ markers' = markers
          \/ markers' = [markers EXCEPT ![posts[p].nonce] = Marker(p)]
          \/ markers' = [markers EXCEPT ![posts[p].nonce] =
                           [by |-> p, val |-> "claim", exp |-> now + REPLAY_TTL]]
      BY DEF LookMarker, PutClaimMarker, CheckOwner, SealMarker, CheckThrows, Refuse
    <2> QED
      BY <1>1, <2>1, <2>2, MarkerType DEF Shapes
  <1>5. grants' \subseteq [post : Posts, nonce : Nonces, at : Nat]
    <2>1. Granted(p) \/ grants' = grants
      BY DEF LookMarker, PutClaimMarker, CheckOwner, SealMarker, CheckThrows, Refuse
    <2> QED
      BY <1>1, <2>1, GrantedType DEF Shapes
  <1>6. UNCHANGED <<now, locks, box, reads, forget, tasks, cleared, swept, forgotten,
                  failed>>
    BY DEF LookMarker, PutClaimMarker, CheckOwner, SealMarker, CheckThrows, Refuse
  <1> QED
    BY <1>2, <1>3, <1>4, <1>5, <1>6 DEF Shapes

LEMMA StoreType ==
    ASSUME Shapes, NEW p \in Posts, NEW ok \in BOOLEAN, Store(p, ok)
    PROVE  Shapes'
  <1>1. posts[p].pc \in Stages /\ posts[p].nonce \in Nonces /\ posts[p].iso \in Isolates
        /\ posts[p].start \in Nat
    BY RequestFields DEF Store, At, Stages
  <1>2. now + ITEM_TTL \in Nat
    BY InboxAssumption DEF Shapes
  <1>3. posts' \in [Posts -> Request]
    <2>1. CASE ok
      <3>1. [pc |-> "stored", nonce |-> posts[p].nonce, iso |-> posts[p].iso,
             start |-> posts[p].start, exp |-> now + ITEM_TTL] \in Request
        BY <1>1, <1>2 DEF Request
      <3> QED
        BY <2>1, <3>1 DEF Store, Shapes
    <2>2. CASE ~ok
      BY <1>1, <2>2, GotoType DEF Store, Stages
    <2> QED
      BY <2>1, <2>2
  <1>4. box' \in [Nonces -> {None} \cup [by : Posts, exp : Nat]]
    <2>1. Item(p) \in [by : Posts, exp : Nat]
      BY <1>2 DEF Item
    <2>2. box' = box \/ box' = [box EXCEPT ![posts[p].nonce] = Item(p)]
      BY DEF Store
    <2> QED
      BY <1>1, <2>1, <2>2 DEF Shapes
  <1> QED
    BY <1>3, <1>4 DEF Store, Shapes

LEMMA EvictType ==
    ASSUME Shapes, NEW i \in Isolates, Evict(i)
    PROVE  Shapes'
  <1>1. ASSUME NEW p \in Posts, InFlight(p)
        PROVE  [posts[p] EXCEPT !.pc = "failed"] \in Request
    <2>1. posts[p] \in [pc : Stages, nonce : Nonces, iso : Isolates, start : Nat]
      BY <1>1 DEF Shapes, Request, Waiting, InFlight
    <2>2. [posts[p] EXCEPT !.pc = "failed"]
             \in [pc : Stages, nonce : Nonces, iso : Isolates, start : Nat]
      BY <2>1 DEF Stages
    <2> QED
      BY <2>2 DEF Request
  <1>2. posts' \in [Posts -> Request]
    <2> DEFINE evicted(p) == IF InFlight(p) /\ posts[p].iso = i
                             THEN [posts[p] EXCEPT !.pc = "failed"] ELSE posts[p]
    <2>1. \A p \in Posts : evicted(p) \in Request
      BY <1>1 DEF Shapes
    <2>2. posts' = [p \in Posts |-> evicted(p)]
      BY DEF Evict
    <2> QED
      BY <2>1, <2>2
  <1>3. claims' \in [Isolates -> SUBSET [nonce : Nonces, exp : Nat]]
    BY DEF Evict, Shapes
  <1> QED
    BY <1>2, <1>3 DEF Evict, Shapes

LEMMA ReadGetType ==
    ASSUME Shapes, NEW g \in Reads, NEW n \in Nonces, ReadGet(g, n)
    PROVE  Shapes'
  <1>1. reads' \in [Reads -> Reading]
    <2> DEFINE late == \E h \in Reads : reads[h].pc = "done" /\ reads[h].by = box[n].by
    <2>1. CASE Visible(box[n])
      <3>1. box[n].by \in Posts /\ late \in BOOLEAN
        BY <2>1 DEF Shapes, Visible
      <3>2. reads' = [reads EXCEPT ![g] =
                        [pc |-> "got", nonce |-> n, by |-> box[n].by, late |-> late]]
        BY <2>1 DEF ReadGet
      <3> HIDE DEF late
      <3>3. [pc |-> "got", nonce |-> n, by |-> box[n].by, late |-> late] \in Reading
        BY <3>1 DEF Reading
      <3> QED
        BY <3>2, <3>3 DEF Shapes
    <2>2. CASE ~Visible(box[n])
      <3>1. reads' = [reads EXCEPT ![g] = [pc |-> "none"]]
        BY <2>2 DEF ReadGet
      <3> QED
        BY <3>1 DEF Shapes, Reading
    <2> QED
      BY <2>1, <2>2
  <1> QED
    BY <1>1 DEF ReadGet, postVars, Shapes

LEMMA DeletedType ==
    ASSUME Shapes, NEW n \in Nonces
    PROVE  Deleted(n) \in [Nonces -> {None} \cup [by : Posts, exp : Nat]]
  BY DEF Shapes, Deleted

LEMMA ReadDeleteType ==
    ASSUME Shapes, NEW g \in Reads, NEW ok \in BOOLEAN, ReadDelete(g, ok)
    PROVE  Shapes'
  <1> DEFINE Answering == [pc : {"got", "done", "failed"}, nonce : Nonces, by : Posts,
                         late : BOOLEAN]
  <1>1. reads[g] \in Answering
    BY DEF Shapes, Reading, ReadDelete, Waiting
  <1>2. reads' \in [Reads -> Reading]
    <2>1. \A pc \in {"done", "failed"} : [reads[g] EXCEPT !.pc = pc] \in Answering
      BY <1>1
    <2>2. \E pc \in {"done", "failed"} : reads' = [reads EXCEPT ![g].pc = pc]
      BY DEF ReadDelete
    <2> QED
      BY <2>1, <2>2 DEF Shapes, Reading
  <1>3. box' \in [Nonces -> {None} \cup [by : Posts, exp : Nat]]
    <2>1. reads[g].nonce \in Nonces
      BY <1>1
    <2> QED
      BY <2>1, DeletedType DEF ReadDelete, Shapes
  <1> QED
    BY <1>2, <1>3 DEF ReadDelete, Shapes

LEMMA ForgetListInboxType ==
    ASSUME Shapes, ForgetListInbox
    PROVE  Shapes'
  <1>1. forget.count \in Nat
    BY DEF Shapes, Forgetting
  <1>2. PICK page \in PagesOf({n \in Nonces : Visible(box[n])}) :
          forget' = [pc |-> "listed", count |-> forget.count + 1, inbox |-> page,
                     items |-> {box[n].by : n \in {m \in Nonces : Visible(box[m])}}]
    BY DEF ForgetListInbox
  <1>3. page \subseteq {n \in Nonces : Visible(box[n])}
    BY DEF PagesOf
  <1>4. {box[n].by : n \in {m \in Nonces : Visible(box[m])}} \subseteq Posts
    BY DEF Shapes, Visible
  <1>5. page \subseteq Nonces
    BY <1>3
  <1>6. forget' \in Forgetting
    BY <1>1, <1>2, <1>4, <1>5 DEF Forgetting
  <1> QED
    BY <1>6 DEF ForgetListInbox, postVars, Shapes

LEMMA ForgetListReplayType ==
    ASSUME Shapes, ForgetListReplay
    PROVE  Shapes'
  <1>1. forget.count \in Nat /\ forget.inbox \in SUBSET Nonces /\ forget.items \in SUBSET Posts
    BY DEF Shapes, Forgetting, ForgetListReplay
  <1>2. PICK page \in PagesOf({n \in Nonces : Visible(markers[n])}) :
         LET overflow == Cardinality(page) > FORGET_MAX
                         \/ Cardinality(forget.inbox) > FORGET_MAX
         IN \E inbox \in Cuts(forget.inbox, overflow), replay \in Cuts(page, overflow) :
              /\ tasks' = tasks \cup ({"box"} \X inbox) \cup ({"marker"} \X replay)
                          \cup (IF durable THEN {"lock"} \X replay ELSE {})
              /\ swept' = IF overflow THEN swept ELSE swept \cup forget.items
              /\ forgotten' = forgotten \cup inbox
    BY DEF ForgetListReplay
  <1> DEFINE overflow == Cardinality(page) > FORGET_MAX
                         \/ Cardinality(forget.inbox) > FORGET_MAX
  <1>3. PICK inbox \in Cuts(forget.inbox, overflow), replay \in Cuts(page, overflow) :
              /\ tasks' = tasks \cup ({"box"} \X inbox) \cup ({"marker"} \X replay)
                          \cup (IF durable THEN {"lock"} \X replay ELSE {})
              /\ swept' = IF overflow THEN swept ELSE swept \cup forget.items
              /\ forgotten' = forgotten \cup inbox
    BY <1>2
  <1>4. page \subseteq {n \in Nonces : Visible(markers[n])}
    BY DEF PagesOf
  <1>5. inbox \subseteq Nonces /\ replay \subseteq Nonces
    BY <1>1, <1>4 DEF Cuts
  <1>6. tasks' \subseteq {"box", "marker", "lock"} \X Nonces
    BY <1>3, <1>5 DEF Shapes
  <1>7. swept' \subseteq Posts /\ forgotten' \subseteq Nonces
    BY <1>1, <1>3, <1>5 DEF Shapes
  <1>8. forget' \in Forgetting
    BY <1>1 DEF ForgetListReplay, Forgetting
  <1> QED
    BY <1>6, <1>7, <1>8 DEF ForgetListReplay, postVars, Shapes

LEMMA RunTaskType ==
    ASSUME Shapes, NEW t \in tasks, NEW ok \in BOOLEAN, RunTask(t, ok)
    PROVE  Shapes'
  <1>1. t[2] \in Nonces
    BY DEF Shapes
  <1>2. box' \in [Nonces -> {None} \cup [by : Posts, exp : Nat]]
    BY <1>1, DeletedType DEF RunTask, Shapes
  <1>3. markers' \in [Nonces -> {None} \cup [by : Posts, val : {"1", "claim"}, exp : Nat]]
    BY <1>1 DEF RunTask, Shapes
  <1>4. locks' \in [Nonces -> Nat]
    BY <1>1 DEF RunTask, Shapes
  <1>5. cleared' \subseteq [nonce : Nonces, at : Nat]
    BY <1>1 DEF RunTask, Shapes
  <1> QED
    BY <1>2, <1>3, <1>4, <1>5 DEF RunTask, Shapes

LEMMA RestType ==
    ASSUME Shapes, Tick \/ \E n \in Nonces : JanitorVisit(n) \/ Alarm(n)
    PROVE  Shapes'
  <1>1. CASE Tick
    BY <1>1 DEF Tick, postVars, Shapes
  <1>2. ASSUME NEW n \in Nonces, JanitorVisit(n)
        PROVE  Shapes'
    BY <1>2 DEF JanitorVisit, postVars, Shapes
  <1>3. ASSUME NEW n \in Nonces, Alarm(n)
        PROVE  Shapes'
    BY <1>3 DEF Alarm, Shapes
  <1> QED
    BY <1>1, <1>2, <1>3

LEMMA TypeInductive ==
    /\ Init => Shapes
    /\ Shapes /\ [Next]_vars => Shapes'
  <1>1. ASSUME Init PROVE Shapes
    <2>1. posts \in [Posts -> Request] /\ reads \in [Reads -> Reading]
      BY <1>1 DEF Init, Request, Reading
    <2>2. claims \in [Isolates -> SUBSET [nonce : Nonces, exp : Nat]]
      BY <1>1 DEF Init
    <2>3. forget \in Forgetting
      BY <1>1 DEF Init, Forgetting
    <2>4. /\ locks \in [Nonces -> Nat]
          /\ markers \in [Nonces -> {None} \cup [by : Posts, val : {"1", "claim"}, exp : Nat]]
          /\ box \in [Nonces -> {None} \cup [by : Posts, exp : Nat]]
      BY <1>1 DEF Init
    <2> QED
      BY <1>1, <2>1, <2>2, <2>3, <2>4 DEF Init, Shapes
  <1>2. ASSUME Shapes, PostNext PROVE Shapes'
    BY <1>2, ClaimReplayKeyType, LockClaimType, PersistMarkerType, ClearLockType,
       StoreType, KvCheckType, EvictType DEF PostNext
  <1>3. ASSUME Shapes, Next PROVE Shapes'
    BY <1>2, <1>3, ReadGetType, ReadDeleteType, ForgetListInboxType,
       ForgetListReplayType, RunTaskType, RestType DEF Next, Step
  <1>4. ASSUME Shapes, UNCHANGED vars PROVE Shapes'
    BY <1>4 DEF vars, Shapes
  <1> QED
    BY <1>1, <1>3, <1>4

\* Requests, KV entries, locks, scheduled deletions and histories keep their
\* shapes: the type invariant of the mailbox of worker/src/index.ts.
THEOREM TypeCorrect == Spec => []TypeOK
  <1>1. Init => TypeOK
    BY TypeInductive DEF Init, TypeOK
  <1>2. TypeOK /\ [Next]_vars => TypeOK'
    BY TypeInductive DEF Next, vars, TypeOK
  <1> QED
    BY <1>1, <1>2, PTL DEF Spec

-----------------------------------------------------------------------------
(***************************************************************************)
(* The replay check with the Durable Object                                *)
(***************************************************************************)

\* No POST is in the replay check that does without the Durable Object.
NoKv == \A p \in Posts : posts[p].pc \notin {"look", "put", "own", "seal"}

\* The histories hold nothing of the future.
InPast == (\A g \in grants : g.at <= now) /\ (\A c \in cleared : c.at <= now)

\* As long as a passed replay check must keep others out, the lock does, unless
\* it was cleared since.
LockCovers ==
    \A g \in grants :
        \/ now >= g.at + LockTtl
        \/ locks[g.nonce] >= g.at + LockTtl
        \/ \E c \in cleared : c.nonce = g.nonce /\ c.at >= g.at

LockInv == Shapes /\ NoKv /\ InPast /\ LockCovers /\ WinnersApart

LEMMA NoKvStep ==
    ASSUME durable, Shapes, NoKv, [Next]_vars
    PROVE  NoKv'
  <1>1. ASSUME NEW p \in Posts, NEW pc \in Stages, Goto(p, pc),
               pc \notin {"look", "put", "own", "seal"}
        PROVE  NoKv'
    BY <1>1 DEF Goto, NoKv, Shapes
  <1>2. ASSUME UNCHANGED posts PROVE NoKv'
    BY <1>2 DEF NoKv
  <1>3. ASSUME NEW p \in Posts, NEW i \in Isolates, NEW n \in Nonces, ClaimReplayKey(p, i, n)
        PROVE  NoKv'
    <2>1. posts'[p].pc \in {"replay", "lock"}
      BY <1>3 DEF ClaimReplayKey, Shapes
    <2>2. \A q \in Posts \ {p} : posts'[q] = posts[q]
      BY <1>3 DEF ClaimReplayKey, Shapes
    <2> QED
      BY <2>1, <2>2 DEF NoKv
  <1>4. ASSUME NEW p \in Posts, NEW ok \in BOOLEAN,
               LockClaim(p, ok) \/ PersistMarker(p, ok) \/ ClearLock(p, ok)
        PROVE  NoKv'
    <2>1. \E pc \in {"replay", "failed", "mark", "won", "clear"} : Goto(p, pc)
      BY <1>4 DEF LockClaim, PersistMarker, ClearLock
    <2> QED
      BY <1>1, <2>1 DEF Stages
  <1>5. ASSUME NEW p \in Posts, NEW ok \in BOOLEAN, Store(p, ok)
        PROVE  NoKv'
    <2>1. posts[p].pc = "won"
      BY <1>5 DEF Store, At
    <2>2. posts'[p].pc \in {"stored", "failed"}
      BY <1>5, <2>1 DEF Store, Goto, Shapes, Request, Waiting
    <2>3. \A q \in Posts \ {p} : posts'[q] = posts[q]
      BY <1>5 DEF Store, Goto, Shapes
    <2> QED
      BY <2>2, <2>3 DEF NoKv
  <1>6. ASSUME NEW p \in Posts,
               LookMarker(p) \/ PutClaimMarker(p) \/ CheckOwner(p) \/ SealMarker(p)
                 \/ CheckThrows(p)
        PROVE  FALSE
    BY <1>6 DEF LookMarker, PutClaimMarker, CheckOwner, SealMarker, CheckThrows, At, NoKv
  <1>7. ASSUME NEW p \in Posts, Refuse(p)
        PROVE  NoKv'
    BY <1>1, <1>7 DEF Refuse, Stages
  <1>8. ASSUME NEW i \in Isolates, Evict(i)
        PROVE  NoKv'
    <2>1. \A p \in Posts : posts'[p] = posts[p]
                           \/ posts'[p] = [posts[p] EXCEPT !.pc = "failed"]
      BY <1>8 DEF Evict
    <2>2. ASSUME NEW p \in Posts, posts'[p] = [posts[p] EXCEPT !.pc = "failed"],
                 posts'[p] # posts[p]
          PROVE  posts'[p].pc = "failed"
      BY <2>2 DEF Shapes, Request, Waiting
    <2> QED
      BY <2>1, <2>2 DEF NoKv
  <1>9. ASSUME PostNext PROVE NoKv'
    BY <1>3, <1>4, <1>5, <1>6, <1>7, <1>8, <1>9 DEF PostNext
  <1>10. ASSUME Next, ~PostNext PROVE NoKv'
    BY <1>2, <1>10 DEF Next, Step, ReadGet, ReadDelete, ForgetListInbox, ForgetListReplay,
       RunTask, JanitorVisit, Alarm, Tick, postVars
  <1> QED
    BY <1>2, <1>9, <1>10 DEF vars

\* A step that touches neither locks, clock nor histories.
LEMMA QuietStep ==
    ASSUME LockInv, UNCHANGED <<now, locks, grants, cleared>>
    PROVE  InPast' /\ LockCovers' /\ WinnersApart'
  BY DEF LockInv, InPast, LockCovers, WinnersApart, Apart, ClearedBetween

\* Withdrawing the protection of n is recorded, which is all that is needed.
LEMMA ClearStep ==
    ASSUME LockInv, NEW n \in Nonces, UNCHANGED <<now, grants>>,
           cleared' = cleared \cup {[nonce |-> n, at |-> now]},
           locks' = locks \/ locks' = [locks EXCEPT ![n] = 0]
    PROVE  InPast' /\ LockCovers' /\ WinnersApart'
  <1>1. InPast'
    BY DEF LockInv, InPast, Shapes
  <1>2. LockCovers'
    <2> SUFFICES ASSUME NEW g \in grants
                 PROVE  \/ now >= g.at + LockTtl
                        \/ locks'[g.nonce] >= g.at + LockTtl
                        \/ \E c \in cleared' : c.nonce = g.nonce /\ c.at >= g.at
      BY DEF LockCovers
    <2>1. CASE g.nonce = n
      <3>1. [nonce |-> n, at |-> now] \in cleared' /\ now >= g.at
        BY DEF LockInv, InPast, Shapes
      <3> QED
        BY <2>1, <3>1
    <2>2. CASE g.nonce # n
      <3>1. locks'[g.nonce] = locks[g.nonce]
        BY <2>2 DEF LockInv, Shapes
      <3> QED
        BY <3>1 DEF LockInv, LockCovers
    <2> QED
      BY <2>1, <2>2
  <1>3. WinnersApart'
    BY DEF LockInv, WinnersApart, Apart, ClearedBetween
  <1> QED
    BY <1>1, <1>2, <1>3

\* The alarm drops a lock that protects nothing any more.
LEMMA AlarmStep ==
    ASSUME LockInv, NEW n \in Nonces, Alarm(n)
    PROVE  InPast' /\ LockCovers' /\ WinnersApart'
  <1>1. InPast' /\ WinnersApart'
    BY DEF LockInv, InPast, WinnersApart, Apart, ClearedBetween, Alarm
  <1>2. LockCovers'
    <2> SUFFICES ASSUME NEW g \in grants
                 PROVE  \/ now >= g.at + LockTtl
                        \/ locks'[g.nonce] >= g.at + LockTtl
                        \/ \E c \in cleared : c.nonce = g.nonce /\ c.at >= g.at
      BY DEF LockCovers, Alarm
    <2>1. g.at \in Nat /\ g.nonce \in Nonces /\ locks[g.nonce] \in Nat /\ now \in Nat
      BY DEF LockInv, Shapes
    <2>2. \/ now >= g.at + LockTtl
          \/ locks[g.nonce] >= g.at + LockTtl
          \/ \E c \in cleared : c.nonce = g.nonce /\ c.at >= g.at
      BY DEF LockInv, LockCovers
    <2>3. locks'[g.nonce] = locks[g.nonce] \/ locks[g.nonce] <= now
      BY <2>1 DEF Alarm, LockInv, Shapes
    <2> QED
      BY <2>1, <2>2, <2>3, LockTtlType
  <1> QED
    BY <1>1, <1>2

LEMMA TickStep ==
    ASSUME LockInv, Tick
    PROVE  InPast' /\ LockCovers' /\ WinnersApart'
  <1>1. now \in Nat /\ now' = now + 1 /\ UNCHANGED <<locks, grants, cleared>>
    BY DEF Tick, LockInv, Shapes, postVars
  <1>2. \A g \in grants : g.at \in Nat
    BY DEF LockInv, Shapes
  <1>3. \A c \in cleared : c.at \in Nat
    BY DEF LockInv, Shapes
  <1>4. InPast'
    BY <1>1, <1>2, <1>3 DEF LockInv, InPast
  <1>5. LockCovers'
    BY <1>1, <1>2, LockTtlType DEF LockInv, LockCovers
  <1>6. WinnersApart'
    BY <1>1 DEF LockInv, WinnersApart, Apart, ClearedBetween
  <1> QED
    BY <1>4, <1>5, <1>6

\* The Durable Object grants a nonce only when no earlier grant still needs its
\* lock.
LEMMA LockClaimStep ==
    ASSUME LockInv, NEW p \in Posts, NEW answered \in BOOLEAN, LockClaim(p, answered)
    PROVE  InPast' /\ LockCovers' /\ WinnersApart'
  <1> DEFINE n == posts[p].nonce
             new == [post |-> p, nonce |-> n, at |-> now]
  <1>1. n \in Nonces /\ now \in Nat /\ locks[n] \in Nat
    BY RequestFields DEF LockInv, LockClaim, At, Shapes
  <1>2. \A g \in grants : g.at \in Nat /\ g.at <= now /\ g.nonce \in Nonces
    BY DEF LockInv, Shapes, InPast
  <1>3. CASE LockHeld(n)
    BY <1>3, QuietStep DEF LockClaim
  <1>4. CASE ~LockHeld(n)
    <2>1. /\ locks' = [locks EXCEPT ![n] = now + LockTtl]
          /\ grants' = grants \/ grants' = grants \cup {new}
          /\ UNCHANGED <<now, cleared>>
      BY <1>4 DEF LockClaim, Granted
    <2>2. locks[n] <= now
      BY <1>1, <1>4 DEF LockHeld
    <2>3. ASSUME NEW g \in grants, g.nonce = n
          PROVE  now >= g.at + LockTtl \/ ClearedBetween(n, g.at, now)
      BY <1>1, <1>2, <2>2, <2>3, LockTtlType
         DEF LockInv, LockCovers, InPast, ClearedBetween
    <2>4. InPast'
      BY <1>1, <2>1 DEF LockInv, InPast
    <2>5. LockCovers'
      <3> SUFFICES ASSUME NEW g \in grants'
                   PROVE  \/ now >= g.at + LockTtl
                          \/ locks'[g.nonce] >= g.at + LockTtl
                          \/ \E c \in cleared : c.nonce = g.nonce /\ c.at >= g.at
        BY <2>1 DEF LockCovers
      <3>1. locks'[n] = now + LockTtl
        BY <1>1, <2>1 DEF LockInv, Shapes
      <3>2. CASE g \in grants /\ g.nonce = n
        BY <1>1, <1>2, <3>1, <3>2, LockTtlType
      <3>3. CASE g \in grants /\ g.nonce # n
        <4>1. locks'[g.nonce] = locks[g.nonce]
          BY <1>2, <2>1, <3>3 DEF LockInv, Shapes
        <4> QED
          BY <3>3, <4>1 DEF LockInv, LockCovers
      <3>4. CASE g = new
        BY <1>1, <3>1, <3>4, LockTtlType
      <3> QED
        BY <2>1, <3>2, <3>3, <3>4
    <2>6. WinnersApart'
      <3> SUFFICES ASSUME NEW g \in grants', NEW h \in grants',
                          g # h, g.nonce = h.nonce, g.at <= h.at
                   PROVE  h.at >= g.at + LockTtl \/ ClearedBetween(g.nonce, g.at, h.at)
        BY <2>1 DEF WinnersApart, Apart, ClearedBetween
      <3>1. CASE g \in grants /\ h \in grants
        BY <3>1 DEF LockInv, WinnersApart, Apart
      <3>2. CASE g \in grants /\ h = new
        BY <2>3, <3>2
      <3>3. CASE g = new /\ h \in grants
        <4>1. h.at = now /\ h.nonce = n
          BY <1>1, <1>2, <3>3
        <4> QED
          BY <1>1, <2>3, <3>3, <4>1, LockTtlType
      <3> QED
        BY <2>1, <3>1, <3>2, <3>3
    <2> QED
      BY <2>4, <2>5, <2>6
  <1> QED
    BY <1>3, <1>4

\* Steps of readers, of /forget and of the janitor.
ReadOrForget ==
    \/ \E g \in Reads, n \in Nonces : ReadGet(g, n)
    \/ \E g \in Reads, ok \in BOOLEAN : ReadDelete(g, ok)
    \/ ForgetListInbox
    \/ ForgetListReplay
    \/ \E n \in Nonces : JanitorVisit(n)

LEMMA LockInvStep ==
    ASSUME durable, LockInv, [Next]_vars
    PROVE  LockInv'
  <1>1. Shapes' /\ NoKv'
    BY TypeInductive, NoKvStep DEF LockInv
  <1>2. InPast' /\ LockCovers' /\ WinnersApart'
    <2>1. ASSUME NEW p \in Posts, NEW ok \in BOOLEAN, ClearLock(p, ok)
          PROVE  InPast' /\ LockCovers' /\ WinnersApart'
      <3>1. CASE ok
        <4>1. posts[p].nonce \in Nonces
          BY <2>1, RequestFields DEF ClearLock, At, LockInv
        <4> QED
          BY <2>1, <3>1, <4>1, ClearStep DEF ClearLock
      <3>2. CASE ~ok
        BY <2>1, <3>2, QuietStep DEF ClearLock
      <3> QED
        BY <3>1, <3>2
    <2>2. ASSUME NEW t \in tasks, NEW ok \in BOOLEAN, RunTask(t, ok)
          PROVE  InPast' /\ LockCovers' /\ WinnersApart'
      <3>1. CASE ok /\ t[1] # "box"
        <4>1. t[2] \in Nonces
          BY DEF LockInv, Shapes
        <4> QED
          BY <2>2, <3>1, <4>1, ClearStep DEF RunTask
      <3>2. CASE ~(ok /\ t[1] # "box")
        BY <2>2, <3>2, QuietStep DEF RunTask
      <3> QED
        BY <3>1, <3>2
    <2>3. ASSUME NEW p \in Posts,
                 LookMarker(p) \/ PutClaimMarker(p) \/ CheckOwner(p) \/ SealMarker(p)
                   \/ CheckThrows(p) \/ Refuse(p)
          PROVE  InPast' /\ LockCovers' /\ WinnersApart'
      <3>1. UNCHANGED <<now, locks, grants, cleared>>
        BY <2>3 DEF LockInv, NoKv, LookMarker, PutClaimMarker, CheckOwner, SealMarker,
           CheckThrows, Refuse, At
      <3> QED
        BY <3>1, QuietStep
    <2>4. ASSUME NEW p \in Posts, NEW ok \in BOOLEAN, PersistMarker(p, ok) \/ Store(p, ok)
          PROVE  InPast' /\ LockCovers' /\ WinnersApart'
      BY <2>4, QuietStep DEF PersistMarker, Store
    <2>5. ASSUME NEW p \in Posts, NEW i \in Isolates, NEW n \in Nonces,
                 ClaimReplayKey(p, i, n)
          PROVE  InPast' /\ LockCovers' /\ WinnersApart'
      BY <2>5, QuietStep DEF ClaimReplayKey
    <2>6. ASSUME NEW i \in Isolates, Evict(i)
          PROVE  InPast' /\ LockCovers' /\ WinnersApart'
      BY <2>6, QuietStep DEF Evict
    <2>7. CASE PostNext
      BY <2>1, <2>3, <2>4, <2>5, <2>6, <2>7, LockClaimStep DEF PostNext
    <2>8. ASSUME ReadOrForget PROVE InPast' /\ LockCovers' /\ WinnersApart'
      BY <2>8, QuietStep DEF ReadOrForget, ReadGet, ReadDelete, ForgetListInbox,
         ForgetListReplay, JanitorVisit, postVars
    <2>9. CASE UNCHANGED vars
      BY <2>9, QuietStep DEF vars
    <2> QED
      BY <2>2, <2>7, <2>8, <2>9, AlarmStep, TickStep DEF Next, Step, ReadOrForget
  <1> QED
    BY <1>1, <1>2 DEF LockInv

\* With the ReplayLock Durable Object bound (checkReplayWithDurableObject), two
\* POSTs of one nonce that pass the replay check are REPLAY_TTL seconds apart, or
\* LOCK_MAX if that is less, or the lock was cleared in between: any number of isolates, requests of any
\* duration, evictions and lost answers included.
THEOREM OneWinnerCorrect == Spec => []OneWinner
  <1> DEFINE Inv == durable => LockInv
  <1>1. Init => Inv
    BY TypeInductive DEF Init, LockInv, NoKv, InPast, LockCovers, WinnersApart, Waiting
  <1>2. Inv /\ [Next]_vars => Inv'
    <2>1. [Next]_vars => durable' = durable
      BY DEF Next, vars
    <2> QED
      BY <2>1, LockInvStep
  <1>3. Inv => OneWinner
    BY DEF LockInv, OneWinner
  <1> QED
    BY <1>1, <1>2, <1>3, PTL DEF Spec

-----------------------------------------------------------------------------
(***************************************************************************)
(* The replay check without the Durable Object                             *)
(***************************************************************************)

\* The POSTs in the replay check, and those that have found no marker there.
Checking(p) == posts[p].pc \in {"look", "put", "own", "seal"}
FoundNone(p) == posts[p].pc \in {"put", "own", "seal"}

\* No POST waits for the Durable Object, and none takes too long.
NoLock == \A p \in Posts : posts[p].pc \notin {"lock", "mark", "clear"}
Timely == \A p \in Posts : Checking(p) => now <= posts[p].start + PATIENCE

\* A POST in the replay check has its claim, and is the only one that has.
Claiming ==
    \A p \in Posts : Checking(p) =>
        \E c \in claims[posts[p].iso] :
            c.nonce = posts[p].nonce /\ c.exp >= posts[p].start + CLAIM_TTL

Alone ==
    \A p, q \in Posts :
        /\ Checking(p) /\ Checking(q)
        /\ posts[p].iso = posts[q].iso /\ posts[p].nonce = posts[q].nonce
        => p = q

ChecksInv == Shapes /\ NoLock /\ Timely /\ Claiming /\ Alone

\* Who has passed has begun, and so keeps the isolate.
Begun == \A g \in grants : posts[g.post].pc # "new"

Withdrawn(n, t) == \E c \in cleared : c.nonce = n /\ c.at >= t

\* The marker keeps others out for REPLAY_TTL, whoever wrote it, unless it went.
MarkerCovers ==
    \A g \in grants :
        \/ markers[g.nonce] # None /\ markers[g.nonce].exp >= g.at + REPLAY_TTL
        \/ Withdrawn(g.nonce, g.at)

\* Who has found no marker comes late enough after all who passed.
LateEnough ==
    \A p \in Posts, g \in grants :
        FoundNone(p) /\ posts[g.post].iso = posts[p].iso /\ g.nonce = posts[p].nonce =>
            now >= g.at + LockTtl \/ Withdrawn(g.nonce, g.at)

HereApart == \A g, h \in grants : posts[g.post].iso = posts[h.post].iso => Apart(g, h)

HereInv ==
    ChecksInv /\ InPast /\ Begun /\ MarkerCovers /\ LateEnough /\ HereApart

\* A step of the replay check leaves the request in it, or ends it and releases
\* the claim.
KvStep(p) ==
    LookMarker(p) \/ PutClaimMarker(p) \/ CheckOwner(p) \/ SealMarker(p) \/ CheckThrows(p)

LEMMA KvMoves ==
    ASSUME NEW p \in Posts, KvStep(p)
    PROVE  /\ Checking(p) /\ UNCHANGED now
           /\ \E pc \in Stages :
                /\ Goto(p, pc)
                /\ \/ pc \in {"put", "own", "seal"} /\ UNCHANGED claims
                   \/ pc \in {"replay", "won", "failed"} /\ Release(p)
  BY DEF KvStep, LookMarker, PutClaimMarker, CheckOwner, SealMarker, CheckThrows, Checking,
     At, Stages

LEMMA GotoFields ==
    ASSUME Shapes, NEW p \in Posts, NEW pc \in Stages, Goto(p, pc), posts[p].pc # "new",
           posts[p].pc # "stored"
    PROVE  /\ posts'[p].pc = pc /\ posts'[p].nonce = posts[p].nonce
           /\ posts'[p].iso = posts[p].iso /\ posts'[p].start = posts[p].start
           /\ \A q \in Posts \ {p} : posts'[q] = posts[q]
  <1>1. posts[p] \in [pc : Stages, nonce : Nonces, iso : Isolates, start : Nat]
    BY DEF Shapes, Request, Waiting
  <1> QED
    BY <1>1 DEF Goto, Shapes

LEMMA KvChecks ==
    ASSUME ChecksInv, Shapes', NEW p \in Posts, KvStep(p)
    PROVE  ChecksInv'
  <1>1. PICK pc \in Stages :
                /\ Goto(p, pc)
                /\ \/ pc \in {"put", "own", "seal"} /\ UNCHANGED claims
                   \/ pc \in {"replay", "won", "failed"} /\ Release(p)
    BY KvMoves
  <1>2. Checking(p) /\ now' = now
    BY KvMoves
  <1>3. /\ posts'[p].pc = pc /\ posts'[p].nonce = posts[p].nonce
        /\ posts'[p].iso = posts[p].iso /\ posts'[p].start = posts[p].start
        /\ \A q \in Posts \ {p} : posts'[q] = posts[q]
    BY <1>1, <1>2, GotoFields DEF Checking, ChecksInv
  <1>4. \A q \in Posts : Checking(q)' => Checking(q)
    BY <1>2, <1>3 DEF Checking
  <1>5. \A q \in Posts : /\ posts'[q].nonce = posts[q].nonce
                         /\ posts'[q].iso = posts[q].iso /\ posts'[q].start = posts[q].start
    BY <1>3
  <1>6. NoLock'
    BY <1>1, <1>3 DEF ChecksInv, NoLock
  <1>7. Timely' /\ Alone'
    BY <1>2, <1>4, <1>5 DEF ChecksInv, Timely, Alone
  <1>8. Claiming'
    <2> SUFFICES ASSUME NEW q \in Posts, Checking(q)'
                 PROVE  \E c \in claims'[posts[q].iso] :
                           c.nonce = posts[q].nonce /\ c.exp >= posts[q].start + CLAIM_TTL
      BY <1>5 DEF Claiming
    <2>1. PICK c \in claims[posts[q].iso] :
             c.nonce = posts[q].nonce /\ c.exp >= posts[q].start + CLAIM_TTL
      BY <1>4 DEF ChecksInv, Claiming
    <2>2. c \in claims'[posts[q].iso]
      <3>1. CASE UNCHANGED claims
        BY <2>1, <3>1
      <3>2. CASE pc \in {"replay", "won", "failed"} /\ Release(p)
        <4>1. q # p
          BY <1>3, <3>2 DEF Checking
        <4>2. posts[q].iso # posts[p].iso \/ posts[q].nonce # posts[p].nonce
          BY <1>2, <1>4, <4>1 DEF ChecksInv, Alone
        <4>3. posts[q].iso \in Isolates /\ posts[p].iso \in Isolates
          BY <1>2, <1>4, RequestFields DEF Checking, ChecksInv
        <4> QED
          BY <2>1, <3>2, <4>2, <4>3 DEF Release, ChecksInv, Shapes
      <3> QED
        BY <1>1, <3>1, <3>2
    <2> QED
      BY <2>1, <2>2
  <1> QED
    BY <1>6, <1>7, <1>8 DEF ChecksInv

\* ClaimReplayKey lets nobody in whose nonce is being checked: its claim has not
\* run out, for no request takes as long as a claim lives.
LEMMA ClaimChecks ==
    ASSUME ChecksInv, Shapes', ~durable, PATIENCE < CLAIM_TTL,
           NEW p \in Posts, NEW i \in Isolates, NEW n \in Nonces, ClaimReplayKey(p, i, n)
    PROVE  ChecksInv'
  <1> DEFINE valid == {c \in claims[i] : c.exp > now}
             claim == [nonce |-> n, exp |-> now + CLAIM_TTL]
  <1>1. now \in Nat /\ now' = now /\ CLAIM_TTL \in Nat /\ PATIENCE \in Nat
    BY InboxAssumption DEF ChecksInv, Shapes, ClaimReplayKey
  <1>2. /\ posts'[p].pc \in {"replay", "look"} /\ posts'[p].nonce = n
        /\ posts'[p].iso = i /\ posts'[p].start = now
        /\ posts'[p].pc = "look" => ~Claimed(valid, n)
        /\ \A q \in Posts \ {p} : posts'[q] = posts[q]
    BY DEF ChecksInv, Shapes, ClaimReplayKey
  <1>3. /\ valid \subseteq claims'[i]
        /\ posts'[p].pc = "look" => claim \in claims'[i]
        /\ \A j \in Isolates \ {i} : claims'[j] = claims[j]
    <2>1. IF Claimed(valid, n)
          THEN claims' = [claims EXCEPT ![i] = valid]
          ELSE claims' = [claims EXCEPT ![i] = valid \cup {claim}]
      BY DEF ClaimReplayKey
    <2> HIDE DEF valid, claim
    <2> QED
      BY <1>2, <2>1 DEF ChecksInv, Shapes
  <1>4. \A q \in Posts \ {p} : Checking(q)' <=> Checking(q)
    BY <1>2 DEF Checking
  <1>5. ASSUME NEW q \in Posts, Checking(q)
        PROVE  \E c \in claims[posts[q].iso] :
                  c.nonce = posts[q].nonce /\ c.exp >= posts[q].start + CLAIM_TTL /\ c.exp > now
    <2>1. PICK c \in claims[posts[q].iso] :
             c.nonce = posts[q].nonce /\ c.exp >= posts[q].start + CLAIM_TTL
      BY <1>5 DEF ChecksInv, Claiming
    <2>2. now <= posts[q].start + PATIENCE
      BY <1>5 DEF ChecksInv, Timely
    <2>3. posts[q].start \in Nat /\ posts[q].iso \in Isolates
      BY <1>5, RequestFields DEF Checking, ChecksInv
    <2>4. c.exp \in Nat
      BY <2>1, <2>3 DEF ChecksInv, Shapes
    <2> QED
      BY <1>1, <2>1, <2>2, <2>3, <2>4
  <1>6. NoLock'
    BY <1>2 DEF ChecksInv, NoLock
  <1>7. Timely'
    BY <1>1, <1>2, <1>4 DEF ChecksInv, Timely
  <1>8. Claiming'
    <2> SUFFICES ASSUME NEW q \in Posts, Checking(q)'
                 PROVE  \E c \in claims'[posts'[q].iso] :
                           c.nonce = posts'[q].nonce /\ c.exp >= posts'[q].start + CLAIM_TTL
      BY DEF Claiming
    <2>1. CASE q = p
      <3>1. claim \in claims'[i] /\ claim.nonce = n /\ claim.exp = now + CLAIM_TTL
        BY <1>2, <1>3, <2>1 DEF Checking
      <3> QED
        BY <1>1, <1>2, <2>1, <3>1
    <2>2. CASE q # p
      <3>1. PICK c \in claims[posts[q].iso] :
               c.nonce = posts[q].nonce /\ c.exp >= posts[q].start + CLAIM_TTL /\ c.exp > now
        BY <1>4, <1>5, <2>2
      <3>2. posts[q].iso \in Isolates
        BY <1>4, <2>2, RequestFields DEF Checking, ChecksInv
      <3>3. c \in claims'[posts[q].iso]
        BY <1>3, <3>1, <3>2
      <3> QED
        BY <1>2, <2>2, <3>1, <3>3
    <2> QED
      BY <2>1, <2>2
  <1>9. Alone'
    <2>1. ASSUME NEW q \in Posts \ {p}, Checking(q), posts[q].iso = i, posts[q].nonce = n
          PROVE  posts'[p].pc # "look"
      <3>1. Claimed(valid, n)
        BY <1>5, <2>1 DEF Claimed
      <3> QED
        BY <1>2, <3>1
    <2>2. Checking(p)' => posts'[p].pc = "look"
      BY <1>2 DEF Checking
    <2> HIDE DEF valid
    <2> SUFFICES ASSUME NEW q \in Posts, NEW r \in Posts, Checking(q)', Checking(r)', q # r,
                        posts'[q].iso = posts'[r].iso, posts'[q].nonce = posts'[r].nonce
                 PROVE  FALSE
      BY DEF Alone
    <2>3. CASE q = p
      BY <1>2, <1>4, <2>1, <2>2, <2>3
    <2>4. CASE r = p
      BY <1>2, <1>4, <2>1, <2>2, <2>4
    <2>5. CASE q # p /\ r # p
      BY <1>2, <1>4, <2>5 DEF ChecksInv, Alone
    <2> QED
      BY <2>3, <2>4, <2>5
  <1> QED
    BY <1>6, <1>7, <1>8, <1>9 DEF ChecksInv

\* The other steps leave the requests in the replay check as they are.
LEMMA RestChecks ==
    ASSUME ChecksInv, Shapes', now' = now \/ Tick,
           \A p \in Posts : posts'[p] = posts[p] \/ (~Checking(p)' /\ NoLock'),
           \A p \in Posts : Checking(p)' => claims'[posts[p].iso] = claims[posts[p].iso]
    PROVE  ChecksInv'
  <1>1. \A p \in Posts : Checking(p)' => Checking(p) /\ posts'[p] = posts[p]
    BY DEF Checking
  <1>2. NoLock'
    BY DEF ChecksInv, NoLock
  <1>3. Timely'
    <2> SUFFICES ASSUME NEW p \in Posts, Checking(p)'
                 PROVE  now' <= posts[p].start + PATIENCE
      BY <1>1 DEF Timely
    <2>1. Checking(p) /\ now <= posts[p].start + PATIENCE
      BY <1>1 DEF ChecksInv, Timely
    <2>2. CASE Tick
      <3>1. now' = now + 1 /\ now - posts[p].start < PATIENCE
        BY <2>1, <2>2 DEF Tick, InFlight, Checking
      <3>2. now \in Nat /\ posts[p].start \in Nat /\ PATIENCE \in Nat
        BY <2>1, RequestFields, InboxAssumption DEF Checking, ChecksInv, Shapes
      <3> QED
        BY <3>1, <3>2
    <2> QED
      BY <2>1, <2>2
  <1>4. Claiming' /\ Alone'
    BY <1>1 DEF ChecksInv, Claiming, Alone
  <1> QED
    BY <1>2, <1>3, <1>4 DEF ChecksInv

\* A step without a marker written or removed, or a replay check passed.
LEMMA HereQuiet ==
    ASSUME HereInv, ChecksInv', now' = now \/ now' = now + 1,
           UNCHANGED <<grants, cleared>>,
           \A g \in grants : markers'[g.nonce] = markers[g.nonce],
           \A p \in Posts : posts[p].pc # "new" =>
              posts'[p].pc # "new" /\ posts'[p].iso = posts[p].iso
              /\ posts'[p].nonce = posts[p].nonce,
           \A p \in Posts : FoundNone(p)' => FoundNone(p)
    PROVE  HereInv'
  <1>1. /\ now \in Nat /\ (\A c \in cleared : c.at \in Nat)
        /\ \A g \in grants : g.at \in Nat /\ g.post \in Posts
    BY DEF HereInv, ChecksInv, Shapes
  <1>2. LockTtl \in Nat /\ REPLAY_TTL \in Nat
    BY LockTtlType, InboxAssumption
  <1>3. InPast' /\ Begun'
    BY <1>1 DEF HereInv, InPast, Begun
  <1>4. \A g \in grants : posts'[g.post].iso = posts[g.post].iso
    BY <1>1 DEF HereInv, Begun
  <1>5. MarkerCovers' /\ HereApart'
    BY <1>4 DEF HereInv, MarkerCovers, Withdrawn, HereApart, Apart, ClearedBetween
  <1>6. LateEnough'
    <2> SUFFICES ASSUME NEW p \in Posts, NEW g \in grants, FoundNone(p)',
                        posts'[g.post].iso = posts'[p].iso, g.nonce = posts'[p].nonce
                 PROVE  now' >= g.at + LockTtl \/ Withdrawn(g.nonce, g.at)
      BY DEF LateEnough, Withdrawn
    <2>1. posts[p].pc # "new" /\ FoundNone(p)
      BY DEF FoundNone
    <2>2. now >= g.at + LockTtl \/ Withdrawn(g.nonce, g.at)
      BY <1>4, <2>1 DEF HereInv, LateEnough
    <2> QED
      BY <1>1, <1>2, <2>2
  <1> QED
    BY <1>3, <1>5, <1>6 DEF HereInv

\* Look: nothing is found, so the markers of those who passed are gone.
LEMMA LookHere ==
    ASSUME HereInv, ChecksInv', NEW p \in Posts, LookMarker(p)
    PROVE  HereInv'
  <1> DEFINE n == posts[p].nonce
  <1>1. PICK pc \in Stages : Goto(p, pc)
    BY KvMoves DEF KvStep
  <1>2. posts[p].pc = "look" /\ UNCHANGED <<now, grants, cleared, markers>>
    BY DEF LookMarker, At
  <1>3. /\ posts'[p].pc = pc /\ posts'[p].nonce = n /\ posts'[p].iso = posts[p].iso
        /\ \A q \in Posts \ {p} : posts'[q] = posts[q]
    BY <1>1, <1>2, GotoFields DEF HereInv, ChecksInv
  <1>4. CASE Visible(markers[n])
    <2>1. ~FoundNone(p)'
      <3>1. Goto(p, "replay") /\ "replay" \in Stages
        BY <1>4 DEF LookMarker, Stages
      <3>2. posts'[p].pc = "replay"
        BY <1>2, <3>1, GotoFields DEF HereInv, ChecksInv
      <3> QED
        BY <3>2 DEF FoundNone
    <2>2. \A q \in Posts : FoundNone(q)' => FoundNone(q)
      BY <1>3, <2>1 DEF FoundNone
    <2>3. posts'[p].pc # "new"
      BY <1>3 DEF Stages
    <2> QED
      BY <1>2, <1>3, <2>2, <2>3, HereQuiet
  <1>5. CASE ~Visible(markers[n])
    <2>1. /\ now \in Nat /\ n \in Nonces /\ LockTtl \in Nat /\ REPLAY_TTL \in Nat
          /\ LockTtl <= REPLAY_TTL
      BY <1>2, RequestFields, LockTtlType, InboxAssumption DEF HereInv, ChecksInv, Shapes
    <2>2. \A g \in grants : g.at \in Nat /\ g.post \in Posts
      BY DEF HereInv, ChecksInv, Shapes
    <2>3. ASSUME NEW g \in grants, g.nonce = n
          PROVE  now >= g.at + LockTtl \/ Withdrawn(g.nonce, g.at)
      <3>1. CASE markers[n] # None /\ markers[n].exp >= g.at + REPLAY_TTL
        <4>1. markers[n].exp \in Nat /\ ~(markers[n].exp >= now)
          BY <1>5, <2>1, <3>1 DEF Visible, HereInv, ChecksInv, Shapes
        <4> QED
          BY <2>1, <2>2, <3>1, <4>1
      <3> QED
        BY <2>3, <3>1 DEF HereInv, MarkerCovers
    <2>4. InPast' /\ MarkerCovers'
      BY <1>2 DEF HereInv, InPast, MarkerCovers, Withdrawn
    <2>5. Begun' /\ \A g \in grants : posts'[g.post].iso = posts[g.post].iso
      BY <1>2, <1>3, <2>2 DEF HereInv, Begun, Stages
    <2>6. HereApart'
      BY <1>2, <2>5 DEF HereInv, HereApart, Apart, ClearedBetween
    <2>7. LateEnough'
      <3> SUFFICES ASSUME NEW q \in Posts, NEW g \in grants, FoundNone(q)',
                          posts[g.post].iso = posts'[q].iso, g.nonce = posts'[q].nonce
                   PROVE  now >= g.at + LockTtl \/ Withdrawn(g.nonce, g.at)
        BY <1>2, <2>5 DEF LateEnough, Withdrawn
      <3>1. CASE q = p
        BY <1>3, <2>3, <3>1
      <3>2. CASE q # p
        BY <1>3, <3>2 DEF HereInv, LateEnough, FoundNone
      <3> QED
        BY <3>1, <3>2
    <2> QED
      BY <2>4, <2>5, <2>6, <2>7 DEF HereInv
  <1> QED
    BY <1>4, <1>5

\* Every marker a POST writes lasts at least as long as the one it replaces must.
LEMMA PutHere ==
    ASSUME HereInv, ChecksInv', NEW p \in Posts, PutClaimMarker(p) \/ SealMarker(p)
    PROVE  MarkerCovers'
  <1> DEFINE n == posts[p].nonce
  <1>1. /\ posts[p].pc \in {"put", "seal"} /\ UNCHANGED <<now, cleared>>
        /\ grants' \subseteq grants \cup {[post |-> p, nonce |-> n, at |-> now]}
    BY DEF PutClaimMarker, SealMarker, At, Granted
  <1>2. n \in Nonces /\ now \in Nat /\ REPLAY_TTL \in Nat
    BY <1>1, RequestFields, InboxAssumption DEF HereInv, ChecksInv, Shapes
  <1>3. \E m \in [by : Posts, val : {"1", "claim"}, exp : {now + REPLAY_TTL}] :
           markers' = [markers EXCEPT ![n] = m]
    <2>1. CASE PutClaimMarker(p)
      BY <1>2, <2>1 DEF PutClaimMarker
    <2>2. CASE SealMarker(p)
      BY <1>2, <2>2 DEF SealMarker, Marker
    <2> QED
      BY <2>1, <2>2
  <1>4. PICK m \in [by : Posts, val : {"1", "claim"}, exp : {now + REPLAY_TTL}] :
           markers' = [markers EXCEPT ![n] = m]
    BY <1>3
  <1>5. m # None /\ m.exp = now + REPLAY_TTL
    BY DEF None
  <1>6. markers'[n] = m /\ \A o \in Nonces \ {n} : markers'[o] = markers[o]
    BY <1>2, <1>4 DEF HereInv, ChecksInv, Shapes
  <1> SUFFICES ASSUME NEW g \in grants'
               PROVE  \/ markers'[g.nonce] # None /\ markers'[g.nonce].exp >= g.at + REPLAY_TTL
                      \/ Withdrawn(g.nonce, g.at)
    BY <1>1 DEF MarkerCovers, Withdrawn
  <1>7. g.nonce \in Nonces /\ g.at \in Nat /\ g.at <= now
    BY <1>1, <1>2 DEF HereInv, InPast, ChecksInv, Shapes
  <1>8. CASE g.nonce = n
    BY <1>2, <1>5, <1>6, <1>7, <1>8
  <1>9. CASE g.nonce # n
    BY <1>1, <1>6, <1>7, <1>9 DEF HereInv, MarkerCovers
  <1> QED
    BY <1>8, <1>9

LEMMA SealHere ==
    ASSUME HereInv, ChecksInv', NEW p \in Posts, SealMarker(p)
    PROVE  HereInv'
  <1> DEFINE n == posts[p].nonce
             new == [post |-> p, nonce |-> n, at |-> now]
  <1>1. /\ posts[p].pc = "seal" /\ Goto(p, "won") /\ UNCHANGED <<now, cleared>>
        /\ grants' = grants \cup {new}
    BY DEF SealMarker, At, Granted
  <1>2. /\ posts'[p].pc = "won" /\ posts'[p].nonce = n /\ posts'[p].iso = posts[p].iso
        /\ \A q \in Posts \ {p} : posts'[q] = posts[q]
    BY <1>1, GotoFields DEF HereInv, ChecksInv, Stages
  <1>3. now \in Nat /\ LockTtl \in Nat /\ LockTtl > 0
    BY LockTtlType DEF HereInv, ChecksInv, Shapes
  <1>4. \A g \in grants : g.at \in Nat /\ g.at <= now /\ g.post \in Posts
    BY DEF HereInv, InPast, ChecksInv, Shapes
  <1>5. \A q \in Posts : posts'[q].iso = posts[q].iso /\ posts'[q].nonce = posts[q].nonce
    BY <1>2
  <1>6. InPast' /\ Begun'
    <2>1. \A g \in grants' : g \in grants \/ (g.post = p /\ g.at = now)
      BY <1>1
    <2> QED
      BY <1>1, <1>2, <1>3, <1>4, <2>1 DEF HereInv, InPast, Begun
  <1>7. ASSUME NEW g \in grants, g.nonce = n, posts[g.post].iso = posts[p].iso
        PROVE  now >= g.at + LockTtl \/ ClearedBetween(n, g.at, now)
    <2>1. now >= g.at + LockTtl \/ Withdrawn(n, g.at)
      BY <1>1, <1>7 DEF HereInv, LateEnough, FoundNone
    <2> QED
      BY <2>1 DEF Withdrawn, ClearedBetween, HereInv, InPast
  <1>8. LateEnough'
    <2> SUFFICES ASSUME NEW q \in Posts, NEW g \in grants', FoundNone(q)',
                        posts[g.post].iso = posts[q].iso, g.nonce = posts[q].nonce
                 PROVE  now >= g.at + LockTtl \/ Withdrawn(g.nonce, g.at)
      <3>1. \A g \in grants' : g.post \in Posts
        BY <1>1, <1>4
      <3> QED
        BY <1>1, <1>5, <3>1 DEF LateEnough, Withdrawn
    <2>1. q # p /\ FoundNone(q)
      BY <1>2 DEF FoundNone
    <2>2. CASE g \in grants
      BY <2>1, <2>2 DEF HereInv, LateEnough
    <2>3. CASE g = new
      <3>1. Checking(p) /\ Checking(q)
        BY <1>1, <2>1 DEF Checking, FoundNone
      <3> QED
        BY <2>1, <2>3, <3>1 DEF HereInv, ChecksInv, Alone
    <2> QED
      BY <1>1, <2>2, <2>3
  <1>9. HereApart'
    <2> SUFFICES ASSUME NEW g \in grants', NEW h \in grants',
                        posts[g.post].iso = posts[h.post].iso,
                        g # h, g.nonce = h.nonce, g.at <= h.at
                 PROVE  h.at >= g.at + LockTtl \/ ClearedBetween(g.nonce, g.at, h.at)
      <3>1. \A g \in grants' : g.post \in Posts
        BY <1>1, <1>4
      <3> QED
        BY <1>1, <1>5, <3>1 DEF HereApart, Apart, ClearedBetween
    <2>1. CASE g \in grants /\ h \in grants
      BY <2>1 DEF HereInv, HereApart, Apart
    <2>2. CASE g \in grants /\ h = new
      BY <1>7, <2>2
    <2>3. CASE g = new /\ h \in grants
      <3>1. h.at = now /\ h.nonce = n
        BY <1>3, <1>4, <2>3
      <3>2. ~(now >= h.at + LockTtl)
        BY <1>3, <3>1
      <3> QED
        BY <1>7, <2>3, <3>1, <3>2
    <2> QED
      BY <1>1, <2>1, <2>2, <2>3
  <1> QED
    BY <1>6, <1>8, <1>9, PutHere DEF HereInv

\* Withdrawing a marker is recorded.
LEMMA TaskHere ==
    ASSUME HereInv, Shapes', NEW t \in tasks, NEW ok \in BOOLEAN, RunTask(t, ok)
    PROVE  HereInv'
  <1> DEFINE n == t[2]
  <1>1. UNCHANGED <<now, posts, claims, grants>> /\ n \in Nonces /\ now \in Nat
    BY DEF RunTask, HereInv, ChecksInv, Shapes
  <1>2. ChecksInv'
    BY <1>1, RestChecks DEF HereInv
  <1>3. /\ cleared \subseteq cleared'
        /\ \A c \in cleared' : c \in cleared \/ (c.nonce = n /\ c.at = now)
    BY DEF RunTask
  <1>4. \/ markers' = markers
        \/ /\ markers' = [markers EXCEPT ![n] = None]
           /\ [nonce |-> n, at |-> now] \in cleared'
    BY DEF RunTask
  <1>5. \A g \in grants : g.at \in Nat /\ g.at <= now /\ g.nonce \in Nonces
    BY DEF HereInv, InPast, ChecksInv, Shapes
  <1>6. InPast' /\ Begun'
    BY <1>1, <1>3 DEF HereInv, InPast, Begun
  <1>7. MarkerCovers'
    <2> SUFFICES ASSUME NEW g \in grants
                 PROVE  \/ /\ markers'[g.nonce] # None
                           /\ markers'[g.nonce].exp >= g.at + REPLAY_TTL
                        \/ Withdrawn(g.nonce, g.at)'
      BY <1>1 DEF MarkerCovers, Withdrawn
    <2>1. CASE markers'[g.nonce] = markers[g.nonce]
      BY <1>3, <2>1 DEF HereInv, MarkerCovers, Withdrawn
    <2>2. CASE markers'[g.nonce] # markers[g.nonce]
      <3>1. g.nonce = n /\ [nonce |-> n, at |-> now] \in cleared'
        BY <1>4, <1>5, <2>2 DEF HereInv, ChecksInv, Shapes
      <3> QED
        BY <1>5, <3>1 DEF Withdrawn
    <2> QED
      BY <2>1, <2>2
  <1>8. LateEnough'
    BY <1>1, <1>3 DEF HereInv, LateEnough, Withdrawn, FoundNone
  <1>9. HereApart'
    BY <1>1, <1>3 DEF HereInv, HereApart, Apart, ClearedBetween
  <1> QED
    BY <1>2, <1>6, <1>7, <1>8, <1>9 DEF HereInv

LEMMA KvHere ==
    ASSUME HereInv, Shapes', NEW p \in Posts, KvStep(p)
    PROVE  HereInv'
  <1>1. ChecksInv'
    BY KvChecks DEF HereInv
  <1>2. Checking(p) /\ now' = now
    BY KvMoves
  <1>3. PICK pc \in Stages : Goto(p, pc)
    BY KvMoves
  <1>4. /\ posts'[p].pc = pc /\ pc # "new" /\ posts'[p].nonce = posts[p].nonce
        /\ posts'[p].iso = posts[p].iso
        /\ \A q \in Posts \ {p} : posts'[q] = posts[q]
    BY <1>2, <1>3, GotoFields DEF HereInv, ChecksInv, Checking, Stages
  <1>5. CASE CheckOwner(p) \/ CheckThrows(p)
    <2>1. UNCHANGED <<grants, cleared, markers>>
      BY <1>5 DEF CheckOwner, CheckThrows
    <2>2. FoundNone(p)' => FoundNone(p)
      <3>1. CASE CheckOwner(p)
        BY <3>1 DEF CheckOwner, At, FoundNone
      <3>2. CASE CheckThrows(p)
        <4>1. Goto(p, "failed") /\ "failed" \in Stages
          BY <3>2 DEF CheckThrows, Stages
        <4>2. posts'[p].pc = "failed"
          BY <1>2, <4>1, GotoFields DEF HereInv, ChecksInv, Checking
        <4> QED
          BY <4>2 DEF FoundNone
      <3> QED
        BY <1>5, <3>1, <3>2
    <2>3. \A q \in Posts : FoundNone(q)' => FoundNone(q)
      BY <1>4, <2>2 DEF FoundNone
    <2> QED
      BY <1>1, <1>2, <1>4, <2>1, <2>3, HereQuiet
  <1>6. CASE PutClaimMarker(p)
    <2>1. UNCHANGED <<now, grants, cleared>> /\ posts[p].pc = "put"
      BY <1>6 DEF PutClaimMarker, At
    <2>2. MarkerCovers'
      BY <1>1, <1>6, PutHere
    <2>3. \A g \in grants : g.post \in Posts
      BY DEF HereInv, ChecksInv, Shapes
    <2>4. InPast' /\ Begun' /\ \A g \in grants : posts'[g.post].iso = posts[g.post].iso
      BY <1>4, <2>1, <2>3 DEF HereInv, InPast, Begun
    <2>5. HereApart'
      BY <2>1, <2>4 DEF HereInv, HereApart, Apart, ClearedBetween
    <2>6. \A q \in Posts : FoundNone(q)' => FoundNone(q)
      BY <1>4, <2>1 DEF FoundNone
    <2>7. \A q \in Posts : posts'[q].iso = posts[q].iso /\ posts'[q].nonce = posts[q].nonce
      BY <1>4
    <2>8. LateEnough'
      BY <2>1, <2>4, <2>6, <2>7 DEF HereInv, LateEnough, Withdrawn
    <2> QED
      BY <1>1, <2>2, <2>4, <2>5, <2>8 DEF HereInv
  <1> QED
    BY <1>1, <1>5, <1>6, LookHere, SealHere DEF KvStep

LEMMA OtherPostHere ==
    ASSUME HereInv, Shapes', ~durable,
           \/ \E p \in Posts, ok \in BOOLEAN :
                 LockClaim(p, ok) \/ PersistMarker(p, ok) \/ ClearLock(p, ok) \/ Store(p, ok)
           \/ \E p \in Posts : Refuse(p)
           \/ \E i \in Isolates : Evict(i)
    PROVE  HereInv'
  <1>1. ASSUME NEW p \in Posts, NEW ok \in BOOLEAN,
               LockClaim(p, ok) \/ PersistMarker(p, ok) \/ ClearLock(p, ok)
        PROVE  FALSE
    BY <1>1 DEF LockClaim, PersistMarker, ClearLock, At, HereInv, ChecksInv, NoLock
  <1>2. ASSUME NEW p \in Posts, NEW ok \in BOOLEAN, Store(p, ok) \/ Refuse(p)
        PROVE  HereInv'
    <2>1. UNCHANGED <<now, claims, markers, grants, cleared>> /\ posts[p].pc = "won"
      BY <1>2 DEF Store, Refuse, At
    <2>2. posts[p] \in [pc : Stages, nonce : Nonces, iso : Isolates, start : Nat]
      BY <2>1 DEF HereInv, ChecksInv, Shapes, Request, Waiting
    <2>3. /\ posts'[p].pc \in {"stored", "failed", "refused"}
          /\ posts'[p].nonce = posts[p].nonce /\ posts'[p].iso = posts[p].iso
          /\ \A q \in Posts \ {p} : posts'[q] = posts[q]
      BY <1>2, <2>2 DEF Store, Refuse, Goto, HereInv, ChecksInv, Shapes
    <2>4. NoLock'
      BY <2>3 DEF NoLock, HereInv, ChecksInv
    <2>5. \A q \in Posts : posts'[q] = posts[q] \/ (~Checking(q)' /\ NoLock')
      BY <2>3, <2>4 DEF Checking
    <2>6. ChecksInv'
      BY <2>1, <2>5, RestChecks DEF HereInv
    <2>7. \A q \in Posts : FoundNone(q)' => FoundNone(q)
      BY <2>3 DEF FoundNone
    <2> QED
      BY <2>1, <2>3, <2>6, <2>7, HereQuiet
  <1>3. ASSUME NEW i \in Isolates, Evict(i)
        PROVE  HereInv'
    <2>1. UNCHANGED <<now, markers, grants, cleared>>
      BY <1>3 DEF Evict
    <2>2. \A p \in Posts : IF InFlight(p) /\ posts[p].iso = i
                           THEN posts'[p] = [posts[p] EXCEPT !.pc = "failed"]
                           ELSE posts'[p] = posts[p]
      BY <1>3 DEF Evict
    <2>3. ASSUME NEW p \in Posts, InFlight(p), posts[p].iso = i
          PROVE  /\ posts'[p].pc = "failed" /\ posts'[p].iso = posts[p].iso
                 /\ posts'[p].nonce = posts[p].nonce
      <3>1. posts[p] \in [pc : Stages, nonce : Nonces, iso : Isolates, start : Nat]
        BY <2>3 DEF HereInv, ChecksInv, Shapes, Request, Waiting, InFlight
      <3> QED
        BY <2>2, <2>3, <3>1
    <2>4. NoLock'
      BY <2>2, <2>3 DEF NoLock, HereInv, ChecksInv
    <2>5. \A p \in Posts : posts'[p] = posts[p] \/ (~Checking(p)' /\ NoLock')
      BY <2>2, <2>3, <2>4 DEF Checking
    <2>6. \A p \in Posts : Checking(p)' => posts[p].iso \in Isolates \ {i}
      BY <2>2, <2>3, RequestFields DEF Checking, InFlight, HereInv, ChecksInv
    <2>7. \A p \in Posts : Checking(p)' => claims'[posts[p].iso] = claims[posts[p].iso]
      BY <1>3, <2>6 DEF Evict, HereInv, ChecksInv, Shapes
    <2>8. ChecksInv'
      BY <2>1, <2>5, <2>7, RestChecks DEF HereInv
    <2>9. \A p \in Posts : FoundNone(p)' => FoundNone(p)
      BY <2>2, <2>3 DEF FoundNone
    <2>10. \A p \in Posts : posts[p].pc # "new" =>
              posts'[p].pc # "new" /\ posts'[p].iso = posts[p].iso
              /\ posts'[p].nonce = posts[p].nonce
      BY <2>2, <2>3
    <2> QED
      BY <2>1, <2>8, <2>9, <2>10, HereQuiet
  <1> QED
    BY <1>1, <1>2, <1>3

LEMMA ClaimHere ==
    ASSUME HereInv, Shapes', ~durable, PATIENCE < CLAIM_TTL,
           NEW p \in Posts, NEW i \in Isolates, NEW n \in Nonces, ClaimReplayKey(p, i, n)
    PROVE  HereInv'
  <1>1. UNCHANGED <<now, markers, grants, cleared>> /\ posts[p].pc = "new"
    BY DEF ClaimReplayKey, At
  <1>2. /\ posts'[p].pc \in {"replay", "look"}
        /\ \A q \in Posts \ {p} : posts'[q] = posts[q]
    BY DEF ClaimReplayKey, HereInv, ChecksInv, Shapes
  <1>3. ChecksInv'
    BY ClaimChecks DEF HereInv
  <1>4. \A q \in Posts : FoundNone(q)' => FoundNone(q)
    BY <1>2 DEF FoundNone
  <1>5. \A q \in Posts : posts[q].pc # "new" =>
           posts'[q].pc # "new" /\ posts'[q].iso = posts[q].iso
           /\ posts'[q].nonce = posts[q].nonce
    BY <1>1, <1>2
  <1> QED
    BY <1>1, <1>3, <1>4, <1>5, HereQuiet

LEMMA HereStep ==
    ASSUME HereInv, ~durable, PATIENCE < CLAIM_TTL, [Next]_vars
    PROVE  HereInv'
  <1>1. Shapes'
    BY TypeInductive DEF HereInv, ChecksInv
  <1>2. CASE PostNext
    BY <1>1, <1>2, ClaimHere, KvHere, OtherPostHere DEF PostNext, KvStep
  <1>3. ASSUME UNCHANGED <<posts, claims, markers, grants, cleared>>, now' = now \/ Tick
        PROVE  HereInv'
    <2>1. ChecksInv'
      BY <1>1, <1>3, RestChecks DEF HereInv
    <2>2. now' = now \/ now' = now + 1
      BY <1>3 DEF Tick
    <2> QED
      BY <1>3, <2>1, <2>2, HereQuiet DEF FoundNone
  <1>4. ASSUME ReadOrForget \/ (\E n \in Nonces : Alarm(n)) \/ UNCHANGED vars PROVE HereInv'
    <2>1. UNCHANGED <<posts, claims, markers, grants, cleared>> /\ now' = now
      BY <1>4 DEF ReadOrForget, ReadGet, ReadDelete, ForgetListInbox, ForgetListReplay,
         JanitorVisit, Alarm, vars, postVars
    <2> QED
      BY <1>3, <2>1
  <1>5. CASE Tick
    BY <1>3, <1>5 DEF Tick, postVars
  <1> QED
    BY <1>1, <1>2, <1>4, <1>5, TaskHere DEF Next, Step, ReadOrForget

\* Without the Durable Object (the get and put of checkReplay on KV) the claims
\* of replayClaims keep the POSTs of one isolate apart, as long as no request
\* takes as long as a claim lives: two of one nonce that pass the replay check
\* there are as far apart as with the Durable Object, or the marker was deleted
\* in between. Copies that reach two isolates are kept apart by nothing.
THEOREM OneWinnerHereCorrect == Spec => []OneWinnerHere
  <1> DEFINE Inv == ~durable /\ PATIENCE < CLAIM_TTL => HereInv
  <1>1. Init => Inv
    <2> SUFFICES ASSUME Init, ~durable PROVE HereInv
      OBVIOUS
    <2>1. Shapes /\ grants = {} /\ cleared = {} /\ \A p \in Posts : posts[p].pc = "new"
      BY TypeInductive DEF Init, Waiting
    <2> QED
      BY <2>1 DEF HereInv, ChecksInv, NoLock, Timely, Claiming, Alone, Checking, InPast,
         Begun, MarkerCovers, LateEnough, HereApart
  <1>2. Inv /\ [Next]_vars => Inv'
    <2>1. [Next]_vars => durable' = durable
      BY DEF Next, vars
    <2> QED
      BY <2>1, HereStep
  <1>3. Inv => OneWinnerHere
    BY DEF HereInv, HereApart, OneWinnerHere
  <1> QED
    BY <1>1, <1>2, <1>3, PTL DEF Spec

-----------------------------------------------------------------------------
(***************************************************************************)
(* The messages                                                            *)
(***************************************************************************)

Held(n) == box[n] # None

\* A message in KV is that of the POST that stored it, under the nonce of the POST.
BoxOf == \A n \in Nonces : Held(n) => At(box[n].by, "stored") /\ posts[box[n].by].nonce = n

\* What a GET has found is a message that was stored, under the nonce it looked at.
GotOf ==
    \A g \in Reads : reads[g].pc \in {"got", "done", "failed"} =>
        At(reads[g].by, "stored") /\ posts[reads[g].by].nonce = reads[g].nonce

\* A message that has been returned is in KV no more.
DoneGone ==
    \A g \in Reads, n \in Nonces :
        reads[g].pc = "done" /\ Held(n) => box[n].by # reads[g].by

\* ItemsAccounted, of expired messages too: KV forgets those, the model only hides them.
Explained(p) ==
    LET n == posts[p].nonce IN
    \/ Held(n) /\ box[n].by = p /\ box[n].exp = posts[p].exp
    \/ \E g \in Reads : reads[g].pc \in {"got", "done", "failed"} /\ reads[g].nonce = n
    \/ \E q \in Posts : q # p /\ At(q, "stored") /\ posts[q].nonce = n
    \/ n \in forgotten

Accounted == \A p \in Posts : At(p, "stored") => Explained(p)

\* Only /forget has messages deleted.
TasksForgotten == \A n \in Nonces : <<"box", n>> \in tasks => n \in forgotten

\* What /forget has found was stored; a list that was not cut is complete.
ListedAll ==
    forget.pc = "listed" =>
        /\ \A p \in forget.items : At(p, "stored")
        /\ Cardinality(forget.inbox) > FORGET_MAX
           \/ \A n \in Nonces : Held(n) /\ box[n].by \in forget.items => n \in forget.inbox

\* What a /forget answered OK for was stored, and is to be deleted or could not be.
SweptTasked ==
    /\ \A p \in swept : At(p, "stored")
    /\ \A n \in Nonces :
          Held(n) /\ box[n].by \in swept => <<"box", n>> \in tasks \/ failed

BoxFinite == IsFiniteSet({n \in Nonces : Held(n)})

MailInv ==
    /\ Shapes /\ BoxOf /\ GotOf /\ DoneGone /\ ReadOnce /\ Accounted
    /\ TasksForgotten /\ ListedAll /\ SweptTasked /\ BoxFinite

\* Everything but the six steps that store, read or delete: requests come and go
\* without a message stored.
MailQuiet ==
    /\ \A p \in Posts : \/ posts'[p] = posts[p]
                        \/ posts[p].pc # "stored" /\ posts'[p].pc # "stored"
    /\ UNCHANGED <<box, reads, forget, swept, forgotten, failed>>
    /\ \A n \in Nonces : <<"box", n>> \in tasks' <=> <<"box", n>> \in tasks

LEMMA GotoQuiet ==
    ASSUME Shapes, NEW p \in Posts, NEW pc \in Stages, Goto(p, pc), posts[p].pc # "stored"
    PROVE  \A q \in Posts : \/ posts'[q] = posts[q]
                            \/ posts[q].pc # "stored" /\ posts'[q].pc # "stored"
  <1>1. posts[p] \in [pc : Stages, nonce : Nonces, iso : Isolates, start : Nat]
        \/ posts[p] = Waiting
    BY DEF Shapes, Request
  <1>2. posts'[p].pc # "stored"
    BY <1>1 DEF Shapes, Goto, Stages, Waiting
  <1> QED
    BY <1>2 DEF Shapes, Goto

LEMMA PostQuiet ==
    ASSUME Shapes, PostNext
    PROVE  MailQuiet \/ \E p \in Posts : Store(p, TRUE)
  <1>1. ASSUME NEW p \in Posts, NEW i \in Isolates, NEW n \in Nonces, ClaimReplayKey(p, i, n)
        PROVE  MailQuiet
    <2>1. posts'[p].pc # "stored" /\ posts[p].pc # "stored"
      BY <1>1 DEF ClaimReplayKey, Shapes, At
    <2>2. \A q \in Posts \ {p} : posts'[q] = posts[q]
      BY <1>1 DEF ClaimReplayKey, Shapes
    <2> QED
      BY <1>1, <2>1, <2>2 DEF ClaimReplayKey, MailQuiet
  <1>2. ASSUME NEW p \in Posts, NEW ok \in BOOLEAN,
               LockClaim(p, ok) \/ PersistMarker(p, ok) \/ ClearLock(p, ok)
                 \/ (Store(p, ok) /\ ~ok)
        PROVE  MailQuiet
    <2>1. \E pc \in Stages : Goto(p, pc)
      BY <1>2 DEF LockClaim, PersistMarker, ClearLock, Store, Stages
    <2>2. posts[p].pc # "stored"
      BY <1>2 DEF LockClaim, PersistMarker, ClearLock, Store, At
    <2>3. UNCHANGED <<box, reads, forget, swept, forgotten, failed, tasks>>
      BY <1>2 DEF LockClaim, PersistMarker, ClearLock, Store
    <2> QED
      BY <2>1, <2>2, <2>3, GotoQuiet DEF MailQuiet
  <1>3. ASSUME NEW p \in Posts,
               LookMarker(p) \/ PutClaimMarker(p) \/ CheckOwner(p) \/ SealMarker(p)
                 \/ CheckThrows(p) \/ Refuse(p)
        PROVE  MailQuiet
    <2>1. \E pc \in Stages : Goto(p, pc)
      BY <1>3 DEF LookMarker, PutClaimMarker, CheckOwner, SealMarker, CheckThrows, Refuse,
         Stages
    <2>2. posts[p].pc # "stored"
      BY <1>3 DEF LookMarker, PutClaimMarker, CheckOwner, SealMarker, CheckThrows, Refuse, At
    <2>3. UNCHANGED <<box, reads, forget, swept, forgotten, failed, tasks>>
      BY <1>3 DEF LookMarker, PutClaimMarker, CheckOwner, SealMarker, CheckThrows, Refuse
    <2> QED
      BY <2>1, <2>2, <2>3, GotoQuiet DEF MailQuiet
  <1>4. ASSUME NEW i \in Isolates, Evict(i)
        PROVE  MailQuiet
    <2>1. ASSUME NEW p \in Posts, posts'[p] # posts[p]
          PROVE  posts[p].pc # "stored" /\ posts'[p].pc # "stored"
      <3>1. InFlight(p) /\ posts'[p] = [posts[p] EXCEPT !.pc = "failed"]
        BY <1>4, <2>1 DEF Evict
      <3> QED
        BY <3>1 DEF InFlight, Shapes, Request, Waiting
    <2> QED
      BY <1>4, <2>1 DEF Evict, MailQuiet
  <1>5. ASSUME NEW p \in Posts, NEW ok \in BOOLEAN, Store(p, ok), ok
        PROVE  Store(p, TRUE)
    <2>1. ok = TRUE
      BY <1>5
    <2> QED
      BY <1>5, <2>1
  <1> QED
    BY <1>1, <1>2, <1>3, <1>4, <1>5 DEF PostNext

LEMMA MailKinds ==
    ASSUME Shapes, [Next]_vars
    PROVE  \/ MailQuiet
           \/ \E p \in Posts : Store(p, TRUE)
           \/ \E g \in Reads, n \in Nonces : ReadGet(g, n)
           \/ \E g \in Reads, ok \in BOOLEAN : ReadDelete(g, ok)
           \/ ForgetListInbox
           \/ ForgetListReplay
           \/ \E t \in tasks, ok \in BOOLEAN : RunTask(t, ok)
  <1>1. ASSUME NEW n \in Nonces, JanitorVisit(n) \/ Alarm(n)
        PROVE  MailQuiet
    BY <1>1 DEF JanitorVisit, Alarm, postVars, MailQuiet
  <1>2. Tick \/ UNCHANGED vars => MailQuiet
    BY DEF Tick, vars, postVars, MailQuiet
  <1> QED
    BY <1>1, <1>2, PostQuiet DEF Next, Step

LEMMA MailQuietInv ==
    ASSUME MailInv, Shapes', MailQuiet
    PROVE  MailInv'
  <1>1. \A p \in Posts : At(p, "stored")' <=> At(p, "stored")
    BY DEF MailQuiet, At
  <1>2. \A p \in Posts : At(p, "stored") => posts'[p] = posts[p]
    BY DEF MailQuiet, At
  <1>3. \A n \in Nonces : Held(n)' <=> Held(n)
    BY DEF MailQuiet, Held
  <1>4. \A n \in Nonces : Held(n) => box[n].by \in Posts
    BY DEF MailInv, Shapes, Held
  <1>5. \A g \in Reads : reads[g].pc \in {"got", "done", "failed"} => reads[g].by \in Posts
    BY DEF MailInv, Shapes, Reading, Waiting
  <1>6. BoxOf' /\ GotOf'
    BY <1>1, <1>2, <1>3, <1>4, <1>5 DEF MailInv, BoxOf, GotOf, MailQuiet
  <1>7. DoneGone' /\ ReadOnce'
    BY <1>3 DEF MailInv, DoneGone, ReadOnce, MailQuiet
  <1>8. Accounted'
    <2> SUFFICES ASSUME NEW p \in Posts, At(p, "stored")
                 PROVE  Explained(p)'
      BY <1>1 DEF Accounted
    <2>1. Explained(p)
      BY DEF MailInv, Accounted
    <2>2. posts'[p] = posts[p]
      BY <1>2
    <2>3. \A q \in Posts : At(q, "stored") => At(q, "stored")' /\ posts'[q] = posts[q]
      BY <1>1, <1>2
    <2> QED
      BY <2>1, <2>2, <2>3 DEF Explained, Held, MailQuiet
  <1>9. TasksForgotten'
    BY DEF MailInv, TasksForgotten, MailQuiet
  <1>10. ListedAll'
    <2>1. forget.pc = "listed" => forget.items \subseteq Posts
      BY DEF MailInv, Shapes, Forgetting
    <2> QED
      BY <1>1, <1>3, <2>1 DEF MailInv, ListedAll, MailQuiet
  <1>11. SweptTasked'
    BY <1>1, <1>3 DEF MailInv, SweptTasked, MailQuiet, Shapes
  <1>12. BoxFinite'
    BY <1>3 DEF MailInv, BoxFinite, MailQuiet
  <1> QED
    BY <1>6, <1>7, <1>8, <1>9, <1>10, <1>11, <1>12 DEF MailInv

\* A POST is stored once: it leaves the state "won" for good.
LEMMA StoreInv ==
    ASSUME MailInv, Shapes', NEW p \in Posts, Store(p, TRUE)
    PROVE  MailInv'
  <1> DEFINE n == posts[p].nonce
  <1>1. posts[p].pc = "won" /\ n \in Nonces
    BY RequestFields DEF MailInv, Store, At
  <1>2. /\ posts'[p].pc = "stored" /\ posts'[p].nonce = n /\ posts'[p].exp = now + ITEM_TTL
        /\ \A q \in Posts \ {p} : posts'[q] = posts[q]
    BY DEF MailInv, Shapes, Store
  <1>3. /\ box'[n] = Item(p)
        /\ \A m \in Nonces \ {n} : box'[m] = box[m]
        /\ UNCHANGED <<reads, forget, tasks, swept, forgotten, failed>>
    BY <1>1 DEF MailInv, Shapes, Store
  <1>4. \A q \in Posts : At(q, "stored")' <=> q = p \/ At(q, "stored")
    BY <1>1, <1>2 DEF At
  <1>5. Item(p) # None /\ Item(p).by = p /\ Item(p).exp = now + ITEM_TTL
    BY DEF Item, None
  <1>6. ~At(p, "stored")
    BY <1>1 DEF At
  <1>7. \A m \in Nonces : Held(m) => box[m].by \in Posts
    BY DEF MailInv, Shapes, Held
  <1>8. \A g \in Reads : reads[g].pc \in {"got", "done", "failed"} =>
           reads[g].by \in Posts /\ reads[g].by # p
    BY <1>6 DEF MailInv, Shapes, Reading, Waiting, GotOf
  <1>9. BoxOf'
    BY <1>2, <1>3, <1>4, <1>5, <1>6, <1>7 DEF MailInv, BoxOf, Held
  <1>10. GotOf'
    BY <1>2, <1>3, <1>4, <1>8 DEF MailInv, GotOf
  <1>11. DoneGone'
    BY <1>3, <1>5, <1>8 DEF MailInv, DoneGone, Held
  <1>12. ReadOnce'
    BY <1>3 DEF MailInv, ReadOnce
  <1>13. Accounted'
    <2> SUFFICES ASSUME NEW q \in Posts, At(q, "stored")'
                 PROVE  Explained(q)'
      BY DEF Accounted
    <2>1. CASE q = p
      BY <1>2, <1>3, <1>5, <2>1 DEF Explained, Held
    <2>2. CASE q # p
      <3>1. Explained(q) /\ posts'[q] = posts[q]
        BY <1>2, <1>4, <2>2 DEF MailInv, Accounted
      <3>2. posts[q].nonce \in Nonces
        BY <1>4, <2>2, RequestFields DEF At, MailInv
      <3>3. CASE posts[q].nonce = n
        BY <1>2, <1>4, <2>2, <3>1, <3>3 DEF Explained
      <3>4. CASE posts[q].nonce # n
        <4>1. box'[posts[q].nonce] = box[posts[q].nonce]
          BY <1>3, <3>2, <3>4
        <4> QED
          BY <1>2, <1>3, <1>4, <3>1, <4>1 DEF Explained, Held
      <3> QED
        BY <3>3, <3>4
    <2> QED
      BY <2>1, <2>2
  <1>14. TasksForgotten'
    BY <1>3 DEF MailInv, TasksForgotten
  <1>15. ListedAll'
    <2>1. forget.pc = "listed" => forget.items \subseteq Posts /\ p \notin forget.items
      BY <1>6 DEF MailInv, Shapes, Forgetting, ListedAll
    <2> QED
      BY <1>3, <1>4, <1>5, <2>1 DEF MailInv, ListedAll, Held
  <1>16. SweptTasked'
    <2>1. swept \subseteq Posts /\ p \notin swept
      BY <1>6 DEF MailInv, Shapes, SweptTasked
    <2> QED
      BY <1>3, <1>4, <1>5, <2>1 DEF MailInv, SweptTasked, Held
  <1>17. BoxFinite'
    <2>1. {m \in Nonces : Held(m)'} = {m \in Nonces : Held(m)} \cup {n}
      BY <1>1, <1>3, <1>5 DEF Held
    <2> QED
      BY <2>1, FS_AddElement DEF MailInv, BoxFinite
  <1> QED
    BY <1>9, <1>10, <1>11, <1>12, <1>13, <1>14, <1>15, <1>16, <1>17 DEF MailInv

LEMMA ReadGetInv ==
    ASSUME MailInv, Shapes', NEW g \in Reads, NEW n \in Nonces, ReadGet(g, n)
    PROVE  MailInv'
  <1>1. UNCHANGED <<posts, box, forget, tasks, swept, forgotten, failed>>
    BY DEF ReadGet, postVars
  <1>2. \A h \in Reads \ {g} : reads'[h] = reads[h]
    BY DEF MailInv, Shapes, ReadGet
  <1>3. reads[g].pc = "new"
    BY DEF ReadGet
  <1>4. \/ reads'[g].pc = "none"
        \/ /\ Held(n) /\ reads'[g].pc = "got" /\ reads'[g].nonce = n
           /\ reads'[g].by = box[n].by
           /\ reads'[g].late = \E h \in Reads : reads[h].pc = "done" /\ reads[h].by = box[n].by
    BY DEF MailInv, Shapes, ReadGet, Visible, Held
  <1>5. BoxOf' /\ TasksForgotten' /\ ListedAll' /\ SweptTasked' /\ BoxFinite'
    <2>1. BoxOf' /\ BoxFinite'
      BY <1>1 DEF MailInv, BoxOf, BoxFinite, Held, At
    <2>2. TasksForgotten' /\ ListedAll' /\ SweptTasked'
      BY <1>1 DEF MailInv, TasksForgotten, ListedAll, SweptTasked, Held, At
    <2> QED
      BY <2>1, <2>2
  <1>6. GotOf' /\ DoneGone'
    <2>1. Held(n) => At(box[n].by, "stored") /\ posts[box[n].by].nonce = n
      BY DEF MailInv, BoxOf
    <2>2. GotOf'
      <3> SUFFICES ASSUME NEW h \in Reads, reads'[h].pc \in {"got", "done", "failed"}
                   PROVE  At(reads'[h].by, "stored") /\ posts[reads'[h].by].nonce = reads'[h].nonce
        BY <1>1 DEF GotOf, At
      <3>1. CASE h = g
        BY <1>4, <2>1, <3>1
      <3>2. CASE h # g
        BY <1>2, <3>2 DEF MailInv, GotOf
      <3> QED
        BY <3>1, <3>2
    <2>3. DoneGone'
      BY <1>1, <1>2, <1>4 DEF MailInv, DoneGone, Held
    <2> QED
      BY <2>2, <2>3
  <1>7. ReadOnce'
    BY <1>2, <1>4 DEF MailInv, ReadOnce, DoneGone
  <1>8. Accounted'
    <2> SUFFICES ASSUME NEW p \in Posts, At(p, "stored")
                 PROVE  Explained(p)'
      BY <1>1 DEF Accounted, At
    <2>1. \A h \in Reads : reads[h].pc \in {"got", "done", "failed"} => reads'[h] = reads[h]
      BY <1>2, <1>3
    <2>2. Explained(p)
      BY DEF MailInv, Accounted
    <2> QED
      BY <1>1, <2>1, <2>2 DEF Explained, Held, At
  <1> QED
    BY <1>5, <1>6, <1>7, <1>8 DEF MailInv

\* A message of nonce n leaves KV.
LEMMA DeletedFacts ==
    ASSUME Shapes, NEW n \in Nonces, box' = Deleted(n)
    PROVE  /\ ~Held(n)'
           /\ \A m \in Nonces \ {n} : box'[m] = box[m]
           /\ \A m \in Nonces : Held(m)' => m # n /\ Held(m) /\ box'[m] = box[m]
  BY DEF Shapes, Deleted, Held

LEMMA BoxFewer ==
    ASSUME BoxFinite, \A m \in Nonces : Held(m)' => Held(m)
    PROVE  BoxFinite'
  <1>1. {m \in Nonces : Held(m)'} \in SUBSET {m \in Nonces : Held(m)}
    OBVIOUS
  <1> QED
    BY <1>1, FS_Subset DEF BoxFinite

LEMMA ReadDeleteInv ==
    ASSUME MailInv, Shapes', NEW g \in Reads, NEW ok \in BOOLEAN, ReadDelete(g, ok)
    PROVE  MailInv'
  <1> DEFINE n == reads[g].nonce
  <1>1. /\ reads[g].pc = "got" /\ n \in Nonces
        /\ UNCHANGED <<posts, forget, tasks, swept, forgotten, failed>>
    BY DEF MailInv, Shapes, Reading, Waiting, ReadDelete
  <1>2. /\ \A h \in Reads \ {g} : reads'[h] = reads[h]
        /\ reads'[g].pc = (IF ok THEN "done" ELSE "failed")
        /\ reads'[g].nonce = n /\ reads'[g].by = reads[g].by /\ reads'[g].late = reads[g].late
    BY DEF MailInv, Shapes, Reading, Waiting, ReadDelete
  <1>3. \A m \in Nonces : Held(m)' => Held(m) /\ box'[m] = box[m]
    BY <1>1, DeletedFacts DEF MailInv, ReadDelete, Held
  <1>4. ok => box'[n] = None
    BY <1>1, DeletedFacts DEF MailInv, ReadDelete, Held
  <1>5. \A m \in Nonces \ {n} : box'[m] = box[m]
    BY <1>1, DeletedFacts DEF MailInv, ReadDelete
  <1>6. BoxOf'
    BY <1>1, <1>3 DEF MailInv, BoxOf, At
  <1>7. GotOf' /\ ReadOnce'
    BY <1>1, <1>2 DEF MailInv, GotOf, ReadOnce, At
  <1>8. DoneGone'
    <2> SUFFICES ASSUME NEW h \in Reads, NEW m \in Nonces, reads'[h].pc = "done", Held(m)'
                 PROVE  box'[m].by # reads'[h].by
      BY DEF DoneGone
    <2>1. CASE h = g
      <3>1. ok /\ m # n
        BY <1>2, <1>4, <2>1 DEF Held
      <3>2. posts[box[m].by].nonce = m /\ posts[reads[g].by].nonce = n
        BY <1>1, <1>3 DEF MailInv, BoxOf, GotOf
      <3> QED
        BY <1>2, <1>3, <2>1, <3>1, <3>2
    <2>2. CASE h # g
      BY <1>2, <1>3, <2>2 DEF MailInv, DoneGone
    <2> QED
      BY <2>1, <2>2
  <1>9. Accounted'
    <2> SUFFICES ASSUME NEW p \in Posts, At(p, "stored")
                 PROVE  Explained(p)'
      BY <1>1 DEF Accounted, At
    <2>1. Explained(p) /\ posts[p].nonce \in Nonces
      BY RequestFields DEF MailInv, Accounted, At
    <2>2. CASE posts[p].nonce = n
      BY <1>1, <1>2, <2>2 DEF Explained
    <2>3. CASE posts[p].nonce # n
      <3>1. box'[posts[p].nonce] = box[posts[p].nonce]
        BY <1>5, <2>1, <2>3
      <3>2. \A h \in Reads : reads[h].nonce = posts[p].nonce => reads'[h] = reads[h]
        BY <1>2, <2>3
      <3> QED
        BY <1>1, <2>1, <3>1, <3>2 DEF Explained, Held, At
    <2> QED
      BY <2>2, <2>3
  <1>10. TasksForgotten'
    BY <1>1 DEF MailInv, TasksForgotten
  <1>11. ListedAll' /\ SweptTasked'
    BY <1>1, <1>3 DEF MailInv, ListedAll, SweptTasked, At
  <1>12. BoxFinite'
    BY <1>3, BoxFewer DEF MailInv
  <1> QED
    BY <1>6, <1>7, <1>8, <1>9, <1>10, <1>11, <1>12 DEF MailInv

\* Deletions only take away, and only what a /forget has listed.
LEMMA RunTaskInv ==
    ASSUME MailInv, Shapes', NEW t \in tasks, NEW ok \in BOOLEAN, RunTask(t, ok)
    PROVE  MailInv'
  <1> DEFINE n == t[2]
  <1>1. t \in {"box", "marker", "lock"} \X Nonces /\ n \in Nonces
    BY DEF MailInv, Shapes
  <1>2. UNCHANGED <<posts, reads, forget, swept, forgotten>> /\ tasks' = tasks \ {t}
        /\ failed' = (failed \/ ~ok)
    BY DEF RunTask
  <1>3. \A m \in Nonces : Held(m)' => Held(m) /\ box'[m] = box[m]
    BY <1>1, DeletedFacts DEF MailInv, RunTask, Held
  <1>4. \A m \in Nonces : box'[m] = box[m] \/ m \in forgotten
    <2>1. CASE box' = box
      BY <2>1
    <2>2. CASE box' # box
      <3>1. t = <<"box", n>> /\ box' = Deleted(n)
        BY <1>1, <2>2 DEF RunTask
      <3>2. n \in forgotten
        BY <1>1, <3>1 DEF MailInv, TasksForgotten
      <3> QED
        BY <1>1, <3>1, <3>2, DeletedFacts DEF MailInv
    <2> QED
      BY <2>1, <2>2
  <1>5. BoxOf' /\ GotOf' /\ DoneGone' /\ ReadOnce'
    BY <1>2, <1>3 DEF MailInv, BoxOf, GotOf, DoneGone, ReadOnce, At
  <1>6. Accounted'
    <2> SUFFICES ASSUME NEW p \in Posts, At(p, "stored")
                 PROVE  Explained(p)'
      BY <1>2 DEF Accounted, At
    <2>1. Explained(p) /\ posts[p].nonce \in Nonces
      BY RequestFields DEF MailInv, Accounted, At
    <2> QED
      BY <1>2, <1>4, <2>1 DEF Explained, Held, At
  <1>7. TasksForgotten'
    BY <1>2 DEF MailInv, TasksForgotten
  <1>8. ListedAll'
    BY <1>2, <1>3 DEF MailInv, ListedAll, At
  <1>9. SweptTasked'
    <2> SUFFICES ASSUME NEW m \in Nonces, Held(m)', box'[m].by \in swept, ~failed'
                 PROVE  <<"box", m>> \in tasks'
      BY <1>2 DEF MailInv, SweptTasked, At
    <2>1. <<"box", m>> \in tasks /\ ok
      BY <1>2, <1>3 DEF MailInv, SweptTasked
    <2>2. t # <<"box", m>>
      <3> SUFFICES ASSUME t = <<"box", m>> PROVE FALSE
        OBVIOUS
      <3>1. box' = Deleted(m)
        BY <2>1 DEF RunTask
      <3> QED
        BY <3>1, DeletedFacts DEF MailInv
    <2> QED
      BY <1>2, <2>1, <2>2
  <1>10. BoxFinite'
    BY <1>3, BoxFewer DEF MailInv
  <1> QED
    BY <1>5, <1>6, <1>7, <1>8, <1>9, <1>10 DEF MailInv

\* A page of at most FORGET_MAX keys is the whole list.
LEMMA WholePage ==
    ASSUME NEW keys, IsFiniteSet(keys), NEW page \in PagesOf(keys),
           ~(Cardinality(page) > FORGET_MAX)
    PROVE  page = keys
  <1>1. Cardinality(keys) \in Nat /\ FORGET_MAX \in Nat
    BY FS_CardinalityType, InboxAssumption
  <1>2. page \in SUBSET keys
    BY DEF PagesOf
  <1>3. Cardinality(page) = IF Cardinality(keys) > FORGET_MAX THEN FORGET_MAX + 1
                            ELSE Cardinality(keys)
    BY DEF PagesOf
  <1>4. Cardinality(page) = Cardinality(keys)
    BY <1>1, <1>3
  <1> QED
    BY <1>2, <1>4, FS_Subset

LEMMA ListInboxInv ==
    ASSUME MailInv, Shapes', ForgetListInbox
    PROVE  MailInv'
  <1> DEFINE stored == {n \in Nonces : Visible(box[n])}
  <1>1. PICK page \in PagesOf(stored) :
          forget' = [pc |-> "listed", count |-> forget.count + 1, inbox |-> page,
                     items |-> {box[n].by : n \in stored}]
    BY DEF ForgetListInbox
  <1>2. UNCHANGED <<posts, box, reads, tasks, swept, forgotten, failed>>
    BY DEF ForgetListInbox, postVars, MailInv, Shapes, Forgetting
  <1>3. BoxOf' /\ GotOf' /\ DoneGone' /\ ReadOnce' /\ BoxFinite' /\ SweptTasked'
    <2>1. BoxOf' /\ BoxFinite' /\ DoneGone'
      BY <1>2 DEF MailInv, BoxOf, DoneGone, BoxFinite, Held, At
    <2>2. GotOf' /\ ReadOnce' /\ SweptTasked'
      BY <1>2 DEF MailInv, GotOf, ReadOnce, SweptTasked, Held, At
    <2> QED
      BY <2>1, <2>2
  <1>4. Accounted' /\ TasksForgotten'
    BY <1>2 DEF MailInv, Accounted, Explained, TasksForgotten, Held, At
  <1>5. ListedAll'
    <2>1. /\ forget'.inbox = page
          /\ \A p \in forget'.items : \E n \in stored : p = box[n].by
      BY <1>1
    <2>2. \A n \in stored : Held(n) /\ At(box[n].by, "stored") /\ posts[box[n].by].nonce = n
      BY DEF Visible, Held, MailInv, BoxOf
    <2>3. \A p \in forget'.items : At(p, "stored")'
      BY <1>2, <2>1, <2>2 DEF At
    <2>4. ASSUME ~(Cardinality(page) > FORGET_MAX),
                 NEW n \in Nonces, Held(n), box[n].by \in forget'.items
          PROVE  n \in page
      <3>1. stored \in SUBSET {m \in Nonces : Held(m)}
        BY <2>2
      <3>2. IsFiniteSet(stored)
        BY <3>1, FS_Subset DEF MailInv, BoxFinite
      <3> HIDE DEF stored
      <3>3. page = stored
        BY <2>4, <3>2, WholePage
      <3>4. PICK m \in stored : box[n].by = box[m].by
        BY <2>1, <2>4
      <3>5. n = m
        BY <2>2, <2>4, <3>4 DEF MailInv, BoxOf
      <3> QED
        BY <3>3, <3>5
    <2> QED
      BY <1>2, <2>1, <2>3, <2>4 DEF ListedAll, Held
  <1> QED
    BY <1>3, <1>4, <1>5 DEF MailInv

LEMMA ListReplayInv ==
    ASSUME MailInv, Shapes', ForgetListReplay
    PROVE  MailInv'
  <1>1. PICK page \in PagesOf({n \in Nonces : Visible(markers[n])}) :
         LET overflow == Cardinality(page) > FORGET_MAX
                         \/ Cardinality(forget.inbox) > FORGET_MAX
         IN \E inbox \in Cuts(forget.inbox, overflow), replay \in Cuts(page, overflow) :
              /\ tasks' = tasks \cup ({"box"} \X inbox) \cup ({"marker"} \X replay)
                          \cup (IF durable THEN {"lock"} \X replay ELSE {})
              /\ swept' = IF overflow THEN swept ELSE swept \cup forget.items
              /\ forgotten' = forgotten \cup inbox
    BY DEF ForgetListReplay
  <1> DEFINE overflow == Cardinality(page) > FORGET_MAX
                         \/ Cardinality(forget.inbox) > FORGET_MAX
  <1>2. PICK inbox \in Cuts(forget.inbox, overflow), replay \in Cuts(page, overflow) :
              /\ tasks' = tasks \cup ({"box"} \X inbox) \cup ({"marker"} \X replay)
                          \cup (IF durable THEN {"lock"} \X replay ELSE {})
              /\ swept' = IF overflow THEN swept ELSE swept \cup forget.items
              /\ forgotten' = forgotten \cup inbox
    BY <1>1
  <1>3. /\ forget.pc = "listed" /\ forget' = [pc |-> "idle", count |-> forget.count]
        /\ UNCHANGED <<posts, box, reads, failed>>
    BY DEF ForgetListReplay, postVars
  <1>4. \A n \in Nonces : <<"box", n>> \in tasks' <=> <<"box", n>> \in tasks \/ n \in inbox
    BY <1>2
  <1>5. BoxOf' /\ GotOf' /\ DoneGone' /\ ReadOnce' /\ BoxFinite'
    <2>1. BoxOf' /\ BoxFinite' /\ DoneGone'
      BY <1>3 DEF MailInv, BoxOf, DoneGone, BoxFinite, Held, At
    <2>2. GotOf' /\ ReadOnce'
      BY <1>3 DEF MailInv, GotOf, ReadOnce, At
    <2> QED
      BY <2>1, <2>2
  <1>6. Accounted' /\ TasksForgotten' /\ ListedAll'
    <2>1. forgotten' = forgotten \cup inbox
      BY <1>2
    <2>2. TasksForgotten' /\ ListedAll'
      BY <1>3, <1>4, <2>1 DEF MailInv, TasksForgotten, ListedAll
    <2>3. Accounted'
      BY <1>3, <2>1 DEF MailInv, Accounted, Explained, Held, At
    <2> QED
      BY <2>2, <2>3
  <1>7. SweptTasked'
    <2>1. CASE overflow
      BY <1>2, <1>3, <1>4, <2>1 DEF MailInv, SweptTasked, Held, At
    <2>2. CASE ~overflow
      <3>1. inbox = forget.inbox /\ swept' = swept \cup forget.items
        BY <1>2, <2>2 DEF Cuts
      <3>2. ~(Cardinality(forget.inbox) > FORGET_MAX)
        BY <2>2
      <3> QED
        BY <1>3, <1>4, <3>1, <3>2 DEF MailInv, SweptTasked, ListedAll, Held, At
    <2> QED
      BY <2>1, <2>2
  <1> QED
    BY <1>5, <1>6, <1>7 DEF MailInv

LEMMA MailInitInv == Init => MailInv
  <1> SUFFICES ASSUME Init PROVE MailInv
    OBVIOUS
  <1>1. \A n \in Nonces : ~Held(n)
    BY DEF Init, Held
  <1>2. BoxFinite
    <2>1. {n \in Nonces : Held(n)} = {}
      BY <1>1
    <2> QED
      BY <2>1, FS_EmptySet DEF BoxFinite
  <1>3. \A g \in Reads : reads[g].pc = "new"
    BY DEF Init, Waiting
  <1>4. \A p \in Posts : ~At(p, "stored")
    BY DEF Init, Waiting, At
  <1> QED
    BY <1>1, <1>2, <1>3, <1>4, TypeInductive DEF Init, MailInv, BoxOf, GotOf, DoneGone,
       ReadOnce, Accounted, TasksForgotten, ListedAll, SweptTasked

LEMMA MailInvStep ==
    ASSUME MailInv, [Next]_vars
    PROVE  MailInv'
  <1>1. Shapes /\ Shapes'
    BY TypeInductive DEF MailInv
  <1> QED
    BY <1>1, MailKinds, MailQuietInv, StoreInv, ReadGetInv, ReadDeleteInv, ListInboxInv,
       ListReplayInv, RunTaskInv

\* What the requests have read from KV agrees with what KV holds or held, through
\* every await, lost answer and deletion.
THEOREM MailInvariant == Spec => []MailInv
  BY MailInitInv, MailInvStep, PTL DEF Spec

\* GET /inbox deletes a message before it returns it: a GET that begins after
\* another one has answered returns another message, whatever else is under way.
THEOREM ReadOnceCorrect == Spec => []ReadOnce
  <1>1. MailInv => ReadOnce
    BY DEF MailInv
  <1> QED
    BY <1>1, MailInvariant, PTL

\* A message answered with 201 leaves KV only by a GET, a later message of the
\* same nonce, or a /forget that has listed a message of that nonce.
THEOREM ItemsAccountedCorrect == Spec => []ItemsAccounted
  <1>1. MailInv => ItemsAccounted
    BY DEF MailInv, Accounted, Explained, Held, ItemsAccounted
  <1> QED
    BY <1>1, MailInvariant, PTL

\* POST /forget answers OK before it has deleted anything; when the deletions it
\* handed to waitUntil have run, what it had listed is gone. A list longer than
\* FORGET_MAX_KEYS is not answered OK.
THEOREM ForgetCompleteCorrect == Spec => []ForgetComplete
  <1>1. MailInv => ForgetComplete
    BY DEF MailInv, SweptTasked, Held, ForgetComplete
  <1> QED
    BY <1>1, MailInvariant, PTL

-----------------------------------------------------------------------------
(***************************************************************************)
(* POST /sign                                                              *)
(***************************************************************************)

\* The stages of a request, with what it carries in them.
Stage ==
    [pc : {"new", "body", "signing", "signed", "refused"}]
    \cup [pc : {"rated"}, count : Nat, reset : Nat]
    \cup [pc : {"replay"}, body : Bodies, checked : Nat]
    \cup [pc : {"mark", "clear"}, body : Bodies]

SignShapes ==
    /\ second \in Nat
    /\ signs \in [Signs -> Stage]
    /\ signLocks \in [SignNonces -> Nat]
    /\ signRate \in [count : Nat, reset : Nat]
    /\ signMarkers \subseteq SignNonces /\ unlocks \subseteq SignNonces
    /\ unlocked \in [SignNonces -> Nat]
    /\ passed \subseteq
         [sign : Signs, body : Bodies, checked : Nat, at : Nat, unlocked : Nat]

\* The timestamp was in the window at the second it was checked.
InWindow(body, checked) == checked - body.ts <= TS_WINDOW /\ body.ts - checked <= TS_WINDOW

\* What waits for its replay check, and what passed it, had its timestamp checked.
Checked ==
    /\ \A r \in Signs : signs[r].pc = "replay" =>
          signs[r].checked <= second /\ InWindow(signs[r].body, signs[r].checked)
    /\ \A p \in passed :
          p.checked <= p.at /\ p.at <= second /\ InWindow(p.body, p.checked)

\* A lock was last cleared in the past, and before what is noted with what passed.
Unlocking ==
    /\ \A n \in SignNonces : unlocked[n] <= second
    /\ \A p \in passed : p.unlocked <= p.at /\ p.unlocked <= unlocked[p.body.nonce]

\* The lock of a nonce covers everything that passed with it, unless it was
\* cleared since.
Covered ==
    \A p \in passed :
        \/ signLocks[p.body.nonce] >= p.at + SignLockTtl
        \/ unlocked[p.body.nonce] >= p.at

\* Two passed replay checks of one nonce lie a lock's lifetime apart, or the lock
\* was cleared between them.
SignedApart ==
    \A p, q \in passed :
        p # q /\ p.body.nonce = q.body.nonce /\ Earlier(p, q) =>
            q.unlocked >= p.at \/ q.at >= p.at + SignLockTtl

SignInv == SignShapes /\ Checked /\ Unlocking /\ Covered /\ SignedApart

-----------------------------------------------------------------------------

LEMMA SignLockTtlType == SignLockTtl \in Nat
  BY SigningAssumption DEF SignLockTtl

LEMMA SignInitInv == SigningInit => SignInv
  <1> SUFFICES ASSUME SigningInit PROVE SignInv
    OBVIOUS
  <1>1. NewSign \in Stage
    BY DEF NewSign, Stage
  <1>2. SignShapes
    BY <1>1 DEF SigningInit, SignShapes
  <1>3. Checked /\ Unlocking
    BY DEF SigningInit, Checked, Unlocking, NewSign
  <1> QED
    BY <1>2, <1>3 DEF SigningInit, SignInv, Covered, SignedApart

\* A step that leaves clock, locks and history alone and sends no request to the
\* replay check.
LEMMA SignQuiet ==
    ASSUME SignInv, NEW r \in Signs, NEW state \in Stage, state.pc # "replay",
           SignGoto(r, state), signRate' \in [count : Nat, reset : Nat],
           signMarkers' \subseteq SignNonces,
           UNCHANGED <<second, signLocks, unlocks, unlocked, passed>>
    PROVE  SignInv'
  <1>1. SignShapes'
    BY DEF SignInv, SignShapes, SignGoto
  <1>2. Checked' /\ Unlocking'
    BY DEF SignInv, SignShapes, Checked, Unlocking, SignGoto, InWindow
  <1> QED
    BY <1>1, <1>2 DEF SignInv, Covered, SignedApart, Earlier

LEMMA SignRateGetInv ==
    ASSUME SignInv, NEW r \in Signs, SignRateGet(r)
    PROVE  SignInv'
  <1> DEFINE within == second < signRate.reset
             rated == [pc |-> "rated",
                       count |-> IF within THEN signRate.count + 1 ELSE 1,
                       reset |-> IF within THEN signRate.reset ELSE second + SIGN_RATE_TTL]
  <1>1. [pc |-> "refused"] \in Stage /\ rated \in Stage
    BY SigningAssumption DEF SignInv, SignShapes, Stage
  <1>2. SignGoto(r, [pc |-> "refused"]) \/ SignGoto(r, rated)
    BY DEF SignRateGet
  <1>3. signRate' \in [count : Nat, reset : Nat] /\ UNCHANGED <<second, lockVars>>
    BY DEF SignRateGet, SignInv, SignShapes
  <1>4. signMarkers' \subseteq SignNonces
    BY <1>3 DEF lockVars, SignInv, SignShapes
  <1> QED
    BY <1>1, <1>2, <1>3, <1>4, SignQuiet DEF lockVars

LEMMA SignRatePutInv ==
    ASSUME SignInv, NEW r \in Signs, SignRatePut(r)
    PROVE  SignInv'
  <1>1. signs[r] \in [pc : {"rated"}, count : Nat, reset : Nat]
    BY DEF SignRatePut, SignInv, SignShapes, Stage
  <1>2. signRate' \in [count : Nat, reset : Nat]
    BY <1>1 DEF SignRatePut, SignInv, SignShapes
  <1>3. [pc |-> "body"] \in Stage
    BY DEF Stage
  <1> QED
    BY <1>2, <1>3, SignQuiet DEF SignRatePut, lockVars, SignInv, SignShapes

\* A body goes to the replay check only with a timestamp in the window.
LEMMA CheckBodyInv ==
    ASSUME SignInv, NEW r \in Signs, NEW body \in Bodies, CheckBody(r, body)
    PROVE  SignInv'
  <1>1. CASE Canonical(body) /\ PolicyAllows(body) /\ Fresh(body)
    <2> DEFINE state == [pc |-> "replay", body |-> body, checked |-> second]
    <2>1. signs' = [signs EXCEPT ![r] = state] /\ UNCHANGED <<second, signRate, lockVars>>
      BY <1>1 DEF CheckBody, SignGoto
    <2>2. state \in Stage
      BY DEF SignInv, SignShapes, Stage
    <2>3. SignShapes'
      BY <2>1, <2>2 DEF SignInv, SignShapes, lockVars
    <2>4. InWindow(body, second)
      BY <1>1 DEF Fresh, InWindow
    <2>5. Checked' /\ Unlocking'
      BY <2>1, <2>4 DEF SignInv, SignShapes, Checked, Unlocking, InWindow, lockVars
    <2> QED
      BY <2>1, <2>3, <2>5 DEF SignInv, Covered, SignedApart, Earlier, lockVars
  <1>2. CASE ~(Canonical(body) /\ PolicyAllows(body) /\ Fresh(body))
    <2>1. SignGoto(r, [pc |-> "refused"]) /\ UNCHANGED <<second, signRate, lockVars>>
      BY <1>2 DEF CheckBody
    <2>2. [pc |-> "refused"] \in Stage /\ signRate' \in [count : Nat, reset : Nat]
      BY <2>1 DEF Stage, SignInv, SignShapes
    <2> QED
      BY <2>1, <2>2, SignQuiet DEF lockVars, SignInv, SignShapes
  <1> QED
    BY <1>1, <1>2

\* A lock is taken only when it is free, so it is never shortened.
LEMMA SignLockInv ==
    ASSUME SignInv, NEW r \in Signs, SignLock(r)
    PROVE  SignInv'
  <1> DEFINE body == signs[r].body
             n == body.nonce
             new == [sign |-> r, body |-> body, checked |-> signs[r].checked, at |-> second,
                     unlocked |-> unlocked[n]]
  <1>1. signs[r] \in [pc : {"replay"}, body : Bodies, checked : Nat]
    BY DEF SignLock, SignInv, SignShapes, Stage
  <1>2. /\ body \in Bodies /\ n \in SignNonces /\ second \in Nat /\ signLocks[n] \in Nat
        /\ unlocked[n] \in Nat /\ unlocked[n] <= second
    BY <1>1 DEF SignInv, SignShapes, SignNonces, Unlocking
  <1>3. signs[r].checked <= second /\ InWindow(body, signs[r].checked)
    BY DEF SignLock, SignInv, Checked
  <1>4. UNCHANGED <<second, signRate, signMarkers, unlocks, unlocked>>
    BY DEF SignLock
  <1>5. CASE signLocks[n] <= second /\ SignGoto(r, [pc |-> "mark", body |-> body])
             /\ signLocks' = Locked(n) /\ passed' = passed \cup {new}
    <2>1. new \in [sign : Signs, body : Bodies, checked : Nat, at : Nat, unlocked : Nat]
      BY <1>1, <1>2
    <2>2. [pc |-> "mark", body |-> body] \in Stage
      BY <1>2 DEF Stage
    <2>3. SignShapes'
      BY <1>2, <1>4, <1>5, <2>1, <2>2, SignLockTtlType
         DEF SignInv, SignShapes, SignGoto, Locked
    <2>4. \A p \in passed :
             /\ p.body \in Bodies /\ p.at \in Nat /\ p.at <= second
             /\ p.body.nonce \in SignNonces /\ p.unlocked \in Nat
             /\ p.unlocked <= unlocked[p.body.nonce]
      BY DEF SignInv, SignShapes, Checked, Unlocking, SignNonces
    <2>5. Checked'
      BY <1>3, <1>4, <1>5, <2>1 DEF SignInv, SignShapes, Checked, SignGoto, InWindow
    <2>6. Unlocking'
      <3> SUFFICES ASSUME NEW p \in passed'
                   PROVE  p.unlocked <= p.at /\ p.unlocked <= unlocked[p.body.nonce]
        BY <1>4 DEF SignInv, Unlocking
      <3> QED
        BY <1>2, <1>5 DEF SignInv, Unlocking
    <2>7. ASSUME NEW o \in passed, o.body.nonce = n
          PROVE  second >= o.at + SignLockTtl \/ unlocked[n] >= o.at
      BY <1>2, <1>5, <2>4, <2>7, SignLockTtlType DEF SignInv, Covered
    <2>8. Covered'
      <3> SUFFICES ASSUME NEW p \in passed'
                   PROVE  \/ signLocks'[p.body.nonce] >= p.at + SignLockTtl
                          \/ unlocked[p.body.nonce] >= p.at
        BY <1>4 DEF Covered
      <3>1. signLocks'[n] = second + SignLockTtl
        BY <1>2, <1>5 DEF SignInv, SignShapes, Locked
      <3>2. CASE p = new
        BY <1>2, <3>1, <3>2, SignLockTtlType
      <3>3. CASE p \in passed /\ p.body.nonce = n
        BY <1>2, <2>4, <3>1, <3>3, SignLockTtlType
      <3>4. CASE p \in passed /\ p.body.nonce # n
        <4>1. signLocks'[p.body.nonce] = signLocks[p.body.nonce]
          BY <1>5, <2>4, <3>4 DEF SignInv, SignShapes, Locked
        <4> QED
          BY <3>4, <4>1 DEF SignInv, Covered
      <3> QED
        BY <1>5, <3>2, <3>3, <3>4
    <2>9. SignedApart'
      <3> SUFFICES ASSUME NEW p \in passed', NEW q \in passed', p # q,
                          p.body.nonce = q.body.nonce, Earlier(p, q)
                   PROVE  q.unlocked >= p.at \/ q.at >= p.at + SignLockTtl
        BY DEF SignedApart, Earlier
      <3>1. CASE p \in passed /\ q \in passed
        BY <3>1 DEF SignInv, SignedApart
      <3>2. CASE p \in passed /\ q = new
        BY <2>7, <3>2
      <3>3. CASE p = new /\ q \in passed
        <4>1. /\ q.at \in Nat /\ q.at <= second /\ q.unlocked \in Nat
              /\ q.unlocked <= unlocked[n]
          BY <2>4, <3>3
        <4>2. q.at = second /\ q.unlocked = unlocked[n]
          BY <1>2, <3>3, <4>1 DEF Earlier
        <4>3. second >= q.at + SignLockTtl \/ unlocked[n] >= q.at
          BY <2>7, <3>3
        <4> QED
          BY <1>2, <3>3, <4>2, <4>3
      <3> QED
        BY <1>5, <3>1, <3>2, <3>3
    <2> QED
      BY <2>3, <2>5, <2>6, <2>8, <2>9 DEF SignInv
  <1>6. CASE SignGoto(r, [pc |-> "refused"]) /\ UNCHANGED passed
             /\ (UNCHANGED signLocks \/ (signLocks[n] <= second /\ signLocks' = Locked(n)))
    <2>1. [pc |-> "refused"] \in Stage
      BY DEF Stage
    <2>2. SignShapes'
      BY <1>2, <1>4, <1>6, <2>1, SignLockTtlType DEF SignInv, SignShapes, SignGoto, Locked
    <2>3. Checked' /\ Unlocking'
      BY <1>4, <1>6 DEF SignInv, SignShapes, Checked, Unlocking, SignGoto, InWindow
    <2>4. \A m \in SignNonces : signLocks'[m] >= signLocks[m]
      BY <1>2, <1>6, SignLockTtlType DEF SignInv, SignShapes, Locked
    <2>5. Covered'
      <3> SUFFICES ASSUME NEW p \in passed
                   PROVE  \/ signLocks'[p.body.nonce] >= p.at + SignLockTtl
                          \/ unlocked[p.body.nonce] >= p.at
        BY <1>4, <1>6 DEF Covered
      <3>1. p.at \in Nat /\ p.body.nonce \in SignNonces
        BY DEF SignInv, SignShapes, SignNonces
      <3>2. signLocks[p.body.nonce] \in Nat /\ signLocks'[p.body.nonce] \in Nat
        BY <2>2, <3>1 DEF SignInv, SignShapes
      <3>3. \/ signLocks[p.body.nonce] >= p.at + SignLockTtl
            \/ unlocked[p.body.nonce] >= p.at
        BY DEF SignInv, Covered
      <3> QED
        BY <2>4, <3>1, <3>2, <3>3, SignLockTtlType
    <2> QED
      BY <1>4, <1>6, <2>2, <2>3, <2>5 DEF SignInv, SignedApart, Earlier
  <1> QED
    BY <1>5, <1>6 DEF SignLock

LEMMA SignMarkInv ==
    ASSUME SignInv, NEW r \in Signs, NEW ok \in BOOLEAN, SignMark(r, ok)
    PROVE  SignInv'
  <1> DEFINE body == signs[r].body
             state == IF ok THEN [pc |-> "signing"] ELSE [pc |-> "clear", body |-> body]
  <1>1. signs[r] \in [pc : {"mark", "clear"}, body : Bodies]
    BY DEF SignMark, SignInv, SignShapes, Stage
  <1>2. state \in Stage /\ state.pc # "replay" /\ SignGoto(r, state)
    BY <1>1 DEF SignMark, Stage
  <1>3. signMarkers' \subseteq SignNonces
    BY <1>1 DEF SignMark, SignInv, SignShapes, SignNonces
  <1>4. /\ signRate' \in [count : Nat, reset : Nat]
        /\ UNCHANGED <<second, signLocks, unlocks, unlocked, passed>>
    BY DEF SignMark, SignInv, SignShapes
  <1> HIDE DEF state
  <1> QED
    BY <1>2, <1>3, <1>4, SignQuiet

\* Clearing a lock is noted.
LEMMA UnlockInv ==
    ASSUME SignInv, NEW n \in SignNonces, Unlock(n),
           signs' = signs \/ \E r \in Signs : SignGoto(r, [pc |-> "refused"]),
           unlocks' \subseteq unlocks, UNCHANGED <<second, signRate, signMarkers, passed>>
    PROVE  SignInv'
  <1>1. [pc |-> "refused"] \in Stage
    BY DEF Stage
  <1>2. second \in Nat
    BY DEF SignInv, SignShapes
  <1>3. SignShapes'
    BY <1>1, <1>2 DEF SignInv, SignShapes, SignGoto, Unlock
  <1>4. Checked'
    BY DEF SignInv, SignShapes, Checked, SignGoto, InWindow
  <1>5. \A m \in SignNonces : /\ m = n => unlocked'[m] = second
                              /\ m # n => unlocked'[m] = unlocked[m]
                              /\ m # n => signLocks'[m] = signLocks[m]
    BY DEF SignInv, SignShapes, Unlock
  <1>6. \A p \in passed :
           /\ p.at \in Nat /\ p.at <= second /\ p.unlocked \in Nat /\ p.unlocked <= p.at
           /\ p.body.nonce \in SignNonces
    BY DEF SignInv, SignShapes, Checked, Unlocking, SignNonces
  <1>7. Unlocking'
    BY <1>2, <1>5, <1>6 DEF SignInv, Unlocking
  <1>8. Covered'
    <2> SUFFICES ASSUME NEW p \in passed
                 PROVE  \/ signLocks'[p.body.nonce] >= p.at + SignLockTtl
                        \/ unlocked'[p.body.nonce] >= p.at
      BY DEF Covered
    <2> QED
      BY <1>2, <1>5, <1>6 DEF SignInv, Covered
  <1> QED
    BY <1>3, <1>4, <1>7, <1>8 DEF SignInv, SignedApart, Earlier

LEMMA SignClearInv ==
    ASSUME SignInv, NEW r \in Signs, NEW ok \in BOOLEAN, SignClear(r, ok)
    PROVE  SignInv'
  <1>1. signs[r] \in [pc : {"mark", "clear"}, body : Bodies]
    BY DEF SignClear, SignInv, SignShapes, Stage
  <1>2. signs[r].body.nonce \in SignNonces
    BY <1>1 DEF SignNonces
  <1>3. /\ SignGoto(r, [pc |-> "refused"])
        /\ UNCHANGED <<second, policy, signRate, signMarkers, unlocks, passed>>
    BY DEF SignClear
  <1>4. CASE ok
    <2>1. Unlock(signs[r].body.nonce)
      BY <1>4 DEF SignClear
    <2> QED
      BY <1>2, <1>3, <2>1, UnlockInv
  <1>5. CASE ~ok
    <2>1. UNCHANGED <<signLocks, unlocked>>
      BY <1>5 DEF SignClear
    <2>2. /\ [pc |-> "refused"] \in Stage /\ signRate' \in [count : Nat, reset : Nat]
          /\ signMarkers' \subseteq SignNonces
      BY <1>3 DEF Stage, SignInv, SignShapes
    <2> QED
      BY <1>3, <2>1, <2>2, SignQuiet
  <1> QED
    BY <1>4, <1>5

LEMMA ForgetSignInv ==
    ASSUME SignInv,
           ForgetSign \/ \E nonce \in SignNonces, ok \in BOOLEAN : ForgetLock(nonce, ok)
    PROVE  SignInv'
  <1>1. ASSUME UNCHANGED <<second, signs, signRate, signLocks, signMarkers, passed, unlocked>>,
               unlocks' \subseteq SignNonces
        PROVE  SignInv'
    <2>1. SignShapes' /\ Checked' /\ Unlocking'
      BY <1>1 DEF SignInv, SignShapes, Checked, Unlocking, InWindow
    <2> QED
      BY <1>1, <2>1 DEF SignInv, Covered, SignedApart, Earlier
  <1>2. CASE ForgetSign
    <2>1. unlocks' \subseteq SignNonces
      BY <1>2 DEF ForgetSign, SignInv, SignShapes
    <2> QED
      BY <1>1, <1>2, <2>1 DEF ForgetSign
  <1>3. ASSUME NEW nonce \in SignNonces, NEW ok \in BOOLEAN, ForgetLock(nonce, ok)
        PROVE  SignInv'
    <2>1. unlocks' \subseteq unlocks
      BY <1>3 DEF ForgetLock
    <2>2. CASE ok
      <3>1. Unlock(nonce)
        BY <1>3, <2>2 DEF ForgetLock
      <3> QED
        BY <1>3, <2>1, <3>1, UnlockInv DEF ForgetLock
    <2>3. CASE ~ok
      <3>1. UNCHANGED <<signLocks, unlocked>>
        BY <1>3, <2>3 DEF ForgetLock
      <3> QED
        BY <1>1, <1>3, <2>1, <3>1 DEF ForgetLock, SignInv, SignShapes
    <2> QED
      BY <2>2, <2>3
  <1> QED
    BY <1>2, <1>3

LEMMA SignStepInv == SignInv /\ [SigningNext]_signVars => SignInv'
  <1> SUFFICES ASSUME SignInv, [SigningNext]_signVars PROVE SignInv'
    OBVIOUS
  <1>1. ASSUME NEW r \in Signs, NEW fits \in BOOLEAN, Sign(r, fits)
        PROVE  SignInv'
    <2>1. [pc |-> IF fits THEN "signed" ELSE "refused"] \in Stage
      BY DEF Stage
    <2>2. signRate' \in [count : Nat, reset : Nat]
      BY <1>1 DEF Sign, SignInv, SignShapes
    <2> QED
      BY <1>1, <2>1, <2>2, SignQuiet DEF Sign, lockVars, SignInv, SignShapes
  <1>2. CASE SignTick
    <2>1. second \in Nat /\ second' = second + 1 /\ UNCHANGED <<signs, signRate, lockVars>>
      BY <1>2 DEF SignTick, SignInv, SignShapes
    <2>2. SignShapes'
      BY <2>1 DEF SignInv, SignShapes, lockVars
    <2>3. \A r \in Signs : signs[r].pc = "replay" => signs[r].checked \in Nat
      BY DEF SignInv, SignShapes, Stage
    <2>4. \A p \in passed : p.at \in Nat
      BY DEF SignInv, SignShapes
    <2>5. Checked'
      BY <2>1, <2>3, <2>4 DEF SignInv, Checked, InWindow, lockVars
    <2>6. Unlocking'
      BY <2>1 DEF SignInv, SignShapes, Unlocking, lockVars
    <2> QED
      BY <2>1, <2>2, <2>5, <2>6 DEF SignInv, Covered, SignedApart, Earlier, lockVars
  <1>3. CASE UNCHANGED signVars
    BY <1>3 DEF signVars, lockVars, SignInv, SignShapes, Checked, Unlocking, Covered,
       SignedApart, Earlier, InWindow
  <1> QED
    BY <1>1, <1>2, <1>3, SignRateGetInv, SignRatePutInv, CheckBodyInv, SignLockInv,
       SignMarkInv, SignClearInv, ForgetSignInv DEF SigningNext

LEMMA SignedSlow == SignInv => SignedAgainSlow
  <1> SUFFICES ASSUME SignInv, NEW p \in Signed, NEW q \in Signed, p.sign # q.sign,
                      p.body.nonce = q.body.nonce, Earlier(p, q), ~(q.unlocked >= p.at)
               PROVE  /\ q.at >= p.at + SignLockTtl
                      /\ p.body.ts = q.body.ts =>
                            q.at - q.checked >= SignLockTtl - 2 * TS_WINDOW
    BY DEF SignedAgainSlow
  <1>1. p \in passed /\ q \in passed /\ p # q
    BY DEF Signed
  <1>2. q.at >= p.at + SignLockTtl
    BY <1>1 DEF SignInv, SignedApart
  <1>3. /\ p.at \in Nat /\ q.at \in Nat /\ p.checked \in Nat /\ q.checked \in Nat
        /\ p.body.ts \in Nat /\ q.body.ts \in Nat
    BY <1>1, SigningAssumption DEF SignInv, SignShapes
  <1>4. /\ p.checked <= p.at
        /\ p.body.ts - p.checked <= TS_WINDOW /\ q.checked - q.body.ts <= TS_WINDOW
    BY <1>1 DEF SignInv, Checked, InWindow
  <1> QED
    BY <1>2, <1>3, <1>4, SignLockTtlType, SigningAssumption

\* POST /sign signs one nonce twice only SIGN_TTL seconds apart, or SIGN_LOCK_MAX
\* if that is less, unless its lock was cleared in between: by a POST /forget of
\* the subject "sign" or by a request whose marker KV refused. And it signs the
\* same nonce with the same timestamp again only when the second request spent the
\* difference between that lifetime and the window of the timestamp, both ways,
\* between its timestamp check and its lock.
THEOREM SignedAgainSlowCorrect == SigningSpec => []SignedAgainSlow
  BY SignInitInv, SignStepInv, SignedSlow, PTL DEF SigningSpec

-----------------------------------------------------------------------------
(***************************************************************************)
(* Secrets, tokens and scopes                                              *)
(***************************************************************************)

\* What has been opened was opened by the token the environment asks for, and an
\* unsigned notification passed the check of signatures.
AccessInv ==
    /\ env \in Environments
    /\ opened # {} => Configured(Normalized(env))
    /\ \A o \in opened :
          \/ o.kind = "scope" /\ o.of \in Scopes /\ Opens(Normalized(env), o.of, o.token)
          \/ o.kind = "site" /\ OpensSite(Normalized(env), o.of, o.token)
    /\ volatile => Configured(Normalized(env)) /\ InMemory(Normalized(env))
    /\ unsigned => /\ Configured(Normalized(env))
                   /\ \E sig \in {"wrong", "missing"} : SignatureTaken(Normalized(env), sig)

\* Fallbacks leave alone what says which deployment this is and whether scopes are
\* strict, and the tokens of scopes and of sites.
LEMMA NormalizedSame ==
    ASSUME NEW e \in Environments
    PROVE  LET f == Normalized(e) IN
           /\ f.mode = e.mode /\ f.require = e.require /\ f.memory = e.memory
           /\ f.process = e.process
           /\ f.strict = e.strict /\ f.tokens = e.tokens
           /\ f.notifySecret = e.notifySecret /\ f.notifyOptional = e.notifyOptional
           /\ f.tokenMap = e.tokenMap
  BY AccessAssumption DEF Normalized

LEMMA AccessStepInv ==
    ASSUME AccessInv, [AccessNext]_accessVars
    PROVE  AccessInv'
  <1>1. ASSUME NEW scope \in Scopes, NEW token \in Tokens,
               NEW sig \in {"valid", "wrong", "missing"}, ScopeRequest(scope, token, sig)
        PROVE  AccessInv'
    <2>1. /\ Configured(Normalized(env)) /\ Opens(Normalized(env), scope, token)
          /\ env' = env /\ volatile' = (volatile \/ InMemory(Normalized(env)))
          /\ opened' = opened \cup {[kind |-> "scope", of |-> scope, token |-> token]}
          /\ unsigned' = (unsigned \/ (scope = "notify" /\ sig # "valid"
                                       /\ SignatureTaken(Normalized(env), sig)))
      BY <1>1 DEF ScopeRequest
    <2>2. unsigned' => unsigned \/ (sig \in {"wrong", "missing"}
                                     /\ SignatureTaken(Normalized(env), sig))
      BY <2>1
    <2>3. unsigned' => /\ Configured(Normalized(env))
                       /\ \E s \in {"wrong", "missing"} : SignatureTaken(Normalized(env), s)
      BY <2>1, <2>2 DEF AccessInv
    <2>4. \A o \in opened' :
             \/ o \in opened
             \/ o.kind = "scope" /\ o.of = scope /\ o.token = token
      BY <2>1
    <2>5. /\ opened # {} => Configured(Normalized(env))
          /\ volatile' => Configured(Normalized(env)) /\ InMemory(Normalized(env))
      BY <2>1 DEF AccessInv
    <2> QED
      BY <2>1, <2>3, <2>4, <2>5 DEF AccessInv
  <1>2. ASSUME NEW site \in Sites, NEW token \in Tokens, TemplateRequest(site, token)
        PROVE  AccessInv'
    <2>1. /\ Configured(Normalized(env)) /\ OpensSite(Normalized(env), site, token)
          /\ env' = env /\ unsigned' = unsigned
          /\ volatile' = (volatile \/ InMemory(Normalized(env)))
          /\ opened' = opened \cup {[kind |-> "site", of |-> site, token |-> token]}
      BY <1>2 DEF TemplateRequest
    <2>2. \A o \in opened' :
             o \in opened \/ (o.kind = "site" /\ o.of = site /\ o.token = token)
      BY <2>1
    <2>3. volatile' => Configured(Normalized(env)) /\ InMemory(Normalized(env))
      BY <2>1 DEF AccessInv
    <2>4. unsigned' => /\ Configured(Normalized(env))
                       /\ \E s \in {"wrong", "missing"} : SignatureTaken(Normalized(env), s)
      BY <2>1 DEF AccessInv
    <2> QED
      BY <2>1, <2>2, <2>3, <2>4 DEF AccessInv
  <1>3. CASE UNCHANGED accessVars
    BY <1>3 DEF AccessInv, accessVars
  <1> QED
    BY <1>1, <1>2, <1>3 DEF AccessNext

LEMMA AccessInvariant == AccessSpec => []AccessInv
  <1>1. AccessInit => AccessInv
    BY DEF AccessInit, AccessInv
  <1> QED
    BY <1>1, AccessStepInv, PTL DEF AccessSpec

\* Where scopes are strict, a token that opens one of them opens no other, because
\* the check of the topology covers the tokens of all scopes and no fallback
\* stands in for them; and two sites share a token only if the map says so.
THEOREM TokenIsolationCorrect == AccessSpec => []TokenIsolation
  <1>1. ASSUME AccessInv PROVE TokenIsolation
    <2> SUFFICES ASSUME NEW p \in opened, NEW q \in opened,
                        p.token = q.token, p.kind = q.kind, p.of # q.of
                 PROVE  /\ p.kind = "scope" => ~Strict(env)
                        /\ p.kind = "site" /\ {p.of, q.of} \subseteq DOMAIN env.tokenMap =>
                              env.tokenMap[p.of] = env.tokenMap[q.of]
      BY DEF TokenIsolation
    <2> DEFINE e == Normalized(env)
    <2>1. e.tokens = env.tokens /\ e.tokenMap = env.tokenMap /\ Strict(e) = Strict(env)
      BY <1>1, NormalizedSame DEF AccessInv, Strict, Enforced, ProductionLike
    <2>2. ASSUME p.kind = "scope", Strict(env)
          PROVE  FALSE
      <3>1. /\ p.of \in Scopes /\ q.of \in Scopes
            /\ Opens(e, p.of, p.token) /\ Opens(e, q.of, q.token)
        BY <1>1, <2>2 DEF AccessInv
      <3>2. p.token = e.tokens[p.of] /\ q.token = e.tokens[q.of] /\ Topology(e)
        BY <2>1, <2>2, <3>1 DEF Opens, Expected
      <3> QED
        BY <3>1, <3>2 DEF Topology
    <2>3. ASSUME p.kind = "site", {p.of, q.of} \subseteq DOMAIN env.tokenMap
          PROVE  env.tokenMap[p.of] = env.tokenMap[q.of]
      <3>1. OpensSite(e, p.of, p.token) /\ OpensSite(e, q.of, q.token)
        BY <1>1, <2>3 DEF AccessInv
      <3>2. ExpectedOf(e, p.of) = env.tokenMap[p.of] /\ ExpectedOf(e, q.of) = env.tokenMap[q.of]
        BY <2>1, <2>3 DEF ExpectedOf
      <3>3. \A site \in DOMAIN env.tokenMap : env.tokenMap[site] # NoToken
        BY <1>1, AccessAssumption DEF AccessInv
      <3> QED
        BY <2>3, <3>1, <3>2, <3>3 DEF OpensSite
    <2> QED
      BY <2>2, <2>3
  <1> QED
    BY <1>1, AccessInvariant, PTL

\* ensureProdSecrets and verifyNotifySignature, which test for production in two
\* ways, leave no gap between them: whatever variable calls a deployment
\* production, in lower case, it serves nothing from the in-memory store the
\* bindings could select, and takes an unsigned notification only where that is
\* made optional.
THEOREM ProductionGuardedCorrect == AccessSpec => []ProductionGuarded
  <1>1. ASSUME AccessInv PROVE ProductionGuarded
    <2> DEFINE e == Normalized(env)
    <2>1. /\ Production(e) = Production(env) /\ e.memory = env.memory
          /\ e.process = env.process /\ e.notifyOptional = env.notifyOptional
      BY <1>1, NormalizedSame DEF AccessInv, Production
    <2>2. Production(env) /\ Configured(e) => Enforced(e) /\ ~env.memory
      BY <2>1 DEF Configured
    <2>3. ASSUME Production(env), unsigned
          PROVE  env.notifyOptional
      <3>1. PICK sig \in {"wrong", "missing"} : SignatureTaken(e, sig)
        BY <1>1, <2>3 DEF AccessInv
      <3>2. e.notifySecret # "unset"
        BY <1>1, <2>2, <2>3, <3>1 DEF AccessInv, SignatureTaken, Proper
      <3> QED
        BY <2>1, <3>1, <3>2 DEF SignatureTaken
    <2> QED
      BY <1>1, <2>1, <2>2, <2>3 DEF AccessInv, InMemory, ProductionGuarded
  <1> QED
    BY <1>1, AccessInvariant, PTL

-----------------------------------------------------------------------------
(***************************************************************************)
(* POST /notify: shapes                                                    *)
(***************************************************************************)

Counter == [count : Nat, until : Nat]

\* The stages of a notification, up to the dedupe check and in all.
Unchecked == {"new", "rate", "ratePut", "checked", "dedupe"}
NoteStages ==
    Unchecked \cup
    {"mark", "deduped", "spray", "sprayCount", "sprayKnown", "sprayPut", "subject",
     "subjectPut", "breaker", "reopen", "blocked", "send", "noteOk", "noteFail", "putOk",
     "putFail", "delivered", "failed", "refused", "broken"}

Note == [pc : NoteStages, key : Keys \cup {"none"}, held : Counter, tries : Nat]

Pass == [note : Notes, limit : {"rate", "spray", "subject"}, key : Keys, at : Int]

MarkRecord == [read : Nat, after : SUBSET Notes, put : Nat]

NoteShapes ==
    /\ clock \in Nat /\ clock > 0
    /\ setting \in Settings
    /\ notes \in [Notes -> Note]
    /\ \A n \in Notes : notes[n].pc # "new" => KeyOf(n) \in Keys
    /\ counters \in [rate : Counter, spray : Counter, subject : [Keys -> Counter]]
    /\ known \in [Keys -> Nat]
    /\ dedupes \in [Keys -> Nat]
    /\ breaker \in [count : Nat, until : Nat, exp : Nat]
    /\ passes \subseteq Pass
    /\ refusedAt \in Nat
    /\ marks \in [Notes -> MarkRecord]

\* A step of one notification leaves the others where they are.
Step1(n) ==
    /\ notes'[n] \in Note
    /\ \A m \in Notes \ {n} : notes'[m] = notes[m]
    /\ notes' \in [Notes -> Note]

LEMMA SettingType ==
    ASSUME NoteShapes
    PROVE  /\ setting.rate \in Nat /\ setting.spray \in Nat /\ setting.subject \in Nat
           /\ setting.attempts \in Nat /\ setting.threshold \in Nat
  BY NotifyAssumption DEF NoteShapes

LEMMA NoteGotoType ==
    ASSUME NoteShapes, NEW n \in Notes, NEW pc \in NoteStages, NoteGoto(n, pc)
    PROVE  Step1(n) /\ notes'[n] = [notes[n] EXCEPT !.pc = pc]
  <1>1. [notes[n] EXCEPT !.pc = pc] \in Note
    BY DEF NoteShapes, Note
  <1> QED
    BY <1>1 DEF NoteShapes, NoteGoto, Step1

LEMMA EntryType ==
    ASSUME NEW c \in Nat, NEW u \in Nat
    PROVE  Entry(c, u) \in Counter /\ Entry(c, u).count = c /\ Entry(c, u).until = u
  BY DEF Entry, Counter

LEMMA CountedType ==
    ASSUME NEW e \in Counter, NEW t \in Nat
    PROVE  /\ Counted(e, t) \in Counter
           /\ Within(e, t) => /\ Counted(e, t).count = e.count + 1
                              /\ Counted(e, t).until = e.until
           /\ ~Within(e, t) => /\ Counted(e, t).count = 1
                               /\ Counted(e, t).until = t + WINDOW
  <1>1. [e EXCEPT !.count = @ + 1] \in Counter
    BY DEF Counter
  <1>2. Entry(1, t + WINDOW) \in Counter
    BY EntryType, NotifyAssumption
  <1>3. CASE Within(e, t)
    BY <1>1, <1>3 DEF Counted, Counter
  <1>4. CASE ~Within(e, t)
    BY <1>2, <1>4 DEF Counted, Entry
  <1> QED
    BY <1>3, <1>4

\* Moving on with something in hand.
LEMMA NoteHoldType ==
    ASSUME NoteShapes, NEW n \in Notes, NEW pc \in NoteStages, NEW e \in Counter,
           notes' = [notes EXCEPT ![n].pc = pc, ![n].held = e]
    PROVE  /\ Step1(n)
           /\ notes'[n].pc = pc /\ notes'[n].held = e
           /\ notes'[n].key = notes[n].key /\ notes'[n].tries = notes[n].tries
  <1>1. notes[n] \in Note
    BY DEF NoteShapes
  <1>2. [notes[n] EXCEPT !.pc = pc, !.held = e] \in Note
    BY <1>1 DEF Note
  <1>3. notes' \in [Notes -> Note] /\ \A m \in Notes \ {n} : notes'[m] = notes[m]
    BY <1>2 DEF NoteShapes
  <1>4. /\ notes'[n].pc = pc /\ notes'[n].held = e
        /\ notes'[n].key = notes[n].key /\ notes'[n].tries = notes[n].tries
    BY <1>1 DEF NoteShapes, Note
  <1> QED
    BY <1>3, <1>4 DEF Step1

-----------------------------------------------------------------------------
(***************************************************************************)
(* POST /notify: the dedupe marker and the breaker                         *)
(***************************************************************************)

\* Steps that touch neither marker nor breaker: a request arrives, passes a limit
\* or the check of its destination, or is sent.
Passing(n) ==
    /\ Step1(n)
    /\ UNCHANGED <<clock, setting, dedupes, breaker, refusedAt, marks>>
    /\ notes[n].pc \notin {"failed", "deduped", "mark", "putOk", "putFail", "reopen"}
    /\ notes'[n].pc \notin {"new", "mark", "deduped", "reopen", "putOk", "putFail", "failed"}
    /\ notes'[n].pc \in Unchecked =>
          notes[n].pc \in Unchecked /\ notes'[n].tries = notes[n].tries
    /\ notes'[n].key \in Keys
    /\ notes[n].pc # "new" => notes'[n].key = notes[n].key
    /\ counters' \in [rate : Counter, spray : Counter, subject : [Keys -> Counter]]
    /\ known' \in [Keys -> Nat]
    /\ passes' \subseteq Pass

LEMMA KeyType ==
    ASSUME NoteShapes, NEW n \in Notes, notes[n].pc # "new"
    PROVE  KeyOf(n) \in Keys /\ notes[n].key \in Keys
  BY DEF NoteShapes, KeyOf

\* The counters a limiter uses.
LEMMA CountersType ==
    ASSUME NoteShapes
    PROVE  /\ counters.rate \in Counter /\ counters.spray \in Counter
           /\ \A k \in Keys : counters.subject[k] \in Counter
           /\ \A e \in Counter :
                 /\ [counters EXCEPT !.rate = e]
                       \in [rate : Counter, spray : Counter, subject : [Keys -> Counter]]
                 /\ [counters EXCEPT !.spray = e]
                       \in [rate : Counter, spray : Counter, subject : [Keys -> Counter]]
                 /\ \A k \in Keys : [counters EXCEPT !.subject[k] = e]
                       \in [rate : Counter, spray : Counter, subject : [Keys -> Counter]]
  <1> DEFINE Cs == [rate : Counter, spray : Counter, subject : [Keys -> Counter]]
  <1>1. counters \in Cs
    BY DEF NoteShapes
  <1>2. \A e \in Counter : [counters EXCEPT !.rate = e] \in Cs
    BY <1>1
  <1>3. \A e \in Counter : [counters EXCEPT !.spray = e] \in Cs
    BY <1>1
  <1>4. \A e \in Counter, k \in Keys : [counters.subject EXCEPT ![k] = e] \in [Keys -> Counter]
    BY <1>1
  <1>5. \A e \in Counter, k \in Keys : [counters EXCEPT !.subject[k] = e] \in Cs
    BY <1>1, <1>4
  <1> QED
    BY <1>1, <1>2, <1>3, <1>5

LEMMA ArrivePassing ==
    ASSUME NoteShapes, NEW n \in Notes, NEW k \in Keys, Arrive(n, k)
    PROVE  Passing(n)
  <1> DEFINE pc == IF setting.rate > 0 THEN "rate" ELSE "checked"
  <1>1. notes[n] \in Note /\ notes[n].pc = "new"
    BY DEF NoteShapes, Arrive, NoteAt
  <1>2. notes' = [notes EXCEPT ![n].key = k, ![n].pc = pc]
    BY DEF Arrive
  <1>3. pc \in {"rate", "checked"} /\ pc \in NoteStages
    BY DEF NoteStages, Unchecked
  <1> HIDE DEF pc
  <1>4. [notes[n] EXCEPT !.key = k, !.pc = pc] \in Note
    BY <1>1, <1>3 DEF Note
  <1>5. notes' \in [Notes -> Note] /\ \A m \in Notes \ {n} : notes'[m] = notes[m]
    BY <1>2, <1>4 DEF NoteShapes
  <1>6. notes'[n].pc = pc /\ notes'[n].key = k /\ notes'[n].tries = notes[n].tries
    BY <1>1, <1>2 DEF NoteShapes, Note
  <1>7. UNCHANGED <<clock, setting, kvVars, notifyHistory>>
    BY DEF Arrive
  <1> QED
    BY <1>1, <1>3, <1>5, <1>6, <1>7 DEF Passing, Step1, Unchecked, kvVars, notifyHistory,
       NoteShapes

\* Steps that only move the notification on.
LEMMA GotoPassing ==
    ASSUME NoteShapes, NEW n \in Notes, NEW pc \in NoteStages, NoteGoto(n, pc),
           notes[n].pc \in NoteStages \ {"new", "failed", "deduped", "mark", "putOk",
                                         "putFail", "reopen"},
           pc \notin {"new", "mark", "deduped", "reopen", "putOk", "putFail", "failed"},
           pc \in Unchecked => notes[n].pc \in Unchecked,
           UNCHANGED <<clock, setting, dedupes, breaker, refusedAt, marks, passes>>,
           counters' \in [rate : Counter, spray : Counter, subject : [Keys -> Counter]],
           known' \in [Keys -> Nat]
    PROVE  Passing(n)
  <1>1. notes[n] \in Note /\ notes[n].key \in Keys
    BY KeyType DEF NoteShapes
  <1>2. Step1(n) /\ notes'[n] = [notes[n] EXCEPT !.pc = pc]
    BY NoteGotoType
  <1>3. notes'[n].pc = pc /\ notes'[n].key = notes[n].key /\ notes'[n].tries = notes[n].tries
    BY <1>1, <1>2 DEF Note
  <1> QED
    BY <1>1, <1>2, <1>3 DEF Passing, NoteShapes

\* Steps that move it on with something in hand.
LEMMA HoldPassing ==
    ASSUME NoteShapes, NEW n \in Notes, NEW pc \in NoteStages \ Unchecked, NEW e \in Counter,
           notes' = [notes EXCEPT ![n].pc = pc, ![n].held = e],
           notes[n].pc \in NoteStages \ {"new", "failed", "deduped", "mark", "putOk",
                                         "putFail", "reopen"},
           pc \notin {"mark", "deduped", "reopen", "putOk", "putFail", "failed"},
           UNCHANGED <<clock, setting, dedupes, breaker, refusedAt, marks, counters, known>>,
           passes' \subseteq Pass
    PROVE  Passing(n)
  <1>1. notes[n].key \in Keys
    BY KeyType
  <1>2. /\ Step1(n) /\ notes'[n].pc = pc /\ notes'[n].key = notes[n].key
        /\ notes'[n].tries = notes[n].tries
    BY NoteHoldType
  <1>3. pc # "new"
    BY DEF Unchecked
  <1> QED
    BY <1>1, <1>2, <1>3 DEF Passing, NoteShapes

LEMMA HeldType ==
    ASSUME NoteShapes, NEW n \in Notes
    PROVE  /\ notes[n].held \in Counter /\ notes[n].held.count \in Nat
           /\ notes[n].held.until \in Nat /\ notes[n].tries \in Nat
  BY DEF NoteShapes, Note, Counter

\* A limiter's read refuses the request, or records a pass and moves on with the
\* next count.
LEMMA LimitGetPassing ==
    ASSUME NoteShapes, NEW n \in Notes, NEW limit \in {"rate", "subject"},
           NEW put \in {"ratePut", "subjectPut"}, limit = "rate" <=> put = "ratePut",
           NEW entry \in Counter, NEW max, LimitGet(n, limit, put, entry, max)
    PROVE  Passing(n)
  <1>1. /\ notes[n].pc = limit /\ KeyOf(n) \in Keys /\ clock \in Nat
        /\ UNCHANGED <<clock, setting, dedupes, breaker, refusedAt, marks, counters, known>>
    BY KeyType DEF LimitGet, NoteAt, kvVars, NoteShapes
  <1>2. CASE Full(entry, clock, max)
    <2>1. NoteGoto(n, "refused") /\ passes' = passes
      BY <1>2 DEF LimitGet
    <2> QED
      BY <1>1, <2>1, GotoPassing DEF NoteShapes, NoteStages, Unchecked
  <1>3. CASE ~Full(entry, clock, max)
    <2> DEFINE next == Counted(entry, clock)
    <2>1. /\ notes' = [notes EXCEPT ![n].pc = put, ![n].held = next]
          /\ passes' = passes \cup
               {[note |-> n, limit |-> limit, key |-> KeyOf(n), at |-> clock]}
      BY <1>3 DEF LimitGet
    <2>2. next \in Counter
      BY <1>1, CountedType
    <2>3. passes' \subseteq Pass
      BY <1>1, <2>1 DEF NoteShapes, Pass
    <2> HIDE DEF next
    <2>4. CASE put = "subjectPut"
      BY <1>1, <2>1, <2>2, <2>3, <2>4, HoldPassing DEF NoteStages, Unchecked
    <2>5. CASE put = "ratePut"
      <3>1. /\ Step1(n) /\ notes'[n].pc = put /\ notes'[n].key = notes[n].key
            /\ notes'[n].tries = notes[n].tries
        BY <2>1, <2>2, NoteHoldType DEF NoteStages, Unchecked
      <3> QED
        BY <1>1, <2>3, <2>5, <3>1 DEF Passing, NoteShapes, Unchecked, KeyOf
    <2> QED
      BY <2>4, <2>5
  <1> QED
    BY <1>2, <1>3

LEMMA LimitPassing ==
    ASSUME NoteShapes, NEW n \in Notes,
           RateGet(n) \/ RatePut(n) \/ SubjectGet(n) \/ SubjectPut(n)
    PROVE  Passing(n)
  <1>1. CASE RateGet(n)
    <2>1. counters.rate \in Counter
      BY CountersType
    <2> QED
      BY <1>1, <2>1, LimitGetPassing DEF RateGet
  <1>2. CASE SubjectGet(n)
    <2>1. KeyOf(n) \in Keys
      BY <1>2, KeyType DEF SubjectGet, LimitGet, NoteAt
    <2>2. counters.subject[KeyOf(n)] \in Counter
      BY <2>1, CountersType
    <2> QED
      BY <1>2, <2>2, LimitGetPassing DEF SubjectGet
  <1>3. CASE RatePut(n)
    <2>1. counters' \in [rate : Counter, spray : Counter, subject : [Keys -> Counter]]
      BY <1>3, HeldType, CountersType DEF RatePut
    <2>2. /\ notes[n].pc = "ratePut" /\ NoteGoto(n, "checked") /\ known' = known
          /\ UNCHANGED <<clock, setting, dedupes, breaker, refusedAt, marks, passes>>
      BY <1>3 DEF RatePut, NoteAt, notifyHistory
    <2> QED
      BY <2>1, <2>2, GotoPassing DEF NoteShapes, NoteStages, Unchecked
  <1>4. CASE SubjectPut(n)
    <2>1. /\ notes[n].pc = "subjectPut" /\ NoteGoto(n, "breaker") /\ known' = known
          /\ counters' = [counters EXCEPT !.subject[KeyOf(n)] = notes[n].held]
          /\ UNCHANGED <<clock, setting, dedupes, breaker, refusedAt, marks, passes>>
      BY <1>4 DEF SubjectPut, NoteAt, notifyHistory
    <2>2. KeyOf(n) \in Keys
      BY <2>1, KeyType
    <2>3. counters' \in [rate : Counter, spray : Counter, subject : [Keys -> Counter]]
      BY <2>1, <2>2, HeldType, CountersType
    <2> QED
      BY <2>1, <2>3, GotoPassing DEF NoteShapes, NoteStages, Unchecked
  <1> QED
    BY <1>1, <1>2, <1>3, <1>4

LEMMA FromStages ==
    /\ FromSubject \in {"subject", "breaker"}
    /\ FromSpray \in {"spray", "subject", "breaker"}
    /\ FromDedupe \in {"dedupe", "spray", "subject", "breaker"}
  BY DEF FromSubject, FromSpray, FromDedupe

LEMMA SprayPassing ==
    ASSUME NoteShapes, NEW n \in Notes,
           SprayGet(n) \/ SprayCount(n) \/ KnownPut(n) \/ SprayPut(n)
    PROVE  Passing(n)
  <1>0. clock \in Nat /\ WINDOW \in Nat /\ clock + WINDOW \in Nat
    BY NotifyAssumption DEF NoteShapes
  <1>1. CASE SprayGet(n)
    <2>1. /\ notes[n].pc = "spray"
          /\ UNCHANGED <<clock, setting, dedupes, breaker, refusedAt, marks, counters, known,
                         passes>>
      BY <1>1 DEF SprayGet, NoteAt, kvVars
    <2>2. CASE NoteGoto(n, FromSubject)
      BY <2>1, <2>2, FromStages, GotoPassing DEF NoteShapes, NoteStages, Unchecked
    <2>3. CASE notes' = [notes EXCEPT ![n].pc = "sprayCount",
                                      ![n].held = Entry(0, clock + WINDOW)]
      <3>1. Entry(0, clock + WINDOW) \in Counter /\ passes' \subseteq Pass
        BY <1>0, <2>1, EntryType DEF NoteShapes
      <3>2. "sprayCount" \in NoteStages \ Unchecked /\ "spray" \in NoteStages
        BY DEF NoteStages, Unchecked
      <3> QED
        BY <2>1, <2>3, <3>1, <3>2, HoldPassing
    <2> QED
      BY <1>1, <2>2, <2>3 DEF SprayGet
  <1>2. CASE SprayCount(n)
    <2> DEFINE start == notes[n].held.until - WINDOW
               c == Counted(counters.spray, start).count
    <2>1. /\ notes[n].pc = "sprayCount"
          /\ UNCHANGED <<clock, setting, dedupes, breaker, refusedAt, marks, counters, known>>
      BY <1>2 DEF SprayCount, NoteAt, kvVars
    <2>2. CASE Full(counters.spray, start, setting.spray)
      BY <1>2, <2>1, <2>2, GotoPassing DEF SprayCount, NoteShapes, NoteStages, Unchecked
    <2>3. CASE ~Full(counters.spray, start, setting.spray)
      <3>1. /\ notes' = [notes EXCEPT ![n].pc = "sprayKnown", ![n].held.count = c]
            /\ passes' = passes \cup
                 {[note |-> n, limit |-> "spray", key |-> KeyOf(n), at |-> start]}
        BY <1>2, <2>3 DEF SprayCount
      <3>2. start \in Int /\ KeyOf(n) \in Keys
        BY <1>0, <2>1, HeldType, KeyType
      <3>3. c \in Nat
        <4>1. counters.spray \in Counter
          BY CountersType
        <4> QED
          BY <4>1 DEF Counted, Counter, Entry
      <3>4. passes' \subseteq Pass
        BY <3>1, <3>2 DEF NoteShapes, Pass
      <3> HIDE DEF c
      <3>5. [notes[n].held EXCEPT !.count = c] \in Counter
        BY <3>3, HeldType DEF Counter
      <3>6. notes' = [notes EXCEPT ![n].pc = "sprayKnown",
                                   ![n].held = [notes[n].held EXCEPT !.count = c]]
        BY <3>1 DEF NoteShapes, Note
      <3>7. "sprayKnown" \in NoteStages \ Unchecked /\ "sprayCount" \in NoteStages
        BY DEF NoteStages, Unchecked
      <3> QED
        BY <2>1, <3>4, <3>5, <3>6, <3>7, HoldPassing
    <2> QED
      BY <2>2, <2>3
  <1>3. CASE KnownPut(n)
    <2>1. KeyOf(n) \in Keys /\ notes[n].pc = "sprayKnown"
      BY <1>3, KeyType DEF KnownPut, NoteAt
    <2>2. known' \in [Keys -> Nat]
      BY <1>0, <1>3, <2>1 DEF KnownPut, NoteShapes
    <2> QED
      BY <1>3, <2>1, <2>2, GotoPassing DEF KnownPut, notifyHistory, NoteShapes, NoteStages,
         Unchecked
  <1>4. CASE SprayPut(n)
    <2>1. counters' \in [rate : Counter, spray : Counter, subject : [Keys -> Counter]]
      BY <1>4, HeldType, CountersType DEF SprayPut
    <2>2. /\ notes[n].pc = "sprayPut" /\ NoteGoto(n, FromSubject) /\ known' = known
          /\ UNCHANGED <<clock, setting, dedupes, breaker, refusedAt, marks, passes>>
      BY <1>4 DEF SprayPut, NoteAt, notifyHistory
    <2> QED
      BY <2>1, <2>2, FromStages, GotoPassing DEF NoteShapes, NoteStages, Unchecked
  <1> QED
    BY <1>1, <1>2, <1>3, <1>4

LEMMA SendPassing ==
    ASSUME NoteShapes, NEW n \in Notes,
           \/ \E allowed \in BOOLEAN : CheckDestination(n, allowed)
           \/ \E answer \in Answers : Send(n, answer)
           \/ Unconfigured(n)
    PROVE  Passing(n)
  <1>1. ASSUME NEW allowed \in BOOLEAN, CheckDestination(n, allowed)
        PROVE  Passing(n)
    <2>1. \E pc \in {"refused", "dedupe", "spray", "subject", "breaker"} : NoteGoto(n, pc)
      BY <1>1, FromStages DEF CheckDestination
    <2> QED
      BY <1>1, <2>1, GotoPassing DEF CheckDestination, NoteAt, kvVars, notifyHistory,
         NoteShapes, NoteStages, Unchecked
  <1>2. CASE Unconfigured(n)
    BY <1>2, GotoPassing DEF Unconfigured, NoteAt, kvVars, notifyHistory, NoteShapes,
       NoteStages, Unchecked
  <1>3. ASSUME NEW answer \in Answers, Send(n, answer)
        PROVE  Passing(n)
    <2> DEFINE tries == notes[n].tries + 1
               pc == CASE answer = "ok" -> "noteOk"
                       [] answer = "network" -> "broken"
                       [] answer = "error" /\ tries < setting.attempts -> "send"
                       [] OTHER -> "noteFail"
    <2>1. notes' = [notes EXCEPT ![n].tries = tries, ![n].pc = pc]
      BY <1>3 DEF Send
    <2>2. pc \in {"noteOk", "broken", "send", "noteFail"} /\ tries \in Nat
      BY HeldType DEF Answers
    <2>3. notes[n] \in Note /\ notes[n].pc = "send" /\ notes[n].key \in Keys
      BY <1>3, KeyType DEF NoteShapes, Send, NoteAt
    <2> HIDE DEF pc, tries
    <2>4. pc \in NoteStages
      BY <2>2 DEF NoteStages
    <2>5. [notes[n] EXCEPT !.tries = tries, !.pc = pc] \in Note
      BY <2>2, <2>3, <2>4 DEF Note
    <2>6. notes' \in [Notes -> Note] /\ \A m \in Notes \ {n} : notes'[m] = notes[m]
      BY <2>1, <2>5 DEF NoteShapes
    <2>7. notes'[n].pc = pc /\ notes'[n].key = notes[n].key
      BY <2>1, <2>3 DEF NoteShapes, Note
    <2> QED
      BY <1>3, <2>2, <2>3, <2>6, <2>7 DEF Passing, Step1, Send, kvVars, notifyHistory,
         NoteShapes, Unchecked
  <1> QED
    BY <1>1, <1>2, <1>3

\* The dedupe marker of a destination lasts DEDUPE_TTL from every time it was set,
\* and who has found it over has looked later than that.
MarkInv ==
    /\ \A n \in Notes : notes[n].pc \in Unchecked => marks[n].after = {}
    /\ \A n \in Notes : notes[n].pc \in Unchecked \cup {"mark"} => marks[n].put = 0
    /\ \A n \in Notes : notes[n].pc \in Unchecked \cup {"deduped"} => notes[n].tries = 0
    /\ \A n \in Notes : marks[n].put > 0 =>
          /\ marks[n].put <= clock
          /\ dedupes[KeyOf(n)] >= marks[n].put + DEDUPE_TTL
    /\ \A k \in Keys : dedupes[k] <= clock + DEDUPE_TTL
    /\ \A n \in Notes : \A m \in marks[n].after :
          /\ marks[m].put > 0
          /\ notes[n].pc # "deduped" => marks[n].read > marks[m].put + DEDUPE_TTL

FailedNotes == {n \in Notes : NoteAt(n, "failed")}

\* The breaker counts at most the requests that failed, in its entry and in what
\* requests in between a read and a write are going to write.
CountInv ==
    /\ IsFiniteSet(FailedNotes)
    /\ breaker.count <= Cardinality(FailedNotes)
    /\ \A n \in Notes :
          /\ notes[n].pc = "reopen" => notes[n].held.count <= Cardinality(FailedNotes)
          /\ notes[n].pc = "putOk" => notes[n].held.count = 0
          /\ notes[n].pc = "putFail" => notes[n].held.count <= Cardinality(FailedNotes) + 1

\* The entry outlives what it says by COOLDOWN, and every refusal by as much.
EntryInv ==
    /\ breaker.exp <= clock + 2 * COOLDOWN
    /\ breaker.until > 0 => breaker.until + COOLDOWN <= breaker.exp
    /\ breaker.count > 0 \/ refusedAt > 0 => breaker.exp >= refusedAt + COOLDOWN
    /\ refusedAt <= clock
    /\ \A n \in Notes : notes[n].pc \in {"reopen", "putOk", "putFail"} =>
          notes[n].held.until <= clock + COOLDOWN

NotifyInv == NoteShapes /\ MarkInv /\ CountInv /\ EntryInv

LEMMA NumberTypes ==
    ASSUME NoteShapes
    PROVE  /\ clock \in Nat /\ clock > 0
           /\ WINDOW \in Nat /\ DEDUPE_TTL \in Nat /\ COOLDOWN \in Nat
           /\ breaker.count \in Nat /\ breaker.until \in Nat /\ breaker.exp \in Nat
           /\ refusedAt \in Nat
           /\ \A n \in Notes : /\ marks[n].read \in Nat /\ marks[n].put \in Nat
                               /\ marks[n].after \subseteq Notes
           /\ \A k \in Keys : dedupes[k] \in Nat
           /\ \A n \in Notes : notes[n].held.count \in Nat /\ notes[n].held.until \in Nat
  BY NotifyAssumption, HeldType DEF NoteShapes, MarkRecord

LEMMA NotifyInitInv == NotifyInit => NotifyInv
  <1> SUFFICES ASSUME NotifyInit PROVE NotifyInv
    OBVIOUS
  <1>1. Nothing \in Counter /\ NewNote \in Note
    BY EntryType DEF Nothing, NewNote, Note, NoteStages, Unchecked
  <1>2. \A n \in Notes : notes[n] = NewNote /\ notes[n].pc = "new" /\ notes[n].tries = 0
    BY DEF NotifyInit, NewNote
  <1>3. NoteShapes
    <2>1. counters \in [rate : Counter, spray : Counter, subject : [Keys -> Counter]]
      BY <1>1 DEF NotifyInit
    <2>2. breaker \in [count : Nat, until : Nat, exp : Nat] /\ notes \in [Notes -> Note]
      BY <1>1 DEF NotifyInit
    <2>3. marks \in [Notes -> MarkRecord]
      BY DEF NotifyInit, MarkRecord
    <2> QED
      BY <1>2, <2>1, <2>2, <2>3 DEF NotifyInit, NoteShapes
  <1>4. MarkInv
    BY <1>2, NotifyAssumption DEF NotifyInit, MarkInv
  <1>5. CountInv
    <2>1. FailedNotes = {}
      BY <1>2 DEF FailedNotes, NoteAt
    <2> QED
      BY <1>2, <2>1, FS_EmptySet DEF NotifyInit, CountInv
  <1>6. EntryInv
    BY <1>2, NotifyAssumption DEF NotifyInit, EntryInv
  <1> QED
    BY <1>3, <1>4, <1>5, <1>6 DEF NotifyInv

LEMMA PassingInv ==
    ASSUME NotifyInv, NEW n \in Notes, Passing(n)
    PROVE  NotifyInv'
  <1>1. \A m \in Notes : m = n \/ notes'[m] = notes[m]
    BY DEF Passing, Step1
  <1>2. NoteShapes'
    BY <1>1 DEF NotifyInv, NoteShapes, Passing, Step1, KeyOf
  <1>3. MarkInv'
    <2>1. \A m \in Notes : marks[m].put > 0 => notes[m].key \in Keys /\ KeyOf(m)' = KeyOf(m)
      <3> SUFFICES ASSUME NEW m \in Notes, marks[m].put > 0
                   PROVE  notes[m].key \in Keys /\ notes'[m].key = notes[m].key
        BY DEF KeyOf
      <3>1. notes[m].pc # "new"
        BY NumberTypes DEF NotifyInv, MarkInv, Unchecked
      <3> QED
        BY <1>1, <3>1, KeyType DEF NotifyInv, Passing
    <2>2. \A m \in Notes :
             /\ notes'[m].pc \in Unchecked => notes[m].pc \in Unchecked
                                              /\ notes'[m].tries = notes[m].tries
             /\ notes'[m].pc = "mark" => notes[m].pc = "mark"
             /\ notes'[m].pc = "deduped" <=> notes[m].pc = "deduped"
             /\ notes'[m].pc = "deduped" => notes'[m].tries = notes[m].tries
      BY <1>1 DEF Passing
    <2> QED
      BY <2>1, <2>2 DEF NotifyInv, MarkInv, Passing
  <1>4. CountInv' /\ EntryInv'
    <2>1. FailedNotes' = FailedNotes
      BY <1>1 DEF Passing, FailedNotes, NoteAt
    <2>2. \A m \in Notes : notes'[m].pc \in {"reopen", "putOk", "putFail"} =>
             notes'[m] = notes[m]
      BY <1>1 DEF Passing
    <2>3. CountInv'
      BY <2>1, <2>2 DEF NotifyInv, CountInv, Passing
    <2>4. EntryInv'
      BY <2>2 DEF NotifyInv, EntryInv, Passing
    <2> QED
      BY <2>3, <2>4
  <1> QED
    BY <1>2, <1>3, <1>4 DEF NotifyInv

\* A step of n that leaves the breaker alone and has nothing to do with it.
LEMMA BreakerSame ==
    ASSUME NotifyInv, NEW n \in Notes, Step1(n), UNCHANGED <<clock, breaker, refusedAt>>,
           notes[n].pc # "failed",
           notes'[n].pc \notin {"failed", "reopen", "putOk", "putFail"}
    PROVE  CountInv' /\ EntryInv'
  <1>1. FailedNotes' = FailedNotes
    BY DEF Step1, FailedNotes, NoteAt
  <1>2. \A m \in Notes : notes'[m].pc \in {"reopen", "putOk", "putFail"} =>
           notes'[m] = notes[m]
    BY DEF Step1
  <1>3. CountInv'
    BY <1>1, <1>2 DEF NotifyInv, CountInv
  <1>4. EntryInv'
    BY <1>2 DEF NotifyInv, EntryInv
  <1> QED
    BY <1>3, <1>4

\* A step of n that leaves the markers alone.
LEMMA MarksSame ==
    ASSUME NotifyInv, NEW n \in Notes, Step1(n), UNCHANGED <<clock, dedupes, marks>>,
           notes[n].pc \notin Unchecked \cup {"mark", "deduped"},
           notes'[n].pc \notin Unchecked \cup {"mark", "deduped"},
           notes'[n].key = notes[n].key
    PROVE  MarkInv'
  <1>1. \A m \in Notes : KeyOf(m)' = KeyOf(m)
    BY DEF Step1, KeyOf
  <1>2. \A m \in Notes : m = n \/ notes'[m] = notes[m]
    BY DEF Step1
  <1> QED
    BY <1>1, <1>2 DEF NotifyInv, MarkInv

LEMMA StepNotes ==
    ASSUME NoteShapes, NEW n \in Notes, Step1(n), notes'[n].key \in Keys
    PROVE  /\ notes' \in [Notes -> Note]
           /\ \A m \in Notes : notes'[m].pc # "new" => KeyOf(m)' \in Keys
  BY DEF NoteShapes, Step1, KeyOf

LEMMA DedupeGetInv ==
    ASSUME NotifyInv, NEW n \in Notes, DedupeGet(n)
    PROVE  NotifyInv'
  <1> DEFINE pc == IF Duplicate(n) THEN "deduped" ELSE "mark"
             after == {m \in Notes : KeyOf(m) = KeyOf(n) /\ marks[m].put > 0}
  <1>1. notes[n].pc = "dedupe" /\ UNCHANGED <<clock, setting, kvVars, passes, raced, refusedAt>>
    BY DEF DedupeGet, NoteAt
  <1>2. NoteGoto(n, pc) /\ marks' = [marks EXCEPT ![n].read = clock, ![n].after = after]
    BY DEF DedupeGet
  <1>3. /\ marks' \in [Notes -> MarkRecord]
        /\ marks'[n].read = clock /\ marks'[n].after = after /\ marks'[n].put = marks[n].put
        /\ \A m \in Notes \ {n} : marks'[m] = marks[m]
    <2>1. marks \in [Notes -> MarkRecord] /\ marks[n] \in MarkRecord /\ clock \in Nat
      BY DEF NotifyInv, NoteShapes, MarkRecord
    <2>2. after \in SUBSET Notes
      OBVIOUS
    <2> HIDE DEF after
    <2>3. [marks[n] EXCEPT !.read = clock, !.after = after] \in MarkRecord
      BY <2>1, <2>2 DEF MarkRecord
    <2>4. /\ marks' \in [Notes -> MarkRecord]
          /\ marks'[n] = [marks[n] EXCEPT !.read = clock, !.after = after]
          /\ \A m \in Notes \ {n} : marks'[m] = marks[m]
      BY <1>2, <2>1, <2>3
    <2> QED
      BY <2>1, <2>4 DEF MarkRecord
  <1>4. pc \in {"deduped", "mark"} /\ pc \in NoteStages
    BY DEF NoteStages
  <1> HIDE DEF pc
  <1>5. /\ Step1(n) /\ notes'[n].pc = pc
        /\ notes'[n].key = notes[n].key /\ notes'[n].tries = notes[n].tries
    <2>1. Step1(n) /\ notes'[n] = [notes[n] EXCEPT !.pc = pc] /\ notes[n] \in Note
      BY <1>2, <1>4, NoteGotoType DEF NotifyInv, NoteShapes
    <2> QED
      BY <2>1 DEF Note
  <1>6. NoteShapes'
    <2>1. notes'[n].key \in Keys
      BY <1>1, <1>5, KeyType DEF NotifyInv
    <2>2. /\ notes' \in [Notes -> Note]
          /\ \A m \in Notes : notes'[m].pc # "new" => KeyOf(m)' \in Keys
      BY <1>5, <2>1, StepNotes DEF NotifyInv
    <2> QED
      BY <1>1, <1>3, <2>2 DEF NotifyInv, NoteShapes, kvVars
  <1>7. MarkInv'
    <2>1. \A m \in Notes : KeyOf(m)' = KeyOf(m) /\ marks'[m].put = marks[m].put
      BY <1>3, <1>5 DEF Step1, KeyOf
    <2>2. \A m \in Notes : notes'[m].pc \in Unchecked => m # n /\ notes'[m] = notes[m]
      BY <1>4, <1>5 DEF Step1, Unchecked
    <2>3. \A m \in Notes : marks'[m].after = {} \/ m = n \/ marks'[m].after = marks[m].after
      BY <1>3
    <2>4. ASSUME NEW m \in after
          PROVE  marks[m].put > 0 /\ (pc # "deduped" => clock > marks[m].put + DEDUPE_TTL)
      <3>1. dedupes[KeyOf(n)] >= marks[m].put + DEDUPE_TTL
        BY <2>4 DEF NotifyInv, MarkInv
      <3>2. pc # "deduped" => ~(dedupes[KeyOf(n)] >= clock)
        BY DEF pc, Duplicate
      <3>3. KeyOf(n) \in Keys
        BY <1>1, KeyType DEF NotifyInv
      <3> QED
        BY <2>4, <3>1, <3>2, <3>3, NumberTypes DEF NotifyInv
    <2>5. \A m \in Notes : notes'[m].pc \in Unchecked => marks'[m].after = {}
      BY <1>3, <2>2 DEF NotifyInv, MarkInv
    <2>6. /\ notes[n].tries = 0 /\ marks[n].put = 0
          /\ \A m \in Notes \ {n} : notes'[m] = notes[m]
      BY <1>1, <1>5 DEF NotifyInv, MarkInv, Step1, Unchecked
    <2>7. \A m \in Notes : notes'[m].pc \in Unchecked \cup {"mark"} => marks'[m].put = 0
      BY <2>1, <2>6 DEF NotifyInv, MarkInv
    <2>8. \A m \in Notes : notes'[m].pc \in Unchecked \cup {"deduped"} => notes'[m].tries = 0
      BY <1>5, <2>6 DEF NotifyInv, MarkInv
    <2>9. \A m \in Notes : \A l \in marks'[m].after :
             /\ marks'[l].put > 0
             /\ notes'[m].pc # "deduped" => marks'[m].read > marks'[l].put + DEDUPE_TTL
      <3> SUFFICES ASSUME NEW m \in Notes, NEW l \in marks'[m].after
                   PROVE  /\ marks'[l].put > 0
                          /\ notes'[m].pc # "deduped" =>
                                marks'[m].read > marks'[l].put + DEDUPE_TTL
        OBVIOUS
      <3>1. CASE m = n
        <4>1. l \in after /\ l \in Notes
          BY <1>3, <3>1
        <4> QED
          BY <1>3, <1>5, <2>1, <2>4, <3>1, <4>1
      <3>2. CASE m # n
        <4>1. l \in marks[m].after /\ l \in Notes
          BY <1>3, <3>2, NumberTypes DEF NotifyInv
        <4> QED
          BY <1>3, <2>1, <2>6, <3>2, <4>1 DEF NotifyInv, MarkInv
      <3> QED
        BY <3>1, <3>2
    <2>10. \A m \in Notes : marks'[m].put > 0 =>
              /\ marks'[m].put <= clock'
              /\ dedupes'[KeyOf(m)'] >= marks'[m].put + DEDUPE_TTL
      BY <1>1, <2>1 DEF NotifyInv, MarkInv, kvVars
    <2> QED
      BY <1>1, <2>5, <2>7, <2>8, <2>9, <2>10 DEF NotifyInv, MarkInv, kvVars
  <1>8. CountInv' /\ EntryInv'
    BY <1>1, <1>4, <1>5, BreakerSame DEF kvVars
  <1> QED
    BY <1>6, <1>7, <1>8 DEF NotifyInv

LEMMA MarkPutInv ==
    ASSUME NotifyInv, NEW n \in Notes, MarkPut(n)
    PROVE  NotifyInv'
  <1> DEFINE k == notes[n].key
  <1>1. /\ notes[n].pc = "mark" /\ k \in Keys
        /\ UNCHANGED <<clock, setting, counters, known, breaker, passes, raced, refusedAt>>
    BY KeyType DEF MarkPut, NoteAt, NotifyInv
  <1>2. /\ NoteGoto(n, FromSpray)
        /\ marks' = [marks EXCEPT ![n].put = clock]
        /\ dedupes' = [dedupes EXCEPT ![k] = clock + DEDUPE_TTL]
    BY DEF MarkPut, Marked, KeyOf
  <1>3. /\ marks' \in [Notes -> MarkRecord]
        /\ marks'[n].read = marks[n].read /\ marks'[n].after = marks[n].after
        /\ marks'[n].put = clock
        /\ \A m \in Notes \ {n} : marks'[m] = marks[m]
    <2>1. marks \in [Notes -> MarkRecord] /\ marks[n] \in MarkRecord /\ clock \in Nat
      BY DEF NotifyInv, NoteShapes, MarkRecord
    <2>2. [marks[n] EXCEPT !.put = clock] \in MarkRecord
      BY <2>1 DEF MarkRecord
    <2>3. /\ marks' \in [Notes -> MarkRecord]
          /\ marks'[n] = [marks[n] EXCEPT !.put = clock]
          /\ \A m \in Notes \ {n} : marks'[m] = marks[m]
      BY <1>2, <2>1, <2>2
    <2> QED
      BY <2>1, <2>3 DEF MarkRecord
  <1>4. /\ dedupes' \in [Keys -> Nat] /\ dedupes'[k] = clock + DEDUPE_TTL
        /\ \A j \in Keys \ {k} : dedupes'[j] = dedupes[j]
    BY <1>1, <1>2, NumberTypes DEF NotifyInv, NoteShapes
  <1>5. /\ Step1(n) /\ notes'[n].pc = FromSpray
        /\ notes'[n].key = notes[n].key /\ notes'[n].tries = notes[n].tries
    <2>1. FromSpray \in NoteStages
      BY FromStages DEF NoteStages
    <2>2. Step1(n) /\ notes'[n] = [notes[n] EXCEPT !.pc = FromSpray] /\ notes[n] \in Note
      BY <1>2, <2>1, NoteGotoType DEF NotifyInv, NoteShapes
    <2> QED
      BY <2>2 DEF Note
  <1>6. FromSpray \in {"spray", "subject", "breaker"}
    BY FromStages
  <1>7. NoteShapes'
    <2>1. /\ notes' \in [Notes -> Note]
          /\ \A m \in Notes : notes'[m].pc # "new" => KeyOf(m)' \in Keys
      BY <1>1, <1>5, StepNotes DEF NotifyInv
    <2> QED
      BY <1>1, <1>3, <1>4, <2>1 DEF NotifyInv, NoteShapes
  <1>8. MarkInv'
    <2>1. \A m \in Notes : KeyOf(m)' = KeyOf(m) /\ marks'[m].read = marks[m].read
                           /\ marks'[m].after = marks[m].after
      BY <1>3, <1>5 DEF Step1, KeyOf
    <2>2. \A m \in Notes \ {n} : notes'[m] = notes[m] /\ marks'[m].put = marks[m].put
      BY <1>3, <1>5 DEF Step1
    <2>3. notes'[n].pc \notin Unchecked \cup {"mark", "deduped"}
      BY <1>5, <1>6 DEF Unchecked
    <2>4. \A m \in Notes : notes'[m].pc \in Unchecked => marks'[m].after = {}
      BY <2>1, <2>2, <2>3 DEF NotifyInv, MarkInv
    <2>5. \A m \in Notes : notes'[m].pc \in Unchecked \cup {"mark"} => marks'[m].put = 0
      BY <2>2, <2>3 DEF NotifyInv, MarkInv
    <2>6. \A m \in Notes : notes'[m].pc \in Unchecked \cup {"deduped"} => notes'[m].tries = 0
      BY <2>2, <2>3 DEF NotifyInv, MarkInv
    <2>7. \A j \in Keys : dedupes'[j] <= clock + DEDUPE_TTL /\ dedupes'[j] >= dedupes[j]
      BY <1>1, <1>4, NumberTypes DEF NotifyInv, MarkInv
    <2>8. ASSUME NEW m \in Notes, marks'[m].put > 0
          PROVE  marks'[m].put <= clock /\ dedupes'[KeyOf(m)'] >= marks'[m].put + DEDUPE_TTL
      <3>1. CASE m = n
        BY <1>3, <1>4, <2>1, <3>1, NumberTypes DEF NotifyInv, KeyOf
      <3>2. CASE m # n
        <4>1. marks[m].put > 0 /\ marks'[m].put = marks[m].put
          BY <2>2, <2>8, <3>2
        <4>2. notes[m].pc # "new"
          BY <4>1, NumberTypes DEF NotifyInv, MarkInv, Unchecked
        <4>3. KeyOf(m) \in Keys
          BY <4>2, KeyType DEF NotifyInv
        <4>4. /\ marks[m].put <= clock
              /\ dedupes[KeyOf(m)] >= marks[m].put + DEDUPE_TTL
          BY <4>1 DEF NotifyInv, MarkInv
        <4>5. dedupes'[KeyOf(m)] >= dedupes[KeyOf(m)] /\ dedupes[KeyOf(m)] \in Nat
              /\ dedupes'[KeyOf(m)] \in Nat /\ marks[m].put \in Nat /\ DEDUPE_TTL \in Nat
          BY <1>4, <2>7, <4>3, NumberTypes DEF NotifyInv
        <4> QED
          BY <2>1, <4>1, <4>4, <4>5
      <3> QED
        BY <3>1, <3>2
    <2>9. ASSUME NEW m \in Notes, NEW l \in marks[m].after
          PROVE  /\ marks'[l].put > 0
                 /\ notes'[m].pc # "deduped" => marks[m].read > marks'[l].put + DEDUPE_TTL
      <3>1. l \in Notes /\ marks[l].put > 0 /\ l # n
        BY <1>1, NumberTypes DEF NotifyInv, MarkInv
      <3>2. notes'[m].pc # "deduped" => notes[m].pc # "deduped"
        BY <1>1, <2>2
      <3> QED
        BY <2>2, <3>1, <3>2 DEF NotifyInv, MarkInv
    <2> QED
      BY <1>1, <2>1, <2>4, <2>5, <2>6, <2>7, <2>8, <2>9 DEF MarkInv
  <1>9. CountInv' /\ EntryInv'
    BY <1>1, <1>5, <1>6, BreakerSame
  <1> QED
    BY <1>7, <1>8, <1>9 DEF NotifyInv


BreakerStages ==
    {"breaker", "reopen", "blocked", "send", "noteOk", "noteFail", "putOk", "putFail",
     "delivered", "failed"}

BreakerEntry == [count : Nat, until : Nat, exp : Nat]

LEMMA BreakerFacts ==
    ASSUME NotifyInv
    PROVE  /\ Cardinality(FailedNotes) \in Nat
           /\ BreakerState.count \in Nat /\ BreakerState.count <= Cardinality(FailedNotes)
           /\ BreakerState.until \in Nat /\ BreakerState.until <= clock + COOLDOWN
           /\ BreakerState.until > clock => breaker.exp >= clock + COOLDOWN
  <1>1. Cardinality(FailedNotes) \in Nat /\ breaker.count <= Cardinality(FailedNotes)
    BY FS_CardinalityType DEF NotifyInv, CountInv
  <1>2. /\ breaker.count \in Nat /\ breaker.until \in Nat /\ breaker.exp \in Nat
        /\ clock \in Nat /\ COOLDOWN \in Nat
    BY NumberTypes DEF NotifyInv
  <1>3. /\ breaker.exp <= clock + 2 * COOLDOWN
        /\ breaker.until > 0 => breaker.until + COOLDOWN <= breaker.exp
    BY DEF NotifyInv, EntryInv
  <1>4. /\ BreakerState.count \in {0, breaker.count}
        /\ BreakerState.until \in {0, breaker.until}
    BY DEF BreakerState, Entry, Nothing
  <1> QED
    BY <1>1, <1>2, <1>3, <1>4

LEMMA StoredType ==
    ASSUME NoteShapes, NEW e \in Counter
    PROVE  /\ Stored(e) \in BreakerEntry
           /\ Stored(e).count = e.count /\ Stored(e).until = e.until
           /\ Stored(e).exp = clock + 2 * COOLDOWN
  BY NumberTypes DEF Stored, Counter, BreakerEntry

\* A step of n between the stages of the breaker.
LEMMA BreakerMoves ==
    ASSUME NotifyInv, NEW n \in Notes, Step1(n),
           UNCHANGED <<clock, setting, counters, known, dedupes, passes, marks>>,
           notes[n].pc \in BreakerStages, notes'[n].pc \in BreakerStages,
           notes'[n].key = notes[n].key,
           breaker' \in BreakerEntry, refusedAt' \in Nat
    PROVE  NoteShapes' /\ MarkInv'
  <1>1. /\ notes[n].pc \notin Unchecked \cup {"mark", "deduped"}
        /\ notes'[n].pc \notin Unchecked \cup {"mark", "deduped"}
    BY DEF BreakerStages, Unchecked
  <1>2. notes'[n].key \in Keys
    BY <1>1, KeyType DEF NotifyInv, Unchecked
  <1>3. /\ notes' \in [Notes -> Note]
        /\ \A m \in Notes : notes'[m].pc # "new" => KeyOf(m)' \in Keys
    BY <1>2, StepNotes DEF NotifyInv
  <1>4. NoteShapes'
    BY <1>3 DEF NotifyInv, NoteShapes, BreakerEntry
  <1>5. MarkInv'
    BY <1>1, MarksSame
  <1> QED
    BY <1>4, <1>5

LEMMA BreakerGetInv ==
    ASSUME NotifyInv, NEW n \in Notes, BreakerGet(n)
    PROVE  NotifyInv'
  <1>1. /\ notes[n].pc = "breaker" /\ clock \in Nat /\ COOLDOWN \in Nat
        /\ UNCHANGED <<clock, setting, counters, known, dedupes, breaker, passes, raced, marks>>
    BY NumberTypes DEF BreakerGet, NoteAt, kvVars, NotifyInv
  <1>2. breaker' \in BreakerEntry
    BY <1>1 DEF NotifyInv, NoteShapes, BreakerEntry
  <1>3. CASE BreakerState.until > clock
    <2>1. NoteGoto(n, "blocked") /\ refusedAt' = clock
      BY <1>3 DEF BreakerGet
    <2>2. /\ Step1(n) /\ notes'[n].pc = "blocked" /\ notes'[n].key = notes[n].key
      <3>1. "blocked" \in NoteStages /\ notes[n] \in Note
        BY DEF NoteStages, NotifyInv, NoteShapes
      <3>2. Step1(n) /\ notes'[n] = [notes[n] EXCEPT !.pc = "blocked"]
        BY <2>1, <3>1, NoteGotoType DEF NotifyInv
      <3> QED
        BY <3>1, <3>2 DEF Note
    <2>3. NoteShapes' /\ MarkInv'
      BY <1>1, <1>2, <2>1, <2>2, BreakerMoves DEF BreakerStages
    <2>4. /\ FailedNotes' = FailedNotes
          /\ \A m \in Notes : notes'[m].pc \in {"reopen", "putOk", "putFail"} =>
                notes'[m] = notes[m]
      BY <1>1, <2>2 DEF Step1, FailedNotes, NoteAt
    <2>5. CountInv'
      BY <1>1, <2>4 DEF NotifyInv, CountInv
    <2>6. EntryInv'
      BY <1>1, <1>3, <2>1, <2>4, BreakerFacts DEF NotifyInv, EntryInv
    <2> QED
      BY <2>3, <2>5, <2>6 DEF NotifyInv
  <1>4. CASE ~(BreakerState.until > clock)
    <2> DEFINE pc == IF Tripped THEN "reopen" ELSE "send"
               e == Entry(BreakerState.count, clock + COOLDOWN)
    <2>1. notes' = [notes EXCEPT ![n].pc = pc, ![n].held = e] /\ refusedAt' = refusedAt
      BY <1>4 DEF BreakerGet
    <2>2. pc \in {"reopen", "send"}
      OBVIOUS
    <2>3. e \in Counter /\ e.count = BreakerState.count /\ e.until = clock + COOLDOWN
      BY <1>1, BreakerFacts, EntryType
    <2> HIDE DEF pc, e
    <2>4. pc \in NoteStages
      BY <2>2 DEF NoteStages
    <2>5. /\ Step1(n) /\ notes'[n].pc = pc /\ notes'[n].held = e
          /\ notes'[n].key = notes[n].key
      BY <2>1, <2>3, <2>4, NoteHoldType DEF NotifyInv
    <2>6. NoteShapes' /\ MarkInv'
      <3>1. refusedAt' \in Nat
        BY <2>1 DEF NotifyInv, NoteShapes
      <3> QED
        BY <1>1, <1>2, <2>2, <2>5, <3>1, BreakerMoves DEF BreakerStages
    <2>7. /\ FailedNotes' = FailedNotes
          /\ \A m \in Notes : m # n => notes'[m] = notes[m]
      BY <1>1, <2>2, <2>5 DEF Step1, FailedNotes, NoteAt
    <2>8. CountInv'
      BY <1>1, <2>2, <2>3, <2>5, <2>7, BreakerFacts DEF NotifyInv, CountInv
    <2>9. EntryInv'
      <3>1. \A m \in Notes : notes'[m].pc \in {"reopen", "putOk", "putFail"} =>
               notes'[m].held.until <= clock + COOLDOWN
        BY <1>1, <2>3, <2>5, <2>7 DEF NotifyInv, EntryInv
      <3> QED
        BY <1>1, <2>1, <3>1 DEF NotifyInv, EntryInv
    <2> QED
      BY <2>6, <2>8, <2>9 DEF NotifyInv
  <1> QED
    BY <1>3, <1>4

LEMMA ReopenPutInv ==
    ASSUME NotifyInv, NEW n \in Notes, ReopenPut(n)
    PROVE  NotifyInv'
  <1>1. /\ notes[n].pc = "reopen" /\ clock \in Nat /\ COOLDOWN \in Nat
        /\ UNCHANGED <<clock, setting, counters, known, dedupes, passes, raced, marks>>
        /\ refusedAt' = clock /\ NoteGoto(n, "blocked")
    BY NumberTypes DEF ReopenPut, NoteAt, NotifyInv
  <1>2. /\ breaker' \in BreakerEntry
        /\ breaker'.count = notes[n].held.count /\ breaker'.until = notes[n].held.until
        /\ breaker'.exp = clock + 2 * COOLDOWN
        /\ notes[n].held.until \in Nat
    BY HeldType, StoredType DEF ReopenPut, Reopened, NotifyInv
  <1>3. /\ Step1(n) /\ notes'[n].pc = "blocked" /\ notes'[n].key = notes[n].key
    <2>1. "blocked" \in NoteStages /\ notes[n] \in Note
      BY DEF NoteStages, NotifyInv, NoteShapes
    <2>2. Step1(n) /\ notes'[n] = [notes[n] EXCEPT !.pc = "blocked"]
      BY <1>1, <2>1, NoteGotoType DEF NotifyInv
    <2> QED
      BY <2>1, <2>2 DEF Note
  <1>4. NoteShapes' /\ MarkInv'
    BY <1>1, <1>2, <1>3, BreakerMoves DEF BreakerStages
  <1>5. /\ FailedNotes' = FailedNotes
        /\ \A m \in Notes : notes'[m].pc \in {"reopen", "putOk", "putFail"} =>
              notes'[m] = notes[m]
    BY <1>1, <1>3 DEF Step1, FailedNotes, NoteAt
  <1>6. CountInv'
    BY <1>1, <1>2, <1>5 DEF NotifyInv, CountInv
  <1>7. EntryInv'
    BY <1>1, <1>2, <1>5 DEF NotifyInv, EntryInv
  <1> QED
    BY <1>4, <1>6, <1>7 DEF NotifyInv

LEMMA NoteGetInv ==
    ASSUME NotifyInv, NEW n \in Notes, NoteGet(n)
    PROVE  NotifyInv'
  <1> DEFINE ok == notes[n].pc = "noteOk"
             pc == IF ok THEN "putOk" ELSE "putFail"
             e == IF ok THEN Nothing ELSE FailedOnce(n, BreakerState)
  <1>1. /\ notes[n].pc \in {"noteOk", "noteFail"} /\ clock \in Nat /\ COOLDOWN \in Nat
        /\ UNCHANGED <<clock, setting, counters, known, dedupes, breaker, passes, marks, refusedAt>>
    BY NumberTypes DEF NoteGet, kvVars, notifyHistory, NotifyInv
  <1>2. notes' = [notes EXCEPT ![n].pc = pc, ![n].held = e]
    BY DEF NoteGet, NoteAt, NotifyInv, NoteShapes
  <1>3. /\ e \in Counter /\ e.until <= clock + COOLDOWN
        /\ pc = "putOk" => e.count = 0
        /\ e.count <= Cardinality(FailedNotes) + 1
    <2>1. CASE ok
      <3>1. e = Entry(0, 0)
        BY <2>1 DEF Nothing
      <3> QED
        BY <1>1, <3>1, EntryType, BreakerFacts
    <2>2. CASE ~ok
      <3> DEFINE c == BreakerState.count + 1
                 u == IF c >= setting.threshold THEN clock + COOLDOWN
                      ELSE IF BreakerState.until > clock THEN BreakerState.until ELSE 0
      <3>1. e = Entry(c, u)
        BY <2>2 DEF FailedOnce
      <3>2. c \in Nat /\ c <= Cardinality(FailedNotes) + 1 /\ u \in Nat /\ u <= clock + COOLDOWN
        BY <1>1, BreakerFacts
      <3> HIDE DEF c, u
      <3> QED
        BY <2>2, <3>1, <3>2, EntryType
    <2> QED
      BY <2>1, <2>2
  <1>4. pc \in {"putOk", "putFail"} /\ pc \in NoteStages
    BY DEF NoteStages
  <1> HIDE DEF pc, e
  <1>5. /\ Step1(n) /\ notes'[n].pc = pc /\ notes'[n].held = e
        /\ notes'[n].key = notes[n].key
    BY <1>2, <1>3, <1>4, NoteHoldType DEF NotifyInv
  <1>6. NoteShapes' /\ MarkInv'
    <2>1. refusedAt' \in Nat /\ breaker' \in BreakerEntry
      BY <1>1 DEF NotifyInv, NoteShapes, BreakerEntry
    <2>2. notes[n].pc \in BreakerStages /\ notes'[n].pc \in BreakerStages
      BY <1>1, <1>4, <1>5 DEF BreakerStages
    <2> QED
      BY <1>1, <1>5, <2>1, <2>2, BreakerMoves
  <1>7. /\ FailedNotes' = FailedNotes
        /\ \A m \in Notes : m # n => notes'[m] = notes[m]
    BY <1>1, <1>4, <1>5 DEF Step1, FailedNotes, NoteAt
  <1>8. CountInv'
    BY <1>1, <1>3, <1>4, <1>5, <1>7 DEF NotifyInv, CountInv
  <1>9. EntryInv'
    BY <1>1, <1>3, <1>5, <1>7 DEF NotifyInv, EntryInv
  <1> QED
    BY <1>6, <1>8, <1>9 DEF NotifyInv

LEMMA NotePutInv ==
    ASSUME NotifyInv, NEW n \in Notes, NotePut(n)
    PROVE  NotifyInv'
  <1> DEFINE ok == notes[n].pc = "putOk"
             pc == IF ok THEN "delivered" ELSE "failed"
  <1>1. /\ notes[n].pc \in {"putOk", "putFail"} /\ clock \in Nat /\ COOLDOWN \in Nat
        /\ UNCHANGED <<clock, setting, counters, known, dedupes, passes, marks, refusedAt>>
        /\ NoteGoto(n, pc)
    BY NumberTypes DEF NotePut, NoteAt, notifyHistory, NotifyInv
  <1>2. /\ breaker' \in BreakerEntry
        /\ breaker'.count = notes[n].held.count /\ breaker'.until = notes[n].held.until
        /\ breaker'.exp = clock + 2 * COOLDOWN
        /\ notes[n].held.until \in Nat
    BY HeldType, StoredType DEF NotePut, NotifyInv
  <1>3. /\ ok => pc = "delivered"
        /\ ~ok => pc = "failed" /\ notes[n].pc = "putFail"
        /\ pc \in {"delivered", "failed"} /\ pc \in NoteStages
    BY <1>1 DEF NoteStages
  <1> HIDE DEF pc
  <1>4. /\ Step1(n) /\ notes'[n].pc = pc /\ notes'[n].key = notes[n].key
    <2>1. notes[n] \in Note
      BY DEF NotifyInv, NoteShapes
    <2>2. Step1(n) /\ notes'[n] = [notes[n] EXCEPT !.pc = pc]
      BY <1>1, <1>3, NoteGotoType DEF NotifyInv
    <2> QED
      BY <2>1, <2>2 DEF Note
  <1>5. NoteShapes' /\ MarkInv'
    <2>1. notes[n].pc \in BreakerStages /\ notes'[n].pc \in BreakerStages
      BY <1>1, <1>3, <1>4 DEF BreakerStages
    <2>2. refusedAt' \in Nat
      BY <1>1 DEF NotifyInv, NoteShapes
    <2> QED
      BY <1>1, <1>2, <1>4, <2>1, <2>2, BreakerMoves
  <1>6. \A m \in Notes : notes'[m].pc \in {"reopen", "putOk", "putFail"} =>
           notes'[m] = notes[m]
    BY <1>3, <1>4 DEF Step1
  <1>7. EntryInv'
    BY <1>1, <1>2, <1>6, NumberTypes DEF NotifyInv, EntryInv
  <1>8. CountInv'
    <2>1. CASE ok
      <3>1. FailedNotes' = FailedNotes
        BY <1>1, <1>3, <1>4, <2>1 DEF Step1, FailedNotes, NoteAt
      <3>2. breaker'.count = 0
        BY <1>2, <2>1 DEF NotifyInv, CountInv
      <3> QED
        BY <1>6, <3>1, <3>2, BreakerFacts DEF NotifyInv, CountInv
    <2>2. CASE ~ok
      <3>1. FailedNotes' = FailedNotes \cup {n} /\ n \notin FailedNotes
        BY <1>1, <1>3, <1>4, <2>2 DEF Step1, FailedNotes, NoteAt
      <3>2. IsFiniteSet(FailedNotes) /\ Cardinality(FailedNotes) \in Nat
        BY BreakerFacts DEF NotifyInv, CountInv
      <3>3. /\ IsFiniteSet(FailedNotes')
            /\ Cardinality(FailedNotes') = Cardinality(FailedNotes) + 1
        BY <3>1, <3>2, FS_AddElement
      <3>4. breaker'.count <= Cardinality(FailedNotes')
        BY <1>2, <1>3, <2>2, <3>3 DEF NotifyInv, CountInv
      <3>5. \A m \in Notes : notes'[m].held.count \in Nat
        BY <1>5, HeldType DEF NoteShapes, Note, Counter
      <3> QED
        BY <1>6, <3>2, <3>3, <3>4, <3>5 DEF NotifyInv, CountInv
    <2> QED
      BY <2>1, <2>2
  <1> QED
    BY <1>5, <1>7, <1>8 DEF NotifyInv

LEMMA NotifyTickInv ==
    ASSUME NotifyInv, NotifyTick
    PROVE  NotifyInv'
  <1>1. /\ clock' = clock + 1 /\ clock \in Nat
        /\ UNCHANGED <<setting, notes, counters, known, dedupes, breaker, passes, raced, marks,
                       refusedAt>>
    BY NumberTypes DEF NotifyTick, kvVars, notifyHistory, NotifyInv
  <1>2. /\ DEDUPE_TTL \in Nat /\ COOLDOWN \in Nat
        /\ \A k \in Keys : dedupes[k] \in Nat
        /\ \A n \in Notes : marks[n].put \in Nat /\ notes[n].held.until \in Nat
        /\ breaker.exp \in Nat /\ refusedAt \in Nat
    BY NumberTypes DEF NotifyInv
  <1>3. NoteShapes'
    BY <1>1 DEF NotifyInv, NoteShapes, KeyOf
  <1>4. MarkInv'
    <2>1. \A n \in Notes : KeyOf(n)' = KeyOf(n)
      BY <1>1 DEF KeyOf
    <2> QED
      BY <1>1, <1>2, <2>1 DEF NotifyInv, MarkInv
  <1>5. CountInv'
    BY <1>1 DEF NotifyInv, CountInv, FailedNotes, NoteAt
  <1>6. EntryInv'
    BY <1>1, <1>2 DEF NotifyInv, EntryInv
  <1> QED
    BY <1>3, <1>4, <1>5, <1>6 DEF NotifyInv


LEMMA NotifyInvStep == NotifyInv /\ [NotifyNext]_notifyVars => NotifyInv'
  <1> SUFFICES ASSUME NotifyInv, [NotifyNext]_notifyVars PROVE NotifyInv'
    OBVIOUS
  <1>0. NoteShapes
    BY DEF NotifyInv
  <1>1. ASSUME NEW n \in Notes, NEW k \in Keys, Arrive(n, k) PROVE NotifyInv'
    BY <1>0, <1>1, ArrivePassing, PassingInv
  <1>2. ASSUME NEW n \in Notes, RateGet(n) \/ RatePut(n) \/ SubjectGet(n) \/ SubjectPut(n)
        PROVE  NotifyInv'
    BY <1>0, <1>2, LimitPassing, PassingInv
  <1>3. ASSUME NEW n \in Notes, SprayGet(n) \/ SprayCount(n) \/ KnownPut(n) \/ SprayPut(n)
        PROVE  NotifyInv'
    BY <1>0, <1>3, SprayPassing, PassingInv
  <1>4. ASSUME NEW n \in Notes,
               \/ \E allowed \in BOOLEAN : CheckDestination(n, allowed)
               \/ \E answer \in Answers : Send(n, answer)
               \/ Unconfigured(n)
        PROVE  NotifyInv'
    BY <1>0, <1>4, SendPassing, PassingInv
  <1>5. ASSUME NEW n \in Notes, DedupeGet(n) \/ MarkPut(n) PROVE NotifyInv'
    BY <1>5, DedupeGetInv, MarkPutInv
  <1>6. ASSUME NEW n \in Notes, BreakerGet(n) \/ ReopenPut(n) \/ NoteGet(n) \/ NotePut(n)
        PROVE  NotifyInv'
    BY <1>6, BreakerGetInv, ReopenPutInv, NoteGetInv, NotePutInv
  <1>7. CASE NotifyTick
    BY <1>7, NotifyTickInv
  <1>8. CASE UNCHANGED notifyVars
    <2>1. UNCHANGED <<clock, setting, notes, counters, known, dedupes, breaker, passes, marks,
                      refusedAt>>
      BY <1>8 DEF notifyVars, kvVars, notifyHistory
    <2>2. NoteShapes' /\ MarkInv'
      BY <2>1 DEF NotifyInv, NoteShapes, MarkInv, KeyOf
    <2>3. CountInv' /\ EntryInv'
      BY <2>1 DEF NotifyInv, CountInv, EntryInv, FailedNotes, NoteAt
    <2> QED
      BY <2>2, <2>3 DEF NotifyInv
  <1> QED
    BY <1>1, <1>2, <1>3, <1>4, <1>5, <1>6, <1>7, <1>8 DEF NotifyNext

\* What the requests have found in KV and are about to write there agrees with what
\* KV holds, through every read, write and second.
THEOREM NotifyInvariant == NotifySpec => []NotifyInv
  <1> QED
    BY NotifyInitInv, NotifyInvStep, PTL DEF NotifySpec

\* The breaker entry never counts more failures than requests have failed: two
\* requests that read the same entry lose a count, and none gains one.
THEOREM BreakerNeedsFailuresCorrect == NotifySpec => []BreakerNeedsFailures
  <1>1. NotifyInv => BreakerNeedsFailures
    BY DEF NotifyInv, CountInv, BreakerNeedsFailures, FailedNotes, NoteAt
  <1> QED
    BY <1>1, NotifyInvariant, PTL

\* A second notification to a destination is sent only when its look for the marker
\* came before the marker was written, or DEDUPE_TTL after it.
THEOREM DedupeHoldsCorrect == NotifySpec => []DedupeHolds
  <1>1. NotifyInv => DedupeHolds
    <2> SUFFICES ASSUME NotifyInv, setting.dedupe, NEW m \in Notes, NEW n \in Notes, Sent(n),
                        m \in marks[n].after
                 PROVE  marks[n].read > marks[m].put + DEDUPE_TTL
      BY DEF DedupeHolds
    <2>1. notes[n].pc # "deduped"
      BY HeldType DEF NotifyInv, MarkInv, Sent
    <2> QED
      BY <2>1 DEF NotifyInv, MarkInv
  <1> QED
    BY <1>1, NotifyInvariant, PTL

\* Only the passing of time takes a tripped breaker's entry away, and it takes it
\* COOLDOWN after the last refusal at the earliest.
THEOREM ClosedOnlyQuietlyCorrect == NotifySpec => ClosedOnlyQuietly
  <1>1. NotifyInv /\ [NotifyNext]_notifyVars =>
           (Tripped /\ ~Tripped' /\ clock' # clock => clock' >= refusedAt + COOLDOWN)
    <2> SUFFICES ASSUME NotifyInv, [NotifyNext]_notifyVars, Tripped, ~Tripped', clock' # clock
                 PROVE  clock' >= refusedAt + COOLDOWN
      OBVIOUS
    <2>1. CASE NotifyTick
      <3>1. clock' = clock + 1 /\ setting' = setting /\ breaker' = breaker
        BY <2>1 DEF NotifyTick, kvVars
      <3>2. /\ clock \in Nat /\ breaker.exp \in Nat /\ breaker.count \in Nat
            /\ refusedAt \in Nat /\ COOLDOWN \in Nat /\ setting.threshold \in Nat
        BY NumberTypes, SettingType DEF NotifyInv
      <3>3. CASE breaker.exp >= clock /\ breaker.count > 0
        <4>1. breaker.exp >= refusedAt + COOLDOWN
          BY <3>3 DEF NotifyInv, EntryInv
        <4>2. ~(breaker.exp >= clock')
          BY <3>1, <3>2, <3>3 DEF Tripped, BreakerState, Entry
        <4> QED
          BY <3>1, <3>2, <4>1, <4>2
      <3>4. CASE ~(breaker.exp >= clock /\ breaker.count > 0)
        <4>1. BreakerState.count = 0 /\ setting.threshold = 0
          BY <3>2, <3>4 DEF Tripped, BreakerState, Entry, Nothing
        <4>2. BreakerState'.count \in {0, breaker.count}
          BY <3>1 DEF BreakerState, Entry, Nothing
        <4> QED
          BY <3>1, <3>2, <4>1, <4>2 DEF Tripped
      <3> QED
        BY <3>3, <3>4
    <2>2. CASE ~NotifyTick
      <3>1. NotifyNext
        BY DEF notifyVars
      <3>2. clock' = clock
        BY <2>2, <3>1 DEF NotifyNext, Arrive, RateGet, RatePut, SubjectGet, SubjectPut,
           LimitGet, DedupeGet, MarkPut, SprayGet, SprayCount, KnownPut, SprayPut, BreakerGet,
           ReopenPut, Unconfigured, NoteGet, NotePut, CheckDestination, Send
      <3> QED
        BY <3>2
    <2> QED
      BY <2>1, <2>2
  <1> QED
    BY <1>1, NotifyInvariant, PTL DEF NotifySpec, ClosedOnlyQuietly


-----------------------------------------------------------------------------
(***************************************************************************)
(* POST /notify: the limits                                                *)
(***************************************************************************)

Since(P, t) == {p \in P : p.at >= t}
Between(P, t, u) == {p \in P : t <= p.at /\ p.at < u}

\* What the entry of a limit that counts in fixed windows says of the passes of the
\* limit: those of the window it stands for are counted, the window begins with one
\* of them, and less than max lie in any stretch of WINDOW seconds before it.
Fixed(P, e, max) ==
    LET s == e.until - WINDOW IN
    /\ e.count <= max
    /\ e.count = 0 => e.until = 0 /\ P = {}
    /\ e.count > 0 => \E p \in P : p.at = s
    /\ Cardinality(Since(P, s)) <= e.count
    /\ \A p \in P : p.at < e.until
    /\ \A t \in Int : t > s - WINDOW => Cardinality(Between(P, t, s)) <= max - 1
    /\ \A t \in Int : Cardinality(Between(P, t, t + WINDOW)) <= 2 * max - 1

\* What the entry of the spray guard says: its window begins anew with each pass, so
\* the count covers every pass in the WINDOW seconds before the last one.
Sliding(P, e, max) ==
    LET s == e.until - WINDOW IN
    /\ e.count <= max
    /\ \A p \in P : p.at <= s
    /\ \A t \in Int : t > s - WINDOW => Cardinality(Since(P, t)) <= e.count
    /\ \A t \in Int : Cardinality(Between(P, t, t + WINDOW)) <= max

PassesOf(ps, limit) == {p \in ps : p.limit = limit}
PassesTo(ps, k) == {p \in ps : p.limit = "subject" /\ p.key = k}

\* The request that holds the next count of a limit speaks for the limit's entry.
RateInv ==
    setting.rate > 0 /\ "rate" \notin raced =>
        LET P == PassesOf(passes, "rate") IN
        /\ \A m, n \in Notes : notes[m].pc = "ratePut" /\ notes[n].pc = "ratePut" => m = n
        /\ (\A n \in Notes : notes[n].pc # "ratePut") => Fixed(P, counters.rate, setting.rate)
        /\ \A n \in Notes : notes[n].pc = "ratePut" => Fixed(P, notes[n].held, setting.rate)

SubjectInv ==
    setting.subject > 0 /\ "subject" \notin raced =>
        /\ \A m, n \in Notes :
              notes[m].pc = "subjectPut" /\ notes[n].pc = "subjectPut" => m = n
        /\ \A k \in Keys :
              (\A n \in Notes : notes[n].pc = "subjectPut" => notes[n].key # k) =>
                  Fixed(PassesTo(passes, k), counters.subject[k], setting.subject)
        /\ \A n \in Notes : notes[n].pc = "subjectPut" =>
              Fixed(PassesTo(passes, notes[n].key), notes[n].held, setting.subject)

SprayHeld == {"sprayCount", "sprayKnown", "sprayPut"}

SprayInv ==
    setting.spray > 0 /\ "spray" \notin raced =>
        LET P == PassesOf(passes, "spray") IN
        /\ \A m, n \in Notes : notes[m].pc \in SprayHeld /\ notes[n].pc \in SprayHeld => m = n
        /\ counters.spray.until <= clock + WINDOW
        /\ \A n \in Notes : notes[n].pc \in SprayHeld => notes[n].held.until <= clock + WINDOW
        /\ (\A n \in Notes : notes[n].pc \notin {"sprayKnown", "sprayPut"}) =>
              Sliding(P, counters.spray, setting.spray)
        /\ \A n \in Notes : notes[n].pc = "sprayCount" =>
              counters.spray.until <= notes[n].held.until
        /\ \A n \in Notes : notes[n].pc \in {"sprayKnown", "sprayPut"} =>
              Sliding(P, notes[n].held, setting.spray)

PassesInv ==
    /\ IsFiniteSet(passes)
    /\ \A p \in passes : p.limit # "spray" => p.at <= clock

LimitInv == PassesInv /\ (WINDOW > 0 => RateInv /\ SubjectInv /\ SprayInv)

\* Counting: a part has at most as many members, one more element adds at most one,
\* and what lacks a member has one less.
LEMMA PartCount ==
    ASSUME NEW S, IsFiniteSet(S), NEW T, T \subseteq S
    PROVE  /\ IsFiniteSet(T) /\ Cardinality(T) \in Nat /\ Cardinality(S) \in Nat
           /\ Cardinality(T) <= Cardinality(S)
  BY FS_Subset, FS_CardinalityType

LEMMA OneMore ==
    ASSUME NEW S, IsFiniteSet(S), NEW p, NEW T, T \subseteq S \cup {p}
    PROVE  /\ IsFiniteSet(T) /\ Cardinality(T) \in Nat /\ Cardinality(S) \in Nat
           /\ Cardinality(T) <= Cardinality(S) + 1
  <1>1. /\ IsFiniteSet(S \cup {p}) /\ Cardinality(S) \in Nat
        /\ Cardinality(S \cup {p}) <= Cardinality(S) + 1
    BY FS_AddElement, FS_CardinalityType
  <1>2. Cardinality(S \cup {p}) \in Nat
    BY <1>1, FS_CardinalityType
  <1> QED
    BY <1>1, <1>2, PartCount

LEMMA OneLess ==
    ASSUME NEW S, IsFiniteSet(S), NEW p \in S, NEW T, T \subseteq S, p \notin T
    PROVE  Cardinality(T) <= Cardinality(S) - 1
  <1>1. Cardinality(S \ {p}) = Cardinality(S) - 1 /\ IsFiniteSet(S \ {p})
    BY FS_RemoveElement
  <1>2. T \subseteq S \ {p}
    OBVIOUS
  <1> QED
    BY <1>1, <1>2, PartCount

LEMMA TwoParts ==
    ASSUME NEW S, IsFiniteSet(S), NEW R, IsFiniteSet(R), NEW T, T \subseteq S \cup R
    PROVE  Cardinality(T) <= Cardinality(S) + Cardinality(R)
  <1>1. IsFiniteSet(S \cup R) /\ IsFiniteSet(S \cap R)
    BY FS_Union, FS_Subset
  <1>2. Cardinality(S \cup R) = Cardinality(S) + Cardinality(R) - Cardinality(S \cap R)
    BY FS_Union
  <1>3. /\ Cardinality(S) \in Nat /\ Cardinality(R) \in Nat
        /\ Cardinality(S \cap R) \in Nat /\ Cardinality(S \cup R) \in Nat
    BY <1>1, FS_CardinalityType
  <1> QED
    BY <1>1, <1>2, <1>3, PartCount

\* One more pass of a limit that counts in fixed windows, at a second t not before
\* the passes so far.
LEMMA FixedPass ==
    ASSUME WINDOW > 0, NEW P, IsFiniteSet(P), \A q \in P : q.at \in Int,
           NEW e \in Counter, NEW max \in Nat, max > 0, NEW t \in Nat, t > 0,
           Fixed(P, e, max), \A q \in P : q.at <= t, ~Full(e, t, max),
           NEW p, p.at = t
    PROVE  Fixed(P \cup {p}, Counted(e, t), max)
  <1> DEFINE s == e.until - WINDOW
             Q == P \cup {p}
             f == Counted(e, t)
  <1>0. /\ WINDOW \in Nat /\ WINDOW > 0 /\ e.count \in Nat /\ e.until \in Nat /\ s \in Int
        /\ \A q \in Q : q.at \in Int
    BY NotifyAssumption DEF Counter
  <1>1. /\ e.count <= max
        /\ e.count = 0 => e.until = 0 /\ P = {}
        /\ e.count > 0 => \E q \in P : q.at = s
        /\ Cardinality(Since(P, s)) <= e.count
        /\ \A q \in P : q.at < e.until
        /\ \A u \in Int : u > s - WINDOW => Cardinality(Between(P, u, s)) <= max - 1
        /\ \A u \in Int : Cardinality(Between(P, u, u + WINDOW)) <= 2 * max - 1
    BY DEF Fixed
  <1>2. \A u \in Int : /\ Since(P, u) \subseteq P /\ IsFiniteSet(Since(P, u))
                       /\ \A v \in Int : Between(P, u, v) \subseteq P
                                         /\ IsFiniteSet(Between(P, u, v))
    <2>1. \A u, v \in Int : Since(P, u) \subseteq P /\ Between(P, u, v) \subseteq P
      BY DEF Since, Between
    <2> QED
      BY <2>1, PartCount
  <1>3. CASE Within(e, t)
    <2>1. f.count = e.count + 1 /\ f.until = e.until /\ e.count < max /\ t < e.until
      BY <1>0, <1>3, CountedType DEF Full, Within
    <2>2. e.count > 0 /\ s <= t
      BY <1>0, <1>1, <2>1
    <2>3. Cardinality(Since(Q, s)) <= e.count + 1
      <3>1. Since(Q, s) \subseteq Since(P, s) \cup {p}
        BY DEF Since
      <3>2. /\ Cardinality(Since(Q, s)) \in Nat /\ Cardinality(Since(P, s)) \in Nat
            /\ Cardinality(Since(Q, s)) <= Cardinality(Since(P, s)) + 1
        BY <1>0, <1>2, <3>1, OneMore
      <3> QED
        BY <1>0, <1>1, <3>2
    <2>4. \A u \in Int : Between(Q, u, s) = Between(P, u, s)
      BY <1>0, <2>2 DEF Between
    <2>5. ASSUME NEW u \in Int
          PROVE  Cardinality(Between(Q, u, u + WINDOW)) <= 2 * max - 1
      <3>1. CASE u <= t /\ t < u + WINDOW
        <4>1. Between(Q, u, u + WINDOW) \subseteq Between(P, u, s) \cup Since(Q, s)
          BY <1>0, <2>2 DEF Between, Since
        <4>2. IsFiniteSet(Between(P, u, s)) /\ IsFiniteSet(Since(Q, s))
          <5>1. IsFiniteSet(Q) /\ Since(Q, s) \subseteq Q
            BY OneMore DEF Since
          <5> QED
            BY <1>0, <1>2, <5>1, PartCount
        <4>3. /\ Cardinality(Between(P, u, s)) \in Nat /\ Cardinality(Since(Q, s)) \in Nat
              /\ IsFiniteSet(Between(Q, u, u + WINDOW))
              /\ Cardinality(Between(Q, u, u + WINDOW)) \in Nat
          <5>1. Between(Q, u, u + WINDOW) \subseteq Q /\ IsFiniteSet(Q)
            BY OneMore DEF Between
          <5> QED
            BY <4>2, <5>1, PartCount, FS_CardinalityType
        <4>4. Cardinality(Between(P, u, s)) <= max - 1
          BY <1>0, <1>1, <2>1, <3>1
        <4>5. Cardinality(Between(Q, u, u + WINDOW))
                 <= Cardinality(Between(P, u, s)) + Cardinality(Since(Q, s))
          BY <4>1, <4>2, TwoParts
        <4> QED
          BY <1>0, <2>1, <2>3, <4>3, <4>4, <4>5
      <3>2. CASE ~(u <= t /\ t < u + WINDOW)
        <4>1. Between(Q, u, u + WINDOW) = Between(P, u, u + WINDOW)
          BY <3>2 DEF Between
        <4> QED
          BY <1>1, <4>1
      <3> QED
        BY <3>1, <3>2
    <2>6. \A q \in Q : q.at < e.until
      BY <1>1, <2>1
    <2>7. \E q \in Q : q.at = s
      BY <1>1, <2>2
    <2>8. Q # {}
      OBVIOUS
    <2>9. Fixed(Q, f, max)
      <3> HIDE DEF Q, f
      <3> QED
        BY <1>0, <1>1, <2>1, <2>3, <2>4, <2>5, <2>6, <2>7, <2>8 DEF Fixed
    <2> QED
      BY <2>9
  <1>4. CASE ~Within(e, t)
    <2>1. f.count = 1 /\ f.until = t + WINDOW /\ e.until <= t
      BY <1>0, <1>4, CountedType DEF Within
    <2>2. ASSUME NEW u \in Int, u > t - WINDOW
          PROVE  /\ Cardinality(Since(P, u)) \in Nat /\ IsFiniteSet(Since(P, u))
                 /\ Cardinality(Since(P, u)) <= max - 1
      <3>1. u > s
        BY <1>0, <2>1, <2>2
      <3>2. Since(P, u) \subseteq Since(P, s) /\ IsFiniteSet(Since(P, s))
        BY <1>0, <1>2, <3>1 DEF Since
      <3>3. /\ Cardinality(Since(P, u)) \in Nat /\ Cardinality(Since(P, s)) \in Nat
            /\ IsFiniteSet(Since(P, u))
        BY <3>2, PartCount
      <3>4. CASE e.count = 0
        <4>1. Since(P, u) = {}
          BY <1>1, <3>4 DEF Since
        <4> QED
          BY <3>3, <4>1, FS_EmptySet
      <3>5. CASE e.count > 0
        <4>1. PICK q \in P : q.at = s
          BY <1>1, <3>5
        <4>2. q \in Since(P, s) /\ q \notin Since(P, u)
          BY <1>0, <3>1, <4>1 DEF Since
        <4>3. Cardinality(Since(P, u)) <= Cardinality(Since(P, s)) - 1
          BY <3>2, <4>2, OneLess
        <4> QED
          BY <1>0, <1>1, <3>3, <4>3
      <3> QED
        BY <1>0, <3>4, <3>5
    <2>3. \A q \in P : q.at < t
      BY <1>0, <1>1, <2>1
    <2>4. Cardinality(Since(Q, t)) <= 1
      <3>1. Since(Q, t) \subseteq {} \cup {p}
        BY <1>0, <2>3 DEF Since
      <3>2. Cardinality(Since(Q, t)) <= Cardinality({}) + 1
        BY <3>1, OneMore, FS_EmptySet
      <3> QED
        BY <3>2, FS_EmptySet
    <2>5. ASSUME NEW u \in Int, u > t - WINDOW
          PROVE  Cardinality(Between(Q, u, t)) <= max - 1
      <3>1. Between(Q, u, t) \subseteq Since(P, u)
        BY <1>0 DEF Between, Since
      <3>2. IsFiniteSet(Since(P, u)) /\ Cardinality(Since(P, u)) <= max - 1
        BY <2>2, <2>5
      <3>3. /\ Cardinality(Between(Q, u, t)) <= Cardinality(Since(P, u))
            /\ Cardinality(Between(Q, u, t)) \in Nat /\ Cardinality(Since(P, u)) \in Nat
        BY <3>1, <3>2, PartCount
      <3> QED
        BY <3>2, <3>3
    <2>6. ASSUME NEW u \in Int
          PROVE  Cardinality(Between(Q, u, u + WINDOW)) <= 2 * max - 1
      <3>1. CASE u <= t /\ t < u + WINDOW
        <4>1. Between(Q, u, u + WINDOW) \subseteq Since(P, u) \cup {p}
          BY DEF Between, Since
        <4>2. u > t - WINDOW
          BY <1>0, <3>1
        <4>3. /\ Cardinality(Between(Q, u, u + WINDOW)) <= Cardinality(Since(P, u)) + 1
              /\ Cardinality(Between(Q, u, u + WINDOW)) \in Nat
          BY <2>2, <4>1, <4>2, OneMore
        <4> QED
          BY <2>2, <4>2, <4>3
      <3>2. CASE ~(u <= t /\ t < u + WINDOW)
        <4>1. Between(Q, u, u + WINDOW) = Between(P, u, u + WINDOW)
          BY <3>2 DEF Between
        <4> QED
          BY <1>1, <4>1
      <3> QED
        BY <3>1, <3>2
    <2>7. (t + WINDOW) - WINDOW = t /\ \A q \in Q : q.at < t + WINDOW
      BY <1>0, <2>3
    <2>8. p \in Q
      OBVIOUS
    <2>9. Fixed(Q, f, max)
      <3> HIDE DEF Q, f
      <3> QED
        BY <1>0, <2>1, <2>4, <2>5, <2>6, <2>7, <2>8 DEF Fixed
    <2> QED
      BY <2>9
  <1> QED
    BY <1>3, <1>4

\* One more pass of the spray guard, at a second t not before the passes so far.
LEMMA SlidingPass ==
    ASSUME WINDOW > 0, NEW P, IsFiniteSet(P), \A q \in P : q.at \in Int,
           NEW e \in Counter, NEW max \in Nat, max > 0, NEW t \in Int,
           Sliding(P, e, max), e.until <= t + WINDOW, ~Full(e, t, max),
           NEW p, p.at = t, NEW f \in Counter,
           f.count = Counted(e, t).count, f.until = t + WINDOW
    PROVE  Sliding(P \cup {p}, f, max)
  <1> DEFINE s == e.until - WINDOW
             Q == P \cup {p}
  <1>0. /\ WINDOW \in Nat /\ WINDOW > 0 /\ e.count \in Nat /\ e.until \in Nat /\ s \in Int
        /\ \A q \in Q : q.at \in Int
        /\ s <= t /\ f.until - WINDOW = t /\ f.count \in Nat
    BY NotifyAssumption DEF Counter
  <1>1. /\ e.count <= max
        /\ \A q \in P : q.at <= s
        /\ \A u \in Int : u > s - WINDOW => Cardinality(Since(P, u)) <= e.count
        /\ \A u \in Int : Cardinality(Between(P, u, u + WINDOW)) <= max
    BY DEF Sliding
  <1>2. \A u \in Int : /\ Since(Q, u) \subseteq Since(P, u) \cup {p}
                       /\ IsFiniteSet(Since(P, u)) /\ Cardinality(Since(P, u)) \in Nat
    <2>1. \A u \in Int : Since(P, u) \subseteq P /\ Since(Q, u) \subseteq Since(P, u) \cup {p}
      BY DEF Since
    <2> QED
      BY <2>1, PartCount
  <1>3. /\ Within(e, t) => f.count = e.count + 1 /\ e.count < max
        /\ ~Within(e, t) => f.count = 1
        /\ Within(e, t) <=> t < e.until
    <2>1. Within(e, t) => [e EXCEPT !.count = @ + 1].count = e.count + 1
      BY DEF Counter
    <2> QED
      BY <1>0, <2>1 DEF Counted, Full, Within, Entry
  <1>4. ASSUME NEW u \in Int, u > t - WINDOW
        PROVE  Cardinality(Since(Q, u)) <= f.count /\ Cardinality(Since(Q, u)) \in Nat
               /\ IsFiniteSet(Since(Q, u))
    <2>1. /\ Cardinality(Since(Q, u)) <= Cardinality(Since(P, u)) + 1
          /\ Cardinality(Since(Q, u)) \in Nat /\ Cardinality(Since(P, u)) \in Nat
          /\ IsFiniteSet(Since(Q, u))
      BY <1>2, OneMore
    <2>2. CASE Within(e, t)
      BY <1>0, <1>1, <1>3, <1>4, <2>1, <2>2
    <2>3. CASE ~Within(e, t)
      <3>1. u > s
        BY <1>0, <1>3, <1>4, <2>3
      <3>2. Since(P, u) = {}
        BY <1>0, <1>1, <3>1 DEF Since
      <3> QED
        BY <1>3, <2>1, <2>3, <3>2, FS_EmptySet
    <2> QED
      BY <2>2, <2>3
  <1>5. f.count <= max
    BY <1>0, <1>3
  <1>6. ASSUME NEW u \in Int
        PROVE  Cardinality(Between(Q, u, u + WINDOW)) <= max
    <2>1. CASE u <= t /\ t < u + WINDOW
      <3>1. u > t - WINDOW /\ Between(Q, u, u + WINDOW) \subseteq Since(Q, u)
        BY <1>0, <2>1 DEF Between, Since
      <3>2. IsFiniteSet(Since(Q, u)) /\ Cardinality(Since(Q, u)) <= f.count
        BY <1>4, <3>1
      <3>3. /\ Cardinality(Between(Q, u, u + WINDOW)) <= Cardinality(Since(Q, u))
            /\ Cardinality(Between(Q, u, u + WINDOW)) \in Nat /\ Cardinality(Since(Q, u)) \in Nat
        BY <3>1, <3>2, PartCount
      <3> QED
        BY <1>0, <1>5, <3>2, <3>3
    <2>2. CASE ~(u <= t /\ t < u + WINDOW)
      <3>1. Between(Q, u, u + WINDOW) = Between(P, u, u + WINDOW)
        BY <2>2 DEF Between
      <3> QED
        BY <1>1, <3>1
    <2> QED
      BY <2>1, <2>2
  <1>7. \A q \in Q : q.at <= t
    BY <1>0, <1>1
  <1> HIDE DEF Q
  <1> QED
    BY <1>0, <1>4, <1>5, <1>6, <1>7 DEF Sliding, Q


LEMMA PassesAdd ==
    ASSUME NEW ps, NEW p, NEW limit, NEW k
    PROVE  /\ PassesOf(ps, limit) \subseteq ps /\ PassesTo(ps, k) \subseteq ps
           /\ p.limit = limit => PassesOf(ps \cup {p}, limit) = PassesOf(ps, limit) \cup {p}
           /\ p.limit # limit => PassesOf(ps \cup {p}, limit) = PassesOf(ps, limit)
           /\ p.limit = "subject" /\ p.key = k =>
                 PassesTo(ps \cup {p}, k) = PassesTo(ps, k) \cup {p}
           /\ p.limit # "subject" \/ p.key # k => PassesTo(ps \cup {p}, k) = PassesTo(ps, k)
  BY DEF PassesOf, PassesTo

Others(n) == \A m \in Notes \ {n} : notes'[m] = notes[m]

\* Steps of n that have nothing to do with a limit.
RateApart(n) ==
    /\ Others(n) /\ setting' = setting /\ raced \subseteq raced'
    /\ notes[n].pc # "ratePut" /\ notes'[n].pc # "ratePut"
    /\ counters'.rate = counters.rate
    /\ PassesOf(passes', "rate") = PassesOf(passes, "rate")

SubjectApart(n) ==
    /\ Others(n) /\ setting' = setting /\ raced \subseteq raced'
    /\ notes[n].pc # "subjectPut" /\ notes'[n].pc # "subjectPut"
    /\ counters'.subject = counters.subject
    /\ \A k \in Keys : PassesTo(passes', k) = PassesTo(passes, k)

SprayApart(n) ==
    /\ Others(n) /\ setting' = setting /\ raced \subseteq raced' /\ clock' = clock
    /\ notes[n].pc \notin SprayHeld /\ notes'[n].pc \notin SprayHeld
    /\ counters'.spray = counters.spray
    /\ PassesOf(passes', "spray") = PassesOf(passes, "spray")

LEMMA RateSame ==
    ASSUME RateInv, NEW n \in Notes, RateApart(n)
    PROVE  RateInv'
  <1>1. \A m \in Notes : /\ notes'[m].pc = "ratePut" <=> notes[m].pc = "ratePut"
                         /\ notes[m].pc = "ratePut" => notes'[m] = notes[m]
    BY DEF RateApart, Others
  <1> QED
    BY <1>1 DEF RateInv, RateApart

LEMMA SubjectSame ==
    ASSUME NoteShapes, SubjectInv, NEW n \in Notes, SubjectApart(n)
    PROVE  SubjectInv'
  <1>1. \A m \in Notes : /\ notes'[m].pc = "subjectPut" <=> notes[m].pc = "subjectPut"
                         /\ notes[m].pc = "subjectPut" => notes'[m] = notes[m]
    BY DEF SubjectApart, Others
  <1>2. \A m \in Notes : notes[m].pc = "subjectPut" => notes[m].key \in Keys
    BY KeyType
  <1> QED
    BY <1>1, <1>2 DEF SubjectInv, SubjectApart

LEMMA SpraySame ==
    ASSUME SprayInv, NEW n \in Notes, SprayApart(n)
    PROVE  SprayInv'
  <1>1. \A m \in Notes : /\ notes'[m].pc \in SprayHeld <=> notes[m].pc \in SprayHeld
                         /\ notes[m].pc \in SprayHeld => notes'[m] = notes[m]
    BY DEF SprayApart, Others
  <1>2. \A m \in Notes : /\ notes'[m].pc \in {"sprayKnown", "sprayPut"} <=>
                                notes[m].pc \in {"sprayKnown", "sprayPut"}
                         /\ notes'[m].pc = "sprayCount" <=> notes[m].pc = "sprayCount"
    BY <1>1 DEF SprayHeld, SprayApart
  <1>3. \A m \in Notes : notes[m].pc \in {"sprayCount", "sprayKnown", "sprayPut"} =>
                                notes'[m] = notes[m]
    BY <1>1 DEF SprayHeld
  <1> QED
    BY <1>1, <1>2, <1>3 DEF SprayInv, SprayApart

LEMMA HoldingIs ==
    /\ Holding["rate"] = {"ratePut"} /\ Holding["subject"] = {"subjectPut"}
    /\ Holding["spray"] = SprayHeld
  BY DEF Holding, SprayHeld

LEMMA RacesOnly ==
    ASSUME NEW limit, raced' = Races(limit)
    PROVE  /\ raced \subseteq raced'
           /\ limit \notin raced' =>
                 limit \notin raced /\ \A m \in Notes : notes[m].pc \notin Holding[limit]
  BY DEF Races

\* What a limiter's read does.
LEMMA LimitGetFacts ==
    ASSUME NoteShapes, NEW n \in Notes, NEW limit, NEW put \in NoteStages,
           NEW entry \in Counter, NEW max, LimitGet(n, limit, put, entry, max)
    PROVE  LET p == [note |-> n, limit |-> limit, key |-> notes[n].key, at |-> clock] IN
           /\ Others(n) /\ notes[n].pc = limit /\ raced' = Races(limit)
           /\ UNCHANGED <<clock, setting, counters>>
           /\ Full(entry, clock, max) => notes'[n].pc = "refused" /\ passes' = passes
           /\ ~Full(entry, clock, max) =>
                 /\ notes'[n].pc = put /\ notes'[n].held = Counted(entry, clock)
                 /\ notes'[n].key = notes[n].key
                 /\ passes' = passes \cup {p}
  <1>1. /\ notes[n].pc = limit /\ raced' = Races(limit) /\ clock \in Nat
        /\ UNCHANGED <<clock, setting, counters>>
    BY DEF LimitGet, NoteAt, kvVars, NoteShapes
  <1>2. CASE Full(entry, clock, max)
    <2>1. NoteGoto(n, "refused") /\ passes' = passes /\ "refused" \in NoteStages
      BY <1>2 DEF LimitGet, NoteStages
    <2>2. Step1(n) /\ notes'[n] = [notes[n] EXCEPT !.pc = "refused"] /\ notes[n] \in Note
      BY <2>1, NoteGotoType DEF NoteShapes
    <2> QED
      BY <1>1, <1>2, <2>1, <2>2 DEF Step1, Others, Note
  <1>3. CASE ~Full(entry, clock, max)
    <2> DEFINE next == Counted(entry, clock)
    <2>1. /\ notes' = [notes EXCEPT ![n].pc = put, ![n].held = next]
          /\ passes' = passes \cup
               {[note |-> n, limit |-> limit, key |-> notes[n].key, at |-> clock]}
      BY <1>3 DEF LimitGet, KeyOf
    <2>2. next \in Counter
      BY <1>1, CountedType
    <2> HIDE DEF next
    <2>3. /\ Step1(n) /\ notes'[n].pc = put /\ notes'[n].held = next
          /\ notes'[n].key = notes[n].key
      BY <2>1, <2>2, NoteHoldType
    <2> QED
      BY <1>1, <1>3, <2>1, <2>3 DEF Step1, Others, next
  <1> QED
    BY <1>2, <1>3

\* One more pass, or none, in a set of passes that was finite and not of the future.
LEMMA PassesGrow ==
    ASSUME PassesInv, clock' = clock, NEW p, p.limit # "spray" => p.at <= clock,
           passes' \subseteq passes \cup {p}
    PROVE  PassesInv'
  <1>1. IsFiniteSet(passes')
    BY OneMore DEF PassesInv
  <1> QED
    BY <1>1 DEF PassesInv

LEMMA RateGetLimits ==
    ASSUME NoteShapes, LimitInv, NEW n \in Notes, RateGet(n)
    PROVE  LimitInv'
  <1> DEFINE p == [note |-> n, limit |-> "rate", key |-> notes[n].key, at |-> clock]
             e == counters.rate
             max == setting.rate
             P == PassesOf(passes, "rate")
  <1>0. /\ "ratePut" \in NoteStages /\ e \in Counter /\ max \in Nat /\ clock \in Nat
        /\ clock > 0
    BY CountersType, SettingType DEF NoteStages, Unchecked, NoteShapes
  <1>1. /\ Others(n) /\ notes[n].pc = "rate" /\ raced' = Races("rate")
        /\ UNCHANGED <<clock, setting, counters>>
        /\ Full(e, clock, max) => notes'[n].pc = "refused" /\ passes' = passes
        /\ ~Full(e, clock, max) =>
              /\ notes'[n].pc = "ratePut" /\ notes'[n].held = Counted(e, clock)
              /\ passes' = passes \cup {p}
    BY <1>0, LimitGetFacts DEF RateGet
  <1>p. p.limit = "rate" /\ p.at = clock
    OBVIOUS
  <1> HIDE DEF p
  <1>2. /\ raced \subseteq raced'
        /\ "rate" \notin raced' =>
              "rate" \notin raced /\ \A m \in Notes : notes[m].pc # "ratePut"
    BY <1>1, RacesOnly, HoldingIs
  <1>3. /\ notes'[n].pc \in {"refused", "ratePut"}
        /\ passes' = passes \/ passes' = passes \cup {p}
    BY <1>1
  <1>4. PassesInv'
    <2>1. passes' \subseteq passes \cup {p} /\ PassesInv /\ p.at <= clock
      BY <1>0, <1>3, <1>p DEF LimitInv
    <2> QED
      BY <1>1, <2>1, PassesGrow
  <1>5. /\ PassesOf(passes', "spray") = PassesOf(passes, "spray")
        /\ \A k \in Keys : PassesTo(passes', k) = PassesTo(passes, k)
    BY <1>3, <1>p DEF PassesOf, PassesTo
  <1>6. WINDOW > 0 => SubjectInv' /\ SprayInv'
    <2>1. SubjectApart(n) /\ SprayApart(n)
      BY <1>1, <1>2, <1>3, <1>5 DEF SubjectApart, SprayApart, SprayHeld
    <2> QED
      BY <2>1, SubjectSame, SpraySame DEF LimitInv
  <1>7. ASSUME WINDOW > 0 PROVE RateInv'
    <2>1. CASE Full(e, clock, max)
      <3>1. RateApart(n)
        BY <1>1, <1>2, <2>1 DEF RateApart
      <3> QED
        BY <1>7, <3>1, RateSame DEF LimitInv
    <2>2. ASSUME ~Full(e, clock, max), max > 0, "rate" \notin raced'
          PROVE  Fixed(PassesOf(passes', "rate"), notes'[n].held, max)
      <3>1. Fixed(P, e, max)
        BY <1>2, <1>7, <2>2 DEF LimitInv, RateInv
      <3>2. P \subseteq passes /\ IsFiniteSet(P)
        BY PassesAdd, PartCount DEF LimitInv, PassesInv
      <3>3. \A q \in P : q.at \in Int /\ q.at <= clock
        BY DEF PassesOf, LimitInv, PassesInv, NoteShapes, Pass
      <3>4. PassesOf(passes', "rate") = P \cup {p}
        BY <1>1, <1>p, <2>2 DEF PassesOf
      <3>5. Fixed(P \cup {p}, Counted(e, clock), max)
        <4> HIDE DEF P, e, max
        <4> QED
          BY <1>0, <1>7, <1>p, <2>2, <3>1, <3>2, <3>3, FixedPass
      <3> QED
        BY <1>1, <2>2, <3>4, <3>5
    <2>3. ASSUME ~Full(e, clock, max), "rate" \notin raced'
          PROVE  \A m \in Notes : notes'[m].pc = "ratePut" => m = n
      BY <1>1, <1>2, <2>3 DEF Others
    <2>4. ~Full(e, clock, max) => notes'[n].pc = "ratePut"
      BY <1>1
    <2> QED
      BY <1>1, <2>1, <2>2, <2>3, <2>4 DEF RateInv
  <1> QED
    BY <1>4, <1>6, <1>7 DEF LimitInv


LEMMA SubjectGetLimits ==
    ASSUME NoteShapes, LimitInv, NEW n \in Notes, SubjectGet(n)
    PROVE  LimitInv'
  <1> DEFINE k == notes[n].key
             p == [note |-> n, limit |-> "subject", key |-> k, at |-> clock]
             e == counters.subject[k]
             max == setting.subject
             P == PassesTo(passes, k)
  <1>0. /\ "subjectPut" \in NoteStages /\ max \in Nat /\ clock \in Nat /\ clock > 0
        /\ k \in Keys /\ e \in Counter
    <2>1. k \in Keys
      BY KeyType DEF SubjectGet, LimitGet, NoteAt
    <2> QED
      BY <2>1, CountersType, SettingType DEF NoteStages, NoteShapes
  <1>1. /\ Others(n) /\ notes[n].pc = "subject" /\ raced' = Races("subject")
        /\ UNCHANGED <<clock, setting, counters>>
        /\ Full(e, clock, max) => notes'[n].pc = "refused" /\ passes' = passes
        /\ ~Full(e, clock, max) =>
              /\ notes'[n].pc = "subjectPut" /\ notes'[n].held = Counted(e, clock)
              /\ notes'[n].key = k
              /\ passes' = passes \cup {p}
    BY <1>0, LimitGetFacts DEF SubjectGet, KeyOf
  <1>p. p.limit = "subject" /\ p.at = clock /\ p.key = k
    OBVIOUS
  <1> HIDE DEF p
  <1>2. /\ raced \subseteq raced'
        /\ "subject" \notin raced' =>
              "subject" \notin raced /\ \A m \in Notes : notes[m].pc # "subjectPut"
    BY <1>1, RacesOnly, HoldingIs
  <1>3. /\ notes'[n].pc \in {"refused", "subjectPut"}
        /\ passes' = passes \/ passes' = passes \cup {p}
    BY <1>1
  <1>4. PassesInv'
    <2>1. passes' \subseteq passes \cup {p} /\ PassesInv /\ p.at <= clock
      BY <1>0, <1>3, <1>p DEF LimitInv
    <2> QED
      BY <1>1, <2>1, PassesGrow
  <1>5. /\ PassesOf(passes', "spray") = PassesOf(passes, "spray")
        /\ PassesOf(passes', "rate") = PassesOf(passes, "rate")
    BY <1>3, <1>p DEF PassesOf
  <1>6. WINDOW > 0 => RateInv' /\ SprayInv'
    <2>1. RateApart(n) /\ SprayApart(n)
      BY <1>1, <1>2, <1>3, <1>5 DEF RateApart, SprayApart, SprayHeld
    <2> QED
      BY <2>1, RateSame, SpraySame DEF LimitInv
  <1>7. ASSUME WINDOW > 0 PROVE SubjectInv'
    <2>1. CASE Full(e, clock, max)
      <3>1. SubjectApart(n)
        BY <1>1, <1>2, <2>1 DEF SubjectApart
      <3> QED
        BY <1>7, <3>1, SubjectSame DEF LimitInv
    <2>2. ASSUME ~Full(e, clock, max), max > 0, "subject" \notin raced'
          PROVE  Fixed(PassesTo(passes', k), notes'[n].held, max)
      <3>1. Fixed(P, e, max)
        BY <1>0, <1>2, <1>7, <2>2 DEF LimitInv, SubjectInv
      <3>2. P \subseteq passes /\ IsFiniteSet(P)
        BY PassesAdd, PartCount DEF LimitInv, PassesInv
      <3>3. \A q \in P : q.at \in Int /\ q.at <= clock
        BY DEF PassesTo, LimitInv, PassesInv, NoteShapes, Pass
      <3>4. PassesTo(passes', k) = P \cup {p}
        BY <1>1, <1>p, <2>2 DEF PassesTo
      <3>5. Fixed(P \cup {p}, Counted(e, clock), max)
        <4> HIDE DEF P, e, max
        <4> QED
          BY <1>0, <1>7, <1>p, <2>2, <3>1, <3>2, <3>3, FixedPass
      <3> QED
        BY <1>1, <2>2, <3>4, <3>5
    <2>3. ASSUME ~Full(e, clock, max), "subject" \notin raced'
          PROVE  \A m \in Notes : notes'[m].pc = "subjectPut" => m = n
      BY <1>1, <1>2, <2>3 DEF Others
    <2>4. ~Full(e, clock, max) => notes'[n].pc = "subjectPut" /\ notes'[n].key = k
      BY <1>1
    <2>5. ASSUME ~Full(e, clock, max), max > 0, "subject" \notin raced', NEW j \in Keys, j # k
          PROVE  Fixed(PassesTo(passes', j), counters'.subject[j], max)
      <3>1. PassesTo(passes', j) = PassesTo(passes, j)
        BY <1>1, <1>p, <2>5 DEF PassesTo
      <3>2. Fixed(PassesTo(passes, j), counters.subject[j], max)
        BY <1>2, <1>7, <2>5 DEF LimitInv, SubjectInv
      <3> QED
        BY <1>1, <3>1, <3>2
    <2>6. CASE ~Full(e, clock, max)
      <3> SUFFICES ASSUME max > 0, "subject" \notin raced'
                   PROVE  /\ \A m, l \in Notes :
                                notes'[m].pc = "subjectPut" /\ notes'[l].pc = "subjectPut"
                                   => m = l
                          /\ \A j \in Keys :
                                (\A m \in Notes :
                                    notes'[m].pc = "subjectPut" => notes'[m].key # j) =>
                                Fixed(PassesTo(passes', j), counters'.subject[j], max)
                          /\ \A m \in Notes : notes'[m].pc = "subjectPut" =>
                                Fixed(PassesTo(passes', notes'[m].key), notes'[m].held, max)
        BY <1>1 DEF SubjectInv
      <3>1. \A m \in Notes : notes'[m].pc = "subjectPut" => m = n
        BY <2>3, <2>6
      <3>2. Fixed(PassesTo(passes', k), notes'[n].held, max)
        BY <2>2, <2>6
      <3>3. \A j \in Keys : j # k => Fixed(PassesTo(passes', j), counters'.subject[j], max)
        BY <2>5, <2>6
      <3> QED
        BY <2>4, <2>6, <3>1, <3>2, <3>3
    <2> QED
      BY <2>1, <2>6
  <1> QED
    BY <1>4, <1>6, <1>7 DEF LimitInv

\* A step that only moves the request on.
LEMMA GotoFacts ==
    ASSUME NoteShapes, NEW n \in Notes, NEW pc \in NoteStages, NoteGoto(n, pc)
    PROVE  Others(n) /\ notes'[n].pc = pc /\ notes'[n].held = notes[n].held
           /\ notes'[n].key = notes[n].key
  <1>1. Step1(n) /\ notes'[n] = [notes[n] EXCEPT !.pc = pc] /\ notes[n] \in Note
    BY NoteGotoType DEF NoteShapes
  <1> QED
    BY <1>1 DEF Step1, Others, Note

LEMMA RatePutLimits ==
    ASSUME NoteShapes, LimitInv, NEW n \in Notes, RatePut(n)
    PROVE  LimitInv'
  <1>1. /\ Others(n) /\ notes[n].pc = "ratePut" /\ notes'[n].pc = "checked"
        /\ UNCHANGED <<clock, setting, passes, raced>>
    <2>1. "checked" \in NoteStages
      BY DEF NoteStages, Unchecked
    <2> QED
      BY <2>1, GotoFacts DEF RatePut, NoteAt, notifyHistory
  <1>2. /\ counters'.rate = notes[n].held /\ counters'.spray = counters.spray
        /\ counters'.subject = counters.subject
    BY DEF RatePut, NoteShapes
  <1>3. SubjectApart(n) /\ SprayApart(n)
    BY <1>1, <1>2 DEF SubjectApart, SprayApart, SprayHeld
  <1>4. ASSUME RateInv PROVE RateInv'
    <2>1. setting.rate > 0 /\ "rate" \notin raced =>
             /\ \A m \in Notes : notes'[m].pc # "ratePut"
             /\ Fixed(PassesOf(passes, "rate"), notes[n].held, setting.rate)
      BY <1>1, <1>4 DEF RateInv, Others
    <2> QED
      BY <1>1, <1>2, <2>1 DEF RateInv
  <1> QED
    BY <1>1, <1>3, <1>4, SubjectSame, SpraySame DEF LimitInv, PassesInv

LEMMA SubjectPutLimits ==
    ASSUME NoteShapes, LimitInv, NEW n \in Notes, SubjectPut(n)
    PROVE  LimitInv'
  <1> DEFINE k == notes[n].key
  <1>1. /\ Others(n) /\ notes[n].pc = "subjectPut" /\ notes'[n].pc = "breaker"
        /\ UNCHANGED <<clock, setting, passes, raced>> /\ k \in Keys
    <2>1. "breaker" \in NoteStages
      BY DEF NoteStages
    <2> QED
      BY <2>1, GotoFacts, KeyType DEF SubjectPut, NoteAt, notifyHistory
  <1>2. /\ counters'.rate = counters.rate /\ counters'.spray = counters.spray
        /\ counters'.subject = [counters.subject EXCEPT ![k] = notes[n].held]
        /\ counters.subject \in [Keys -> Counter]
    BY DEF SubjectPut, NoteShapes, KeyOf
  <1>3. RateApart(n) /\ SprayApart(n)
    BY <1>1, <1>2 DEF RateApart, SprayApart, SprayHeld
  <1>4. ASSUME SubjectInv PROVE SubjectInv'
    <2> SUFFICES ASSUME setting.subject > 0, "subject" \notin raced
                 PROVE  /\ \A m \in Notes : notes'[m].pc # "subjectPut"
                        /\ \A j \in Keys :
                              Fixed(PassesTo(passes, j), counters'.subject[j], setting.subject)
      BY <1>1 DEF SubjectInv
    <2>1. /\ \A m \in Notes : notes[m].pc = "subjectPut" => m = n
          /\ Fixed(PassesTo(passes, k), notes[n].held, setting.subject)
      BY <1>1, <1>4 DEF SubjectInv
    <2>2. \A m \in Notes : notes'[m].pc # "subjectPut"
      BY <1>1, <2>1 DEF Others
    <2>3. ASSUME NEW j \in Keys, j # k
          PROVE  Fixed(PassesTo(passes, j), counters'.subject[j], setting.subject)
      BY <1>2, <1>4, <2>1, <2>3 DEF SubjectInv
    <2>4. counters'.subject[k] = notes[n].held
      BY <1>1, <1>2
    <2> QED
      BY <2>1, <2>2, <2>3, <2>4
  <1> QED
    BY <1>1, <1>3, <1>4, RateSame, SpraySame DEF LimitInv, PassesInv

LEMMA SprayGetLimits ==
    ASSUME NoteShapes, LimitInv, NEW n \in Notes, SprayGet(n)
    PROVE  LimitInv'
  <1>1. /\ notes[n].pc = "spray" /\ UNCHANGED <<clock, setting, counters, passes>>
        /\ clock \in Nat /\ WINDOW \in Nat
    BY NotifyAssumption DEF SprayGet, NoteAt, kvVars, NoteShapes
  <1>2. CASE known[KeyOf(n)] >= clock
    <2>1. NoteGoto(n, FromSubject) /\ raced' = raced
      BY <1>2 DEF SprayGet
    <2>2. Others(n) /\ notes'[n].pc \in {"subject", "breaker"}
      BY <2>1, FromStages, GotoFacts DEF NoteStages
    <2>3. RateApart(n) /\ SubjectApart(n) /\ SprayApart(n)
      BY <1>1, <2>1, <2>2 DEF RateApart, SubjectApart, SprayApart, SprayHeld
    <2> QED
      BY <1>1, <2>3, RateSame, SubjectSame, SpraySame DEF LimitInv, PassesInv
  <1>3. CASE ~(known[KeyOf(n)] >= clock)
    <2> DEFINE e == Entry(0, clock + WINDOW)
    <2>1. /\ notes' = [notes EXCEPT ![n].pc = "sprayCount", ![n].held = e]
          /\ raced' = Races("spray")
      BY <1>3 DEF SprayGet
    <2>2. e \in Counter /\ e.until = clock + WINDOW /\ "sprayCount" \in NoteStages
      BY <1>1, EntryType DEF NoteStages
    <2> HIDE DEF e
    <2>3. Others(n) /\ notes'[n].pc = "sprayCount" /\ notes'[n].held = e
      <3>1. notes' = [notes EXCEPT ![n].pc = "sprayCount", ![n].held = e]
        BY <2>1
      <3>2. Step1(n) /\ notes'[n].pc = "sprayCount" /\ notes'[n].held = e
        BY <2>2, <3>1, NoteHoldType
      <3> QED
        BY <3>2 DEF Step1, Others
    <2>4. /\ raced \subseteq raced'
          /\ "spray" \notin raced' =>
                "spray" \notin raced /\ \A m \in Notes : notes[m].pc \notin SprayHeld
      BY <2>1, RacesOnly, HoldingIs
    <2>5. RateApart(n) /\ SubjectApart(n)
      BY <1>1, <2>3, <2>4 DEF RateApart, SubjectApart
    <2>6. ASSUME SprayInv PROVE SprayInv'
      <3> SUFFICES ASSUME setting.spray > 0, "spray" \notin raced'
                   PROVE  SprayInv'
        BY <1>1 DEF SprayInv
      <3>1. /\ counters.spray.until <= clock + WINDOW
            /\ Sliding(PassesOf(passes, "spray"), counters.spray, setting.spray)
        BY <2>4, <2>6 DEF SprayInv, SprayHeld
      <3>2. \A m \in Notes : notes'[m].pc \in SprayHeld => m = n
        BY <2>3, <2>4 DEF Others
      <3>3. /\ \A m \in Notes : notes'[m].pc \in {"sprayCount", "sprayKnown", "sprayPut"} => m = n
            /\ notes'[n].held.until = clock + WINDOW
        BY <2>2, <2>3, <3>2 DEF SprayHeld
      <3> QED
        BY <1>1, <2>3, <3>1, <3>2, <3>3 DEF SprayInv
    <2> QED
      BY <1>1, <2>5, <2>6, RateSame, SubjectSame DEF LimitInv, PassesInv
  <1> QED
    BY <1>2, <1>3


LEMMA SprayCountLimits ==
    ASSUME NoteShapes, LimitInv, NEW n \in Notes, SprayCount(n)
    PROVE  LimitInv'
  <1> DEFINE e == counters.spray
             max == setting.spray
             t == notes[n].held.until - WINDOW
             c == Counted(e, t).count
             h == [notes[n].held EXCEPT !.count = c]
             p == [note |-> n, limit |-> "spray", key |-> notes[n].key, at |-> t]
             P == PassesOf(passes, "spray")
  <1>1. /\ notes[n].pc = "sprayCount" /\ UNCHANGED <<clock, setting, counters, raced>>
        /\ WINDOW \in Nat /\ e \in Counter /\ max \in Nat /\ t \in Int
        /\ notes[n] \in Note /\ notes[n].held \in Counter /\ notes[n].held.until \in Nat
    BY NotifyAssumption, CountersType, SettingType, HeldType
    DEF SprayCount, NoteAt, kvVars, NoteShapes
  <1>p. p.limit = "spray" /\ p.at = t
    OBVIOUS
  <1>2. CASE Full(e, t, max)
    <2>1. NoteGoto(n, "refused") /\ passes' = passes /\ "refused" \in NoteStages
      BY <1>2 DEF SprayCount, NoteStages
    <2>2. Others(n) /\ notes'[n].pc = "refused"
      BY <2>1, GotoFacts
    <2>3. RateApart(n) /\ SubjectApart(n)
      BY <1>1, <2>1, <2>2 DEF RateApart, SubjectApart
    <2>4. ASSUME SprayInv PROVE SprayInv'
      <3> SUFFICES ASSUME setting.spray > 0, "spray" \notin raced
                   PROVE  SprayInv'
        BY <1>1 DEF SprayInv
      <3>1. /\ \A m \in Notes : notes[m].pc \in SprayHeld => m = n
            /\ e.until <= clock + WINDOW
        BY <1>1, <2>4 DEF SprayInv, SprayHeld
      <3>2. \A m \in Notes : notes'[m].pc \notin SprayHeld
        BY <2>2, <3>1 DEF Others, SprayHeld
      <3>3. Sliding(P, e, max)
        <4>1. \A m \in Notes : notes[m].pc \notin {"sprayKnown", "sprayPut"}
          BY <1>1, <3>1 DEF SprayHeld
        <4> QED
          BY <2>4, <4>1 DEF SprayInv
      <3> QED
        BY <1>1, <2>1, <3>1, <3>2, <3>3 DEF SprayInv, SprayHeld
    <2> QED
      BY <1>1, <2>1, <2>3, <2>4, RateSame, SubjectSame DEF LimitInv, PassesInv
  <1>3. CASE ~Full(e, t, max)
    <2>1. /\ notes' = [notes EXCEPT ![n].pc = "sprayKnown", ![n].held.count = c]
          /\ passes' = passes \cup {p}
      BY <1>3 DEF SprayCount, KeyOf
    <2>2. c \in Nat
      BY <1>1 DEF Counted, Counter, Entry
    <2> HIDE DEF p, c
    <2>3. h \in Counter /\ h.count = c /\ h.until = t + WINDOW
      BY <1>1, <2>2 DEF Counter
    <2>4. notes' = [notes EXCEPT ![n].pc = "sprayKnown", ![n].held = h]
      BY <1>1, <2>1 DEF NoteShapes, Note
    <2> HIDE DEF h
    <2>5. Others(n) /\ notes'[n].pc = "sprayKnown" /\ notes'[n].held = h
      <3>1. "sprayKnown" \in NoteStages
        BY DEF NoteStages
      <3>2. Step1(n) /\ notes'[n].pc = "sprayKnown" /\ notes'[n].held = h
        BY <2>3, <2>4, <3>1, NoteHoldType
      <3> QED
        BY <3>2 DEF Step1, Others
    <2>6. PassesInv'
      <3>1. passes' \subseteq passes \cup {p} /\ PassesInv
        BY <2>1 DEF LimitInv
      <3> QED
        BY <1>1, <1>p, <3>1, PassesGrow
    <2>7. RateApart(n) /\ SubjectApart(n)
      <3>1. /\ PassesOf(passes', "rate") = PassesOf(passes, "rate")
            /\ \A k \in Keys : PassesTo(passes', k) = PassesTo(passes, k)
        BY <1>p, <2>1 DEF PassesOf, PassesTo
      <3> QED
        BY <1>1, <2>5, <3>1 DEF RateApart, SubjectApart
    <2>8. ASSUME WINDOW > 0, SprayInv PROVE SprayInv'
      <3> SUFFICES ASSUME max > 0, "spray" \notin raced
                   PROVE  SprayInv'
        BY <1>1 DEF SprayInv
      <3>1. /\ \A m \in Notes : notes[m].pc \in SprayHeld => m = n
            /\ e.until <= clock + WINDOW /\ notes[n].held.until <= clock + WINDOW
            /\ e.until <= notes[n].held.until
        BY <1>1, <2>8 DEF SprayInv, SprayHeld
      <3>2. \A m \in Notes : notes'[m].pc \in SprayHeld => m = n
        BY <2>5, <3>1 DEF Others
      <3>3. Sliding(P, e, max)
        <4>1. \A m \in Notes : notes[m].pc \notin {"sprayKnown", "sprayPut"}
          BY <1>1, <3>1 DEF SprayHeld
        <4> QED
          BY <2>8, <4>1 DEF SprayInv
      <3>4. /\ P \subseteq passes /\ IsFiniteSet(P)
            /\ \A q \in P : q.at \in Int
        <4>1. P \subseteq passes /\ IsFiniteSet(passes)
          BY DEF PassesOf, LimitInv, PassesInv
        <4>2. \A q \in P : q.at \in Int
          BY <4>1 DEF NoteShapes, Pass
        <4> QED
          BY <4>1, <4>2, PartCount
      <3>5. e.until <= t + WINDOW
        BY <1>1, <3>1
      <3>6. Sliding(P \cup {p}, h, max)
        <4>1. h.count = Counted(e, t).count
          BY <2>3 DEF c
        <4> HIDE DEF P, e, max, t
        <4> QED
          BY <1>1, <1>3, <1>p, <2>3, <2>8, <3>3, <3>4, <3>5, <4>1, SlidingPass
      <3>7. PassesOf(passes', "spray") = P \cup {p}
        BY <1>p, <2>1 DEF PassesOf
      <3>8. h.until <= clock + WINDOW
        BY <1>1, <2>3, <3>1
      <3>9. \A m \in Notes : /\ notes'[m].pc # "sprayCount"
                             /\ notes'[m].pc \in {"sprayKnown", "sprayPut"} => m = n
        BY <2>5, <3>2 DEF SprayHeld
      <3> QED
        BY <1>1, <2>5, <3>1, <3>2, <3>6, <3>7, <3>8, <3>9 DEF SprayInv
    <2> QED
      BY <1>1, <2>6, <2>7, <2>8, RateSame, SubjectSame DEF LimitInv
  <1> QED
    BY <1>2, <1>3

LEMMA SprayPutLimits ==
    ASSUME NoteShapes, LimitInv, NEW n \in Notes, KnownPut(n) \/ SprayPut(n)
    PROVE  LimitInv'
  <1>1. /\ Others(n) /\ notes[n].pc \in {"sprayKnown", "sprayPut"}
        /\ notes'[n].held = notes[n].held
        /\ notes[n].pc = "sprayKnown" =>
              notes'[n].pc = "sprayPut" /\ counters' = counters
        /\ notes[n].pc = "sprayPut" =>
              /\ notes'[n].pc \in {"subject", "breaker"}
              /\ counters'.spray = notes[n].held
        /\ counters'.rate = counters.rate /\ counters'.subject = counters.subject
        /\ UNCHANGED <<clock, setting, passes, raced>>
    <2>1. CASE KnownPut(n)
      <3>1. notes[n].pc = "sprayKnown" /\ NoteGoto(n, "sprayPut") /\ "sprayPut" \in NoteStages
        BY <2>1 DEF KnownPut, NoteAt, NoteStages
      <3>2. Others(n) /\ notes'[n].pc = "sprayPut" /\ notes'[n].held = notes[n].held
        BY <3>1, GotoFacts
      <3> QED
        BY <2>1, <3>1, <3>2 DEF KnownPut, notifyHistory
    <2>2. CASE SprayPut(n)
      <3>1. /\ notes[n].pc = "sprayPut" /\ NoteGoto(n, FromSubject)
            /\ FromSubject \in {"subject", "breaker"}
        BY <2>2, FromStages DEF SprayPut, NoteAt
      <3>2. /\ Others(n) /\ notes'[n].pc \in {"subject", "breaker"}
            /\ notes'[n].held = notes[n].held
        BY <3>1, GotoFacts DEF NoteStages
      <3>3. /\ counters'.spray = notes[n].held /\ counters'.rate = counters.rate
            /\ counters'.subject = counters.subject
        BY <2>2 DEF SprayPut, NoteShapes
      <3> QED
        BY <2>2, <3>1, <3>2, <3>3 DEF SprayPut, notifyHistory
    <2> QED
      BY <2>1, <2>2
  <1>2. RateApart(n) /\ SubjectApart(n)
    BY <1>1 DEF RateApart, SubjectApart
  <1>3. ASSUME SprayInv PROVE SprayInv'
    <2> SUFFICES ASSUME setting.spray > 0, "spray" \notin raced
                 PROVE  SprayInv'
      BY <1>1 DEF SprayInv
    <2> DEFINE P == PassesOf(passes, "spray")
    <2>1. /\ \A m \in Notes : notes[m].pc \in SprayHeld => m = n
          /\ counters.spray.until <= clock + WINDOW
          /\ notes[n].held.until <= clock + WINDOW
          /\ Sliding(P, notes[n].held, setting.spray)
      BY <1>1, <1>3 DEF SprayInv, SprayHeld
    <2>2. \A m \in Notes : m # n => notes'[m].pc \notin SprayHeld
      BY <1>1, <2>1 DEF Others
    <2>3. CASE notes[n].pc = "sprayKnown"
      BY <1>1, <2>1, <2>2, <2>3 DEF SprayInv, SprayHeld
    <2>4. CASE notes[n].pc = "sprayPut"
      BY <1>1, <2>1, <2>2, <2>4 DEF SprayInv, SprayHeld
    <2> QED
      BY <1>1, <2>3, <2>4
  <1> QED
    BY <1>1, <1>2, <1>3, RateSame, SubjectSame DEF LimitInv, PassesInv

\* All the other steps of a request.
Outside(n) ==
    /\ Others(n) /\ UNCHANGED <<clock, setting, counters, passes, raced>>
    /\ notes[n].pc \notin {"ratePut", "subjectPut"} \cup SprayHeld
    /\ notes'[n].pc \notin {"ratePut", "subjectPut"} \cup SprayHeld

LEMMA OutsideLimits ==
    ASSUME NoteShapes, LimitInv, NEW n \in Notes, Outside(n)
    PROVE  LimitInv'
  <1>1. RateApart(n) /\ SubjectApart(n) /\ SprayApart(n)
    BY DEF Outside, RateApart, SubjectApart, SprayApart
  <1> QED
    BY <1>1, RateSame, SubjectSame, SpraySame DEF LimitInv, PassesInv, Outside

LEMMA ArriveOutside ==
    ASSUME NoteShapes, NEW n \in Notes, NEW k \in Keys, Arrive(n, k)
    PROVE  Outside(n)
  <1>1. Passing(n) /\ notes[n] \in Note /\ notes[n].pc = "new"
    BY ArrivePassing DEF NoteShapes, Arrive, NoteAt
  <1>2. notes'[n].pc \in {"rate", "checked"}
    BY <1>1 DEF Arrive, NoteShapes, Note
  <1> QED
    BY <1>1, <1>2 DEF Outside, Passing, Step1, Others, Arrive, kvVars, notifyHistory, SprayHeld

LEMMA GotoOutside ==
    ASSUME NoteShapes, NEW n \in Notes,
           \/ DedupeGet(n) \/ MarkPut(n) \/ ReopenPut(n) \/ Unconfigured(n) \/ NotePut(n)
           \/ \E allowed \in BOOLEAN : CheckDestination(n, allowed)
    PROVE  Outside(n)
  <1>1. \E pc \in {"deduped", "mark", "spray", "subject", "breaker", "blocked", "refused",
                   "delivered", "failed", "dedupe"} : NoteGoto(n, pc)
    BY FromStages DEF DedupeGet, MarkPut, ReopenPut, Unconfigured, NotePut, CheckDestination
  <1>2. /\ Others(n)
        /\ notes'[n].pc \in {"deduped", "mark", "spray", "subject", "breaker", "blocked",
                             "refused", "delivered", "failed", "dedupe"}
    BY <1>1, GotoFacts DEF NoteStages, Unchecked
  <1>3. /\ notes[n].pc \in {"dedupe", "mark", "reopen", "send", "putOk", "putFail", "checked"}
        /\ UNCHANGED <<clock, setting, counters, passes, raced>>
    BY DEF DedupeGet, MarkPut, ReopenPut, Unconfigured, NotePut, CheckDestination, NoteAt,
       kvVars, notifyHistory
  <1> QED
    BY <1>2, <1>3 DEF Outside, SprayHeld

LEMMA HoldOutside ==
    ASSUME NotifyInv, NEW n \in Notes,
           \/ BreakerGet(n) \/ NoteGet(n)
           \/ \E answer \in Answers : Send(n, answer)
    PROVE  Outside(n)
  <1>0. NoteShapes /\ notes \in [Notes -> Note] /\ notes[n] \in Note
    BY DEF NotifyInv, NoteShapes
  <1>1. CASE BreakerGet(n)
    <2>1. /\ notes[n].pc = "breaker" /\ UNCHANGED <<clock, setting, counters, passes, raced>>
          /\ \/ NoteGoto(n, "blocked")
             \/ notes' = [notes EXCEPT ![n].pc = IF Tripped THEN "reopen" ELSE "send",
                            ![n].held = Entry(BreakerState.count, clock + COOLDOWN)]
      BY <1>1 DEF BreakerGet, NoteAt, kvVars
    <2>2. Others(n) /\ notes'[n].pc \in {"blocked", "reopen", "send"}
      BY <1>0, <2>1 DEF NoteGoto, Others, Note
    <2> QED
      BY <2>1, <2>2 DEF Outside, SprayHeld
  <1>2. CASE NoteGet(n)
    <2>1. /\ notes[n].pc \in {"noteOk", "noteFail"}
          /\ UNCHANGED <<clock, setting, counters, passes, raced>>
      BY <1>2 DEF NoteGet, kvVars, notifyHistory
    <2>2. Others(n) /\ notes'[n].pc \in {"putOk", "putFail"}
      BY <1>0, <1>2 DEF NoteGet, Others, Note
    <2> QED
      BY <2>1, <2>2 DEF Outside, SprayHeld
  <1>3. ASSUME NEW answer \in Answers, Send(n, answer)
        PROVE  Outside(n)
    <2> DEFINE tries == notes[n].tries + 1
               pc == CASE answer = "ok" -> "noteOk"
                       [] answer = "network" -> "broken"
                       [] answer = "error" /\ tries < setting.attempts -> "send"
                       [] OTHER -> "noteFail"
    <2>1. /\ notes' = [notes EXCEPT ![n].tries = tries, ![n].pc = pc] /\ notes[n].pc = "send"
          /\ UNCHANGED <<clock, setting, counters, passes, raced>>
      BY <1>3 DEF Send, NoteAt, kvVars, notifyHistory
    <2>2. pc \in {"noteOk", "broken", "send", "noteFail"}
      OBVIOUS
    <2> HIDE DEF pc, tries
    <2>3. Others(n) /\ notes'[n].pc = pc
      BY <1>0, <2>1 DEF Others, Note
    <2> QED
      BY <2>1, <2>2, <2>3 DEF Outside, SprayHeld
  <1> QED
    BY <1>1, <1>2, <1>3


LEMMA LimitInitInv == NotifyInit => LimitInv
  <1> SUFFICES ASSUME NotifyInit PROVE LimitInv
    OBVIOUS
  <1>1. /\ passes = {} /\ raced = {} /\ clock = 1 /\ WINDOW \in Nat
        /\ counters.rate = Nothing /\ counters.spray = Nothing
        /\ \A k \in Keys : counters.subject[k] = Nothing
        /\ \A n \in Notes : notes[n].pc = "new"
    BY NotifyAssumption DEF NotifyInit, NewNote
  <1>2. /\ Nothing.count = 0 /\ Nothing.until = 0
        /\ setting.rate \in Nat /\ setting.spray \in Nat /\ setting.subject \in Nat
    BY NotifyAssumption DEF NotifyInit, Nothing, Entry
  <1>3. PassesOf(passes, "rate") = {} /\ PassesOf(passes, "spray") = {}
        /\ \A k \in Keys : PassesTo(passes, k) = {}
    BY <1>1 DEF PassesOf, PassesTo
  <1>4. \A t, u : Since({}, t) = {} /\ Between({}, t, u) = {}
    BY DEF Since, Between
  <1>5. Cardinality({}) = 0 /\ IsFiniteSet({})
    BY FS_EmptySet
  <1>6. ASSUME NEW max \in Nat, max > 0
        PROVE  Fixed({}, Nothing, max) /\ Sliding({}, Nothing, max)
    <2>1. Fixed({}, Nothing, max)
      <3>1. 0 <= max /\ 0 <= max - 1 /\ 0 <= 2 * max - 1 /\ ~(Nothing.count > 0)
        BY <1>2, <1>6
      <3>2. \A t, u : Cardinality(Between({}, t, u)) = 0 /\ Cardinality(Since({}, t)) = 0
        BY <1>4, <1>5
      <3> HIDE DEF Nothing
      <3> QED
        BY <1>2, <3>1, <3>2 DEF Fixed
    <2>2. Sliding({}, Nothing, max)
      BY <1>2, <1>4, <1>5, <1>6 DEF Sliding
    <2> QED
      BY <2>1, <2>2
  <1>7. PassesInv
    BY <1>1, <1>5 DEF PassesInv
  <1>8. RateInv
    BY <1>1, <1>2, <1>3, <1>6 DEF RateInv
  <1>9. SubjectInv
    BY <1>1, <1>2, <1>3, <1>6 DEF SubjectInv
  <1>10. SprayInv
    <2>1. setting.spray > 0 => Sliding({}, counters.spray, setting.spray)
      BY <1>1, <1>2, <1>6
    <2>2. counters.spray.until <= clock + WINDOW
      BY <1>1, <1>2
    <2> QED
      BY <1>1, <1>3, <2>1, <2>2 DEF SprayInv, SprayHeld
  <1> QED
    BY <1>7, <1>8, <1>9, <1>10 DEF LimitInv

LEMMA LimitInvStep == NotifyInv /\ LimitInv /\ [NotifyNext]_notifyVars => LimitInv'
  <1> SUFFICES ASSUME NotifyInv, LimitInv, [NotifyNext]_notifyVars PROVE LimitInv'
    OBVIOUS
  <1>0. NoteShapes
    BY DEF NotifyInv
  <1>1. ASSUME NEW n \in Notes, NEW k \in Keys, Arrive(n, k) PROVE LimitInv'
    BY <1>0, <1>1, ArriveOutside, OutsideLimits
  <1>2. ASSUME NEW n \in Notes, RateGet(n) \/ RatePut(n) \/ SubjectGet(n) \/ SubjectPut(n)
        PROVE  LimitInv'
    BY <1>0, <1>2, RateGetLimits, RatePutLimits, SubjectGetLimits, SubjectPutLimits
  <1>3. ASSUME NEW n \in Notes, SprayGet(n) \/ SprayCount(n) \/ KnownPut(n) \/ SprayPut(n)
        PROVE  LimitInv'
    BY <1>0, <1>3, SprayGetLimits, SprayCountLimits, SprayPutLimits
  <1>4. ASSUME NEW n \in Notes,
               \/ DedupeGet(n) \/ MarkPut(n) \/ ReopenPut(n) \/ Unconfigured(n) \/ NotePut(n)
               \/ \E allowed \in BOOLEAN : CheckDestination(n, allowed)
        PROVE  LimitInv'
    BY <1>0, <1>4, GotoOutside, OutsideLimits
  <1>5. ASSUME NEW n \in Notes,
               \/ BreakerGet(n) \/ NoteGet(n)
               \/ \E answer \in Answers : Send(n, answer)
        PROVE  LimitInv'
    BY <1>0, <1>5, HoldOutside, OutsideLimits
  <1>6. CASE NotifyTick
    <2>1. /\ clock' = clock + 1 /\ clock \in Nat /\ WINDOW \in Nat
          /\ UNCHANGED <<setting, notes, counters, passes, raced>>
      BY <1>0, <1>6, NumberTypes DEF NotifyTick, kvVars, notifyHistory
    <2>2. PassesInv'
      <3>1. \A p \in passes : p.at \in Int
        BY <1>0 DEF NoteShapes, Pass
      <3> QED
        BY <2>1, <3>1 DEF LimitInv, PassesInv
    <2>3. WINDOW > 0 => RateInv' /\ SubjectInv'
      BY <2>1 DEF LimitInv, RateInv, SubjectInv
    <2>4. WINDOW > 0 => SprayInv'
      <3>1. /\ counters.spray.until \in Nat
            /\ \A n \in Notes : notes[n].held.until \in Nat
        BY <1>0, CountersType, HeldType DEF Counter
      <3> QED
        BY <2>1, <3>1 DEF LimitInv, SprayInv
    <2> QED
      BY <2>2, <2>3, <2>4 DEF LimitInv
  <1>7. CASE UNCHANGED notifyVars
    BY <1>7 DEF notifyVars, kvVars, notifyHistory, LimitInv, PassesInv, RateInv, SubjectInv,
       SprayInv
  <1> QED
    BY <1>1, <1>2, <1>3, <1>4, <1>5, <1>6, <1>7 DEF NotifyNext

\* The two windows of the clauses below hold the passes Between counts.
LEMMA WindowOfLimit ==
    ASSUME PassesInv, NEW limit, NEW t \in Int
    PROVE  /\ Passed(limit, t) = Between(PassesOf(passes, limit), t, t + WINDOW)
           /\ \A k \in Keys : {p \in Passed("subject", t) : p.key = k}
                                 = Between(PassesTo(passes, k), t, t + WINDOW)
           /\ IsFiniteSet(Passed(limit, t)) /\ Cardinality(Passed(limit, t)) \in Nat
           /\ \A k \in Keys : Cardinality({p \in Passed("subject", t) : p.key = k}) \in Nat
  <1>1. /\ Passed(limit, t) = Between(PassesOf(passes, limit), t, t + WINDOW)
        /\ \A k \in Keys : {p \in Passed("subject", t) : p.key = k}
                              = Between(PassesTo(passes, k), t, t + WINDOW)
    BY DEF Passed, Between, PassesOf, PassesTo
  <1>2. /\ Passed(limit, t) \subseteq passes
        /\ \A k \in Keys : {p \in Passed("subject", t) : p.key = k} \subseteq passes
    BY DEF Passed
  <1> QED
    BY <1>1, <1>2, PartCount DEF PassesInv

\* While no two requests are between the read and the write of a limit's entry, any
\* WINDOW seconds see at most spray new subjects, and less than twice the rate limit
\* and the limit of a subject: a window that ends full may be followed by a full one.
THEOREM LimitsHoldCorrect == NotifySpec => []LimitsHold
  <1>1. NotifyInv /\ LimitInv => LimitsHold
    <2> SUFFICES ASSUME NotifyInv, LimitInv PROVE LimitsHold
      OBVIOUS
    <2>1. /\ clock \in Nat /\ WINDOW \in Nat /\ PassesInv
          /\ setting.rate \in Nat /\ setting.spray \in Nat /\ setting.subject \in Nat
          /\ \A t \in 1 .. clock : t \in Int
      BY NumberTypes, SettingType DEF NotifyInv, LimitInv
    <2>2. CASE WINDOW = 0
      <3>1. \A t \in Int, limit \in {"rate", "spray", "subject"} : Passed(limit, t) = {}
        <4> SUFFICES ASSUME NEW t \in Int, NEW limit \in {"rate", "spray", "subject"},
                            NEW p \in Passed(limit, t)
                     PROVE  FALSE
          OBVIOUS
        <4>1. p \in passes /\ t <= p.at /\ p.at < t + WINDOW
          BY DEF Passed
        <4>2. p.at \in Int
          BY <4>1 DEF NotifyInv, NoteShapes, Pass
        <4> QED
          BY <2>2, <4>1, <4>2
      <3>2. \A k \in Keys, t \in Int : {p \in Passed("subject", t) : p.key = k} = {}
        BY <3>1
      <3> QED
        <4>1. Cardinality({}) = 0 /\ \A x \in Nat : x > 0 => 0 < 2 * x
          BY FS_EmptySet
        <4>0. /\ \A t \in 1 .. clock : Passed("rate", t) = {} /\ Passed("spray", t) = {}
              /\ setting.spray >= 0
          BY <2>1, <3>1
        <4>2. setting.spray > 0 =>
                 \A t \in 1 .. clock : Cardinality(Passed("spray", t)) <= setting.spray
          BY <4>0, <4>1
        <4>3. setting.rate > 0 =>
                 \A t \in 1 .. clock : Cardinality(Passed("rate", t)) < 2 * setting.rate
          BY <2>1, <4>0, <4>1
        <4>4. setting.subject > 0 =>
                 \A t \in 1 .. clock, k \in Keys :
                    Cardinality({p \in Passed("subject", t) : p.key = k}) < 2 * setting.subject
          BY <2>1, <3>2, <4>1
        <4> QED
          BY <4>2, <4>3, <4>4 DEF LimitsHold
    <2>3. CASE WINDOW > 0
      <3>1. RateInv /\ SubjectInv /\ SprayInv
        BY <2>3 DEF LimitInv
      <3>2. ASSUME setting.rate > 0, "rate" \notin raced, NEW t \in 1 .. clock
            PROVE  Cardinality(Passed("rate", t)) < 2 * setting.rate
        <4>1. PICK e : Fixed(PassesOf(passes, "rate"), e, setting.rate)
          BY <3>1, <3>2 DEF RateInv
        <4>2. Cardinality(Between(PassesOf(passes, "rate"), t, t + WINDOW))
                 <= 2 * setting.rate - 1
          BY <2>1, <4>1 DEF Fixed
        <4> QED
          BY <2>1, <4>2, WindowOfLimit
      <3>3. ASSUME setting.spray > 0, "spray" \notin raced, NEW t \in 1 .. clock
            PROVE  Cardinality(Passed("spray", t)) <= setting.spray
        <4>1. PICK e : Sliding(PassesOf(passes, "spray"), e, setting.spray)
          BY <3>1, <3>3 DEF SprayInv
        <4> QED
          BY <2>1, <4>1, WindowOfLimit DEF Sliding
      <3>4. ASSUME setting.subject > 0, "subject" \notin raced, NEW t \in 1 .. clock,
                   NEW k \in Keys
            PROVE  Cardinality({p \in Passed("subject", t) : p.key = k}) < 2 * setting.subject
        <4>1. PICK e : Fixed(PassesTo(passes, k), e, setting.subject)
          BY <3>1, <3>4 DEF SubjectInv
        <4>2. Cardinality(Between(PassesTo(passes, k), t, t + WINDOW))
                 <= 2 * setting.subject - 1
          BY <2>1, <4>1 DEF Fixed
        <4>3. {p \in Passed("subject", t) : p.key = k}
                 = Between(PassesTo(passes, k), t, t + WINDOW)
          BY <2>1, WindowOfLimit
        <4>4. Cardinality(Between(PassesTo(passes, k), t, t + WINDOW)) \in Nat
          <5>1. Between(PassesTo(passes, k), t, t + WINDOW) \subseteq passes
            BY DEF Between, PassesTo
          <5> QED
            BY <2>1, <5>1, PartCount DEF PassesInv
        <4>5. Cardinality(Between(PassesTo(passes, k), t, t + WINDOW)) < 2 * setting.subject
          BY <2>1, <4>2, <4>4
        <4> QED
          BY <4>3, <4>5
      <3> QED
        BY <3>2, <3>3, <3>4 DEF LimitsHold
    <2> QED
      BY <2>1, <2>2, <2>3
  <1>2. NotifySpec => []LimitInv
    BY LimitInitInv, LimitInvStep, NotifyInvariant, PTL DEF NotifySpec
  <1> QED
    BY <1>1, <1>2, NotifyInvariant, PTL

=============================================================================
