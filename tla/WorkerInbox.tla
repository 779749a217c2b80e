----------------------------- MODULE WorkerInbox -----------------------------
(***************************************************************************)
(* The mailbox of worker/src/index.ts for one subject: POST /inbox with    *)
(* its replay check, GET /inbox (read, then delete), POST /forget, the     *)
(* janitor and the ReplayLock Durable Object.                              *)
(*                                                                         *)
(* Every await is a point where other requests run, so each KV operation   *)
(* and each call of the Durable Object is an action.  Requests of one      *)
(* isolate share its replayClaims map; KV and the Durable Objects are      *)
(* shared by all isolates.  KV operations are atomic here, which is more   *)
(* than Workers KV promises.  Signatures, rate limits and the spray guard  *)
(* come before the replay check and keep no state used here.               *)
(***************************************************************************)
EXTENDS Integers, FiniteSets

CONSTANTS
    Posts,          \* POST /inbox requests
    Reads,          \* GET /inbox requests
    Isolates,       \* isolates of the worker
    Nonces,         \* nonces the subject's messages carry
    JANITOR,        \* whether the janitor runs (DISABLE_JANITOR is not 1)
    REPLAY_TTL,     \* REPLAY_TTL
    LOCK_MAX,       \* longest lock the Durable Object grants
    CLAIM_TTL,      \* lifetime of an entry of replayClaims
    ITEM_TTL,       \* lifetime of a message
    FORGET_MAX,     \* FORGET_MAX_KEYS
    PATIENCE,       \* how long a request may take
    MaxTime,        \* bound: the clock stops here
    MaxForgets      \* bound: /forget requests in one behaviour

ASSUME InboxAssumption ==
    /\ JANITOR \in BOOLEAN
    /\ {REPLAY_TTL, LOCK_MAX, CLAIM_TTL, ITEM_TTL, FORGET_MAX, PATIENCE, MaxTime,
        MaxForgets} \subseteq Nat
    /\ REPLAY_TTL > 0 /\ LOCK_MAX > 0 /\ CLAIM_TTL > 0

None == [by |-> "nobody"]

VARIABLES
    durable,        \* whether REPLAY_LOCKS is bound
    now,            \* nowSeconds()
    posts,          \* where each POST stands
    claims,         \* replayClaims of each isolate: [nonce, exp]
    locks,          \* storage 'exp' of the Durable Object of each nonce, 0 if none
    markers,        \* KV: replay:<subject>:<nonce>
    box,            \* KV: <subject>:<nonce>
    reads,          \* where each GET stands
    forget,         \* where the /forget in progress stands
    tasks,          \* deletions handed to waitUntil: [op, nonce]
    grants,         \* history: replay checks passed, [post, nonce, at]
    cleared,        \* history: replay protection withdrawn, [nonce, at]
    swept,          \* history: messages a /forget answered OK for
    forgotten,      \* history: nonces a /forget deletes the message of
    failed          \* history: a deletion handed to waitUntil failed

postVars == <<posts, claims, locks, markers, box, grants>>
vars == <<durable, now, posts, claims, locks, markers, box, reads, forget, tasks,
          grants, cleared, swept, forgotten, failed>>

Waiting == [pc |-> "new"]

Init ==
    /\ durable \in BOOLEAN
    /\ now = 0
    /\ posts = [p \in Posts |-> Waiting]
    /\ claims = [i \in Isolates |-> {}]
    /\ locks = [n \in Nonces |-> 0]
    /\ markers = [n \in Nonces |-> None]
    /\ box = [n \in Nonces |-> None]
    /\ reads = [g \in Reads |-> Waiting]
    /\ forget = [pc |-> "idle", count |-> 0]
    /\ tasks = {} /\ grants = {} /\ cleared = {} /\ swept = {}
    /\ forgotten = {}
    /\ failed = FALSE

-----------------------------------------------------------------------------
(***************************************************************************)
(* POST /inbox                                                             *)
(***************************************************************************)

\* A KV entry that get and list still return.
Visible(entry) == entry # None /\ entry.exp >= now

At(p, pc) == posts[p].pc = pc
Goto(p, pc) == posts' = [posts EXCEPT ![p].pc = pc]

\* The finally clause of checkReplay: whoever holds the isolate's claim on the
\* nonce, it is removed.
Release(p) ==
    claims' = [claims EXCEPT ![posts[p].iso] = {c \in @ : c.nonce # posts[p].nonce}]

\* Wrong: the claim is made whether or not the nonce is claimed.
ClaimedNever(valid, n) == FALSE

Claimed(valid, n) == \E c \in valid : c.nonce = n

\* ClaimReplayKey prunes the map, refuses a nonce that is claimed and claims it
\* otherwise.
ClaimReplayKey(p, i, n) ==
    LET valid == {c \in claims[i] : c.exp > now} IN
    /\ At(p, "new")
    /\ IF Claimed(valid, n)
       THEN /\ claims' = [claims EXCEPT ![i] = valid]
            /\ posts' = [posts EXCEPT ![p] = [pc |-> "replay", nonce |-> n, iso |-> i,
                                              start |-> now]]
       ELSE /\ claims' = [claims EXCEPT ![i] = valid \cup
                             {[nonce |-> n, exp |-> now + CLAIM_TTL]}]
            /\ posts' = [posts EXCEPT ![p] = [pc |-> IF durable THEN "lock" ELSE "look",
                                              nonce |-> n, iso |-> i, start |-> now]]
    /\ UNCHANGED <<now, locks, markers, box, reads, forget, tasks, grants, cleared,
                   swept, forgotten, failed>>

Granted(p) == grants' = grants \cup {[post |-> p, nonce |-> posts[p].nonce, at |-> now]}

\* Wrong: the stored expiry is not compared with the clock.
LockHeldNever(n) == FALSE

\* The Durable Object cuts the lifetime it is asked for.
LockTtl == IF REPLAY_TTL < LOCK_MAX THEN REPLAY_TTL ELSE LOCK_MAX

\* The Durable Object holds a lock for nonce n.
LockHeld(n) == locks[n] > now

\* The claim of the Durable Object; answered says whether its response reaches
\* the worker.
LockClaim(p, answered) ==
    LET n == posts[p].nonce IN
    /\ At(p, "lock")
    /\ IF LockHeld(n)
       THEN /\ Goto(p, IF answered THEN "replay" ELSE "failed")
            /\ Release(p)
            /\ UNCHANGED <<locks, grants>>
       ELSE /\ locks' = [locks EXCEPT ![n] = now + LockTtl]
            /\ IF answered
               THEN Goto(p, "mark") /\ Granted(p) /\ UNCHANGED claims
               ELSE Goto(p, "failed") /\ Release(p) /\ UNCHANGED grants
    /\ UNCHANGED <<now, markers, box, reads, forget, tasks, cleared, swept, forgotten, failed>>

Marker(p) == [by |-> p, val |-> "1", exp |-> now + REPLAY_TTL]

\* PersistReplayMarker: on success the replay check is over; when KV refuses the
\* marker, the lock is to be cleared again.
PersistMarker(p, ok) ==
    /\ At(p, "mark")
    /\ IF ok
       THEN /\ markers' = [markers EXCEPT ![posts[p].nonce] = Marker(p)]
            /\ Goto(p, "won") /\ Release(p)
       ELSE Goto(p, "clear") /\ UNCHANGED <<markers, claims>>
    /\ UNCHANGED <<now, locks, box, reads, forget, tasks, grants, cleared, swept, forgotten, failed>>

ClearLock(p, ok) ==
    /\ At(p, "clear")
    /\ IF ok
       THEN /\ locks' = [locks EXCEPT ![posts[p].nonce] = 0]
            /\ cleared' = cleared \cup {[nonce |-> posts[p].nonce, at |-> now]}
       ELSE UNCHANGED <<locks, cleared>>
    /\ Goto(p, "failed") /\ Release(p)
    /\ UNCHANGED <<now, markers, box, reads, forget, tasks, grants, swept, forgotten, failed>>

\* Without the Durable Object: get, put a marker of one's own, get, put '1'.
LookMarker(p) ==
    /\ At(p, "look")
    /\ IF Visible(markers[posts[p].nonce])
       THEN Goto(p, "replay") /\ Release(p)
       ELSE Goto(p, "put") /\ UNCHANGED claims
    /\ UNCHANGED <<now, locks, markers, box, reads, forget, tasks, grants, cleared,
                   swept, forgotten, failed>>

PutClaimMarker(p) ==
    /\ At(p, "put")
    /\ markers' = [markers EXCEPT ![posts[p].nonce] =
                     [by |-> p, val |-> "claim", exp |-> now + REPLAY_TTL]]
    /\ Goto(p, "own")
    /\ UNCHANGED <<now, claims, locks, box, reads, forget, tasks, grants, cleared,
                   swept, forgotten, failed>>

OwnsMarker(p) ==
    LET m == markers[posts[p].nonce]
    IN  Visible(m) /\ m.val = "claim" /\ m.by = p

CheckOwner(p) ==
    /\ At(p, "own")
    /\ IF OwnsMarker(p)
       THEN Goto(p, "seal") /\ UNCHANGED claims
       ELSE Goto(p, "replay") /\ Release(p)
    /\ UNCHANGED <<now, locks, markers, box, reads, forget, tasks, grants, cleared,
                   swept, forgotten, failed>>

SealMarker(p) ==
    /\ At(p, "seal")
    /\ markers' = [markers EXCEPT ![posts[p].nonce] = Marker(p)]
    /\ Goto(p, "won") /\ Release(p) /\ Granted(p)
    /\ UNCHANGED <<now, locks, box, reads, forget, tasks, cleared, swept, forgotten, failed>>

\* A KV operation of the replay check throws.
CheckThrows(p) ==
    /\ posts[p].pc \in {"look", "put", "own", "seal"}
    /\ Goto(p, "failed") /\ Release(p)
    /\ UNCHANGED <<now, locks, markers, box, reads, forget, tasks, grants, cleared,
                   swept, forgotten, failed>>

\* The payload is too large or the subject has too many messages: both are
\* found out after the replay check.
Refuse(p) ==
    /\ At(p, "won")
    /\ Goto(p, "refused")
    /\ UNCHANGED <<now, claims, locks, markers, box, reads, forget, tasks, grants,
                   cleared, swept, forgotten, failed>>

\* Wrong: the relative lifetime is stored as an expiry date.
ItemShort(p) == [by |-> p, exp |-> ITEM_TTL - 1]

Item(p) == [by |-> p, exp |-> now + ITEM_TTL]

Store(p, ok) ==
    /\ At(p, "won")
    /\ IF ok
       THEN /\ box' = [box EXCEPT ![posts[p].nonce] = Item(p)]
            /\ posts' = [posts EXCEPT ![p] = [pc |-> "stored", nonce |-> @.nonce,
                           iso |-> @.iso, start |-> @.start, exp |-> now + ITEM_TTL]]
       ELSE Goto(p, "failed") /\ UNCHANGED box
    /\ UNCHANGED <<now, claims, locks, markers, reads, forget, tasks, grants, cleared,
                   swept, forgotten, failed>>

InFlight(p) == posts[p].pc \notin {"new", "replay", "failed", "refused", "stored"}

\* An isolate is evicted: its claims are gone, its requests never answered.
Evict(i) ==
    /\ claims' = [claims EXCEPT ![i] = {}]
    /\ posts' = [p \in Posts |-> IF InFlight(p) /\ posts[p].iso = i
                                 THEN [posts[p] EXCEPT !.pc = "failed"] ELSE posts[p]]
    /\ UNCHANGED <<now, locks, markers, box, reads, forget, tasks, grants, cleared,
                   swept, forgotten, failed>>

-----------------------------------------------------------------------------
(***************************************************************************)
(* GET /inbox, POST /forget, janitor, alarm                                *)
(***************************************************************************)

ReadGet(g, n) ==
    /\ reads[g].pc = "new"
    /\ reads' = [reads EXCEPT ![g] =
          IF Visible(box[n])
          THEN [pc |-> "got", nonce |-> n, by |-> box[n].by,
                late |-> \E h \in Reads : reads[h].pc = "done" /\ reads[h].by = box[n].by]
          ELSE [pc |-> "none"]]
    /\ UNCHANGED <<now, postVars, forget, tasks, cleared, swept, forgotten, failed>>

\* Wrong: the payload is returned and the message stays.
DeletedNot(n) == box

Deleted(n) == [box EXCEPT ![n] = None]

\* The payload is returned once its deletion has succeeded.
ReadDelete(g, ok) ==
    /\ reads[g].pc = "got"
    /\ IF ok
       THEN /\ box' = Deleted(reads[g].nonce)
            /\ reads' = [reads EXCEPT ![g].pc = "done"]
       ELSE /\ reads' = [reads EXCEPT ![g].pc = "failed"]
            /\ UNCHANGED box
    /\ UNCHANGED <<now, posts, claims, locks, markers, forget, tasks, grants, cleared,
                   swept, forgotten, failed>>

\* Wrong: the list is limited to what may be deleted, so it never overflows.
PagesShort(keys) == {page \in SUBSET keys :
    Cardinality(page) = IF Cardinality(keys) > FORGET_MAX THEN FORGET_MAX
                        ELSE Cardinality(keys)}

\* The first page of a KV listing, one key more than may be deleted.
PagesOf(keys) == {page \in SUBSET keys :
    Cardinality(page) = IF Cardinality(keys) > FORGET_MAX THEN FORGET_MAX + 1
                        ELSE Cardinality(keys)}

ForgetListInbox ==
    /\ forget.pc = "idle" /\ forget.count < MaxForgets
    /\ LET stored == {n \in Nonces : Visible(box[n])} IN
       \E page \in PagesOf(stored) :
          forget' = [pc |-> "listed", count |-> forget.count + 1, inbox |-> page,
                     items |-> {box[n].by : n \in stored}]
    /\ UNCHANGED <<now, postVars, reads, tasks, cleared, swept, forgotten, failed>>

\* The keys that are deleted out of a listed page.
Cuts(page, overflow) ==
    IF overflow THEN {cut \in SUBSET page :
        Cardinality(cut) = IF Cardinality(page) > FORGET_MAX THEN FORGET_MAX
                           ELSE Cardinality(page)}
    ELSE {page}

\* The replay markers are listed and every deletion is handed to waitUntil; the
\* answer is OK unless one of the lists was too long.
ForgetListReplay ==
    /\ forget.pc = "listed"
    /\ \E page \in PagesOf({n \in Nonces : Visible(markers[n])}) :
         LET overflow == Cardinality(page) > FORGET_MAX
                         \/ Cardinality(forget.inbox) > FORGET_MAX
         IN \E inbox \in Cuts(forget.inbox, overflow), replay \in Cuts(page, overflow) :
              /\ tasks' = tasks \cup ({"box"} \X inbox) \cup ({"marker"} \X replay)
                          \cup (IF durable THEN {"lock"} \X replay ELSE {})
              /\ swept' = IF overflow THEN swept ELSE swept \cup forget.items
              /\ forgotten' = forgotten \cup inbox
    /\ forget' = [pc |-> "idle", count |-> forget.count]
    /\ UNCHANGED <<now, postVars, reads, cleared, failed>>

\* A deletion handed to waitUntil is carried out, or fails.
RunTask(t, ok) ==
    LET n == t[2] IN
    /\ t \in tasks
    /\ tasks' = tasks \ {t}
    /\ failed' = (failed \/ ~ok)
    /\ box' = IF ok /\ t[1] = "box" THEN Deleted(n) ELSE box
    /\ markers' = IF ok /\ t[1] = "marker" THEN [markers EXCEPT ![n] = None] ELSE markers
    /\ locks' = IF ok /\ t[1] = "lock" THEN [locks EXCEPT ![n] = 0] ELSE locks
    /\ cleared' = IF ok /\ t[1] # "box" THEN cleared \cup {[nonce |-> n, at |-> now]}
                  ELSE cleared
    /\ UNCHANGED <<now, posts, claims, reads, forget, grants, swept, forgotten>>

\* The janitor deletes what does not parse as JSON: a marker still in the
\* claiming stage.  Expired messages are hidden from it by KV.
JanitorVisit(n) ==
    /\ JANITOR
    /\ Visible(markers[n]) /\ markers[n].val = "claim"
    /\ tasks' = tasks \cup {<<"marker", n>>}
    /\ UNCHANGED <<now, postVars, reads, forget, cleared, swept, forgotten, failed>>

Alarm(n) ==
    /\ locks[n] # 0 /\ locks[n] <= now
    /\ locks' = [locks EXCEPT ![n] = 0]
    /\ UNCHANGED <<now, posts, claims, markers, box, reads, forget, tasks, grants,
                   cleared, swept, forgotten, failed>>

\* Time passes, but no request takes longer than PATIENCE.
Tick ==
    /\ now < MaxTime
    /\ \A p \in Posts : InFlight(p) => now - posts[p].start < PATIENCE
    /\ now' = now + 1
    /\ UNCHANGED <<postVars, reads, forget, tasks, cleared, swept, forgotten, failed>>

PostNext ==
    \/ \E p \in Posts, i \in Isolates, n \in Nonces : ClaimReplayKey(p, i, n)
    \/ \E p \in Posts, ok \in BOOLEAN :
          LockClaim(p, ok) \/ PersistMarker(p, ok) \/ ClearLock(p, ok) \/ Store(p, ok)
    \/ \E p \in Posts :
          \/ LookMarker(p) \/ PutClaimMarker(p) \/ CheckOwner(p) \/ SealMarker(p)
          \/ CheckThrows(p) \/ Refuse(p)
    \/ \E i \in Isolates : Evict(i)

Step ==
    \/ PostNext
    \/ \E g \in Reads, n \in Nonces : ReadGet(g, n)
    \/ \E g \in Reads, ok \in BOOLEAN : ReadDelete(g, ok)
    \/ ForgetListInbox
    \/ ForgetListReplay
    \/ \E t \in tasks, ok \in BOOLEAN : RunTask(t, ok)
    \/ \E n \in Nonces : JanitorVisit(n) \/ Alarm(n)
    \/ Tick

\* A binding belongs to the deployment: no step changes it.
Next == Step /\ UNCHANGED durable

Spec == Init /\ [][Next]_vars

-----------------------------------------------------------------------------

Stages == {"lock", "mark", "clear", "look", "put", "own", "seal", "won",
           "replay", "failed", "refused"}

Request ==
    {Waiting}
    \cup [pc : Stages, nonce : Nonces, iso : Isolates, start : Nat]
    \cup [pc : {"stored"}, nonce : Nonces, iso : Isolates, start : Nat, exp : Nat]

Reading ==
    {Waiting, [pc |-> "none"]}
    \cup [pc : {"got", "done", "failed"}, nonce : Nonces, by : Posts, late : BOOLEAN]

Forgetting ==
    [pc : {"idle"}, count : Nat]
    \cup [pc : {"listed"}, count : Nat, inbox : SUBSET Nonces, items : SUBSET Posts]

\* Requests, stores and histories have their shapes.
Shapes ==
    /\ now \in Nat
    /\ posts \in [Posts -> Request]
    /\ claims \in [Isolates -> SUBSET [nonce : Nonces, exp : Nat]]
    /\ locks \in [Nonces -> Nat]
    /\ markers \in [Nonces -> {None} \cup [by : Posts, val : {"1", "claim"}, exp : Nat]]
    /\ box \in [Nonces -> {None} \cup [by : Posts, exp : Nat]]
    /\ reads \in [Reads -> Reading]
    /\ forget \in Forgetting
    /\ tasks \subseteq {"box", "marker", "lock"} \X Nonces
    /\ grants \subseteq [post : Posts, nonce : Nonces, at : Nat]
    /\ cleared \subseteq [nonce : Nonces, at : Nat]
    /\ swept \subseteq Posts
    /\ forgotten \subseteq Nonces
    /\ failed \in BOOLEAN

\* The binding is there or not, and everything that changes has its shape.
TypeOK == durable \in BOOLEAN /\ Shapes

\* The replay protection of n was withdrawn between t and u.
ClearedBetween(n, t, u) == \E c \in cleared : c.nonce = n /\ c.at >= t /\ c.at <= u

\* Passed replay checks g and h of one nonce are a lock's lifetime apart, or
\* the protection was withdrawn in between by /forget, by the janitor or by a
\* POST that could not write its marker.
Apart(g, h) ==
    g # h /\ g.nonce = h.nonce /\ g.at <= h.at =>
        h.at >= g.at + LockTtl \/ ClearedBetween(g.nonce, g.at, h.at)

WinnersApart == \A g, h \in grants : Apart(g, h)

\* With the Durable Object bound, one POST of a nonce passes the replay check in
\* REPLAY_TTL seconds, or LOCK_MAX if that is less: a retried or copied message
\* is stored once, whichever isolates its copies reach.
OneWinner == durable => WinnersApart

\* Without it the sequence of get and put on KV is not atomic, and copies that
\* reach two isolates may both pass.  The claims still keep those of one isolate
\* apart, as long as a request takes less time than a claim lives.
OneWinnerHere ==
    ~durable /\ PATIENCE < CLAIM_TTL =>
        \A g, h \in grants : posts[g.post].iso = posts[h.post].iso => Apart(g, h)

\* A message answered with 201 stays until it expires, unless somebody reads a
\* message of its nonce, posts another one, or has /forget delete one.
ItemsAccounted ==
    \A p \in Posts : At(p, "stored") /\ posts[p].exp >= now =>
        LET n == posts[p].nonce IN
        \/ box[n] # None /\ box[n].by = p /\ box[n].exp = posts[p].exp
        \/ \E g \in Reads : reads[g].pc \in {"got", "done", "failed"} /\ reads[g].nonce = n
        \/ \E q \in Posts : q # p /\ At(q, "stored") /\ posts[q].nonce = n
        \/ n \in forgotten

\* Delete on download: a GET that begins after another one has answered never
\* returns the same message; only overlapping GETs can.
ReadOnce == \A g \in Reads : reads[g].pc \in {"got", "done"} => ~reads[g].late

\* Once /forget has answered OK and its deletions have run, none of the messages
\* it found is left, although the answer precedes the deletions.
ForgetComplete ==
    tasks = {} /\ ~failed =>
        \A n \in Nonces : box[n] # None => box[n].by \notin swept

=============================================================================
