----------------------------- MODULE RequestGate -----------------------------
(***************************************************************************)
(* The gate in front of the handlers of an AO process: the nonce window    *)
(* and the timestamp window of ao/shared/auth.lua, the Request-Id registry *)
(* of ao/shared/idempotency.lua, and the order in which the registry's     *)
(* route applies them.  Messages are signed once by a client and may be    *)
(* delivered late, several times or never; copies with a broken signature  *)
(* arrive as well.  A handler may throw after it has changed the state: the  *)
(* entry points catch it, and nothing records the message's Request-Id.    *)
(* A restart empties the stores kept in memory.                            *)
(*                                                                         *)
(* The remaining checks of Auth.enforce and route (JWT, signature, resolver *)
(* flag, device token, rate limit, HMAC, role) keep no state the           *)
(* properties look at: together they pass or refuse.                       *)
(***************************************************************************)
EXTENDS Integers, FiniteSets

CONSTANTS
    Nonces,         \* Nonce values
    Rids,           \* Request-Id values
    NoRid,          \* a message without a Request-Id
    EmptyRid,       \* a message whose Request-Id is the empty string
    Scopes,         \* the rest of the idempotency key: action, caller, site, host
    Skews,          \* how far a client's clock may be from the server's
    TS_DRIFT,       \* AUTH_MAX_CLOCK_SKEW
    NONCE_TTL,      \* AUTH_NONCE_TTL_SECONDS
    NONCE_MAX,      \* AUTH_NONCE_MAX_ENTRIES
    NONCE_SQLITE,   \* whether AUTH_NONCE_SQLITE is set
    IDEM_TTL,       \* IDEM_TTL_SECONDS
    IDEM_MAX,       \* IDEM_MAX_ENTRIES
    MaxTime,        \* bound: the clock stops here
    MaxSent         \* bound: messages signed in one behaviour

ASSUME GateAssumption ==
    /\ NoRid # EmptyRid /\ {NoRid, EmptyRid} \cap Rids = {}
    /\ Skews \subseteq Int
    /\ NONCE_SQLITE \in BOOLEAN
    /\ {TS_DRIFT, NONCE_TTL, NONCE_MAX, IDEM_TTL, IDEM_MAX, MaxTime, MaxSent} \subseteq Nat

AnyRid == Rids \cup {NoRid, EmptyRid}

\* A signed message: the signature covers every field.
Message == [nonce : Nonces, rid : AnyRid, scope : Scopes, ts : Int]

\* The key of the Request-Id registry.
IdemKey == Rids \X Scopes
KeyOf(m) == <<m.rid, m.scope>>

VARIABLES
    now,        \* os.time()
    sent,       \* the messages clients have signed
    nonces,     \* nonce_store: [nonce, rid, exp]
    ndb,        \* the sqlite copy of the nonces
    idem,       \* the Request-Id registry: [key, exp]
    outcome,    \* what became of the message handled in the last step
    done,       \* history: when each message ran last and how, [msg, at, threw]
    claims,     \* history: nonces taken in the last NONCE_TTL seconds, [id, rid, at]
    lost        \* history: when an entry was last dropped before it expired, [id, at]

vars == <<now, sent, nonces, ndb, idem, outcome, done, claims, lost>>

Nothing == [verdict |-> "none"]

Init ==
    /\ now = 0
    /\ sent = {} /\ nonces = {} /\ ndb = {} /\ idem = {}
    /\ outcome = Nothing
    /\ done = {} /\ claims = {} /\ lost = {}

-----------------------------------------------------------------------------

\* Entries that have not expired.
Live(store) == {e \in store : e.exp >= now}

\* Wrong: the size is not looked at.
PrunesUnbounded(store, max) == {Live(store)}

\* Expired entries go; if more than max are left, one entry that expires first
\* goes too (which one, when several do, is the order of Lua's pairs).
Prunes(store, max) ==
    LET live == Live(store)
        first == {e \in live : \A f \in live : e.exp <= f.exp}
    IN  IF Cardinality(live) > max THEN {live \ {e} : e \in first} ELSE {live}

NonceEntry(n, rid) == [id |-> n, rid |-> rid, exp |-> now + NONCE_TTL]

\* The entries of a pruned store, and of the database behind it, for nonce n.
Known(pruned, n) ==
    {e \in Live(pruned \cup (IF NONCE_SQLITE THEN ndb ELSE {})) : e.id = n}

\* A nonce seen before passes when it comes with the Request-Id that took it,
\* never when it was taken without one; a new one is taken, and the store pruned
\* again.
NonceResults(pruned, n, rid) ==
    IF Known(pruned, n) # {}
    THEN {[ok |-> \E e \in Known(pruned, n) : e.rid = rid /\ rid # NoRid, taken |-> FALSE,
           store |-> pruned, db |-> ndb]}
    ELSE {[ok |-> TRUE, taken |-> TRUE, store |-> store,
           db |-> IF NONCE_SQLITE
                  THEN {e \in Live(ndb) : e.id # n} \cup {NonceEntry(n, rid)}
                  ELSE ndb]
            : store \in Prunes({e \in pruned : e.id # n} \cup {NonceEntry(n, rid)},
                               NONCE_MAX)}

\* Wrong: any nonce seen before passes.
RequireNonceLax(n, rid) ==
    {[r EXCEPT !.ok = TRUE] :
       r \in UNION {NonceResults(pruned, n, rid) : pruned \in Prunes(nonces, NONCE_MAX)}}

\* Require_nonce for nonce n and Request-Id rid: the possible results, as the
\* answer, whether the nonce was taken, and the stores left behind.
RequireNonce(n, rid) ==
    UNION {NonceResults(pruned, n, rid) : pruned \in Prunes(nonces, NONCE_MAX)}

\* math.abs(now - ts) <= TS_DRIFT
Fresh(ts) == ts - now <= TS_DRIFT /\ now - ts <= TS_DRIFT

\* The entries of a store that a step drops although they have not expired.
Drops(before, after) == {[id |-> e.id, at |-> now] : e \in {f \in Live(before) :
                                                     ~\E g \in after : g.id = f.id}}

\* The history of losses after a step that drops the entries of new.
Losing(new) == {l \in lost : \A k \in new : k.id # l.id} \cup new

\* The effect of Require_nonce with result r on the nonces and the histories.
\* With the database behind it, the store in memory loses nothing.
NonceStep(n, rid, r) ==
    /\ nonces' = r.store
    /\ ndb' = r.db
    /\ claims' = {c \in claims : c.at + NONCE_TTL >= now}
                 \cup (IF r.taken THEN {[id |-> n, rid |-> rid, at |-> now]} ELSE {})

NonceDrops(n, rid, r) ==
    IF NONCE_SQLITE THEN {}
    ELSE Drops(nonces \cup (IF r.taken THEN {NonceEntry(n, rid)} ELSE {}), r.store)

Verdict(v, m) == [verdict |-> v, msg |-> m]

\* Wrong: the entry expires at once.
RecordedShort(store, key) ==
    {{e \in kept : e.id # key} \cup {[id |-> key, exp |-> now]}
       : kept \in Prunes(store, IDEM_MAX)}

\* Idem.record: prune, then insert.
Recorded(store, key) ==
    {{e \in kept : e.id # key} \cup {[id |-> key, exp |-> now + IDEM_TTL]}
       : kept \in Prunes(store, IDEM_MAX)}

\* What a run of the handler leaves of a looked-up registry: the response is
\* recorded when the handler returns, nothing when it throws.
Runs(pruned, m) ==
    {[looked |-> pruned, left |-> left, verdict |-> "executed"]
       : left \in Recorded(pruned, KeyOf(m))}
    \cup {[looked |-> pruned, left |-> pruned, verdict |-> "threw"]}

Lookup(pruned, m) ==
    IF \E e \in pruned : e.id = KeyOf(m)
    THEN {[looked |-> pruned, left |-> pruned, verdict |-> "replayed"]}
    ELSE Runs(pruned, m)

\* The tail of route: the Request-Id registry is consulted, and on a miss the
\* handler runs.  A message without a Request-Id passes the registry by.  The
\* result gives the registry after the lookup, the registry left behind, and
\* what became of the message.
Executions(m) ==
    IF m.rid \in Rids
    THEN UNION {Lookup(pruned, m) : pruned \in Prunes(idem, IDEM_MAX)}
    ELSE {[looked |-> idem, left |-> idem, verdict |-> v] : v \in {"executed", "threw"}}

\* The history of runs after a step that ends in verdict v for message m.
Ran(m, v) ==
    IF v = "replayed" THEN done
    ELSE {d \in done : d.msg # m} \cup {[msg |-> m, at |-> now, threw |-> v = "threw"]}

\* A copy of a signed message arrives.  The nonce is taken before any other
\* check; passes says whether the remaining checks let the message through.
Deliver(m, passes) ==
    \E r \in RequireNonce(m.nonce, m.rid) :
        /\ NonceStep(m.nonce, m.rid, r)
        /\ IF r.ok /\ Fresh(m.ts) /\ passes
           THEN \E x \in Executions(m) :
                  /\ idem' = x.left
                  /\ outcome' = Verdict(x.verdict, m)
                  /\ done' = Ran(m, x.verdict)
                  /\ lost' = Losing(NonceDrops(m.nonce, m.rid, r)
                                    \cup Drops(idem, x.looked)
                                    \cup Drops(x.looked, x.left))
           ELSE /\ outcome' = Verdict(IF ~r.ok THEN "replay_nonce"
                                      ELSE IF ~Fresh(m.ts) THEN "timestamp_skew"
                                      ELSE "refused", m)
                /\ lost' = Losing(NonceDrops(m.nonce, m.rid, r))
                /\ UNCHANGED <<idem, done>>
        /\ UNCHANGED <<now, sent>>

\* A message whose signature does not verify still takes its nonce.
DeliverUnsigned(n, rid) ==
    \E r \in RequireNonce(n, rid) :
        /\ NonceStep(n, rid, r)
        /\ lost' = Losing(NonceDrops(n, rid, r))
        /\ outcome' = Nothing
        /\ UNCHANGED <<now, sent, idem, done>>

\* A client signs a message by its own clock.
Sign(n, rid, scope, skew) ==
    /\ Cardinality(sent) < MaxSent
    /\ sent' = sent \cup {[nonce |-> n, rid |-> rid, scope |-> scope, ts |-> now + skew]}
    /\ outcome' = Nothing
    /\ UNCHANGED <<now, nonces, ndb, idem, done, claims, lost>>

Tick ==
    /\ now < MaxTime
    /\ now' = now + 1
    /\ outcome' = Nothing
    /\ UNCHANGED <<sent, nonces, ndb, idem, done, claims, lost>>

\* The process restarts: what lives in memory is gone.
Restart ==
    /\ nonces' = {} /\ idem' = {}
    /\ lost' = Losing(Drops(idem, {})
                      \cup (IF NONCE_SQLITE THEN {} ELSE Drops(nonces, {})))
    /\ outcome' = Nothing
    /\ UNCHANGED <<now, sent, ndb, done, claims>>

Next ==
    \/ \E m \in sent, passes \in BOOLEAN : Deliver(m, passes)
    \/ \E n \in Nonces, rid \in AnyRid : DeliverUnsigned(n, rid)
    \/ \E n \in Nonces, rid \in AnyRid, scope \in Scopes, skew \in Skews :
          Sign(n, rid, scope, skew)
    \/ Tick
    \/ Restart

Spec == Init /\ [][Next]_vars

-----------------------------------------------------------------------------

\* Shapes of the stores and histories.
TypeOK ==
    /\ now \in Nat
    /\ sent \subseteq Message
    /\ nonces \subseteq [id : Nonces, rid : AnyRid, exp : Nat]
    /\ ndb \subseteq [id : Nonces, rid : AnyRid, exp : Nat]
    /\ idem \subseteq [id : IdemKey, exp : Nat]
    /\ done \subseteq [msg : Message, at : Nat, threw : BOOLEAN]
    /\ claims \subseteq [id : Nonces, rid : AnyRid, at : Nat]
    /\ lost \subseteq [id : Nonces \cup IdemKey, at : Nat]

\* Whatever arrives, the nonce store returns to its limit after every message
\* and the Request-Id registry exceeds its own by at most the entry just
\* recorded (pruning precedes the insertion there); no key is held twice.
StoresBounded ==
    /\ Cardinality(nonces) <= NONCE_MAX
    /\ Cardinality(idem) <= IDEM_MAX + 1
    /\ \A e, f \in nonces : e.id = f.id => e = f
    /\ \A e, f \in idem : e.id = f.id => e = f

\* The entry for id was dropped before its time, at or after t.
LostSince(id, t) == \E l \in lost : l.id = id /\ l.at >= t

\* What may let a message that ran in d run again: its signer's clock was ahead
\* then; its Request-Id is the empty string, which neither the nonce check nor
\* the registry takes for one; the run threw and left no entry; or the entry was
\* lost since (capacity, restart) - of the nonce, when there is no Request-Id.
Excused(d) ==
    \/ d.msg.ts > d.at
    \/ d.msg.rid = EmptyRid
    \/ d.msg.rid = NoRid /\ LostSince(d.msg.nonce, d.at)
    \/ d.msg.rid \in Rids /\ (d.threw \/ LostSince(KeyOf(d.msg), d.at))

\* The handler runs a second time for one signed message only if its last run
\* excuses it: with IDEM_TTL and NONCE_TTL at least TS_DRIFT, the windows of the
\* nonce, of the Request-Id and of the timestamp leave no gap between them.
RunsTwiceOnlyIf ==
    [][\A d \in done :
          outcome' \in {Verdict("executed", d.msg), Verdict("threw", d.msg)}
          => Excused(d)']_vars

\* For NONCE_TTL seconds after a nonce is taken no message with another
\* Request-Id gets past the nonce check, and none at all when it was taken
\* without one, unless the store has lost the entry; with the sqlite copy it
\* never does, across evictions and restarts.
NonceBinding ==
    [][\A c \in claims :
          /\ outcome'.verdict \in {"executed", "threw", "replayed", "refused", "timestamp_skew"}
          /\ outcome'.msg.nonce = c.id
          /\ outcome'.msg.rid # c.rid \/ c.rid = NoRid
          => now > c.at + NONCE_TTL \/ LostSince(c.id, c.at)']_vars

=============================================================================
