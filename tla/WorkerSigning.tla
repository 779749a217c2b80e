---------------------------- MODULE WorkerSigning ----------------------------
(***************************************************************************)
(* POST /sign of worker/src/index.ts: rate limit, canonical body, policy,  *)
(* timestamp window, replay check and signature.                           *)
(*                                                                         *)
(* The replay check is the one WorkerInbox models, for the subject "sign"  *)
(* and with the Durable Object bound: lock, marker, and the lock cleared   *)
(* when KV refuses the marker.  POST /forget with that subject clears the  *)
(* locks it finds markers of.  A body says which site and which signature  *)
(* reference it names in any of the fields for them; policies and bodies   *)
(* are what canonicalizeSignBody and parseSignPolicy make of the JSON.     *)
(***************************************************************************)
EXTENDS Integers, FiniteSets

CONSTANTS
    Signs,          \* POST /sign requests
    Bodies,         \* bound: [nonce, ts, sites, refs, action, role]
    Policies,       \* bound: values of SIGN_POLICY_JSON
    ControlPlane,   \* CONTROL_PLANE_SIGN_ACTIONS
    DefaultRef,     \* WORKER_SIGNATURE_REF
    TS_WINDOW,      \* SIGN_TS_WINDOW
    SIGN_TTL,       \* REPLAY_TTL
    SIGN_LOCK_MAX,  \* longest lock the Durable Object grants
    SIGN_MAX,       \* SIGN_RATE_LIMIT_MAX, 0 for none
    SIGN_RATE_TTL,  \* lifetime of the limiter's entry
    LastSignSecond  \* bound: the clock stops here

ASSUME SigningAssumption ==
    /\ {TS_WINDOW, SIGN_TTL, SIGN_LOCK_MAX, SIGN_MAX, SIGN_RATE_TTL,
        LastSignSecond} \subseteq Nat
    /\ \A b \in Bodies : b.ts \in Nat

VARIABLES
    second,         \* the clock
    policy,         \* the policy: absent, broken, or families of rules
    signs,          \* where each request stands
    signLocks,      \* storage 'exp' of the Durable Object of each nonce
    signMarkers,    \* KV: nonces a marker replay:sign:<nonce> was put for
    unlocks,        \* clearings of locks a /forget has handed to waitUntil
    signRate,       \* KV rl:sign: entry
    unlocked,       \* history: when the lock of each nonce was last cleared, or 0
    passed          \* history: locks taken, [sign, body, checked, at, unlocked]

lockVars == <<signLocks, signMarkers, unlocks, unlocked, passed>>
signVars == <<second, policy, signs, signRate, lockVars>>

SignNonces == {b.nonce : b \in Bodies}
NewSign == [pc |-> "new"]

SigningInit ==
    /\ second = 1
    /\ policy \in Policies
    /\ signs = [r \in Signs |-> NewSign]
    /\ signLocks = [n \in SignNonces |-> 0]
    /\ signRate = [count |-> 0, reset |-> 0]
    /\ signMarkers = {} /\ unlocks = {} /\ passed = {}
    /\ unlocked = [n \in SignNonces |-> 0]

-----------------------------------------------------------------------------

SignGoto(r, state) == signs' = [signs EXCEPT ![r] = state]

\* signRateLimit reads its counter and writes the next value after an await.
SignRateGet(r) ==
    LET within == second < signRate.reset IN
    /\ signs[r].pc = "new"
    /\ SignGoto(r, IF SIGN_MAX > 0 /\ within /\ signRate.count >= SIGN_MAX
                   THEN [pc |-> "refused"]
                   ELSE [pc |-> "rated",
                         count |-> IF within THEN signRate.count + 1 ELSE 1,
                         reset |-> IF within THEN signRate.reset ELSE second + SIGN_RATE_TTL])
    /\ UNCHANGED <<second, policy, signRate, lockVars>>

SignRatePut(r) ==
    /\ signs[r].pc = "rated"
    /\ signRate' = IF SIGN_MAX > 0 THEN [count |-> signs[r].count, reset |-> signs[r].reset]
                   ELSE signRate
    /\ SignGoto(r, [pc |-> "body"])
    /\ UNCHANGED <<second, policy, lockVars>>

\* The body names at most one site and at most one signature reference.
Canonical(body) == Cardinality(body.sites) <= 1 /\ Cardinality(body.refs) <= 1

Selectors(body, family) ==
    IF family = "site" THEN body.sites
    ELSE IF body.refs = {} THEN {DefaultRef} ELSE body.refs

\* A rule of a family lets a selector have an action signed in a role, or in any.
RuleFor(body, family) ==
    \E rule \in policy.rules :
        /\ rule.family = family /\ rule.selector \in Selectors(body, family)
        /\ rule.action = body.action /\ rule.role \in {body.role, "*"}

\* Every family the policy has must allow the body.
PolicyAllows(body) ==
    /\ body.action \in ControlPlane => policy.controlPlane
    /\ CASE policy.state = "absent" -> ~policy.required
         [] policy.state = "broken" -> FALSE
         [] OTHER -> /\ policy.families # {}
                     /\ \A family \in policy.families : RuleFor(body, family)

Fresh(body) ==
    /\ body.ts > 0
    /\ second - body.ts <= TS_WINDOW /\ body.ts - second <= TS_WINDOW

\* All of the checks before the replay check run without an await.
CheckBody(r, body) ==
    /\ signs[r].pc = "body"
    /\ SignGoto(r, IF Canonical(body) /\ PolicyAllows(body) /\ Fresh(body)
                   THEN [pc |-> "replay", body |-> body, checked |-> second]
                   ELSE [pc |-> "refused"])
    /\ UNCHANGED <<second, policy, signRate, lockVars>>

\* Wrong: the lock lives as long as the timestamp window reaches to one side.
LockedShort(nonce) == [signLocks EXCEPT ![nonce] = second + TS_WINDOW]

\* The Durable Object cuts the lifetime it is asked for.
SignLockTtl == IF SIGN_TTL < SIGN_LOCK_MAX THEN SIGN_TTL ELSE SIGN_LOCK_MAX

Locked(nonce) == [signLocks EXCEPT ![nonce] = second + SignLockTtl]

\* The claims of the isolate refuse the nonce, or the Durable Object does; or
\* it takes the lock, and its answer arrives or does not.
SignLock(r) ==
    LET body == signs[r].body
        free == signLocks[body.nonce] <= second
    IN
    /\ signs[r].pc = "replay"
    /\ \/ /\ free
          /\ SignGoto(r, [pc |-> "mark", body |-> body])
          /\ signLocks' = Locked(body.nonce)
          /\ passed' = passed \cup
               {[sign |-> r, body |-> body, checked |-> signs[r].checked, at |-> second,
                 unlocked |-> unlocked[body.nonce]]}
       \/ /\ SignGoto(r, [pc |-> "refused"])
          /\ \/ UNCHANGED signLocks
             \/ free /\ signLocks' = Locked(body.nonce)
          /\ UNCHANGED passed
    /\ UNCHANGED <<second, policy, signRate, signMarkers, unlocks, unlocked>>

\* The marker is put, or KV refuses it.
SignMark(r, ok) ==
    LET body == signs[r].body IN
    /\ signs[r].pc = "mark"
    /\ SignGoto(r, IF ok THEN [pc |-> "signing"] ELSE [pc |-> "clear", body |-> body])
    /\ signMarkers' = IF ok THEN signMarkers \cup {body.nonce} ELSE signMarkers
    /\ UNCHANGED <<second, policy, signRate, signLocks, unlocks, passed, unlocked>>

Unlock(nonce) ==
    /\ signLocks' = [signLocks EXCEPT ![nonce] = 0]
    /\ unlocked' = [unlocked EXCEPT ![nonce] = second]

\* Then the lock is cleared, whoever holds it by now; that may fail, too.
SignClear(r, ok) ==
    /\ signs[r].pc = "clear"
    /\ SignGoto(r, [pc |-> "refused"])
    /\ IF ok THEN Unlock(signs[r].body.nonce) ELSE UNCHANGED <<signLocks, unlocked>>
    /\ UNCHANGED <<second, policy, signRate, signMarkers, unlocks, passed>>

\* POST /forget with the subject "sign" lists markers, all or the first of them,
\* and hands the clearing of their locks to waitUntil.
ForgetSign ==
    /\ \E page \in SUBSET signMarkers : unlocks' = unlocks \cup page
    /\ UNCHANGED <<second, policy, signs, signRate, signLocks, signMarkers, passed,
                   unlocked>>

ForgetLock(nonce, ok) ==
    /\ nonce \in unlocks
    /\ unlocks' = unlocks \ {nonce}
    /\ IF ok THEN Unlock(nonce) ELSE UNCHANGED <<signLocks, unlocked>>
    /\ UNCHANGED <<second, policy, signs, signRate, signMarkers, passed>>

\* The size is checked last: a body that is too large has used up its nonce.
Sign(r, fits) ==
    /\ signs[r].pc = "signing"
    /\ SignGoto(r, [pc |-> IF fits THEN "signed" ELSE "refused"])
    /\ UNCHANGED <<second, policy, signRate, lockVars>>

SignTick ==
    /\ second < LastSignSecond
    /\ second' = second + 1
    /\ UNCHANGED <<policy, signs, signRate, lockVars>>

SigningNext ==
    \/ \E r \in Signs : SignRateGet(r) \/ SignRatePut(r) \/ SignLock(r)
    \/ \E r \in Signs, body \in Bodies : CheckBody(r, body)
    \/ \E r \in Signs, ok \in BOOLEAN : SignMark(r, ok) \/ SignClear(r, ok) \/ Sign(r, ok)
    \/ ForgetSign
    \/ \E nonce \in SignNonces, ok \in BOOLEAN : ForgetLock(nonce, ok)
    \/ SignTick

SigningSpec == SigningInit /\ [][SigningNext]_signVars

-----------------------------------------------------------------------------

Signed == {p \in passed : signs[p.sign].pc = "signed"}

\* p took its lock first.
Earlier(p, q) == p.at < q.at \/ (p.at = q.at /\ p.unlocked <= q.unlocked)

\* Unless its lock was cleared in between, by a /forget of "sign" or by a
\* request that could not put its marker, one nonce is signed twice only a
\* lock's lifetime apart; and one nonce with one timestamp only when the second
\* request waited that long, but for 2 * TS_WINDOW, between the check of its
\* timestamp and its lock: the check is stale by then.
SignedAgainSlow ==
    \A p, q \in Signed :
        p.sign # q.sign /\ p.body.nonce = q.body.nonce /\ Earlier(p, q) =>
            \/ q.unlocked >= p.at
            \/ /\ q.at >= p.at + SignLockTtl
               /\ p.body.ts = q.body.ts =>
                     q.at - q.checked >= SignLockTtl - 2 * TS_WINDOW

=============================================================================
