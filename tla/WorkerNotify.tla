---------------------------- MODULE WorkerNotify ----------------------------
(***************************************************************************)
(* POST /notify of worker/src/index.ts: the limits of one client address,  *)
(* the dedupe marker, the circuit breaker and the retries.                 *)
(*                                                                         *)
(* All of it is kept in KV and read and written with an await in between,  *)
(* so each KV operation is an action.  A KV entry whose stored reset has   *)
(* passed counts like one that is gone.  A key stands for the destination  *)
(* of a notification, which names its dedupe marker, its subject and its   *)
(* subject limit; all notifications use one breaker key.  The token and    *)
(* the signature are checked before (WorkerAccess).                        *)
(***************************************************************************)
EXTENDS Integers, FiniteSets

CONSTANTS
    Notes,          \* POST /notify requests
    Keys,           \* destinations
    Settings,       \* bound: values of the environment: limits (0 is off), channel,
                    \* attempts (NOTIFY_RETRY_MAX), threshold of the breaker
    WINDOW,         \* lifetime of a limiter's entry
    DEDUPE_TTL,     \* NOTIFY_DEDUPE_TTL
    COOLDOWN,       \* NOTIFY_BREAKER_COOLDOWN
    LastSecond      \* bound: the clock stops here

\* parseInt makes numbers of them; a limit below 1 is off.
ASSUME NotifyAssumption ==
    /\ {WINDOW, DEDUPE_TTL, COOLDOWN, LastSecond} \subseteq Nat
    /\ Settings \subseteq [rate : Nat, spray : Nat, subject : Nat, dedupe : BOOLEAN,
                           channel : BOOLEAN, attempts : Nat, threshold : Nat]

VARIABLES
    clock,          \* nowSeconds(), from 1 on
    setting,        \* the environment
    notes,          \* where each request stands, its key and what it has read
    counters,       \* KV rl:notify:, rlsubcount: and notify:subj: entries
    known,          \* KV rlsub: until when each key is known to the spray guard
    dedupes,        \* KV notify:hash: until when each key is a duplicate
    breaker,        \* KV notify:breaker: [count, until, exp]
    passes,         \* history: limits passed, [note, limit, key, at]
    raced,          \* history: limits two requests checked at a time
    marks,          \* history: the dedupe check of each note, [read, after, put]
    refusedAt       \* history: when the breaker last refused a request

kvVars == <<counters, known, dedupes, breaker>>
notifyHistory == <<passes, raced, marks, refusedAt>>
notifyVars == <<clock, setting, notes, kvVars, notifyHistory>>

Entry(n, until) == [count |-> n, until |-> until]
Nothing == Entry(0, 0)
NewNote == [pc |-> "new", key |-> "none", held |-> Nothing, tries |-> 0]

NotifyInit ==
    /\ clock = 1
    /\ setting \in Settings
    /\ notes = [n \in Notes |-> NewNote]
    /\ counters = [rate |-> Nothing, spray |-> Nothing, subject |-> [k \in Keys |-> Nothing]]
    /\ known = [k \in Keys |-> 0]
    /\ dedupes = [k \in Keys |-> 0]
    /\ breaker = [count |-> 0, until |-> 0, exp |-> 0]
    /\ passes = {} /\ raced = {} /\ refusedAt = 0
    /\ marks = [n \in Notes |-> [read |-> 0, after |-> {}, put |-> 0]]

NoteAt(n, pc) == notes[n].pc = pc
NoteGoto(n, pc) == notes' = [notes EXCEPT ![n].pc = pc]
KeyOf(n) == notes[n].key

-----------------------------------------------------------------------------
(***************************************************************************)
(* Limits and dedupe                                                       *)
(***************************************************************************)

\* A limit of 0 and LITE_MODE switch a check off.
FromSubject == IF setting.subject > 0 THEN "subject" ELSE "breaker"
FromSpray == IF setting.spray > 0 THEN "spray" ELSE FromSubject
FromDedupe == IF setting.dedupe THEN "dedupe" ELSE FromSpray

Arrive(n, k) ==
    /\ NoteAt(n, "new")
    /\ notes' = [notes EXCEPT ![n].key = k,
                   ![n].pc = IF setting.rate > 0 THEN "rate" ELSE "checked"]
    /\ UNCHANGED <<clock, setting, kvVars, notifyHistory>>

Within(entry, t) == t < entry.until

\* Wrong: one request more than the limit passes.
FullOffByOne(entry, t, max) == Within(entry, t) /\ entry.count > max

Full(entry, t, max) == Within(entry, t) /\ entry.count >= max

\* A window starts with the first request that finds none.
Counted(entry, t) ==
    IF Within(entry, t) THEN [entry EXCEPT !.count = @ + 1] ELSE Entry(1, t + WINDOW)

Holding == [rate |-> {"ratePut"}, spray |-> {"sprayCount", "sprayKnown", "sprayPut"},
            subject |-> {"subjectPut"}]

\* History: a limit is checked while another request is between its read and write.
Races(limit) ==
    IF \E n \in Notes : notes[n].pc \in Holding[limit] THEN raced \cup {limit} ELSE raced

\* One request reads the counter of a limit: it is refused or holds the next count.
LimitGet(n, limit, put, entry, max) ==
    /\ NoteAt(n, limit)
    /\ raced' = Races(limit)
    /\ IF Full(entry, clock, max)
       THEN NoteGoto(n, "refused") /\ UNCHANGED passes
       ELSE /\ notes' = [notes EXCEPT ![n].pc = put, ![n].held = Counted(entry, clock)]
            /\ passes' = passes \cup
                 {[note |-> n, limit |-> limit, key |-> KeyOf(n), at |-> clock]}
    /\ UNCHANGED <<clock, setting, kvVars, marks, refusedAt>>

RateGet(n) == LimitGet(n, "rate", "ratePut", counters.rate, setting.rate)

RatePut(n) ==
    /\ NoteAt(n, "ratePut")
    /\ counters' = [counters EXCEPT !.rate = notes[n].held]
    /\ NoteGoto(n, "checked")
    /\ UNCHANGED <<clock, setting, known, dedupes, breaker, notifyHistory>>

\* Addresses, URLs and the allowlist of hosts are checked after the rate limit.
CheckDestination(n, allowed) ==
    /\ NoteAt(n, "checked")
    /\ NoteGoto(n, IF allowed THEN FromDedupe ELSE "refused")
    /\ UNCHANGED <<clock, setting, kvVars, notifyHistory>>

Duplicate(n) == dedupes[KeyOf(n)] >= clock

DedupeGet(n) ==
    /\ NoteAt(n, "dedupe")
    /\ NoteGoto(n, IF Duplicate(n) THEN "deduped" ELSE "mark")
    /\ marks' = [marks EXCEPT ![n].read = clock,
         ![n].after = {m \in Notes : KeyOf(m) = KeyOf(n) /\ marks[m].put > 0}]
    /\ UNCHANGED <<clock, setting, kvVars, passes, raced, refusedAt>>

\* Wrong: the marker is written with the lifetime of a limiter's window of 0.
MarkedShort(n) == [dedupes EXCEPT ![KeyOf(n)] = clock]

Marked(n) == [dedupes EXCEPT ![KeyOf(n)] = clock + DEDUPE_TTL]

\* The marker is set before anything is sent, whatever becomes of the sending.
MarkPut(n) ==
    /\ NoteAt(n, "mark")
    /\ dedupes' = Marked(n)
    /\ marks' = [marks EXCEPT ![n].put = clock]
    /\ NoteGoto(n, FromSpray)
    /\ UNCHANGED <<clock, setting, counters, known, breaker, passes, raced, refusedAt>>

\* The spray guard lets a known subject through; every new one starts the window
\* of the counter anew.  The guard takes the time before it reads anything.
SprayGet(n) ==
    /\ NoteAt(n, "spray")
    /\ IF known[KeyOf(n)] >= clock
       THEN NoteGoto(n, FromSubject) /\ UNCHANGED raced
       ELSE /\ notes' = [notes EXCEPT ![n].pc = "sprayCount",
                                      ![n].held = Entry(0, clock + WINDOW)]
            /\ raced' = Races("spray")
    /\ UNCHANGED <<clock, setting, kvVars, passes, marks, refusedAt>>

SprayCount(n) ==
    LET spray == counters.spray
        start == notes[n].held.until - WINDOW
    IN
    /\ NoteAt(n, "sprayCount")
    /\ IF Full(spray, start, setting.spray)
       THEN NoteGoto(n, "refused") /\ UNCHANGED passes
       ELSE /\ notes' = [notes EXCEPT ![n].pc = "sprayKnown",
                           ![n].held.count = Counted(spray, start).count]
            /\ passes' = passes \cup
                 {[note |-> n, limit |-> "spray", key |-> KeyOf(n), at |-> start]}
    /\ UNCHANGED <<clock, setting, kvVars, raced, marks, refusedAt>>

KnownPut(n) ==
    /\ NoteAt(n, "sprayKnown")
    /\ known' = [known EXCEPT ![KeyOf(n)] = clock + WINDOW]
    /\ NoteGoto(n, "sprayPut")
    /\ UNCHANGED <<clock, setting, counters, dedupes, breaker, notifyHistory>>

SprayPut(n) ==
    /\ NoteAt(n, "sprayPut")
    /\ counters' = [counters EXCEPT !.spray = notes[n].held]
    /\ NoteGoto(n, FromSubject)
    /\ UNCHANGED <<clock, setting, known, dedupes, breaker, notifyHistory>>

SubjectGet(n) ==
    LimitGet(n, "subject", "subjectPut", counters.subject[KeyOf(n)], setting.subject)

SubjectPut(n) ==
    /\ NoteAt(n, "subjectPut")
    /\ counters' = [counters EXCEPT !.subject[KeyOf(n)] = notes[n].held]
    /\ NoteGoto(n, "breaker")
    /\ UNCHANGED <<clock, setting, known, dedupes, breaker, notifyHistory>>

-----------------------------------------------------------------------------
(***************************************************************************)
(* Breaker and sending                                                     *)
(***************************************************************************)

BreakerState == IF breaker.exp >= clock THEN Entry(breaker.count, breaker.until) ELSE Nothing

Stored(st) == [count |-> st.count, until |-> st.until, exp |-> clock + 2 * COOLDOWN]

Tripped == BreakerState.count >= setting.threshold

\* breakerAllows: an open breaker refuses; one whose time is over and whose count
\* still is too high is opened again.
BreakerGet(n) ==
    LET st == BreakerState IN
    /\ NoteAt(n, "breaker")
    /\ IF st.until > clock
       THEN NoteGoto(n, "blocked") /\ refusedAt' = clock
       ELSE /\ notes' = [notes EXCEPT ![n].pc = IF Tripped THEN "reopen" ELSE "send",
                           ![n].held = Entry(st.count, clock + COOLDOWN)]
            /\ UNCHANGED refusedAt
    /\ UNCHANGED <<clock, setting, kvVars, passes, raced, marks>>

\* Wrong: the entry is not written again, so it expires while requests come.
ReopenedNot(n) == breaker

Reopened(n) == Stored(notes[n].held)

ReopenPut(n) ==
    /\ NoteAt(n, "reopen")
    /\ breaker' = Reopened(n)
    /\ NoteGoto(n, "blocked") /\ refusedAt' = clock
    /\ UNCHANGED <<clock, setting, counters, known, dedupes, passes, raced, marks>>

Answers == {"ok", "error", "network"}

\* sendWithRetry: a timeout counts as an error answer, any other exception of
\* fetch leaves the handler at once, without a note to the breaker.
Send(n, answer) ==
    LET tries == notes[n].tries + 1 IN
    /\ NoteAt(n, "send") /\ setting.channel
    /\ notes' = [notes EXCEPT ![n].tries = tries, ![n].pc =
         CASE answer = "ok" -> "noteOk"
           [] answer = "network" -> "broken"
           [] answer = "error" /\ tries < setting.attempts -> "send"
           [] OTHER -> "noteFail"]
    /\ UNCHANGED <<clock, setting, kvVars, notifyHistory>>

\* Neither a webhook nor SendGrid is configured: found out last.
Unconfigured(n) ==
    /\ NoteAt(n, "send") /\ ~setting.channel
    /\ NoteGoto(n, "refused")
    /\ UNCHANGED <<clock, setting, kvVars, notifyHistory>>

\* Wrong: every attempt of the request counts as a failure.
FailedEachTry(n, st) ==
    Entry(st.count + notes[n].tries,
          IF st.count + notes[n].tries >= setting.threshold THEN clock + COOLDOWN ELSE 0)

FailedOnce(n, st) ==
    Entry(st.count + 1,
          IF st.count + 1 >= setting.threshold THEN clock + COOLDOWN
          ELSE IF st.until > clock THEN st.until ELSE 0)

\* breakerNote reads the state and holds what it will write.
NoteGet(n) ==
    /\ notes[n].pc \in {"noteOk", "noteFail"}
    /\ notes' = [notes EXCEPT ![n].pc = IF @ = "noteOk" THEN "putOk" ELSE "putFail",
         ![n].held = IF NoteAt(n, "noteOk") THEN Nothing ELSE FailedOnce(n, BreakerState)]
    /\ UNCHANGED <<clock, setting, kvVars, notifyHistory>>

\* Whatever others have written in between is lost.
NotePut(n) ==
    /\ notes[n].pc \in {"putOk", "putFail"}
    /\ breaker' = Stored(notes[n].held)
    /\ NoteGoto(n, IF NoteAt(n, "putOk") THEN "delivered" ELSE "failed")
    /\ UNCHANGED <<clock, setting, counters, known, dedupes, notifyHistory>>

NotifyTick ==
    /\ clock < LastSecond
    /\ clock' = clock + 1
    /\ UNCHANGED <<setting, notes, kvVars, notifyHistory>>

NotifyNext ==
    \/ \E n \in Notes, k \in Keys : Arrive(n, k)
    \/ \E n \in Notes : \/ RateGet(n) \/ RatePut(n)
                        \/ DedupeGet(n) \/ MarkPut(n)
                        \/ SprayGet(n) \/ SprayCount(n) \/ KnownPut(n) \/ SprayPut(n)
                        \/ SubjectGet(n) \/ SubjectPut(n)
                        \/ BreakerGet(n) \/ ReopenPut(n)
                        \/ Unconfigured(n) \/ NoteGet(n) \/ NotePut(n)
    \/ \E n \in Notes, allowed \in BOOLEAN : CheckDestination(n, allowed)
    \/ \E n \in Notes, answer \in Answers : Send(n, answer)
    \/ NotifyTick

NotifySpec == NotifyInit /\ [][NotifyNext]_notifyVars

-----------------------------------------------------------------------------

Sent(n) == notes[n].tries > 0

\* With dedupe on, a destination is sent two notifications within DEDUPE_TTL only
\* when the second looked for the marker before the first had written it.
DedupeHolds ==
    setting.dedupe => \A m, n \in Notes :
        m # n /\ Sent(m) /\ Sent(n) /\ KeyOf(m) = KeyOf(n) /\ m \in marks[n].after =>
            marks[n].read > marks[m].put + DEDUPE_TTL

Passed(limit, t) == {p \in passes : p.limit = limit /\ t <= p.at /\ p.at < t + WINDOW}

\* As long as no two requests check a limit at the same time, WINDOW seconds,
\* wherever they begin, see no more new subjects than the spray guard allows, and
\* fewer requests than two windows of the rate limit allow.
LimitsHold ==
    /\ setting.spray > 0 /\ "spray" \notin raced =>
          \A t \in 1 .. clock : Cardinality(Passed("spray", t)) <= setting.spray
    /\ setting.rate > 0 /\ "rate" \notin raced =>
          \A t \in 1 .. clock : Cardinality(Passed("rate", t)) < 2 * setting.rate
    /\ setting.subject > 0 /\ "subject" \notin raced =>
          \A t \in 1 .. clock, k \in Keys :
             Cardinality({p \in Passed("subject", t) : p.key = k}) < 2 * setting.subject

\* The breaker counts requests that failed, not attempts, however the reads and
\* writes of its entry interleave: it never opens before threshold of them have.
BreakerNeedsFailures ==
    breaker.count <= Cardinality({n \in Notes : notes[n].pc = "failed"})

\* The entry of a tripped breaker runs out only when no request has been refused
\* for COOLDOWN seconds: there is no trial request while requests keep coming.
ClosedOnlyQuietly ==
    [][Tripped /\ ~Tripped' /\ clock' # clock => clock' >= refusedAt + COOLDOWN]_notifyVars

=============================================================================
