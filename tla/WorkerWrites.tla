----------------------------- MODULE WorkerWrites -----------------------------
(***************************************************************************)
(* POST /api/checkout/order and /payment-intent of worker/src/index.ts:    *)
(* the command a request becomes, and the pushes that carry it to the      *)
(* write process.                                                          *)
(*                                                                         *)
(* The write process and the network to it are not in the repository.  A   *)
(* push may be lost, and one the worker gave up on may still arrive; the   *)
(* process runs a message for a request id it has not seen and answers any *)
(* other with what it did then.  A token is named by the site it opens.    *)
(***************************************************************************)
EXTENDS Integers, FiniteSets

CONSTANTS
    Writes,         \* requests to the two routes
    CallerIds,      \* request ids callers choose
    WriteBodies,    \* bound: [id, token, top, payload, header, tenant, action, signed]
    Bridges,        \* bound: configurations, [pid, autoSign, acceptEmpty]
    WRITE_RETRIES,  \* GATEWAY_WRITE_RETRIES
    Unset           \* a field that is not there

ASSUME WritesAssumption ==
    /\ WRITE_RETRIES \in Nat \ {0}
    /\ \A b \in WriteBodies : b.id \in CallerIds \cup {Unset}
    /\ Unset \notin CallerIds \cup Writes
    /\ CallerIds \cap Writes = {}

VARIABLES
    bridge,         \* the configuration
    writes,         \* where each request stands
    pushes,         \* where each push is: <<request, attempt>> -> state
    decided,        \* what the process remembers: [id, outcome]
    ran             \* history: what the process did for each command

writeVars == <<bridge, writes, pushes, decided, ran>>

Attempts == 1..WRITE_RETRIES

\* A request without an id gets a random one, here its own name.
CommandIds == CallerIds \cup Writes

WriteAt(pc, id, attempt, told) ==
    [pc |-> pc, id |-> id, attempt |-> attempt, told |-> told]

NewWrite == WriteAt("new", Unset, 0, "nothing")
Answers(w, told) == WriteAt("answered", w.id, w.attempt, told)

WritesInit ==
    /\ bridge \in Bridges
    /\ writes = [r \in Writes |-> NewWrite]
    /\ pushes = [p \in Writes \X Attempts |-> "unsent"]
    /\ decided = {}
    /\ ran = [i \in CommandIds |-> "none"]

-----------------------------------------------------------------------------

Given(fields) == fields \ {Unset}

\* The site fields that are there agree, the token is that site's, and so is
\* the tenant.
Scoped(body) ==
    /\ Given({body.top, body.payload, body.header}) = {body.token}
    /\ body.tenant \in {Unset, body.token}

\* A caller that names an action names the route's.
RouteTakes(body) == Scoped(body) /\ body.action \in {Unset, "expected"}

\* buildWriteCommand and maybeSignWriteCommand, with the template token before
\* them and the lookup of the write process after them.
Admit(r, body) ==
    /\ writes[r].pc = "new"
    /\ writes' = [writes EXCEPT ![r] =
           IF RouteTakes(body) /\ (body.signed \/ bridge.autoSign) /\ bridge.pid
           THEN WriteAt("push", IF body.id = Unset THEN r ELSE body.id, 1, "nothing")
           ELSE Answers(NewWrite, "rejected")]
    /\ UNCHANGED <<bridge, pushes, decided, ran>>

\* Wrong: every push has a request id of its own.
PushedIdPerAttempt(r, attempt) == <<r, attempt>>

\* Every push of a request carries the same command.
PushedId(r, attempt) == writes[r].id

Here(r) == <<r, writes[r].attempt>>

Push(r) ==
    /\ writes[r].pc = "push"
    /\ pushes' = [pushes EXCEPT ![Here(r)] = "sent"]
    /\ writes' = [writes EXCEPT ![r].pc = "pushed"]
    /\ UNCHANGED <<bridge, decided, ran>>

\* The reply names a slot, which a message only has once it arrived.
Slot(r) ==
    /\ writes[r].pc = "pushed" /\ pushes[Here(r)] \in {"arrived", "evaluated"}
    /\ writes' = [writes EXCEPT ![r].pc = "result"]
    /\ UNCHANGED <<bridge, pushes, decided, ran>>

\* Wrong: a failed attempt is not counted.
FailedUncounted(r) == writes' = [writes EXCEPT ![r].pc = "push"]

\* No answer for this attempt: sleep and push again, or give up with a 500.
Failed(r) ==
    writes' = [writes EXCEPT ![r] =
        IF @.attempt < WRITE_RETRIES THEN WriteAt("push", @.id, @.attempt + 1, @.told)
        ELSE Answers(@, "failed")]

\* A timeout, an error, a reply that is no JSON or has no slot.
PushFails(r) == writes[r].pc = "pushed" /\ Failed(r) /\ UNCHANGED <<bridge, pushes, decided, ran>>

\* The compute URL is asked when the result cannot be had, once.
ResultFails(r) ==
    /\ \/ /\ writes[r].pc = "result"
          /\ writes' = [writes EXCEPT ![r].pc = "compute"]
       \/ writes[r].pc = "compute" /\ Failed(r)
    /\ UNCHANGED <<bridge, pushes, decided, ran>>

OutcomeOf(id) == (CHOOSE d \in decided : d.id = id).outcome

\* A result without output: ACCEPTED_ASYNC, or a 502.
EmptyAnswer == IF bridge.acceptEmpty THEN "accepted" ELSE "unavailable"

\* normalizeWriteEnvelope: a result without an envelope may come before the
\* message is evaluated; output that is no JSON is INVALID_OUTPUT, a runtime
\* error without output a 502.
Result(r) ==
    /\ writes[r].pc \in {"result", "compute"}
    /\ \E told \in {EmptyAnswer} \cup
           (IF pushes[Here(r)] = "evaluated"
            THEN {OutcomeOf(PushedId(r, writes[r].attempt)), "invalid", "unavailable"} ELSE {}) :
          writes' = [writes EXCEPT ![r] = Answers(@, told)]
    /\ UNCHANGED <<bridge, pushes, decided, ran>>

\* The network, in its own time.
Carry(p) ==
    /\ pushes[p] = "sent"
    /\ \E fate \in {"arrived", "lost"} : pushes' = [pushes EXCEPT ![p] = fate]
    /\ UNCHANGED <<bridge, writes, decided, ran>>

\* The write process, which remembers what it did for a request id.
Evaluate(r, attempt) ==
    LET id == PushedId(r, attempt) IN
    /\ pushes[<<r, attempt>>] = "arrived"
    /\ pushes' = [pushes EXCEPT ![<<r, attempt>>] = "evaluated"]
    /\ IF \E d \in decided : d.id = id THEN UNCHANGED <<decided, ran>>
       ELSE \E outcome \in {"applied", "refused"} :
              /\ decided' = decided \cup {[id |-> id, outcome |-> outcome]}
              /\ ran' = [ran EXCEPT ![writes[r].id] = IF @ = "none" THEN outcome ELSE "again"]
    /\ UNCHANGED <<bridge, writes>>

WorkerStep(r) == Push(r) \/ Slot(r) \/ PushFails(r) \/ ResultFails(r) \/ Result(r)

WritesNext ==
    \/ \E r \in Writes, body \in WriteBodies : Admit(r, body)
    \/ \E r \in Writes : WorkerStep(r)
    \/ \E p \in Writes \X Attempts : Carry(p) \/ Evaluate(p[1], p[2])

WritesSpec == WritesInit /\ [][WritesNext]_writeVars

\* The worker's calls are raced against timers, so each of its steps happens; the
\* bodies of their replies, read without one, are taken to follow their heads.
WritesFairSpec == WritesSpec /\ \A r \in Writes : WF_writeVars(WorkerStep(r))

-----------------------------------------------------------------------------

\* Each command and each answer, as CommandOnce has them.
Fate(i) ==
    IF ran[i] = "none" /\ \E p \in DOMAIN pushes : pushes[p] = "arrived" /\ writes[p[1]].id = i
    THEN "queued" ELSE ran[i]

Heard(r) ==
    IF writes[r].pc # "answered" \/ writes[r].id = Unset THEN [verdict |-> "none"]
    ELSE [command |-> writes[r].id,
          verdict |-> IF writes[r].told \in {"applied", "refused", "accepted"}
                      THEN writes[r].told ELSE "unknown"]

Promise == INSTANCE CommandOnce WITH
    Callers <- Writes, Commands <- CommandIds,
    outcome <- [i \in CommandIds |-> Fate(i)], told <- [r \in Writes |-> Heard(r)]

\* However many pushes of a command arrive, in whatever order and however late,
\* and however many requests carry its id, it runs once; a 200 or the error of an
\* envelope is what became of it, and a 202 is given for a command that arrived.
KeepsPromise == Promise!Spec

\* Every request the routes take is answered, whatever is lost.
WritesAnswered == \A r \in Writes : writes[r].pc = "push" ~> writes[r].pc = "answered"

=============================================================================
