---------------------------- MODULE SchedulerClients ----------------------------
(***************************************************************************)
(* The programs that write to a process past the worker: the public API    *)
(* server (scripts/http/public_api_server.mjs) and four command lines of   *)
(* scripts/cli, deep_test_scheduler_direct, business_matrix_scheduler_-    *)
(* direct, send_write_command and diagnose_cu_readback.  Each posts its    *)
(* message to the scheduler, takes the slot from the reply and reads the   *)
(* result of that slot.                                                    *)
(*                                                                         *)
(* The node is not in the repository.  It appends what arrives to the log  *)
(* of the process, slot 0 being the message that started it; any call may  *)
(* fail or time out, after the message arrived or before, and a reply may  *)
(* come without a slot.                                                    *)
(***************************************************************************)
EXTENDS Integers, Sequences, FiniteSets

CONSTANTS
    Clients,        \* programs that run
    ClientKinds,    \* bound: which programs they are
    ApiConfigs,     \* bound: configurations of the API server, [dryrun, fallback]
    SEND_ATTEMPTS,  \* maxAttempts of the deep test
    READ_ATTEMPTS,  \* attempts at a result, AO_RESULT_RETRIES
    MaxSlot         \* bound: length of the log

Nobody == "nobody"

ASSUME ClientsAssumption ==
    /\ Nobody \notin Clients
    /\ ClientKinds \subseteq {"api", "deep", "matrix", "write", "write_auto", "diagnose"}
    /\ {SEND_ATTEMPTS, READ_ATTEMPTS} \subseteq Nat \ {0} /\ MaxSlot \in Nat

VARIABLES
    apiConfig,  \* the configuration of the API server
    log,        \* whose message is in each slot, from 1
    clients     \* where each program stands

clientVars == <<apiConfig, log, clients>>

NewClient(c, kind) ==
    [kind |-> kind,
     pc |-> CASE kind = "api" -> "dryrun" [] kind = "diagnose" -> "report" [] OTHER -> "post",
     about |-> c,           \* whose message the program reads the result of
     via |-> "scheduler",   \* how the next message goes out
     sends |-> 0, tries |-> 1,
     slot |-> 0, slotted |-> FALSE,     \* the slot taken from the reply; whether it had one
     told |-> "nothing", read |-> Nobody]

ClientsInit ==
    /\ apiConfig \in ApiConfigs
    /\ log = <<>>
    /\ clients \in {[c \in Clients |-> NewClient(c, kinds[c])] : kinds \in [Clients -> ClientKinds]}

-----------------------------------------------------------------------------

Become(c, record) == clients' = [clients EXCEPT ![c] = record]

Done(c, told) == [clients[c] EXCEPT !.pc = "done", !.told = told]

\* tryDryrun answers, or fails, by its timer at the latest, or is switched off.
DryRunRead(c) ==
    /\ clients[c].pc = "dryrun"
    /\ \/ apiConfig.dryrun /\ Become(c, [Done(c, "answer") EXCEPT !.read = c])
       \/ Become(c, IF apiConfig.fallback THEN [clients[c] EXCEPT !.pc = "post"]
                    ELSE Done(c, "failed"))
    /\ UNCHANGED <<apiConfig, log>>

\* Wrong: slots are counted as the reply's slot is written, from the one before.
SlotBefore(slots, reply) == IF reply = "slot" THEN slots - 1 ELSE 0

\* Number(slot header || slot of the body || ''): a reply without a slot is slot 0.
SlotOf(slots, reply) == IF reply = "slot" THEN slots ELSE 0

Sent(c, reply, slots) ==
    [clients[c] EXCEPT !.sends = @ + 1, !.slot = SlotOf(slots, reply), !.slotted = reply = "slot"]

AttemptsLeft(sent) == sent.sends < SEND_ATTEMPTS

Reading(sent, pc) == [sent EXCEPT !.pc = pc, !.tries = 1]
Failing(sent, told) == [sent EXCEPT !.pc = "done", !.told = told]
Accepted(reply) == reply \in {"slot", "noslot"}

\* The API server tells a reply that knows of no message from other errors.
AfterApi(sent, reply) ==
    IF Accepted(reply) THEN Reading(sent, "compute")
    ELSE Failing(sent, IF reply = "not_found" THEN "not_found" ELSE "failed")

\* Only the deep test sends again, after a fault of the server or no reply.
AfterDeep(sent, reply) ==
    CASE Accepted(reply) -> Reading(sent, "compute")
      [] reply \in {"fault", "lost"} /\ AttemptsLeft(sent) -> sent
      [] OTHER -> Failing(sent, "failed")

AfterMatrix(sent, reply) ==
    IF Accepted(reply) THEN Reading(sent, "message") ELSE Failing(sent, "failed")

\* send_write_command in auto mode tries the push when the scheduler fails; from a
\* push without a slot it has no result to read, and posts once more.
AfterWrite(sent, reply) ==
    LET auto == sent.kind = "write_auto"
        push == auto /\ sent.via = "push"
    IN CASE reply = "slot" \/ (reply = "noslot" /\ ~push) -> Reading(sent, "result")
         [] auto /\ sent.via = "scheduler" /\ ~Accepted(reply) -> [sent EXCEPT !.via = "push"]
         [] push /\ reply = "noslot" -> [sent EXCEPT !.via = "again"]
         [] OTHER -> Failing(sent, "failed")

\* What a program does with the reply to its post.
After(sent, reply) ==
    CASE sent.kind = "api" -> AfterApi(sent, reply)
      [] sent.kind = "deep" -> AfterDeep(sent, reply)
      [] sent.kind = "matrix" -> AfterMatrix(sent, reply)
      [] OTHER -> AfterWrite(sent, reply)

\* The post: it arrives or not, whatever the reply, but a slot is only in the
\* reply to one that arrived.
Post(c) ==
    /\ clients[c].pc = "post"
    /\ \E arrived \in BOOLEAN, reply \in {"slot", "noslot", "not_found", "fault", "lost"} :
          /\ reply = "slot" => arrived
          /\ arrived => Len(log) < MaxSlot
          /\ log' = IF arrived THEN Append(log, c) ELSE log
          /\ Become(c, After(Sent(c, reply, Len(log')), reply))
    /\ UNCHANGED apiConfig

\* business_matrix asks the scheduler for its message by id, which it may not know
\* yet; without it the assertion fails whatever the result says.
ProbeMessage(c) ==
    /\ clients[c].pc = "message"
    /\ \/ /\ \E i \in 1..Len(log) : log[i] = c
          /\ Become(c, [clients[c] EXCEPT !.pc = "compute"])
       \/ Become(c, Done(c, "failed"))
    /\ UNCHANGED <<apiConfig, log>>

\* diagnose_cu_readback reads the slots of a finished deep test from its report.
OpenReport(c, d) ==
    /\ clients[c].pc = "report" /\ clients[d].kind = "deep" /\ clients[d].pc = "done"
    /\ Become(c, [clients[c] EXCEPT !.pc = "result", !.about = d, !.slot = clients[d].slot,
                                    !.slotted = clients[d].slotted])
    /\ UNCHANGED <<apiConfig, log>>

OwnerOf(slot) == IF slot = 0 THEN Nobody ELSE log[slot]

\* A page that is not there looks like a result without an envelope.
ApiVerdict(result) ==
    CASE result = "envelope" -> "answer"
      [] result = "nothing" -> "not_found"
      [] result = "error" -> "failed"

\* The assertions of the tests take anything that is no runtime error for an effect.
Assertion(result) == IF result = "error" THEN "failed" ELSE "passed"

\* What a program makes of the result of the slot: an envelope, nothing, or an error.
Taken(c, result) ==
    LET verdict == CASE clients[c].kind = "api" -> ApiVerdict(result)
                     [] clients[c].kind \in {"deep", "matrix"} -> Assertion(result)
                     [] OTHER -> "answer"
    IN [Done(c, verdict) EXCEPT !.read = OwnerOf(clients[c].slot)]

\* An attempt fails in a way that may pass, and there are more.
Retry(c) ==
    /\ clients[c].tries < READ_ATTEMPTS
    /\ Become(c, [clients[c] EXCEPT !.tries = @ + 1])

\* Wrong: the compute URL and ao.result stand in for each other.
GiveUpRound(c) == [clients[c] EXCEPT !.pc = IF @ = "result" THEN "compute" ELSE "result"]

\* ao.result first, where the program asks it, then the compute URL.
Fallback(c) == Reading(clients[c], "compute")

\* At the last, send_write_command sends what it pushed once more through the
\* scheduler.
GiveUp(c) ==
    LET client == clients[c] IN
    IF client.pc = "result" THEN Fallback(c)
    ELSE IF client.kind = "write_auto" /\ client.via = "push"
    THEN [client EXCEPT !.pc = "post", !.via = "again"]
    ELSE Done(c, "failed")

\* runWithRetry, readResponseWithRetry and the loops like them.
Read(c) ==
    /\ clients[c].pc \in {"result", "compute"}
    /\ \/ \E result \in {"envelope", "nothing", "error"} : Become(c, Taken(c, result))
       \/ Retry(c)
       \/ Become(c, GiveUp(c))
    /\ UNCHANGED <<apiConfig, log>>

\* The steps that end by a timer: all but the posts of the API server and of
\* send_write_command.
TimedStep(c) ==
    \/ DryRunRead(c) \/ ProbeMessage(c) \/ Read(c)
    \/ clients[c].kind \in {"deep", "matrix"} /\ Post(c)

ClientsNext ==
    \/ \E c \in Clients : DryRunRead(c) \/ Post(c) \/ ProbeMessage(c) \/ Read(c)
    \/ \E c, d \in Clients : OpenReport(c, d)

ClientsSpec ==
    ClientsInit /\ [][ClientsNext]_clientVars /\ \A c \in Clients : WF_clientVars(TimedStep(c))

-----------------------------------------------------------------------------

\* A program whose reply named a slot never takes the result of another's message
\* for its own, whoever else wrote to the log in between and however often it sent.
OwnResult ==
    \A c \in Clients :
        clients[c].slotted /\ clients[c].told \in {"answer", "passed", "not_found"} =>
            clients[c].read = clients[c].about

Untimed(client) ==
    client.pc = "report" \/ (client.pc = "post" /\ client.kind \notin {"deep", "matrix"})

\* Every program ends, but for one that waits for a reply without a timer, or for a
\* report that there is not.
ClientsFinish == <>[](\A c \in Clients : clients[c].pc = "done" \/ Untimed(clients[c]))

\* A reply without a slot is an error: scheduler_send_no_slot.
NoSlotFails ==
    \A c \in Clients : clients[c].kind = "write" /\ clients[c].told = "answer" => clients[c].slotted

=============================================================================
