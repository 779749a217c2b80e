--------------------------- MODULE AoClientsProofs ---------------------------
(***************************************************************************)
(* The ways to a process on AO, for any number of requests, attempts and   *)
(* configurations.  Writes: WorkerWrites implements CommandOnce, every step *)
(* of it is a step of the promise or leaves the promise where it is.       *)
(* Reads: what a request answers with comes from a process that was named  *)
(* to it, and it leaves no more than two messages per call.  The programs  *)
(* past the worker: none takes another's result for its own.               *)
(***************************************************************************)
EXTENDS WorkerWrites, WorkerReads, SchedulerClients, FiniteSetTheorems, TLAPS

-----------------------------------------------------------------------------
(* Writes *)

Busy(r) == writes[r].pc \in {"push", "pushed", "result", "compute"}

Standing ==
    [pc : {"new", "push", "pushed", "result", "compute", "answered"},
     id : CommandIds \cup {Unset}, attempt : Nat,
     told : {"nothing", "rejected", "failed", "accepted", "unavailable", "applied",
             "refused", "invalid"}]

Shapes ==
    /\ writes \in [Writes -> Standing]
    /\ pushes \in [Writes \X Attempts -> {"unsent", "sent", "arrived", "lost", "evaluated"}]
    /\ decided \subseteq [id : CommandIds, outcome : {"applied", "refused"}]
    /\ ran \in [CommandIds -> {"none", "applied", "refused", "again"}]

\* A request has its id from Admit on, and an attempt while it is under way.
Identified ==
    \A r \in Writes :
        /\ writes[r].pc = "new" => writes[r].id = Unset
        /\ Busy(r) => writes[r].id \in CommandIds /\ writes[r].attempt \in Attempts

\* What has been pushed belongs to a request with an id; what comes next is new.
InTurn ==
    \A r \in Writes, a \in Attempts : pushes[<<r, a>>] # "unsent" =>
        /\ writes[r].id \in CommandIds
        /\ a <= writes[r].attempt
        /\ a = writes[r].attempt => writes[r].pc # "push"

\* Who asks for a result has been told a slot.
Arrived ==
    \A r \in Writes : writes[r].pc \in {"result", "compute"} =>
        pushes[<<r, writes[r].attempt>>] \in {"arrived", "evaluated"}

\* The process decides once, and what it did is what it decided.
DecidedOnce ==
    /\ \A d, e \in decided : d.id = e.id => d = e
    /\ \A d \in decided : ran[d.id] = d.outcome
    /\ \A i \in CommandIds : ran[i] # "none" => \E d \in decided : d.id = i

\* What it has evaluated it has decided.
Evaluated ==
    \A r \in Writes, a \in Attempts : pushes[<<r, a>>] = "evaluated" =>
        \E d \in decided : d.id = writes[r].id

WriteInv == Shapes /\ Identified /\ InTurn /\ Arrived /\ DecidedOnce /\ Evaluated

\* The state of the promise: the commands, and what the callers heard.
Commands == [i \in CommandIds |-> Fate(i)]
Callers == [r \in Writes |-> Heard(r)]

LEMMA UnsetIsNoId == Unset \notin CommandIds
  BY WritesAssumption DEF CommandIds

LEMMA WriteInitInv == WritesInit => WriteInv
  <1> SUFFICES ASSUME WritesInit PROVE WriteInv
    OBVIOUS
  <1>1. Shapes
    BY DEF WritesInit, Shapes, Standing, NewWrite, WriteAt
  <1>2. Identified /\ Arrived
    BY DEF WritesInit, Identified, Arrived, NewWrite, WriteAt, Busy
  <1>3. InTurn /\ Evaluated
    BY DEF WritesInit, InTurn, Evaluated
  <1>4. DecidedOnce
    BY DEF WritesInit, DecidedOnce
  <1> QED
    BY <1>1, <1>2, <1>3, <1>4 DEF WriteInv

\* A command is where it was if the process did nothing and the same pushes lie
\* in front of it.
LEMMA SameFates ==
    ASSUME Shapes, Shapes', UNCHANGED ran,
           \A r \in Writes, a \in Attempts :
               /\ pushes'[<<r, a>>] = "arrived" <=> pushes[<<r, a>>] = "arrived"
               /\ pushes[<<r, a>>] = "arrived" => writes'[r].id = writes[r].id
    PROVE  Commands' = Commands
  <1>1. ASSUME NEW i \in CommandIds
        PROVE  Fate(i)' = Fate(i)
    <2>1. DOMAIN pushes = Writes \X Attempts /\ DOMAIN pushes' = Writes \X Attempts
      BY DEF Shapes
    <2>2. \A p \in Writes \X Attempts : p = <<p[1], p[2]>> /\ p[1] \in Writes /\ p[2] \in Attempts
      OBVIOUS
    <2>3. ASSUME NEW p \in Writes \X Attempts
          PROVE  /\ pushes'[p] = "arrived" <=> pushes[p] = "arrived"
                 /\ pushes[p] = "arrived" => writes'[p[1]].id = writes[p[1]].id
      BY <2>2, <2>3
    <2>4. (\E p \in DOMAIN pushes' : pushes'[p] = "arrived" /\ writes'[p[1]].id = i)
          <=> (\E p \in DOMAIN pushes : pushes[p] = "arrived" /\ writes[p[1]].id = i)
      BY <2>1, <2>3
    <2> QED
      BY <2>4 DEF Fate
  <1> QED
    BY <1>1 DEF Commands

\* A request that was not answered and is not yet has heard nothing.
LEMMA SameCaller ==
    ASSUME NEW r \in Writes,
           \/ writes'[r] = writes[r]
           \/ writes[r].pc # "answered"
              /\ (writes'[r].pc # "answered" \/ writes'[r].id = Unset)
    PROVE  Heard(r)' = Heard(r)
  BY DEF Heard

-----------------------------------------------------------------------------
(***************************************************************************)
(* Steps of the worker                                                     *)
(***************************************************************************)

LEMMA AdmitStep ==
    ASSUME WriteInv, NEW r \in Writes, NEW body \in WriteBodies, Admit(r, body)
    PROVE  WriteInv' /\ UNCHANGED <<Commands, Callers>>
  <1> DEFINE id == IF body.id = Unset THEN r ELSE body.id
             taken == WriteAt("push", id, 1, "nothing")
             rejected == Answers(NewWrite, "rejected")
  <1>1. /\ writes' = [writes EXCEPT ![r] = taken] \/ writes' = [writes EXCEPT ![r] = rejected]
        /\ writes[r].pc = "new" /\ UNCHANGED <<pushes, decided, ran>>
    BY DEF Admit
  <1>2. id \in CommandIds
    BY WritesAssumption DEF CommandIds
  <1>3. writes[r].id = Unset /\ \A a \in Attempts : pushes[<<r, a>>] = "unsent"
    BY <1>1, UnsetIsNoId DEF WriteInv, Identified, InTurn
  <1> HIDE DEF id
  <1>4. /\ taken = [pc |-> "push", id |-> id, attempt |-> 1, told |-> "nothing"]
        /\ rejected = [pc |-> "answered", id |-> Unset, attempt |-> 0, told |-> "rejected"]
    BY DEF NewWrite, WriteAt, Answers
  <1>5. Shapes'
    <2>1. taken \in Standing /\ rejected \in Standing
      BY <1>2, <1>4 DEF Standing
    <2> HIDE DEF taken, rejected
    <2> QED
      BY <1>1, <2>1 DEF WriteInv, Shapes
  <1> HIDE DEF taken, rejected
  <1>6. /\ \A q \in Writes \ {r} : writes'[q] = writes[q]
        /\ writes'[r] = taken \/ writes'[r] = rejected
    BY <1>1 DEF WriteInv, Shapes
  <1>7. Identified'
    <2>1. 1 \in Attempts
      BY WritesAssumption DEF Attempts
    <2> QED
      BY <1>2, <1>4, <1>6, <2>1 DEF WriteInv, Identified, Busy
  <1>8. InTurn' /\ Evaluated'
    BY <1>1, <1>3, <1>6 DEF WriteInv, InTurn, Evaluated
  <1>9. Arrived'
    BY <1>1, <1>4, <1>6 DEF WriteInv, Arrived
  <1>10. Commands' = Commands
    <2>1. \A q \in Writes, a \in Attempts :
               /\ pushes'[<<q, a>>] = "arrived" <=> pushes[<<q, a>>] = "arrived"
               /\ pushes[<<q, a>>] = "arrived" => writes'[q].id = writes[q].id
      BY <1>1, <1>3, <1>6
    <2> QED
      BY <1>1, <1>5, <2>1, SameFates DEF WriteInv
  <1>11. Callers' = Callers
    <2>1. \A q \in Writes : Heard(q)' = Heard(q)
      BY <1>1, <1>4, <1>6, SameCaller
    <2> QED
      BY <2>1 DEF Callers
  <1> QED
    BY <1>1, <1>5, <1>7, <1>8, <1>9, <1>10, <1>11 DEF WriteInv, DecidedOnce

\* A push is the first of its attempt, so nothing is taken back.
LEMMA PushStep ==
    ASSUME WriteInv, NEW r \in Writes, Push(r)
    PROVE  WriteInv' /\ UNCHANGED <<Commands, Callers>>
  <1> DEFINE a == writes[r].attempt
  <1>1. a \in Attempts /\ writes[r].id \in CommandIds
    BY DEF Push, WriteInv, Identified, Busy
  <1>2. pushes[<<r, a>>] = "unsent"
    BY <1>1 DEF Push, WriteInv, InTurn
  <1>3. Shapes'
    BY <1>1 DEF Push, Here, WriteInv, Shapes, Standing
  <1>4. /\ \A q \in Writes \ {r} : writes'[q] = writes[q]
        /\ writes'[r].pc = "pushed" /\ writes'[r].id = writes[r].id /\ writes'[r].attempt = a
        /\ UNCHANGED <<decided, ran>>
    BY DEF Push, WriteInv, Shapes, Standing
  <1>5. /\ pushes'[<<r, a>>] = "sent"
        /\ \A q \in Writes, b \in Attempts : <<q, b>> # <<r, a>> => pushes'[<<q, b>>] = pushes[<<q, b>>]
    BY <1>1 DEF Push, Here, WriteInv, Shapes, Standing
  <1>6. \A q \in Writes, b \in Attempts :
           \/ q = r /\ b = a /\ pushes'[<<q, b>>] = "sent" /\ pushes[<<q, b>>] = "unsent"
           \/ (q # r \/ b # a) /\ pushes'[<<q, b>>] = pushes[<<q, b>>]
    BY <1>2, <1>5
  <1>7. Identified'
    BY <1>1, <1>4 DEF WriteInv, Identified, Busy
  <1>8. InTurn' /\ Evaluated'
    <2>1. ASSUME NEW q \in Writes, NEW b \in Attempts, pushes'[<<q, b>>] # "unsent"
          PROVE  /\ writes'[q].id \in CommandIds
                 /\ b <= writes'[q].attempt
                 /\ b = writes'[q].attempt => writes'[q].pc # "push"
      <3>1. b \in Int
        BY DEF Attempts
      <3>2. CASE q = r
        BY <1>1, <1>4, <1>6, <2>1, <3>1, <3>2 DEF WriteInv, InTurn
      <3>3. CASE q # r
        BY <1>4, <1>6, <2>1, <3>3 DEF WriteInv, InTurn
      <3> QED
        BY <3>2, <3>3
    <2>2. \A q \in Writes : writes'[q].id = writes[q].id
      BY <1>4
    <2>3. Evaluated'
      BY <1>4, <1>6, <2>2 DEF WriteInv, Evaluated
    <2> QED
      BY <2>1, <2>3 DEF InTurn
  <1>9. Arrived'
    <2> SUFFICES ASSUME NEW q \in Writes, writes'[q].pc \in {"result", "compute"}
                 PROVE  pushes'[<<q, writes'[q].attempt>>] \in {"arrived", "evaluated"}
      BY DEF Arrived
    <2>1. q # r /\ writes'[q] = writes[q]
      BY <1>4
    <2>2. writes[q].attempt \in Attempts
      BY <2>1 DEF WriteInv, Identified, Busy
    <2>3. pushes'[<<q, writes[q].attempt>>] = pushes[<<q, writes[q].attempt>>]
      BY <1>6, <2>1, <2>2
    <2> QED
      BY <2>1, <2>3 DEF WriteInv, Arrived
  <1>10. Commands' = Commands
    <2>1. \A q \in Writes, b \in Attempts :
               /\ pushes'[<<q, b>>] = "arrived" <=> pushes[<<q, b>>] = "arrived"
               /\ pushes[<<q, b>>] = "arrived" => writes'[q].id = writes[q].id
      BY <1>4, <1>6
    <2> QED
      BY <1>3, <1>4, <2>1, SameFates DEF WriteInv
  <1>11. Callers' = Callers
    <2>1. \A q \in Writes : Heard(q)' = Heard(q)
      BY <1>4, SameCaller DEF Push
    <2> QED
      BY <2>1 DEF Callers
  <1> QED
    BY <1>3, <1>4, <1>7, <1>8, <1>9, <1>10, <1>11 DEF WriteInv, DecidedOnce

\* A request moves on to another stage of the same attempt, or to the next one.
LEMMA MoveStep ==
    ASSUME WriteInv, NEW r \in Writes, Busy(r), writes[r].pc # "push", UNCHANGED <<pushes, decided, ran>>,
           NEW pc \in {"push", "result", "compute"},
           \/ pc = "push" /\ writes[r].attempt < WRITE_RETRIES
              /\ writes' = [writes EXCEPT ![r] =
                              WriteAt("push", @.id, @.attempt + 1, @.told)]
           \/ pc # "push" /\ pushes[Here(r)] \in {"arrived", "evaluated"}
              /\ writes' = [writes EXCEPT ![r].pc = pc]
    PROVE  WriteInv' /\ UNCHANGED <<Commands, Callers>>
  <1> DEFINE a == writes[r].attempt
  <1>1. a \in Attempts /\ a \in Nat /\ writes[r].id \in CommandIds
    BY DEF WriteInv, Shapes, Standing, Identified
  <1>2. PICK moved \in Standing :
          /\ writes' = [writes EXCEPT ![r] = moved]
          /\ moved.pc = pc /\ moved.id = writes[r].id
          /\ \/ pc = "push" /\ moved.attempt = a + 1 /\ a < WRITE_RETRIES
             \/ pc # "push" /\ moved.attempt = a
                /\ pushes[<<r, a>>] \in {"arrived", "evaluated"}
    <2>1. writes[r] \in Standing
      BY DEF WriteInv, Shapes
    <2>2. CASE pc = "push"
      <3> DEFINE moved == WriteAt("push", writes[r].id, a + 1, writes[r].told)
      <3>1. moved \in Standing /\ moved.pc = pc /\ moved.id = writes[r].id
            /\ moved.attempt = a + 1
        BY <1>1, <2>1, <2>2 DEF Standing, WriteAt
      <3>2. writes' = [writes EXCEPT ![r] = moved] /\ a < WRITE_RETRIES
        BY <2>2
      <3> QED
        BY <2>2, <3>1, <3>2
    <2>3. CASE pc # "push"
      <3> DEFINE moved == [writes[r] EXCEPT !.pc = pc]
      <3>1. moved \in Standing /\ moved.pc = pc /\ moved.id = writes[r].id
            /\ moved.attempt = a
        BY <2>1 DEF Standing
      <3>2. writes' = [writes EXCEPT ![r] = moved]
            /\ pushes[<<r, a>>] \in {"arrived", "evaluated"}
        BY <2>3 DEF Here
      <3> QED
        BY <2>3, <3>1, <3>2
    <2> QED
      BY <2>2, <2>3
  <1>3. Shapes'
    BY <1>2 DEF WriteInv, Shapes
  <1>4. /\ \A q \in Writes \ {r} : writes'[q] = writes[q]
        /\ writes'[r] = moved
    BY <1>2 DEF WriteInv, Shapes
  <1>5. Identified'
    <2>1. a + 1 \in Attempts \/ ~(a < WRITE_RETRIES)
      BY <1>1, WritesAssumption DEF Attempts
    <2> QED
      BY <1>1, <1>2, <1>4, <2>1 DEF WriteInv, Identified, Busy
  <1>6. InTurn'
    <2> SUFFICES ASSUME NEW q \in Writes, NEW b \in Attempts, pushes[<<q, b>>] # "unsent"
                 PROVE  /\ writes'[q].id \in CommandIds
                        /\ b <= writes'[q].attempt
                        /\ b = writes'[q].attempt => writes'[q].pc # "push"
      BY DEF InTurn
    <2>1. b \in Int
      BY DEF Attempts
    <2> QED
      BY <1>1, <1>2, <1>4, <2>1 DEF WriteInv, InTurn
  <1>7. Arrived'
    BY <1>2, <1>4 DEF WriteInv, Arrived
  <1>8. \A q \in Writes : writes'[q].id = writes[q].id
    BY <1>2, <1>4
  <1>9. Evaluated'
    BY <1>8 DEF WriteInv, Evaluated
  <1>10. Commands' = Commands
    BY <1>3, <1>8, SameFates DEF WriteInv
  <1>11. Callers' = Callers
    <2>1. \A q \in Writes : Heard(q)' = Heard(q)
      BY <1>2, <1>4, SameCaller DEF Busy
    <2> QED
      BY <2>1 DEF Callers
  <1> QED
    BY <1>3, <1>5, <1>6, <1>7, <1>9, <1>10, <1>11 DEF WriteInv, DecidedOnce

\* A request is answered; the promise tells its caller what is so.
LEMMA AnswerStep ==
    ASSUME WriteInv, NEW r \in Writes, Busy(r), UNCHANGED <<pushes, decided, ran>>,
           NEW said \in {"failed", "accepted", "unavailable", "applied", "refused", "invalid"},
           writes' = [writes EXCEPT ![r] = Answers(@, said)],
           said \in {"applied", "refused"} => ran[writes[r].id] = said,
           said = "accepted" => Fate(writes[r].id) # "none",
           writes[r].pc # "push"
    PROVE  WriteInv' /\ Promise!Next
  <1> DEFINE id == writes[r].id
             verdict == IF said \in {"applied", "refused", "accepted"} THEN said ELSE "unknown"
  <1>1. id \in CommandIds /\ writes[r].attempt \in Nat
    BY DEF WriteInv, Shapes, Standing, Identified
  <1>2. /\ \A q \in Writes \ {r} : writes'[q] = writes[q]
        /\ writes'[r].pc = "answered" /\ writes'[r].id = id
        /\ writes'[r].attempt = writes[r].attempt /\ writes'[r].told = said
    BY DEF WriteInv, Shapes, Standing, Answers, WriteAt
  <1>3. Shapes'
    <2>1. Answers(writes[r], said) \in Standing
      BY DEF WriteInv, Shapes, Standing, Answers, WriteAt
    <2> QED
      BY <2>1 DEF WriteInv, Shapes
  <1>4. \A q \in Writes : writes'[q].id = writes[q].id
    BY <1>2
  <1>5. Identified' /\ Arrived'
    BY <1>2 DEF WriteInv, Identified, Arrived, Busy
  <1>6. InTurn' /\ Evaluated'
    <2>1. \A q \in Writes :
             writes'[q].attempt = writes[q].attempt /\ (writes'[q].pc = "push" => writes[q].pc = "push")
      BY <1>2
    <2> QED
      BY <1>4, <2>1 DEF WriteInv, InTurn, Evaluated
  <1>7. Commands' = Commands
    BY <1>3, <1>4, SameFates DEF WriteInv
  <1>8. Heard(r) = [verdict |-> "none"] /\ Heard(r)' = [command |-> id, verdict |-> verdict]
    BY <1>1, <1>2, UnsetIsNoId DEF Heard, Busy
  <1>9. Callers' = [Callers EXCEPT ![r] = [command |-> id, verdict |-> verdict]]
    <2>1. \A q \in Writes \ {r} : Heard(q)' = Heard(q)
      BY <1>2, SameCaller
    <2> QED
      BY <1>8, <2>1 DEF Callers
  <1>10. verdict \in {"applied", "refused"} => Commands[id] = verdict
    BY <1>1 DEF Commands, Fate
  <1>11. verdict = "accepted" => Commands[id] # "none"
    BY <1>1 DEF Commands
  <1>12. verdict \in {"applied", "refused", "accepted", "unknown"}
    OBVIOUS
  <1> HIDE DEF id, verdict
  <1>13. Promise!Tell(r, id, verdict)
    BY <1>7, <1>8, <1>9, <1>10, <1>11 DEF Promise!Tell, Promise!Silence, Commands, Callers
  <1>14. Promise!Next
    BY <1>1, <1>12, <1>13 DEF Promise!Next
  <1> QED
    BY <1>3, <1>5, <1>6, <1>14 DEF WriteInv, DecidedOnce

LEMMA FailedStep ==
    ASSUME WriteInv, NEW r \in Writes, Busy(r), writes[r].pc # "push", Failed(r),
           UNCHANGED <<bridge, pushes, decided, ran>>
    PROVE  WriteInv' /\ (Promise!Next \/ UNCHANGED <<Commands, Callers>>)
  <1>1. CASE writes[r].attempt < WRITE_RETRIES
    <2>1. writes' = [writes EXCEPT ![r] = WriteAt("push", @.id, @.attempt + 1, @.told)]
      BY <1>1 DEF Failed
    <2>2. WriteInv' /\ UNCHANGED <<Commands, Callers>>
      BY <1>1, <2>1, MoveStep
    <2> QED
      BY <2>2
  <1>2. CASE ~(writes[r].attempt < WRITE_RETRIES)
    <2>1. writes' = [writes EXCEPT ![r] = Answers(@, "failed")]
      BY <1>2 DEF Failed
    <2>2. WriteInv' /\ Promise!Next
      BY <2>1, AnswerStep
    <2> QED
      BY <2>2
  <1> QED
    BY <1>1, <1>2

\* What an envelope says is what the process did; an empty result is passed off
\* as accepted only for a message that arrived.
LEMMA ResultStep ==
    ASSUME WriteInv, NEW r \in Writes, Result(r)
    PROVE  WriteInv' /\ Promise!Next
  <1> DEFINE id == writes[r].id
             a == writes[r].attempt
  <1>1. Busy(r) /\ writes[r].pc # "push" /\ id \in CommandIds /\ a \in Attempts
    BY DEF Result, Busy, WriteInv, Identified
  <1>2. PICK said \in {EmptyAnswer} \cup
               (IF pushes[Here(r)] = "evaluated"
                THEN {OutcomeOf(PushedId(r, a)), "invalid", "unavailable"} ELSE {}) :
          writes' = [writes EXCEPT ![r] = Answers(@, said)]
    BY DEF Result
  <1>3. EmptyAnswer \in {"accepted", "unavailable"}
    BY DEF EmptyAnswer
  <1>4. pushes[<<r, a>>] \in {"arrived", "evaluated"}
    BY DEF Result, WriteInv, Arrived
  <1>5. ASSUME pushes[<<r, a>>] = "evaluated"
        PROVE  /\ OutcomeOf(PushedId(r, a)) \in {"applied", "refused"}
               /\ ran[id] = OutcomeOf(PushedId(r, a))
    <2>1. \E d \in decided : d.id = id
      BY <1>1, <1>5 DEF WriteInv, Evaluated
    <2> DEFINE d == CHOOSE d \in decided : d.id = id
    <2>2. d \in decided /\ d.id = id
      BY <2>1
    <2>3. OutcomeOf(PushedId(r, a)) = d.outcome
      BY DEF OutcomeOf, PushedId
    <2> HIDE DEF d
    <2> QED
      BY <2>2, <2>3 DEF WriteInv, DecidedOnce, Shapes
  <1>6. Fate(id) # "none"
    <2>1. CASE pushes[<<r, a>>] = "arrived"
      <3>1. <<r, a>> \in DOMAIN pushes /\ writes[<<r, a>>[1]].id = id
        BY <1>1 DEF WriteInv, Shapes
      <3> QED
        BY <2>1, <3>1 DEF Fate
    <2>2. CASE pushes[<<r, a>>] = "evaluated"
      BY <1>5, <2>2 DEF Fate
    <2> QED
      BY <1>4, <2>1, <2>2
  <1>7. said \in {"accepted", "unavailable", "invalid"}
        \/ (said \in {"applied", "refused"} /\ ran[id] = said)
    BY <1>2, <1>3, <1>5 DEF Here
  <1>8. UNCHANGED <<pushes, decided, ran>>
    BY DEF Result
  <1> HIDE DEF id, a
  <1>9. said \in {"applied", "refused"} => ran[writes[r].id] = said
    BY <1>7 DEF id
  <1>10. said = "accepted" => Fate(writes[r].id) # "none"
    BY <1>6 DEF id
  <1>11. said \in {"failed", "accepted", "unavailable", "applied", "refused", "invalid"}
    BY <1>7
  <1> QED
    BY <1>1, <1>2, <1>8, <1>9, <1>10, <1>11, AnswerStep

LEMMA WorkerStepInv ==
    ASSUME WriteInv, NEW r \in Writes, WorkerStep(r)
    PROVE  WriteInv' /\ (Promise!Next \/ UNCHANGED <<Commands, Callers>>)
  <1>1. CASE Slot(r)
    <2>1. /\ Busy(r) /\ writes[r].pc # "push" /\ UNCHANGED <<pushes, decided, ran>>
          /\ pushes[Here(r)] \in {"arrived", "evaluated"}
          /\ writes' = [writes EXCEPT ![r].pc = "result"]
      BY <1>1 DEF Slot, Busy
    <2>2. WriteInv' /\ UNCHANGED <<Commands, Callers>>
      BY <2>1, MoveStep
    <2> QED
      BY <2>2
  <1>2. CASE PushFails(r)
    BY <1>2, FailedStep DEF PushFails, Busy
  <1>3. CASE ResultFails(r)
    <2>1. CASE writes[r].pc = "result" /\ writes' = [writes EXCEPT ![r].pc = "compute"]
      <3>1. pushes[Here(r)] \in {"arrived", "evaluated"}
        BY <2>1 DEF WriteInv, Arrived, Here
      <3>2. Busy(r) /\ writes[r].pc # "push" /\ UNCHANGED <<pushes, decided, ran>>
        BY <1>3, <2>1 DEF ResultFails, Busy
      <3>3. WriteInv' /\ UNCHANGED <<Commands, Callers>>
        BY <2>1, <3>1, <3>2, MoveStep
      <3> QED
        BY <3>3
    <2>2. CASE writes[r].pc = "compute" /\ Failed(r)
      BY <1>3, <2>2, FailedStep DEF ResultFails, Busy
    <2> QED
      BY <1>3, <2>1, <2>2 DEF ResultFails
  <1> QED
    BY <1>1, <1>2, <1>3, PushStep, ResultStep DEF WorkerStep

-----------------------------------------------------------------------------
(***************************************************************************)
(* Steps of the network and of the process                                 *)
(***************************************************************************)

\* The first copy of a command that arrives queues it.
LEMMA CarryStep ==
    ASSUME WriteInv, NEW p \in Writes \X Attempts, Carry(p)
    PROVE  WriteInv' /\ (Promise!Next \/ UNCHANGED <<Commands, Callers>>)
  <1> DEFINE id == writes[p[1]].id
  <1>1. PICK fate \in {"arrived", "lost"} : pushes' = [pushes EXCEPT ![p] = fate]
    BY DEF Carry
  <1>2. pushes[p] = "sent" /\ UNCHANGED <<writes, decided, ran>>
    BY DEF Carry
  <1>3. p = <<p[1], p[2]>> /\ p[1] \in Writes /\ p[2] \in Attempts
    OBVIOUS
  <1>4. /\ pushes'[p] = fate
        /\ \A q \in Writes \X Attempts : q # p => pushes'[q] = pushes[q]
        /\ DOMAIN pushes = Writes \X Attempts /\ DOMAIN pushes' = Writes \X Attempts
    BY <1>1 DEF WriteInv, Shapes
  <1>5. Shapes'
    BY <1>1, <1>2 DEF WriteInv, Shapes
  <1>6. id \in CommandIds
    BY <1>2, <1>3 DEF WriteInv, InTurn
  <1>7. \A r \in Writes, a \in Attempts :
           \/ <<r, a>> = p /\ pushes[<<r, a>>] = "sent" /\ pushes'[<<r, a>>] = fate
           \/ pushes'[<<r, a>>] = pushes[<<r, a>>]
    BY <1>2, <1>4
  <1>8. Identified'
    BY <1>2 DEF WriteInv, Identified, Busy
  <1>9. InTurn' /\ Evaluated'
    BY <1>2, <1>7 DEF WriteInv, InTurn, Evaluated
  <1>10. Arrived'
    <2> SUFFICES ASSUME NEW r \in Writes, writes[r].pc \in {"result", "compute"}
                 PROVE  pushes'[<<r, writes[r].attempt>>] \in {"arrived", "evaluated"}
      BY <1>2 DEF Arrived
    <2>1. pushes[<<r, writes[r].attempt>>] \in {"arrived", "evaluated"}
      BY DEF WriteInv, Arrived
    <2>2. writes[r].attempt \in Attempts
      BY DEF WriteInv, Identified, Busy
    <2> QED
      BY <1>7, <2>1, <2>2
  <1>11. WriteInv'
    BY <1>2, <1>5, <1>8, <1>9, <1>10 DEF WriteInv, DecidedOnce
  <1>12. Callers' = Callers
    BY <1>2 DEF Callers, Heard
  <1>13. CASE fate = "lost" \/ Fate(id) # "none"
    <2>1. ASSUME NEW i \in CommandIds PROVE Fate(i)' = Fate(i)
      <3> DEFINE before == \E q \in DOMAIN pushes : pushes[q] = "arrived" /\ writes[q[1]].id = i
                 after == \E q \in DOMAIN pushes : pushes'[q] = "arrived" /\ writes[q[1]].id = i
      <3>1. Fate(i) = (IF ran[i] = "none" /\ before THEN "queued" ELSE ran[i])
            /\ Fate(i)' = (IF ran[i] = "none" /\ after THEN "queued" ELSE ran[i])
        BY <1>2, <1>4 DEF Fate
      <3>2. before => after
        BY <1>2, <1>4
      <3>3. after => before \/ (fate = "arrived" /\ i = id)
        BY <1>2, <1>4
      <3> HIDE DEF before, after
      <3>4. CASE fate = "arrived" /\ i = id
        <4>1. ran[i] # "none" \/ before
          BY <1>13, <3>1, <3>4
        <4> QED
          BY <3>1, <3>2, <4>1
      <3>5. CASE ~(fate = "arrived" /\ i = id)
        BY <3>1, <3>2, <3>3, <3>5
      <3> QED
        BY <3>4, <3>5
    <2>2. Commands' = Commands
      BY <2>1 DEF Commands
    <2> QED
      BY <1>11, <1>12, <2>2
  <1>14. CASE fate = "arrived" /\ Fate(id) = "none"
    <2>1. ran[id] = "none"
      BY <1>6, <1>14 DEF Fate
    <2>2. Fate(id)' = "queued"
      BY <1>2, <1>4, <1>14, <2>1 DEF Fate
    <2>3. ASSUME NEW i \in CommandIds, i # id PROVE Fate(i)' = Fate(i)
      <3>1. (\E q \in DOMAIN pushes' : pushes'[q] = "arrived" /\ writes[q[1]].id = i)
            <=> (\E q \in DOMAIN pushes : pushes[q] = "arrived" /\ writes[q[1]].id = i)
        BY <1>2, <1>4, <2>3
      <3> QED
        BY <1>2, <3>1 DEF Fate
    <2>4. Commands' = [Commands EXCEPT ![id] = "queued"] /\ Commands[id] = "none"
      BY <1>2, <1>6, <1>14, <2>2, <2>3 DEF Commands
    <2> HIDE DEF id
    <2>5. Promise!Queue(id)
      BY <1>12, <2>4 DEF Promise!Queue, Commands, Callers
    <2> QED
      BY <1>6, <1>11, <2>5 DEF Promise!Next
  <1> QED
    BY <1>13, <1>14

\* A copy of a command the process knows changes nothing; the first one runs it.
LEMMA EvaluateStep ==
    ASSUME WriteInv, NEW r \in Writes, NEW a \in Attempts, Evaluate(r, a)
    PROVE  WriteInv' /\ (Promise!Next \/ UNCHANGED <<Commands, Callers>>)
  <1> DEFINE id == writes[r].id
             p == <<r, a>>
  <1>1. /\ pushes[p] = "arrived" /\ pushes' = [pushes EXCEPT ![p] = "evaluated"]
        /\ UNCHANGED writes
    BY DEF Evaluate
  <1>2. id \in CommandIds
    BY <1>1 DEF WriteInv, InTurn
  <1>3. /\ pushes'[p] = "evaluated"
        /\ \A q \in Writes \X Attempts : q # p => pushes'[q] = pushes[q]
        /\ DOMAIN pushes = Writes \X Attempts /\ DOMAIN pushes' = Writes \X Attempts
    BY <1>1 DEF WriteInv, Shapes
  <1>4. /\ pushes' \in [Writes \X Attempts -> {"unsent", "sent", "arrived", "lost", "evaluated"}]
        /\ writes' \in [Writes -> Standing]
    BY <1>1 DEF WriteInv, Shapes
  <1>5. Identified' /\ InTurn' /\ Callers' = Callers
    <2>1. Identified' /\ Callers' = Callers
      BY <1>1 DEF WriteInv, Identified, Busy, Callers, Heard
    <2>2. \A q \in Writes, b \in Attempts : pushes'[<<q, b>>] # "unsent" => pushes[<<q, b>>] # "unsent"
      BY <1>1, <1>3
    <2> QED
      BY <1>1, <2>1, <2>2 DEF WriteInv, InTurn
  <1>6. Arrived'
    <2> SUFFICES ASSUME NEW q \in Writes, writes[q].pc \in {"result", "compute"}
                 PROVE  pushes'[<<q, writes[q].attempt>>] \in {"arrived", "evaluated"}
      BY <1>1 DEF Arrived
    <2>1. pushes[<<q, writes[q].attempt>>] \in {"arrived", "evaluated"}
      BY DEF WriteInv, Arrived
    <2>2. writes[q].attempt \in Attempts
      BY DEF WriteInv, Identified, Busy
    <2> QED
      BY <1>3, <2>1, <2>2
  <1>7. \A q \in Writes, b \in Attempts : pushes'[<<q, b>>] = "evaluated" =>
           (q = r /\ b = a) \/ pushes[<<q, b>>] = "evaluated"
    BY <1>3
  <1>8. ASSUME NEW i \in CommandIds, i # id, ran'[i] = ran[i] PROVE Fate(i)' = Fate(i)
    <2>1. (\E q \in DOMAIN pushes' : pushes'[q] = "arrived" /\ writes[q[1]].id = i)
          <=> (\E q \in DOMAIN pushes : pushes[q] = "arrived" /\ writes[q[1]].id = i)
      BY <1>3, <1>8
    <2> QED
      BY <1>1, <1>8, <2>1 DEF Fate
  <1>9. CASE \E d \in decided : d.id = id
    <2>1. UNCHANGED <<decided, ran>>
      BY <1>9 DEF Evaluate, PushedId
    <2>2. Evaluated'
      BY <1>1, <1>7, <1>9, <2>1 DEF WriteInv, Evaluated
    <2>3. ran[id] # "none"
      BY <1>9 DEF WriteInv, DecidedOnce, Shapes
    <2>4. Fate(id)' = Fate(id)
      BY <1>1, <2>1, <2>3 DEF Fate
    <2>5. Commands' = Commands
      BY <1>1, <1>8, <2>1, <2>4 DEF Commands
    <2> QED
      BY <1>4, <1>5, <1>6, <2>1, <2>2, <2>5 DEF WriteInv, Shapes, DecidedOnce
  <1>10. CASE ~(\E d \in decided : d.id = id)
    <2>1. ran[id] = "none"
      BY <1>2, <1>10 DEF WriteInv, DecidedOnce
    <2>2. PICK outcome \in {"applied", "refused"} :
            /\ decided' = decided \cup {[id |-> id, outcome |-> outcome]}
            /\ ran' = [ran EXCEPT ![id] = IF @ = "none" THEN outcome ELSE "again"]
      BY <1>10 DEF Evaluate, PushedId
    <2>3. ran' = [ran EXCEPT ![id] = outcome]
      BY <2>1, <2>2
    <2>4. ran'[id] = outcome /\ \A i \in CommandIds : i # id => ran'[i] = ran[i]
      BY <1>2, <2>3 DEF WriteInv, Shapes
    <2>5. Shapes'
      BY <1>2, <1>4, <2>2, <2>3 DEF WriteInv, Shapes
    <2> DEFINE new == [id |-> id, outcome |-> outcome]
    <2>6. new.id = id /\ new.outcome = outcome /\ decided' = decided \cup {new}
      BY <2>2
    <2> HIDE DEF new
    <2>7. DecidedOnce'
      <3>1. \A d \in decided : d.id \in CommandIds /\ d.id # id
        BY <1>10 DEF WriteInv, Shapes
      <3> QED
        BY <2>4, <2>6, <3>1 DEF WriteInv, DecidedOnce
    <2>8. Evaluated'
      BY <1>1, <1>7, <2>6 DEF WriteInv, Evaluated
    <2>9. Fate(id) = "queued"
      BY <1>1, <1>3, <2>1 DEF Fate
    <2>10. Fate(id)' = outcome
      BY <1>1, <2>4 DEF Fate
    <2>11. Commands' = [Commands EXCEPT ![id] = outcome] /\ Commands[id] = "queued"
      BY <1>1, <1>2, <1>8, <2>4, <2>9, <2>10 DEF Commands
    <2> HIDE DEF id, p
    <2>12. Promise!Run(id, outcome)
      BY <1>5, <2>11 DEF Promise!Run, Commands, Callers
    <2>13. Promise!Next
      BY <1>2, <2>12 DEF Promise!Next
    <2> QED
      BY <1>5, <1>6, <2>5, <2>7, <2>8, <2>13 DEF WriteInv
  <1> QED
    BY <1>9, <1>10

-----------------------------------------------------------------------------

LEMMA WritesStep ==
    ASSUME WriteInv, [WritesNext]_writeVars
    PROVE  WriteInv' /\ (Promise!Next \/ UNCHANGED <<Commands, Callers>>)
  <1>1. CASE UNCHANGED writeVars
    <2>1. UNCHANGED <<bridge, writes, pushes, decided, ran>>
      BY <1>1 DEF writeVars
    <2>2. WriteInv'
      BY <2>1 DEF WriteInv, Shapes, Identified, Busy, InTurn, Arrived, DecidedOnce, Evaluated
    <2>3. UNCHANGED <<Commands, Callers>>
      BY <2>1 DEF Commands, Callers, Fate, Heard
    <2> QED
      BY <2>2, <2>3
  <1>2. ASSUME NEW p \in Writes \X Attempts, Evaluate(p[1], p[2])
        PROVE  WriteInv' /\ (Promise!Next \/ UNCHANGED <<Commands, Callers>>)
    <2>1. p[1] \in Writes /\ p[2] \in Attempts
      OBVIOUS
    <2> QED
      BY <1>2, <2>1, EvaluateStep
  <1> QED
    BY <1>1, <1>2, AdmitStep, WorkerStepInv, CarryStep DEF WritesNext

\* POST /api/checkout keeps what CommandOnce promises, for any number of callers,
\* pushes and ids: a command runs once, and every answer is what became of it.
THEOREM KeepsPromiseCorrect == WritesSpec => KeepsPromise
  <1>1. WritesInit => Promise!Init
    BY DEF WritesInit, NewWrite, WriteAt, Promise!Init, Promise!Silence, Fate, Heard
  <1>2. WriteInv /\ [WritesNext]_writeVars
           => [Promise!Next]_<<Commands, Callers>>
    BY WritesStep
  <1>3. WriteInv /\ [WritesNext]_writeVars => WriteInv'
    BY WritesStep
  <1> QED
    BY <1>1, <1>2, <1>3, WriteInitInv, PTL
       DEF WritesSpec, KeepsPromise, Promise!Spec, Commands, Callers

-----------------------------------------------------------------------------
(* Reads *)

\* A request is a record with these fields.
IsRead(read) ==
    read = [pc |-> read.pc, kind |-> read.kind, site |-> read.site, host |-> read.host,
            pid |-> read.pid, step |-> read.step, dryError |-> read.dryError,
            signed |-> read.signed, answer |-> read.answer, told |-> read.told]

LEMMA ToldRead ==
    ASSUME NEW read, IsRead(read), NEW told, NEW next, next = Told(read, told)
    PROVE  /\ IsRead(next)
           /\ next.pc = "answered" /\ next.step = "none" /\ next.told = told
           /\ next.kind = read.kind /\ next.pid = read.pid /\ next.dryError = read.dryError
  BY DEF IsRead, Told

LEMMA PidRead ==
    ASSUME NEW read, IsRead(read), NEW pid, NEW next, next = [read EXCEPT !.pid = pid]
    PROVE  /\ IsRead(next) /\ next.pid = pid
           /\ next.pc = read.pc /\ next.told = read.told
           /\ next.kind = read.kind /\ next.site = read.site /\ next.host = read.host
           /\ next.dryError = read.dryError
  BY DEF IsRead

Calls == {"lookup", "page", "host"}

\* The fields of a site's pointers that name pid, and none that names another.
Names(p, pid) ==
    /\ {p.runtime, p.scalar} \subseteq {pid, Absent}
    /\ pid \in {p.runtime, p.record, p.scalar} \cup p.generic

\* The process of a page is configured, or what the registry knew names it.
PidNamed(saw, pid) ==
    \/ readConfig.sitePid = pid
    \/ readConfig.sitePid = Absent /\ \E p \in saw : Names(p, pid)

Asking(read) == read.step \in {"result", "compute"}

Kinds(read) ==
    /\ read.pc \in {"new", "answered"} \cup Calls
    /\ read.kind \in {"page", "host"}
    /\ read.pc \in {"new", "lookup", "page"} => read.kind = "page"
    /\ read.pc = "host" => read.kind = "host"
    /\ read.pc \in {"new", "answered"} => read.step = "none"
    /\ read.pc # "answered" => read.told = "nothing"
    /\ read.dryError # "ok"

\* Where what a request asks, or has been told, comes from.
Origin(read, saw) ==
    /\ read.pc = "lookup" =>
          /\ readConfig.sitePid = Absent /\ read.site \in ReadSites
          /\ pointers[read.site] \in saw
          /\ Asking(read) => \E p \in saw : read.answer = Named(p)
    /\ read.pc = "host" =>
          /\ read.host \in Hosts /\ bound[read.host] \in saw
          /\ Asking(read) => read.answer \subseteq saw \ {Absent}
    /\ read.pc = "page" => PidNamed(saw, read.pid)
    /\ read.told = "ok" => IF read.kind = "host" THEN read.pid \in saw \ {Absent}
                           ELSE PidNamed(saw, read.pid)

\* The messages of the call under way: one for each signer so far.
Allowed(read) ==
    CASE read.step = "dryrun" -> 0
      [] read.step = "message" -> IF read.signed THEN 1 ELSE 0
      [] OTHER -> IF read.signed THEN 2 ELSE 1

Sparing(read, row) ==
    /\ \A call \in Calls : row[call] <= 2
    /\ read.pc = "new" => \A call \in Calls : row[call] = 0
    /\ read.pc = "lookup" => row["page"] = 0
    /\ read.pc \in Calls => row[read.pc] <= Allowed(read)

Good(read, saw, row) ==
    IsRead(read) /\ row \in [Calls -> Nat] /\ Kinds(read) /\ Origin(read, saw)
    /\ Sparing(read, row)

ReadInv ==
    /\ reads = [r \in Reads |-> reads[r]]
    /\ seen = [r \in Reads |-> seen[r]]
    /\ appended = [r \in Reads |-> appended[r]]
    /\ pointers = [site \in ReadSites |-> pointers[site]]
    /\ bound = [host \in Hosts |-> bound[host]]
    /\ \A r \in Reads : Good(reads[r], seen[r], appended[r])

LEMMA ReadInit == ReadsInit => ReadInv
  <1> SUFFICES ASSUME ReadsInit PROVE ReadInv
    OBVIOUS
  <1>1. ASSUME NEW r \in Reads PROVE Good(reads[r], seen[r], appended[r])
    <2>1. reads[r] = NewRead /\ seen[r] = {} /\ appended[r] = [call \in Calls |-> 0]
      BY DEF ReadsInit, Calls
    <2>2. PICK read : read = NewRead
      OBVIOUS
    <2>3. /\ IsRead(read) /\ read.pc = "new" /\ read.kind = "page" /\ read.step = "none"
          /\ read.told = "nothing" /\ read.dryError = "none"
      BY <2>2 DEF NewRead, IsRead
    <2>4. PICK row : row = [call \in Calls |-> 0]
      OBVIOUS
    <2>5. row \in [Calls -> Nat] /\ \A call \in Calls : row[call] = 0
      BY <2>4
    <2>6. Kinds(read) /\ Origin(read, {}) /\ Sparing(read, row)
      BY <2>3, <2>5 DEF Kinds, Origin, Sparing, Calls
    <2> QED
      BY <2>1, <2>2, <2>3, <2>4, <2>5, <2>6 DEF Good
  <1> QED
    BY <1>1 DEF ReadsInit, ReadInv

\* A step of one request.
LEMMA ReadMove ==
    ASSUME ReadInv, NEW r \in Reads, NEW next, NEW saw, NEW row, Step(r, next),
           seen' = [seen EXCEPT ![r] = saw], appended' = [appended EXCEPT ![r] = row],
           UNCHANGED <<readConfig, pointers, bound>>, Good(next, saw, row)
    PROVE  ReadInv'
  <1>1. Good(next, saw, row)'
    BY DEF Good, Origin, PidNamed
  <1>2. reads'[r] = next /\ seen'[r] = saw /\ appended'[r] = row
    BY DEF ReadInv, Step
  <1>3. ASSUME NEW q \in Reads, q # r PROVE Good(reads[q], seen[q], appended[q])'
    <2>1. PICK a, b, c : a = reads[q] /\ b = seen[q] /\ c = appended[q]
      OBVIOUS
    <2>2. reads'[q] = a /\ seen'[q] = b /\ appended'[q] = c
      BY <1>3, <2>1 DEF ReadInv, Step
    <2>3. Good(a, b, c)
      BY <2>1 DEF ReadInv
    <2>4. Good(a, b, c)'
      BY <2>3 DEF Good, Origin, PidNamed
    <2> QED
      BY <2>2, <2>4
  <1>4. \A q \in Reads : Good(reads[q], seen[q], appended[q])'
    <2>1. Good(reads[r], seen[r], appended[r])'
      BY <1>1, <1>2
    <2> QED
      BY <1>3, <2>1
  <1>5. /\ reads' = [q \in Reads |-> reads'[q]]
        /\ seen' = [q \in Reads |-> seen'[q]]
        /\ appended' = [q \in Reads |-> appended'[q]]
    BY DEF ReadInv, Step
  <1>6. /\ pointers' = [site \in ReadSites |-> pointers'[site]]
        /\ bound' = [host \in Hosts |-> bound'[host]]
    BY DEF ReadInv
  <1> QED
    BY <1>4, <1>5, <1>6 DEF ReadInv

\* The same when only the request itself moves.
LEMMA ReadMoves ==
    ASSUME ReadInv, NEW r \in Reads, NEW next, Step(r, next),
           UNCHANGED <<readConfig, pointers, bound, seen, appended>>,
           Good(next, seen[r], appended[r])
    PROVE  ReadInv'
  <1>1. PICK saw, row : saw = seen[r] /\ row = appended[r]
    OBVIOUS
  <1>2. seen' = [seen EXCEPT ![r] = saw] /\ appended' = [appended EXCEPT ![r] = row]
    BY <1>1 DEF ReadInv
  <1> QED
    BY <1>1, <1>2, ReadMove

\* A process that the fields name is named by them, and by no other.
LEMMA NamedNames ==
    ASSUME NEW p, NEW pid \in Named(p)
    PROVE  Names(p, pid)
  <1> DEFINE record == IF p.scalar = Absent THEN p.record ELSE p.scalar
             there == {p.runtime, record, p.scalar} \ {Absent}
  <1>1. CASE there # {}
    <2>1. pid \in there /\ Cardinality(there) = 1
      BY <1>1 DEF Named
    <2>2. IsFiniteSet({p.runtime, record, p.scalar})
      <3> HIDE DEF record
      <3>1. IsFiniteSet({p.runtime})
        BY FS_Singleton
      <3>2. IsFiniteSet({p.runtime} \cup {record})
        BY <3>1, FS_AddElement
      <3>3. IsFiniteSet(({p.runtime} \cup {record}) \cup {p.scalar})
        BY <3>2, FS_AddElement
      <3>4. ({p.runtime} \cup {record}) \cup {p.scalar} = {p.runtime, record, p.scalar}
        OBVIOUS
      <3> QED
        BY <3>3, <3>4
    <2>3. IsFiniteSet(there)
      BY <2>2, FS_Subset
    <2>4. PICK x : there = {x}
      <3> HIDE DEF there
      <3> QED
        BY <2>1, <2>3, FS_Singleton
    <2>5. pid = x
      BY <2>1, <2>4
    <2>6. p.runtime \in {pid, Absent} /\ p.scalar \in {pid, Absent}
      BY <2>4, <2>5
    <2>7. pid \in {p.runtime, p.record, p.scalar}
      BY <2>1
    <2> QED
      BY <2>6, <2>7 DEF Names
  <1>2. CASE there = {}
    <2>1. pid \in p.generic
      BY <1>2 DEF Named
    <2>2. p.runtime = Absent /\ p.scalar = Absent
      BY <1>2
    <2> QED
      BY <2>1, <2>2 DEF Names
  <1> QED
    BY <1>1, <1>2

\* The end of a request, whatever its call was about.
LEMMA GoodEnd ==
    ASSUME NEW read, IsRead(read), read.kind \in {"page", "host"}, read.dryError # "ok",
           NEW saw, NEW row, row \in [Calls -> Nat], \A call \in Calls : row[call] <= 2,
           NEW told,
           told = "ok" => IF read.kind = "host" THEN read.pid \in saw \ {Absent}
                          ELSE PidNamed(saw, read.pid)
    PROVE  Good(Told(read, told), saw, row)
  <1>1. PICK next : next = Told(read, told)
    OBVIOUS
  <1>2. /\ IsRead(next)
        /\ next.pc = "answered" /\ next.step = "none" /\ next.told = told
        /\ next.kind = read.kind /\ next.pid = read.pid /\ next.dryError = read.dryError
    BY <1>1, ToldRead
  <1>3. Kinds(next)
    BY <1>2 DEF Kinds, Calls
  <1>4. Origin(next, saw)
    BY <1>2 DEF Origin
  <1>5. Sparing(next, row)
    BY <1>2 DEF Sparing, Calls
  <1> QED
    BY <1>1, <1>2, <1>3, <1>4, <1>5 DEF Good

LEMMA GoodTold ==
    ASSUME NEW read, NEW saw, NEW row, Good(read, saw, row), NEW told,
           told = "ok" => IF read.kind = "host" THEN read.pid \in saw \ {Absent}
                          ELSE PidNamed(saw, read.pid)
    PROVE  Good(Told(read, told), saw, row)
  BY GoodEnd DEF Good, Kinds, Sparing

\* The call of a page begins.
LEMMA GoodPage ==
    ASSUME NEW read, NEW saw, NEW row, IsRead(read), row \in [Calls -> Nat],
           read.kind = "page", read.told = "nothing", PidNamed(saw, read.pid),
           \A call \in Calls : row[call] <= 2, row["page"] = 0,
           NEW next, next = Call(read, "page")
    PROVE  Good(next, saw, row)
  <1>1. /\ IsRead(next)
        /\ next.pc = "page" /\ next.step \in {"dryrun", "message"} /\ next.signed = FALSE
        /\ next.kind = read.kind /\ next.pid = read.pid /\ next.told = read.told
        /\ next.dryError = "none"
    BY DEF IsRead, Call, FirstStep
  <1>2. Kinds(next)
    BY <1>1 DEF Kinds, Calls
  <1>3. Origin(next, saw)
    BY <1>1 DEF Origin
  <1>4. Sparing(next, row)
    BY <1>1 DEF Sparing, Allowed
  <1> QED
    BY <1>1, <1>2, <1>3, <1>4 DEF Good

\* The first call of a request to the registry begins: for the process of a site,
\* or the site of a host.
LEMMA GoodFirst ==
    ASSUME NEW read, NEW saw, NEW row, IsRead(read), row \in [Calls -> Nat],
           read.told = "nothing", \A call \in Calls : row[call] = 0,
           NEW pc \in {"lookup", "host"},
           pc = "lookup" => /\ read.kind = "page" /\ readConfig.sitePid = Absent
                            /\ read.site \in ReadSites /\ pointers[read.site] \in saw,
           pc = "host" => /\ read.kind = "host"
                          /\ read.host \in Hosts /\ bound[read.host] \in saw,
           NEW next, next = Call(read, pc)
    PROVE  Good(next, saw, row)
  <1>1. /\ IsRead(next)
        /\ next.pc = pc /\ next.step \in {"dryrun", "message"} /\ next.signed = FALSE
        /\ next.kind = read.kind /\ next.pid = read.pid /\ next.site = read.site
        /\ next.host = read.host /\ next.told = read.told /\ next.dryError = "none"
    BY DEF IsRead, Call, FirstStep
  <1>2. Kinds(next)
    BY <1>1 DEF Kinds, Calls
  <1>3. Origin(next, saw)
    BY <1>1 DEF Origin, Asking
  <1>4. Sparing(next, row)
    BY <1>1 DEF Sparing, Allowed, Calls
  <1> QED
    BY <1>1, <1>2, <1>3, <1>4 DEF Good

\* An answer of the call under way: what came from the process asked.
Answer(read, saw, answer) ==
    /\ read.pc = "lookup" => \E p \in saw : answer = Named(p)
    /\ read.pc = "host" => answer \subseteq saw \ {Absent}

LEMMA GoodUse ==
    ASSUME NEW read, NEW saw, NEW row, Good(read, saw, row), read.pc \in Calls,
           NEW answer, Answer(read, saw, answer)
    PROVE  Good(Use(read, answer), saw, row)
  <1>1. CASE read.pc = "lookup" /\ answer # {}
    <2>0. PICK p \in saw : answer = Named(p)
      BY <1>1 DEF Answer
    <2>1. PICK pid \in Named(p) : pid = CHOOSE x \in answer : TRUE
      BY <1>1, <2>0
    <2>2. PidNamed(saw, pid)
      BY <1>1, <2>1, NamedNames DEF Good, Origin, PidNamed
    <2>3. PICK asked : asked = [read EXCEPT !.pid = pid]
      OBVIOUS
    <2>4. /\ IsRead(asked) /\ asked.pid = pid /\ asked.kind = "page"
          /\ asked.told = "nothing"
      BY <1>1, <2>3, PidRead DEF Good, Kinds
    <2>5. row \in [Calls -> Nat] /\ row["page"] = 0 /\ \A call \in Calls : row[call] <= 2
      BY <1>1 DEF Good, Sparing
    <2>6. Good(Call(asked, "page"), saw, row)
      BY <2>2, <2>4, <2>5, GoodPage
    <2>7. Use(read, answer) = Call(asked, "page")
      BY <1>1, <2>1, <2>3 DEF Use
    <2> QED
      BY <2>6, <2>7
  <1>2. CASE read.pc = "host" /\ answer # {}
    <2>1. PICK site \in answer : site = CHOOSE x \in answer : TRUE
      BY <1>2
    <2>2. PICK asked : asked = [read EXCEPT !.pid = site]
      OBVIOUS
    <2>3. /\ IsRead(asked) /\ asked.pid = site /\ asked.kind = "host"
          /\ asked.dryError # "ok"
      BY <1>2, <2>2, PidRead DEF Good, Kinds
    <2>4. asked.pid \in saw \ {Absent}
      BY <1>2, <2>1, <2>3 DEF Answer
    <2>5. Good(Told(asked, "ok"), saw, row)
      BY <2>3, <2>4, GoodEnd DEF Good, Sparing
    <2>6. Use(read, answer) = Told(asked, "ok")
      BY <1>2, <2>1, <2>2 DEF Use
    <2> QED
      BY <2>5, <2>6
  <1>3. CASE read.pc = "page"
    <2>1. Use(read, answer) = Told(read, "ok")
      BY <1>3 DEF Use
    <2>2. PidNamed(saw, read.pid) /\ read.kind = "page"
      BY <1>3 DEF Good, Origin, Kinds
    <2> QED
      BY <2>1, <2>2, GoodTold
  <1>4. CASE read.pc \in {"lookup", "host"} /\ answer = {}
    <2>1. PICK told \in {"missing_ao_site_process_id", "not_found"} :
             Use(read, answer) = Told(read, told)
      BY <1>4 DEF Use
    <2> QED
      BY <2>1, GoodTold
  <1> QED
    BY <1>1, <1>2, <1>3, <1>4 DEF Calls

LEMMA GoodUseWithout ==
    ASSUME NEW read, NEW saw, NEW row, Good(read, saw, row), NEW shape
    PROVE  Good(UseWithout(read, shape), saw, row)
  <1>1. PICK told \in {"missing_ao_site_process_id", "invalid_response", "not_found"} :
           UseWithout(read, shape) = Told(read, told)
    BY DEF UseWithout
  <1> QED
    BY <1>1, GoodTold

\* A step that ends a call with an answer.
LEMMA AnsweredStep ==
    ASSUME ReadInv, NEW r \in Reads, reads[r].pc \in Calls, NEW answer,
           Answer(reads[r], seen[r], answer), Answered(r, answer),
           UNCHANGED <<readConfig, pointers, bound, seen, appended>>
    PROVE  ReadInv'
  <1>1. Good(reads[r], seen[r], appended[r])
    BY DEF ReadInv
  <1>2. PICK read, saw, row : read = reads[r] /\ saw = seen[r] /\ row = appended[r]
    OBVIOUS
  <1>3. PICK next : Step(r, next) /\ Good(next, saw, row)
    <2>1. CASE Step(r, Use(read, answer))
      BY <1>1, <1>2, <2>1, GoodUse
    <2>2. ASSUME NEW shape, Step(r, UseWithout(read, shape))
          PROVE  \E next : Step(r, next) /\ Good(next, saw, row)
      BY <1>1, <1>2, <2>2, GoodUseWithout
    <2> QED
      BY <1>2, <2>1, <2>2 DEF Answered
  <1> QED
    BY <1>2, <1>3, ReadMoves

\* What the process says at this moment is an answer.
LEMMA SaysAnswer ==
    ASSUME ReadInv, NEW r \in Reads
    PROVE  Answer(reads[r], seen[r], Says(r))
  <1>1. Origin(reads[r], seen[r])
    BY DEF ReadInv, Good
  <1> QED
    BY <1>1 DEF Origin, Answer, Says

LEMMA StartPageStep ==
    ASSUME ReadInv, NEW r \in Reads, NEW site \in ReadSites, NEW fields, StartPage(r, site, fields)
    PROVE  ReadInv'
  <1>1. Good(reads[r], seen[r], appended[r]) /\ reads[r].pc = "new"
    BY DEF ReadInv, StartPage
  <1>2. PICK old, row, saw : /\ old = reads[r] /\ row = appended[r]
                             /\ saw = {pointers[site]}
    OBVIOUS
  <1>3. PICK read : read = [old EXCEPT !.site = site]
    OBVIOUS
  <1>4. /\ IsRead(read) /\ read.pc = "new" /\ read.kind = "page" /\ read.site = site
        /\ read.step = "none" /\ read.told = "nothing" /\ read.dryError # "ok"
    BY <1>1, <1>2, <1>3 DEF Good, Kinds, IsRead
  <1>5. /\ row \in [Calls -> Nat] /\ \A call \in Calls : row[call] = 0
    BY <1>1, <1>2 DEF Good, Sparing
  <1>6. \A call \in Calls : row[call] <= 2
    BY <1>5
  <1>7. Good(read, saw, row)
    BY <1>4, <1>5, <1>6 DEF Good, Kinds, Origin, Sparing, Calls
  <1>8. PICK next : Step(r, next) /\ Good(next, saw, row)
    <2>1. ASSUME NEW told \in {"rejected", "missing_ao_site_process_id"},
                 Step(r, Told(read, told))
          PROVE  \E next : Step(r, next) /\ Good(next, saw, row)
      BY <1>7, <2>1, GoodTold
    <2>2. CASE Step(r, Call([read EXCEPT !.pid = readConfig.sitePid], "page"))
      <3>1. PICK asked : asked = [read EXCEPT !.pid = readConfig.sitePid]
        OBVIOUS
      <3>2. /\ IsRead(asked) /\ asked.pid = readConfig.sitePid /\ asked.kind = "page"
            /\ asked.told = "nothing"
        BY <1>4, <3>1, PidRead
      <3>3. PidNamed(saw, asked.pid)
        BY <3>2 DEF PidNamed
      <3>4. row["page"] = 0
        BY <1>5 DEF Calls
      <3>5. Good(Call(asked, "page"), saw, row)
        BY <1>5, <1>6, <3>2, <3>3, <3>4, GoodPage
      <3> QED
        BY <2>2, <3>1, <3>5
    <2>3. CASE readConfig.sitePid = Absent /\ Step(r, Call(read, "lookup"))
      <3>1. Good(Call(read, "lookup"), saw, row)
        BY <1>2, <1>4, <1>5, <2>3, GoodFirst
      <3> QED
        BY <2>3, <3>1
    <2> QED
      BY <1>2, <1>3, <2>1, <2>2, <2>3 DEF StartPage
  <1>9. /\ seen' = [seen EXCEPT ![r] = saw] /\ appended' = [appended EXCEPT ![r] = row]
        /\ UNCHANGED <<readConfig, pointers, bound>>
    BY <1>2 DEF StartPage, ReadInv
  <1> QED
    BY <1>8, <1>9, ReadMove

LEMMA StartHostStep ==
    ASSUME ReadInv, NEW r \in Reads, NEW host \in Hosts \cup {Absent}, StartHost(r, host)
    PROVE  ReadInv'
  <1>1. Good(reads[r], seen[r], appended[r]) /\ reads[r].pc = "new"
    BY DEF ReadInv, StartHost
  <1>2. PICK old, row, saw : /\ old = reads[r] /\ row = appended[r]
                             /\ saw = {bound[h] : h \in Hosts \cap {host}}
    OBVIOUS
  <1>3. PICK read : read = [old EXCEPT !.kind = "host", !.host = host]
    OBVIOUS
  <1>4. /\ IsRead(read) /\ read.pc = "new" /\ read.kind = "host" /\ read.host = host
        /\ read.step = "none" /\ read.told = "nothing" /\ read.dryError # "ok"
    BY <1>1, <1>2, <1>3 DEF Good, Kinds, IsRead
  <1>5. /\ row \in [Calls -> Nat] /\ \A call \in Calls : row[call] = 0
    BY <1>1, <1>2 DEF Good, Sparing
  <1>6. \A call \in Calls : row[call] <= 2
    BY <1>5
  <1>7. PICK next : Step(r, next) /\ Good(next, saw, row)
    <2>1. ASSUME NEW told \in {"rejected", "missing_ao_registry_process_id"},
                 Step(r, Told(read, told))
          PROVE  \E next : Step(r, next) /\ Good(next, saw, row)
      <3>1. Good(Told(read, told), saw, row)
        BY <1>4, <1>5, <1>6, GoodEnd
      <3> QED
        BY <2>1, <3>1
    <2>2. CASE host # Absent /\ Step(r, Call(read, "host"))
      <3>1. host \in Hosts /\ bound[host] \in saw
        BY <1>2, <2>2
      <3>2. Good(Call(read, "host"), saw, row)
        BY <1>4, <1>5, <3>1, GoodFirst
      <3> QED
        BY <2>2, <3>2
    <2> QED
      BY <1>2, <1>3, <2>1, <2>2 DEF StartHost
  <1>8. /\ seen' = [seen EXCEPT ![r] = saw] /\ appended' = [appended EXCEPT ![r] = row]
        /\ UNCHANGED <<readConfig, pointers, bound>>
    BY <1>2 DEF StartHost, ReadInv
  <1> QED
    BY <1>7, <1>8, ReadMove

\* The next step of the same call, with as many messages as that step allows.
LEMMA GoodOn ==
    ASSUME NEW read, NEW saw, NEW row, Good(read, saw, row), read.pc \in Calls,
           NEW next, IsRead(next), next.pc = read.pc, next.kind = read.kind,
           next.site = read.site, next.host = read.host, next.pid = read.pid,
           next.told = read.told, next.dryError # "ok", NEW more, more \in [Calls -> Nat],
           \A call \in Calls : call # read.pc => more[call] = row[call],
           more[read.pc] <= Allowed(next), more[read.pc] <= 2,
           Asking(next) => Answer(read, saw, next.answer)
    PROVE  Good(next, saw, more)
  <1>1. Kinds(next)
    BY DEF Good, Kinds, Calls
  <1>2. Origin(next, saw)
    BY DEF Good, Origin, Answer, Kinds, Calls
  <1>3. Sparing(next, more)
    BY DEF Good, Sparing, Calls
  <1> QED
    BY <1>1, <1>2, <1>3 DEF Good

LEMMA DryRunReadStep ==
    ASSUME ReadInv, NEW r \in Reads, DryRun(r)
    PROVE  ReadInv'
  <1>1. Good(reads[r], seen[r], appended[r]) /\ reads[r].step = "dryrun"
    BY DEF ReadInv, DryRun
  <1>2. reads[r].pc \in Calls
    BY <1>1 DEF Good, Kinds
  <1>3. CASE Answered(r, Says(r))
    BY <1>2, <1>3, SaysAnswer, AnsweredStep DEF DryRun
  <1>4. ASSUME NEW error \in Failures,
               Step(r, [reads[r] EXCEPT !.step = "message", !.dryError = error])
        PROVE  ReadInv'
    <2>1. PICK read, saw, row : read = reads[r] /\ saw = seen[r] /\ row = appended[r]
      OBVIOUS
    <2>2. PICK next : next = [read EXCEPT !.step = "message", !.dryError = error]
      OBVIOUS
    <2>3. /\ IsRead(next) /\ next.pc = read.pc /\ next.kind = read.kind
          /\ next.site = read.site /\ next.host = read.host /\ next.pid = read.pid
          /\ next.told = read.told /\ next.step = "message" /\ next.dryError # "ok"
      BY <1>1, <2>1, <2>2 DEF Good, IsRead, Failures
    <2>4. row \in [Calls -> Nat] /\ row[read.pc] = 0
      <3>1. row \in [Calls -> Nat] /\ row[read.pc] <= 0
        BY <1>1, <1>2, <2>1 DEF Good, Sparing, Allowed
      <3> QED
        BY <1>2, <2>1, <3>1
    <2>5. row[read.pc] <= Allowed(next) /\ row[read.pc] <= 2
      BY <2>3, <2>4 DEF Allowed
    <2>6. Good(next, saw, row)
      BY <1>1, <1>2, <2>1, <2>3, <2>4, <2>5, GoodOn DEF Asking
    <2> QED
      BY <1>4, <2>1, <2>2, <2>6, ReadMoves DEF DryRun
  <1> QED
    BY <1>3, <1>4 DEF DryRun

\* A call that fails for good ends the request without content.
LEMMA GoodBreak ==
    ASSUME NEW r \in Reads, NEW read, read = reads[r], NEW saw, NEW row, NEW more,
           Good(read, saw, row), more \in [Calls -> Nat], \A call \in Calls : more[call] <= 2,
           NEW error \in Failures, Break(r, error)
    PROVE  \E next : Step(r, next) /\ Good(next, saw, more)
  <1>1. PICK told : /\ told \in {"missing_ao_site_process_id", error, read.dryError}
                    /\ Step(r, Told(read, told))
    BY DEF Break
  <1>2. told # "ok"
    BY <1>1 DEF Failures, Good, Kinds
  <1>3. Good(Told(read, told), saw, more)
    BY <1>2, GoodEnd DEF Good, Kinds
  <1> QED
    BY <1>1, <1>3

\* The messages of a call, one more or not.
LEMMA MoreRow ==
    ASSUME NEW row \in [Calls -> Nat], NEW pc \in Calls, NEW n \in {0, 1}, NEW more,
           more = [row EXCEPT ![pc] = @ + n]
    PROVE  /\ more \in [Calls -> Nat] /\ more[pc] = row[pc] + n
           /\ \A call \in Calls : call # pc => more[call] = row[call]
  OBVIOUS

LEMMA MessageStep ==
    ASSUME ReadInv, NEW r \in Reads, Message(r)
    PROVE  ReadInv'
  <1>1. Good(reads[r], seen[r], appended[r]) /\ reads[r].step = "message"
    BY DEF ReadInv, Message
  <1>2. PICK read, saw, row : read = reads[r] /\ saw = seen[r] /\ row = appended[r]
    OBVIOUS
  <1>3. /\ Good(read, saw, row) /\ read.step = "message" /\ read.pc \in Calls /\ IsRead(read)
        /\ row \in [Calls -> Nat] /\ \A call \in Calls : row[call] <= 2
        /\ row[read.pc] <= IF read.signed THEN 1 ELSE 0
    BY <1>1, <1>2 DEF Good, Kinds, Sparing, Allowed
  <1>4. row[read.pc] \in Nat
    BY <1>3
  <1>5. ASSUME NEW n \in {0, 1}, appended' = [appended EXCEPT ![r][read.pc] = @ + n],
               NEW next, Step(r, next),
               \A more \in [Calls -> Nat] :
                  more = [row EXCEPT ![read.pc] = @ + n] => Good(next, saw, more)
        PROVE  ReadInv'
    <2>1. PICK more : more = [row EXCEPT ![read.pc] = @ + n]
      OBVIOUS
    <2>2. Good(next, saw, more)
      BY <1>3, <1>5, <2>1, MoreRow
    <2>3. appended' = [appended EXCEPT ![r] = more] /\ seen' = [seen EXCEPT ![r] = saw]
      BY <1>2, <1>5, <2>1 DEF ReadInv, Message
    <2> QED
      BY <1>5, <2>2, <2>3, ReadMove DEF Message
  <1>6. ASSUME Step(r, [read EXCEPT !.step = "result", !.answer = Says(r)]),
               appended' = [appended EXCEPT ![r][read.pc] = @ + 1]
        PROVE  ReadInv'
    <2>1. PICK next : next = [read EXCEPT !.step = "result", !.answer = Says(r)]
      OBVIOUS
    <2>2. /\ IsRead(next) /\ next.pc = read.pc /\ next.kind = read.kind
          /\ next.site = read.site /\ next.host = read.host /\ next.pid = read.pid
          /\ next.told = read.told /\ next.step = "result" /\ next.answer = Says(r)
          /\ next.signed = read.signed /\ next.dryError = read.dryError
      BY <1>3, <2>1 DEF IsRead
    <2>3. Answer(read, saw, next.answer) /\ next.dryError # "ok"
      BY <1>2, <1>3, <2>2, SaysAnswer DEF Good, Kinds
    <2>4. ASSUME NEW more \in [Calls -> Nat], more = [row EXCEPT ![read.pc] = @ + 1]
          PROVE  Good(next, saw, more)
      <3>1. /\ more[read.pc] = row[read.pc] + 1
            /\ \A call \in Calls : call # read.pc => more[call] = row[call]
        BY <1>3, <2>4, MoreRow
      <3>2. more[read.pc] <= Allowed(next) /\ more[read.pc] <= 2
        BY <1>3, <1>4, <2>2, <3>1 DEF Allowed
      <3> QED
        BY <1>3, <2>2, <2>3, <3>1, <3>2, GoodOn
    <2> QED
      BY <1>5, <1>6, <2>1, <2>4
  <1>7. ASSUME NEW n \in {0, 1}, appended' = [appended EXCEPT ![r][read.pc] = @ + n],
               \/ \E error \in Failures : Break(r, error)
               \/ /\ Resends(r)
                  /\ \/ Step(r, [read EXCEPT !.signed = TRUE])
                     \/ \E told \in {"missing_ao_site_process_id", "missing_ao_wallet_json"} :
                           Step(r, Told(read, told))
        PROVE  ReadInv'
    <2>1. PICK more : more = [row EXCEPT ![read.pc] = @ + n]
      OBVIOUS
    <2>2. /\ more \in [Calls -> Nat] /\ more[read.pc] = row[read.pc] + n
          /\ \A call \in Calls : call # read.pc => more[call] = row[call]
      BY <1>3, <2>1, MoreRow
    <2>3. more[read.pc] <= (IF read.signed THEN 2 ELSE 1) /\ more[read.pc] <= 2
      BY <1>3, <1>4, <2>2
    <2>4. \A call \in Calls : more[call] <= 2
      BY <1>3, <2>2, <2>3
    <2>5. PICK next : Step(r, next) /\ Good(next, saw, more)
      <3>1. ASSUME NEW error \in Failures, Break(r, error)
            PROVE  \E next : Step(r, next) /\ Good(next, saw, more)
        BY <1>2, <1>3, <2>2, <2>4, <3>1, GoodBreak
      <3>2. CASE Resends(r) /\ Step(r, [read EXCEPT !.signed = TRUE])
        <4>1. PICK next : next = [read EXCEPT !.signed = TRUE]
          OBVIOUS
        <4>2. /\ IsRead(next) /\ next.pc = read.pc /\ next.kind = read.kind
              /\ next.site = read.site /\ next.host = read.host /\ next.pid = read.pid
              /\ next.told = read.told /\ next.step = "message" /\ next.signed
              /\ next.dryError = read.dryError
          BY <1>3, <4>1 DEF IsRead
        <4>3. ~read.signed
          BY <1>2, <3>2 DEF Resends
        <4>4. more[read.pc] <= Allowed(next) /\ ~Asking(next) /\ next.dryError # "ok"
          BY <1>3, <2>3, <4>2, <4>3 DEF Allowed, Asking, Good, Kinds
        <4>5. Good(next, saw, more)
          BY <1>3, <2>2, <2>3, <4>2, <4>4, GoodOn
        <4> QED
          BY <3>2, <4>1, <4>5
      <3>3. ASSUME NEW told \in {"missing_ao_site_process_id", "missing_ao_wallet_json"},
                   Step(r, Told(read, told))
            PROVE  \E next : Step(r, next) /\ Good(next, saw, more)
        <4>1. Good(Told(read, told), saw, more)
          BY <1>3, <2>2, <2>4, GoodEnd DEF Good, Kinds
        <4> QED
          BY <3>3, <4>1
      <3> QED
        BY <1>7, <3>1, <3>2, <3>3
    <2>6. appended' = [appended EXCEPT ![r] = more] /\ seen' = [seen EXCEPT ![r] = saw]
      BY <1>2, <1>7, <2>1 DEF ReadInv, Message
    <2> QED
      BY <2>5, <2>6, ReadMove DEF Message
  <1> QED
    BY <1>2, <1>6, <1>7 DEF Message

LEMMA FetchStep ==
    ASSUME ReadInv, NEW r \in Reads, FetchResult(r)
    PROVE  ReadInv'
  <1>1. Good(reads[r], seen[r], appended[r]) /\ Asking(reads[r])
    BY DEF ReadInv, FetchResult, Asking
  <1>2. reads[r].pc \in Calls
    BY <1>1 DEF Good, Kinds, Asking
  <1>3. CASE Answered(r, reads[r].answer)
    <2>1. Answer(reads[r], seen[r], reads[r].answer)
      BY <1>1 DEF Good, Origin, Answer
    <2> QED
      BY <1>2, <1>3, <2>1, AnsweredStep DEF FetchResult
  <1>4. PICK read, saw, row : read = reads[r] /\ saw = seen[r] /\ row = appended[r]
    OBVIOUS
  <1>5. CASE read.step = "result" /\ Step(r, [read EXCEPT !.step = "compute"])
    <2>1. PICK next : next = [read EXCEPT !.step = "compute"]
      OBVIOUS
    <2>2. /\ IsRead(next) /\ next.pc = read.pc /\ next.kind = read.kind
          /\ next.site = read.site /\ next.host = read.host /\ next.pid = read.pid
          /\ next.told = read.told /\ next.step = "compute" /\ next.answer = read.answer
          /\ next.signed = read.signed /\ next.dryError = read.dryError
      BY <1>1, <1>4, <2>1 DEF Good, IsRead
    <2>3. Kinds(next)
      BY <1>1, <1>2, <1>4, <2>2 DEF Good, Kinds, Calls
    <2>4. Origin(next, saw)
      BY <1>1, <1>4, <2>2 DEF Good, Origin, Asking
    <2>5. Allowed(next) = Allowed(read)
      BY <1>5, <2>2 DEF Allowed
    <2>6. Sparing(next, row)
      BY <1>1, <1>4, <2>2, <2>5 DEF Good, Sparing
    <2>7. Good(next, saw, row)
      BY <1>1, <1>4, <2>2, <2>3, <2>4, <2>6 DEF Good
    <2> QED
      BY <1>4, <1>5, <2>1, <2>7, ReadMoves DEF FetchResult
  <1>6. ASSUME NEW error \in Failures, Break(r, error)
        PROVE  ReadInv'
    <2>1. row \in [Calls -> Nat] /\ \A call \in Calls : row[call] <= 2
      BY <1>1, <1>4 DEF Good, Sparing
    <2>2. PICK next : Step(r, next) /\ Good(next, saw, row)
      BY <1>1, <1>4, <1>6, <2>1, GoodBreak
    <2> QED
      BY <1>4, <2>2, ReadMoves DEF FetchResult
  <1> QED
    BY <1>3, <1>4, <1>5, <1>6 DEF FetchResult

\* What a request knew stays known, and so does what it comes from.
LEMMA GoodLater ==
    ASSUME NEW read, NEW saw, NEW row, Good(read, saw, row), NEW more, saw \subseteq more,
           readConfig' = readConfig,
           read.pc = "lookup" => pointers'[read.site] \in more,
           read.pc = "host" => bound'[read.host] \in more
    PROVE  Good(read, more, row)'
  <1>1. Origin(read, more)'
    BY DEF Good, Origin, PidNamed
  <1> QED
    BY <1>1 DEF Good

\* The registry changes the processes of a site, and who reads it sees that.
LEMMA RepointStep ==
    ASSUME ReadInv, NEW site \in ReadSites, NEW p, Repoint(site, p)
    PROVE  ReadInv'
  <1>1. /\ pointers' = [pointers EXCEPT ![site] = p]
        /\ seen' = [r \in Reads |-> IF reads[r].kind = "page" /\ reads[r].site = site
                                    THEN seen[r] \cup {p} ELSE seen[r]]
        /\ UNCHANGED <<readConfig, bound, reads, appended>>
    BY DEF Repoint
  <1>2. ASSUME NEW r \in Reads PROVE Good(reads[r], seen[r], appended[r])'
    <2>1. PICK read, saw, row, more :
             read = reads[r] /\ saw = seen[r] /\ row = appended[r] /\ more = seen'[r]
      OBVIOUS
    <2>2. Good(read, saw, row)
      BY <2>1 DEF ReadInv
    <2>3. saw \subseteq more
      BY <1>1, <2>1
    <2>4. read.pc = "lookup" => pointers'[read.site] \in more
      <3>1. ASSUME read.pc = "lookup", read.site = site PROVE pointers'[read.site] \in more
        BY <1>1, <2>1, <2>2, <3>1 DEF Good, Kinds, ReadInv
      <3>2. ASSUME read.pc = "lookup", read.site # site PROVE pointers'[read.site] \in more
        BY <1>1, <2>1, <2>2, <2>3, <3>2 DEF Good, Origin, ReadInv
      <3> QED
        BY <3>1, <3>2
    <2>5. read.pc = "host" => bound'[read.host] \in more
      BY <1>1, <2>2, <2>3 DEF Good, Origin
    <2>6. Good(read, more, row)'
      BY <1>1, <2>2, <2>3, <2>4, <2>5, GoodLater
    <2> QED
      BY <1>1, <2>1, <2>6
  <1> QED
    BY <1>1, <1>2 DEF ReadInv

LEMMA RebindStep ==
    ASSUME ReadInv, NEW host \in Hosts, NEW site, Rebind(host, site)
    PROVE  ReadInv'
  <1>1. /\ bound' = [bound EXCEPT ![host] = site]
        /\ seen' = [r \in Reads |-> IF reads[r].host = host THEN seen[r] \cup {site} ELSE seen[r]]
        /\ UNCHANGED <<readConfig, pointers, reads, appended>>
    BY DEF Rebind
  <1>2. ASSUME NEW r \in Reads PROVE Good(reads[r], seen[r], appended[r])'
    <2>1. PICK read, saw, row, more :
             read = reads[r] /\ saw = seen[r] /\ row = appended[r] /\ more = seen'[r]
      OBVIOUS
    <2>2. Good(read, saw, row)
      BY <2>1 DEF ReadInv
    <2>3. saw \subseteq more
      BY <1>1, <2>1
    <2>4. read.pc = "host" => bound'[read.host] \in more
      <3>1. ASSUME read.pc = "host", read.host = host PROVE bound'[read.host] \in more
        BY <1>1, <2>1, <3>1 DEF ReadInv
      <3>2. ASSUME read.pc = "host", read.host # host PROVE bound'[read.host] \in more
        BY <1>1, <2>1, <2>2, <2>3, <3>2 DEF Good, Origin, ReadInv
      <3> QED
        BY <3>1, <3>2
    <2>5. read.pc = "lookup" => pointers'[read.site] \in more
      BY <1>1, <2>2, <2>3 DEF Good, Origin
    <2>6. Good(read, more, row)'
      BY <1>1, <2>2, <2>3, <2>4, <2>5, GoodLater
    <2> QED
      BY <1>1, <2>1, <2>6
  <1> QED
    BY <1>1, <1>2 DEF ReadInv

LEMMA ReadNextInv == ReadInv /\ [ReadsNext]_readVars => ReadInv'
  <1> SUFFICES ASSUME ReadInv, [ReadsNext]_readVars PROVE ReadInv'
    OBVIOUS
  <1>1. CASE UNCHANGED readVars
    BY <1>1 DEF readVars, ReadInv, Good, Origin, PidNamed
  <1>2. CASE \E r \in Reads : DryRun(r) \/ Message(r) \/ FetchResult(r)
    BY <1>2, DryRunReadStep, MessageStep, FetchStep
  <1>3. CASE \E r \in Reads, site \in ReadSites, fields \in SUBSET ReadSites :
                StartPage(r, site, fields)
    BY <1>3, StartPageStep
  <1>4. CASE \E r \in Reads, host \in Hosts \cup {Absent} : StartHost(r, host)
    BY <1>4, StartHostStep
  <1>5. CASE \E site \in ReadSites, p \in PointerSets : Repoint(site, p)
    BY <1>5, RepointStep
  <1>6. CASE \E host \in Hosts, site \in ReadSites \cup {Absent} : Rebind(host, site)
    BY <1>6, RebindStep
  <1> QED
    BY <1>1, <1>2, <1>3, <1>4, <1>5, <1>6 DEF ReadsNext

LEMMA ReadInvariant == ReadsSpec => []ReadInv
  BY ReadInit, ReadNextInv, PTL DEF ReadsSpec

\* For any configurations, pointers and changes of the registry while a request is
\* under way: a page comes from the process that is configured or that the registry
\* named at some moment of it, and a site by host is one the host was bound to.
THEOREM ReadFromNamedCorrect == ReadsSpec => []ReadFromNamed
  <1>1. ReadInv => ReadFromNamed
    BY DEF ReadInv, Good, Origin, PidNamed, Names, ReadFromNamed
  <1> QED
    BY <1>1, ReadInvariant, PTL

\* Whatever times out after its message got through, a call leaves at most two
\* messages in the log of the process it asks: an unsigned one and a signed one.
THEOREM ReadsSpareTheLogCorrect == ReadsSpec => []ReadsSpareTheLog
  <1>1. ReadInv => ReadsSpareTheLog
    BY DEF ReadInv, Good, Sparing, ReadsSpareTheLog
  <1> QED
    BY <1>1, ReadInvariant, PTL

-----------------------------------------------------------------------------
(* The programs past the worker *)

\* What a program that runs may look like.
ClientRecord ==
    [kind : {"api", "deep", "matrix", "write", "write_auto", "diagnose"},
     pc : {"dryrun", "report", "post", "message", "result", "compute", "done"},
     about : Clients, via : {"scheduler", "push", "again"}, sends : Nat, tries : Nat,
     slot : Nat, slotted : BOOLEAN,
     told : {"nothing", "answer", "failed", "not_found", "passed"},
     read : Clients \cup {Nobody}]

\* A program that has a slot from a reply has the slot of the message it asks about.
SlotFits(client) ==
    /\ client.slot \in 0..Len(log)
    /\ client.slotted => client.slot # 0 /\ log[client.slot] = client.about

\* Every program asks about its own message, but for the diagnosis; it is told
\* something only at its end, and from its slot what it asked about.
Honest(c, client) ==
    /\ client \in ClientRecord
    /\ client.kind # "diagnose" => client.about = c
    /\ client.kind = "diagnose" => client.pc \in {"report", "result", "compute", "done"}
    /\ client.pc = "dryrun" => client.kind = "api"
    /\ client.pc = "report" => client.kind = "diagnose"
    /\ client.pc # "done" => client.told = "nothing"
    /\ client.slotted /\ client.told \in {"answer", "passed", "not_found"} =>
          client.read = client.about
    /\ SlotFits(client)

ClientInv ==
    /\ log \in Seq(Clients)
    /\ DOMAIN clients = Clients
    /\ clients = [c \in Clients |-> clients[c]]
    /\ \A c \in Clients : Honest(c, clients[c])

LEMMA ClientInit == ClientsInit => ClientInv
  <1> SUFFICES ASSUME ClientsInit PROVE ClientInv
    OBVIOUS
  <1>1. PICK kinds \in [Clients -> ClientKinds] :
           clients = [c \in Clients |-> NewClient(c, kinds[c])]
    BY DEF ClientsInit
  <1>2. ASSUME NEW c \in Clients PROVE Honest(c, clients[c])
    <2> DEFINE kind == kinds[c]
    <2>1. kind \in {"api", "deep", "matrix", "write", "write_auto", "diagnose"}
      BY ClientsAssumption
    <2>2. clients[c] = NewClient(c, kind)
      BY <1>1
    <2> HIDE DEF kind
    <2>3. NewClient(c, kind) \in ClientRecord
      BY <2>1 DEF NewClient, ClientRecord
    <2>4. Honest(c, NewClient(c, kind))
      BY <2>1, <2>3 DEF NewClient, Honest, SlotFits
    <2> QED
      BY <2>2, <2>4
  <1> QED
    BY <1>1, <1>2 DEF ClientInv, ClientsInit

\* A step of one program leaves the others honest, also when the log grows.
LEMMA ClientStep ==
    ASSUME ClientInv, NEW c \in Clients, NEW client, Become(c, client),
           \/ log' = log
           \/ \E d \in Clients : log' = Append(log, d),
           Honest(c, client)'
    PROVE  ClientInv'
  <1>1. clients' = [clients EXCEPT ![c] = client]
    BY DEF Become
  <1>2. /\ log' \in Seq(Clients) /\ Len(log') >= Len(log)
        /\ \A i \in 1..Len(log) : log'[i] = log[i]
    <2>0. log \in Seq(Clients)
      BY DEF ClientInv
    <2>1. CASE log' = log
      BY <2>0, <2>1
    <2>2. ASSUME NEW d \in Clients, log' = Append(log, d)
          PROVE  /\ log' \in Seq(Clients) /\ Len(log') >= Len(log)
                 /\ \A i \in 1..Len(log) : log'[i] = log[i]
      BY <2>0, <2>2
    <2> QED
      BY <2>1, <2>2
  <1>3. ASSUME NEW d \in Clients, d # c PROVE Honest(d, clients[d])'
    <2>1. clients'[d] = clients[d]
      BY <1>1, <1>3 DEF ClientInv
    <2> DEFINE other == clients[d]
    <2>2. Honest(d, other)
      BY DEF ClientInv
    <2> HIDE DEF other
    <2>3. /\ other.slot \in 0..Len(log')
          /\ other.slotted => other.slot # 0 /\ log'[other.slot] = other.about
      <3>1. Len(log) \in Nat /\ Len(log') \in Nat
        BY <1>2 DEF ClientInv
      <3> QED
        BY <1>2, <2>2, <3>1 DEF Honest, SlotFits
    <2> QED
      BY <2>1, <2>2, <2>3 DEF Honest, SlotFits, other
  <1>4. Honest(c, clients[c])'
    BY <1>1 DEF ClientInv
  <1>5. /\ DOMAIN clients' = Clients
        /\ clients' = [d \in Clients |-> clients'[d]]
    BY <1>1 DEF ClientInv
  <1> QED
    BY <1>2, <1>3, <1>4, <1>5 DEF ClientInv

\* A program that posted: what it keeps of the reply is the slot of its message.
Posted(c, sent, reply) ==
    /\ sent \in ClientRecord
    /\ sent.kind = clients[c].kind /\ sent.kind # "diagnose" /\ sent.about = c
    /\ sent.pc = "post" /\ sent.told = "nothing"
    /\ sent.slotted => reply = "slot"
    /\ SlotFits(sent)'

LEMMA PostedSlot ==
    ASSUME ClientInv, NEW c \in Clients, clients[c].pc = "post",
           NEW arrived \in BOOLEAN, NEW reply, reply = "slot" => arrived,
           log' = IF arrived THEN Append(log, c) ELSE log,
           NEW sent, sent = Sent(c, reply, Len(log'))
    PROVE  Posted(c, sent, reply)
  <1> DEFINE client == clients[c]
             got == reply = "slot"
             slot == SlotOf(Len(log'), reply)
  <1>1. Honest(c, client) /\ log \in Seq(Clients) /\ client \in ClientRecord
    BY DEF ClientInv, Honest
  <1>2. got \in BOOLEAN /\ (got => arrived)
    OBVIOUS
  <1>3. slot \in 0..Len(log') /\ (got => slot # 0 /\ log'[slot] = c)
    <2>1. CASE got
      <3>1. log' = Append(log, c) /\ slot = Len(log')
        BY <1>2, <2>1 DEF SlotOf
      <3> QED
        BY <1>1, <3>1
    <2>2. CASE ~got
      <3>1. slot = 0 /\ Len(log') \in Nat
        BY <1>1, <2>2 DEF SlotOf
      <3> QED
        BY <2>2, <3>1
    <2> QED
      BY <2>1, <2>2
  <1>4. sent = [client EXCEPT !.sends = @ + 1, !.slot = slot, !.slotted = got]
    BY DEF Sent
  <1>5. client.kind # "diagnose" /\ client.about = c /\ client.pc = "post"
        /\ client.told = "nothing"
    BY <1>1 DEF Honest
  <1> HIDE DEF client, got, slot
  <1>6. sent \in ClientRecord
    <2>1. client.sends + 1 \in Nat
      BY <1>1 DEF ClientRecord
    <2>2. slot \in Nat
      BY <1>3
    <2> DEFINE counted == [client EXCEPT !.sends = @ + 1, !.slot = slot]
    <2>3. counted \in ClientRecord
      BY <1>1, <2>1, <2>2 DEF ClientRecord
    <2>4. sent = [counted EXCEPT !.slotted = got]
      BY <1>1, <1>4 DEF ClientRecord
    <2> HIDE DEF counted
    <2> QED
      BY <1>2, <2>3, <2>4 DEF ClientRecord
  <1>7. /\ sent.kind = client.kind /\ sent.about = client.about /\ sent.pc = client.pc
        /\ sent.told = client.told /\ sent.slot = slot
        /\ sent.slotted <=> got
    BY <1>1, <1>4 DEF ClientRecord
  <1>8. SlotFits(sent)'
    BY <1>3, <1>5, <1>7 DEF SlotFits
  <1> QED
    BY <1>5, <1>6, <1>7, <1>8 DEF Posted, client, got

\* What becomes of it then: the slot stays, and no verdict is about a slot yet.
LEMMA PostedMoves ==
    ASSUME NEW c \in Clients, NEW sent, NEW reply, Posted(c, sent, reply),
           NEW next \in ClientRecord,
           next.kind = sent.kind, next.about = sent.about, next.slot = sent.slot,
           next.slotted = sent.slotted, next.pc \notin {"dryrun", "report"},
           next.pc # "done" => next.told = "nothing",
           next.told \in {"answer", "passed", "not_found"} => reply # "slot"
    PROVE  Honest(c, next)'
  BY DEF Posted, Honest, SlotFits

LEMMA AfterPosted ==
    ASSUME NEW c \in Clients, NEW sent, NEW reply, Posted(c, sent, reply)
    PROVE  Honest(c, After(sent, reply))'
  <1>1. sent \in ClientRecord /\ sent.pc = "post" /\ sent.told = "nothing"
    BY DEF Posted
  <1>2. ASSUME NEW pc \in {"message", "result", "compute"}
        PROVE  Honest(c, Reading(sent, pc))'
    <2> DEFINE next == Reading(sent, pc)
    <2>1. next \in ClientRecord
      BY <1>1 DEF Reading, ClientRecord
    <2>2. /\ next.kind = sent.kind /\ next.about = sent.about /\ next.slot = sent.slot
          /\ next.slotted = sent.slotted /\ next.pc = pc /\ next.told = sent.told
      BY <1>1 DEF Reading, ClientRecord
    <2> HIDE DEF next
    <2>3. Honest(c, next)'
      BY <1>1, <2>1, <2>2, PostedMoves
    <2> QED
      BY <2>3 DEF next
  <1>3. ASSUME NEW told \in {"failed", "not_found"}, told = "not_found" => reply # "slot"
        PROVE  Honest(c, Failing(sent, told))'
    <2> DEFINE next == Failing(sent, told)
    <2>1. next \in ClientRecord
      BY <1>1 DEF Failing, ClientRecord
    <2>2. /\ next.kind = sent.kind /\ next.about = sent.about /\ next.slot = sent.slot
          /\ next.slotted = sent.slotted /\ next.pc = "done" /\ next.told = told
      BY <1>1 DEF Failing, ClientRecord
    <2> HIDE DEF next
    <2>3. Honest(c, next)'
      BY <1>3, <2>1, <2>2, PostedMoves
    <2> QED
      BY <2>3 DEF next
  <1>4. ASSUME NEW via \in {"push", "again"}
        PROVE  Honest(c, [sent EXCEPT !.via = via])'
    <2> DEFINE next == [sent EXCEPT !.via = via]
    <2>1. next \in ClientRecord
      BY <1>1 DEF ClientRecord
    <2>2. /\ next.kind = sent.kind /\ next.about = sent.about /\ next.slot = sent.slot
          /\ next.slotted = sent.slotted /\ next.pc = "post" /\ next.told = "nothing"
      BY <1>1 DEF ClientRecord
    <2> HIDE DEF next
    <2>3. Honest(c, next)'
      BY <2>1, <2>2, PostedMoves
    <2> QED
      BY <2>3 DEF next
  <1>5. Honest(c, sent)'
    BY <1>1, PostedMoves
  <1>6. \/ \E pc \in {"message", "result", "compute"} : After(sent, reply) = Reading(sent, pc)
        \/ \E told \in {"failed", "not_found"} :
             (told = "not_found" => reply # "slot") /\ After(sent, reply) = Failing(sent, told)
        \/ \E via \in {"push", "again"} : After(sent, reply) = [sent EXCEPT !.via = via]
        \/ After(sent, reply) = sent
    <2>1. CASE sent.kind = "api"
      BY <2>1 DEF After, AfterApi, Accepted
    <2>2. CASE sent.kind = "deep"
      BY <2>2 DEF After, AfterDeep, Accepted
    <2>3. CASE sent.kind = "matrix"
      BY <2>3 DEF After, AfterMatrix
    <2>4. CASE sent.kind \notin {"api", "deep", "matrix"}
      <3>1. After(sent, reply) = AfterWrite(sent, reply)
        BY <2>4 DEF After
      <3>2. \/ AfterWrite(sent, reply) = Reading(sent, "result")
            \/ \E via \in {"push", "again"} :
                 AfterWrite(sent, reply) = [sent EXCEPT !.via = via]
            \/ AfterWrite(sent, reply) = Failing(sent, "failed")
        BY DEF AfterWrite
      <3> QED
        BY <3>1, <3>2
    <2> QED
      BY <2>1, <2>2, <2>3, <2>4
  <1> QED
    BY <1>2, <1>3, <1>4, <1>5, <1>6

LEMMA PostStep ==
    ASSUME ClientInv, NEW c \in Clients, Post(c)
    PROVE  ClientInv'
  <1>1. PICK arrived \in BOOLEAN, reply \in {"slot", "noslot", "not_found", "fault", "lost"} :
          /\ reply = "slot" => arrived
          /\ log' = IF arrived THEN Append(log, c) ELSE log
          /\ Become(c, After(Sent(c, reply, Len(log')), reply))
    BY DEF Post
  <1>2. PICK sent : sent = Sent(c, reply, Len(log'))
    OBVIOUS
  <1>3. Posted(c, sent, reply)
    BY <1>1, <1>2, PostedSlot DEF Post
  <1>4. Honest(c, After(sent, reply))'
    BY <1>3, AfterPosted
  <1>5. Become(c, After(sent, reply))
    BY <1>1, <1>2
  <1>6. log' = log \/ \E d \in Clients : log' = Append(log, d)
    BY <1>1
  <1>7. PICK next : next = After(sent, reply)
    OBVIOUS
  <1> QED
    BY <1>4, <1>5, <1>6, <1>7, ClientStep

\* A program that moves on without a verdict on its slot.
LEMMA QuietMove ==
    ASSUME ClientInv, NEW c \in Clients, NEW next \in ClientRecord, Become(c, next),
           log' = log, next.kind = clients[c].kind, next.about = clients[c].about,
           next.slot = clients[c].slot, next.slotted = clients[c].slotted,
           next.pc \notin {"dryrun", "report"},
           next.pc \in {"post", "message"} => next.kind # "diagnose",
           next.pc # "done" => next.told = "nothing",
           next.told \in {"answer", "passed", "not_found"} =>
              (next.slotted => next.read = next.about)
    PROVE  ClientInv'
  <1>1. Honest(c, clients[c])
    BY DEF ClientInv
  <1>2. next.pc \in {"post", "message", "result", "compute", "done"}
    BY DEF ClientRecord
  <1>3. Honest(c, next)'
    BY <1>1, <1>2 DEF Honest, SlotFits
  <1> QED
    BY <1>3, ClientStep

\* A program that ends: the verdict and whose result it read.
LEMMA EndMove ==
    ASSUME ClientInv, NEW c \in Clients, log' = log,
           NEW told \in {"answer", "failed", "not_found", "passed"},
           NEW read \in Clients \cup {Nobody},
           Become(c, [clients[c] EXCEPT !.pc = "done", !.told = told, !.read = read]),
           told # "failed" => (clients[c].slotted => read = clients[c].about)
    PROVE  ClientInv'
  <1> DEFINE client == clients[c]
  <1>1. client \in ClientRecord
    BY DEF ClientInv, Honest
  <1>2. PICK next : next = [client EXCEPT !.pc = "done", !.told = told, !.read = read]
    OBVIOUS
  <1>3. Become(c, next)
    BY <1>2
  <1> HIDE DEF client
  <1>4. /\ next \in ClientRecord
        /\ next.kind = client.kind /\ next.about = client.about
        /\ next.slot = client.slot /\ next.slotted = client.slotted
        /\ next.pc = "done" /\ next.told = told /\ next.read = read
    BY <1>1, <1>2 DEF ClientRecord
  <1> QED
    BY <1>3, <1>4, QuietMove DEF client

\* A program that goes on: nothing told, nothing read.
LEMMA GoOnMove ==
    ASSUME ClientInv, NEW c \in Clients, log' = log, clients[c].pc # "done",
           NEW pc \in {"post", "message", "result", "compute"}, NEW tries \in Nat,
           NEW via \in {"scheduler", "push", "again"},
           pc \in {"post", "message"} => clients[c].kind # "diagnose",
           Become(c, [clients[c] EXCEPT !.pc = pc, !.tries = tries, !.via = via])
    PROVE  ClientInv'
  <1> DEFINE client == clients[c]
  <1>1. client \in ClientRecord /\ client.told = "nothing"
    BY DEF ClientInv, Honest
  <1>2. PICK next : next = [client EXCEPT !.pc = pc, !.tries = tries, !.via = via]
    OBVIOUS
  <1>3. Become(c, next)
    BY <1>2
  <1> HIDE DEF client
  <1>4. /\ next \in ClientRecord
        /\ next.kind = client.kind /\ next.about = client.about
        /\ next.slot = client.slot /\ next.slotted = client.slotted
        /\ next.pc = pc /\ next.told = "nothing"
    BY <1>1, <1>2 DEF ClientRecord
  <1> QED
    BY <1>3, <1>4, QuietMove DEF client

LEMMA DryRunStep ==
    ASSUME ClientInv, NEW c \in Clients, DryRunRead(c)
    PROVE  ClientInv'
  <1> DEFINE client == clients[c]
  <1>0. /\ client \in ClientRecord /\ client.kind = "api" /\ client.about = c
        /\ log' = log
    BY DEF DryRunRead, ClientInv, Honest
  <1>1. client.tries \in Nat /\ client.via \in {"scheduler", "push", "again"}
        /\ client.read \in Clients \cup {Nobody}
    BY <1>0 DEF ClientRecord
  <1>2. CASE Become(c, [Done(c, "answer") EXCEPT !.read = c])
    <2>1. [Done(c, "answer") EXCEPT !.read = c]
            = [client EXCEPT !.pc = "done", !.told = "answer", !.read = c]
      BY <1>0 DEF Done, ClientRecord
    <2> QED
      BY <1>0, <1>2, <2>1, EndMove
  <1>3. CASE Become(c, [client EXCEPT !.pc = "post"])
    <2>1. [client EXCEPT !.pc = "post"]
            = [client EXCEPT !.pc = "post", !.tries = client.tries, !.via = client.via]
      BY <1>0 DEF ClientRecord
    <2> QED
      BY <1>0, <1>1, <1>3, <2>1, GoOnMove DEF DryRunRead
  <1>4. CASE Become(c, Done(c, "failed"))
    <2>1. Done(c, "failed")
            = [client EXCEPT !.pc = "done", !.told = "failed", !.read = client.read]
      BY <1>0 DEF Done, ClientRecord
    <2> QED
      BY <1>0, <1>1, <1>4, <2>1, EndMove
  <1> QED
    BY <1>2, <1>3, <1>4 DEF DryRunRead

LEMMA ProbeStep ==
    ASSUME ClientInv, NEW c \in Clients, ProbeMessage(c)
    PROVE  ClientInv'
  <1> DEFINE client == clients[c]
  <1>0. /\ client \in ClientRecord /\ log' = log
    BY DEF ProbeMessage, ClientInv, Honest
  <1>1. client.tries \in Nat /\ client.via \in {"scheduler", "push", "again"}
        /\ client.read \in Clients \cup {Nobody}
    BY <1>0 DEF ClientRecord
  <1>2. CASE Become(c, [client EXCEPT !.pc = "compute"])
    <2>1. [client EXCEPT !.pc = "compute"]
            = [client EXCEPT !.pc = "compute", !.tries = client.tries, !.via = client.via]
      BY <1>0 DEF ClientRecord
    <2> QED
      BY <1>0, <1>1, <1>2, <2>1, GoOnMove DEF ProbeMessage
  <1>3. CASE Become(c, Done(c, "failed"))
    <2>1. Done(c, "failed")
            = [client EXCEPT !.pc = "done", !.told = "failed", !.read = client.read]
      BY <1>0 DEF Done, ClientRecord
    <2> QED
      BY <1>0, <1>1, <1>3, <2>1, EndMove
  <1> QED
    BY <1>2, <1>3 DEF ProbeMessage

\* The result of the slot is the result of the message it names.
LEMMA TakenStep ==
    ASSUME ClientInv, NEW c \in Clients, log' = log,
           NEW result \in {"envelope", "nothing", "error"}, Become(c, Taken(c, result))
    PROVE  ClientInv'
  <1> DEFINE client == clients[c]
             owner == OwnerOf(client.slot)
  <1>1. /\ client \in ClientRecord /\ SlotFits(client) /\ log \in Seq(Clients)
        /\ client.slot \in Nat
    BY DEF ClientInv, Honest, ClientRecord
  <1>2. owner \in Clients \cup {Nobody} /\ (client.slotted => owner = client.about)
    BY <1>1 DEF OwnerOf, SlotFits
  <1>3. PICK told \in {"answer", "failed", "not_found", "passed"} :
          Taken(c, result) = [Done(c, told) EXCEPT !.read = owner]
    BY DEF Taken, ApiVerdict, Assertion
  <1>4. [Done(c, told) EXCEPT !.read = owner]
          = [client EXCEPT !.pc = "done", !.told = told, !.read = owner]
    BY <1>1 DEF Done, ClientRecord
  <1>5. Become(c, [client EXCEPT !.pc = "done", !.told = told, !.read = owner])
    BY <1>3, <1>4
  <1> HIDE DEF owner
  <1> QED
    BY <1>2, <1>5, EndMove

LEMMA ReadStep ==
    ASSUME ClientInv, NEW c \in Clients, Read(c)
    PROVE  ClientInv'
  <1> DEFINE client == clients[c]
  <1>0. /\ client \in ClientRecord /\ log' = log
        /\ client.pc \in {"result", "compute"} /\ client.pc # "done"
    BY DEF Read, ClientInv, Honest
  <1>1. client.tries \in Nat /\ client.via \in {"scheduler", "push", "again"}
        /\ client.read \in Clients \cup {Nobody}
    BY <1>0 DEF ClientRecord
  <1>2. ASSUME NEW result \in {"envelope", "nothing", "error"}, Become(c, Taken(c, result))
        PROVE  ClientInv'
    BY <1>0, <1>2, TakenStep
  <1>3. CASE Retry(c)
    <2>1. [client EXCEPT !.tries = @ + 1]
            = [client EXCEPT !.pc = client.pc, !.tries = client.tries + 1, !.via = client.via]
      BY <1>0 DEF ClientRecord
    <2>2. client.tries + 1 \in Nat
      BY <1>1
    <2>3. Become(c, [client EXCEPT !.pc = client.pc, !.tries = client.tries + 1,
                                   !.via = client.via])
      BY <1>3, <2>1 DEF Retry
    <2> QED
      BY <1>0, <1>1, <2>2, <2>3, GoOnMove
  <1>4. CASE Become(c, GiveUp(c))
    <2>1. CASE client.pc = "result"
      <3>1. GiveUp(c) = [client EXCEPT !.pc = "compute", !.tries = 1, !.via = client.via]
        BY <1>0, <2>1 DEF GiveUp, Fallback, Reading, ClientRecord
      <3>2. PICK n \in Nat, v \in {"scheduler", "push", "again"} : n = 1 /\ v = client.via
        BY <1>1
      <3>3. Become(c, [client EXCEPT !.pc = "compute", !.tries = n, !.via = v])
        BY <1>4, <3>1, <3>2
      <3> QED
        BY <1>0, <3>3, GoOnMove
    <2>2. CASE client.pc # "result" /\ client.kind = "write_auto" /\ client.via = "push"
      <3>1. GiveUp(c) = [client EXCEPT !.pc = "post", !.tries = client.tries, !.via = "again"]
        BY <1>0, <2>2 DEF GiveUp, ClientRecord
      <3>2. client.kind # "diagnose"
        BY <2>2
      <3>3. PICK n \in Nat : n = client.tries
        BY <1>1
      <3>4. Become(c, [client EXCEPT !.pc = "post", !.tries = n, !.via = "again"])
        BY <1>4, <3>1, <3>3
      <3> QED
        BY <1>0, <3>2, <3>4, GoOnMove
    <2>3. CASE client.pc # "result" /\ ~(client.kind = "write_auto" /\ client.via = "push")
      <3>1. GiveUp(c)
              = [client EXCEPT !.pc = "done", !.told = "failed", !.read = client.read]
        BY <1>0, <2>3 DEF GiveUp, Done, ClientRecord
      <3> QED
        BY <1>0, <1>1, <1>4, <3>1, EndMove
    <2> QED
      BY <2>1, <2>2, <2>3
  <1> QED
    BY <1>2, <1>3, <1>4 DEF Read

\* The diagnosis takes over the slot of a deep test, and that it is that test's.
LEMMA ReportStep ==
    ASSUME ClientInv, NEW c \in Clients, NEW d \in Clients, OpenReport(c, d)
    PROVE  ClientInv'
  <1> DEFINE client == clients[c]
             slot == clients[d].slot
             slotted == clients[d].slotted
             next == [client EXCEPT !.pc = "result", !.about = d, !.slot = slot,
                                    !.slotted = slotted]
  <1>1. /\ Honest(c, client) /\ client \in ClientRecord /\ client.pc = "report"
        /\ Honest(d, clients[d]) /\ clients[d] \in ClientRecord /\ clients[d].about = d
        /\ log' = log /\ Become(c, next)
    BY DEF OpenReport, ClientInv, Honest
  <1>2. /\ slot \in Nat /\ slotted \in BOOLEAN /\ slot \in 0..Len(log)
        /\ slotted => slot # 0 /\ log[slot] = d
    BY <1>1 DEF Honest, SlotFits, ClientRecord
  <1>3. client.kind = "diagnose"
    BY <1>1 DEF Honest
  <1> HIDE DEF client, slot, slotted
  <1>4. /\ next \in ClientRecord
        /\ next.kind = client.kind /\ next.about = d /\ next.slot = slot
        /\ next.slotted = slotted /\ next.pc = "result" /\ next.told = client.told
    BY <1>1, <1>2 DEF ClientRecord
  <1>5. PICK n : n = next
    OBVIOUS
  <1>6. Honest(c, n)'
    BY <1>1, <1>2, <1>3, <1>4, <1>5 DEF Honest, SlotFits
  <1> QED
    BY <1>1, <1>5, <1>6, ClientStep

LEMMA ClientNextInv == ClientInv /\ [ClientsNext]_clientVars => ClientInv'
  <1> SUFFICES ASSUME ClientInv, [ClientsNext]_clientVars PROVE ClientInv'
    OBVIOUS
  <1>1. CASE UNCHANGED clientVars
    BY <1>1 DEF clientVars, ClientInv, Honest, SlotFits
  <1>2. CASE ClientsNext
    BY <1>2, DryRunStep, PostStep, ProbeStep, ReadStep, ReportStep DEF ClientsNext
  <1> QED
    BY <1>1, <1>2

LEMMA ClientInvariant == ClientsSpec => []ClientInv
  BY ClientInit, ClientNextInv, PTL DEF ClientsSpec

\* For any programs, attempts and length of the log: whoever else writes to it in
\* between, a program whose reply named a slot takes no other message's result for
\* that of its own.
THEOREM OwnResultCorrect == ClientsSpec => []OwnResult
  <1>1. ClientInv => OwnResult
    BY DEF ClientInv, Honest, OwnResult
  <1> QED
    BY <1>1, ClientInvariant, PTL

=============================================================================
