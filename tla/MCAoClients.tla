------------------------------ MODULE MCAoClients ------------------------------
(***************************************************************************)
(* Instances for TLC of the ways to a process on AO: the write and read    *)
(* routes of the worker and the programs that go past it.  They share no   *)
(* state, so a behaviour is one of one of them, with the others at rest.   *)
(***************************************************************************)
EXTENDS WorkerWrites, WorkerReads, SchedulerClients

CONSTANTS n1, s1, s2, pid1, pid2

VARIABLE part

MCVars == <<part, writeVars, readVars, clientVars>>

-----------------------------------------------------------------------------

MCBody(id, top, payload, header, tenant, action, signed) ==
    [id |-> id, token |-> s1, top |-> top, payload |-> payload, header |-> header,
     tenant |-> tenant, action |-> action, signed |-> signed]

\* Two requests the routes take, with an id of the caller and without, and two
\* whose site fields or tenant contradict the rest.
MCWriteBodies ==
    {MCBody(n1, s1, Unset, s1, Unset, "expected", FALSE),
     MCBody(Unset, Unset, s1, Unset, s1, Unset, TRUE),
     MCBody(n1, s1, s2, Unset, Unset, Unset, TRUE),
     MCBody(n1, s1, s1, Unset, s2, Unset, TRUE)}

MCBridges ==
    {[pid |-> TRUE, autoSign |-> TRUE, acceptEmpty |-> TRUE],
     [pid |-> TRUE, autoSign |-> FALSE, acceptEmpty |-> FALSE],
     [pid |-> FALSE, autoSign |-> TRUE, acceptEmpty |-> TRUE]}

MCReadConfig(pid, registry, dryrun, wallet) ==
    [sitePid |-> pid, registry |-> registry, dryrun |-> dryrun, wallet |-> wallet]

MCReadConfigs ==
    {MCReadConfig(Absent, TRUE, TRUE, TRUE), MCReadConfig(pid1, TRUE, FALSE, FALSE),
     MCReadConfig(Absent, FALSE, TRUE, TRUE)}

MCPointer(runtime, record, scalar, generic) ==
    [runtime |-> runtime, record |-> record, scalar |-> scalar, generic |-> generic]

\* The fields for reads say nothing, one thing, or two.
MCPointerSets ==
    {MCPointer(pid1, Absent, Absent, {pid2}), MCPointer(pid1, Absent, pid2, {}),
     MCPointer(Absent, pid1, pid2, {}), MCPointer(Absent, Absent, Absent, {pid1, pid2})}

MCApiConfigs == [dryrun : {TRUE}, fallback : BOOLEAN]

-----------------------------------------------------------------------------

\* A part at rest has nothing to do that fairness could ask of it.
WritesRest == bridge = CHOOSE b \in MCBridges : TRUE

ReadsRest ==
    /\ readConfig = MCReadConfig(pid1, TRUE, FALSE, FALSE)
    /\ pointers = [site \in ReadSites |-> MCPointer(pid1, Absent, Absent, {pid2})]
    /\ bound = [host \in Hosts |-> Absent]

ClientsRest ==
    /\ apiConfig = [dryrun |-> TRUE, fallback |-> TRUE]
    /\ \A c \in Clients : clients[c].kind = "write"

MCInit ==
    /\ part \in {"writes", "reads", "clients"}
    /\ WritesInit /\ ReadsInit /\ ClientsInit
    /\ part # "writes" => WritesRest
    /\ part # "reads" => ReadsRest
    /\ part # "clients" => ClientsRest

MCWrites == part = "writes" /\ WritesNext /\ UNCHANGED <<readVars, clientVars>>
MCReads == part = "reads" /\ ReadsNext /\ UNCHANGED <<writeVars, clientVars>>
MCClients == part = "clients" /\ ClientsNext /\ UNCHANGED <<writeVars, readVars>>

MCNext == (MCWrites \/ MCReads \/ MCClients) /\ UNCHANGED part

MCSpec ==
    /\ MCInit /\ [][MCNext]_MCVars
    /\ \A r \in Writes : WF_writeVars(WorkerStep(r))
    /\ \A c \in Clients : WF_clientVars(TimedStep(c))

=============================================================================
