------------------------------ MODULE WorkerReads ------------------------------
(***************************************************************************)
(* The read routes of worker/src/index.ts: /api/public/site-by-host,       *)
(* /resolve-route and /page, the lookup of a site's process in the         *)
(* registry and executeAoRead, which asks a process: by a dry run if it    *)
(* can, else by a message whose result it fetches, and with the gateway's  *)
(* wallet if the network takes no unsigned message.                        *)
(*                                                                         *)
(* The processes and the network are not in the repository: a call fails   *)
(* at any time, an answer may come without output or as shell text.        *)
(* Requests share nothing but the registry they ask.                       *)
(***************************************************************************)
EXTENDS Integers, FiniteSets

CONSTANTS
    Reads,          \* requests
    ReadSites,      \* sites
    SitePids,       \* site processes
    Hosts,          \* host names
    ReadConfigs,    \* bound: [sitePid, registry, dryrun, wallet]
    PointerSets,    \* bound: what the registry may know of a site's processes
    MaxRepoints,    \* bound: changes of the registry
    Absent          \* a field that is not there

ASSUME ReadsAssumption ==
    /\ Absent \notin SitePids \cup ReadSites \cup Hosts
    /\ MaxRepoints \in Nat

VARIABLES
    readConfig,     \* the configuration
    pointers,       \* registry: [runtime, record, scalar, generic] of each site
    bound,          \* registry: the site of each host, or Absent
    repoints,       \* how often the registry changed
    reads,          \* where each request stands
    appended,       \* history: messages a request appended, in each of its calls
    seen            \* history: what the registry knew since a request began

readVars == <<readConfig, pointers, bound, repoints, reads, appended, seen>>

NewRead == [pc |-> "new", kind |-> "page", site |-> Absent, host |-> Absent, pid |-> Absent,
            step |-> "none", dryError |-> "none", signed |-> FALSE, answer |-> Absent,
            told |-> "nothing"]

ReadsInit ==
    /\ readConfig \in ReadConfigs
    /\ pointers \in [ReadSites -> PointerSets]
    /\ bound \in [Hosts -> ReadSites \cup {Absent}]
    /\ repoints = 0
    /\ reads = [r \in Reads |-> NewRead]
    /\ appended = [r \in Reads |-> [call \in {"lookup", "page", "host"} |-> 0]]
    /\ seen = [r \in Reads |-> {}]

-----------------------------------------------------------------------------

\* Wrong: the first field that is there counts, whatever the others say.
NamedFirst(p) ==
    LET there == {p.runtime, p.record, p.scalar} \ {Absent} IN
    IF there # {} THEN {CHOOSE x \in there : TRUE} ELSE p.generic

\* resolveSiteRuntimeProcessId: the fields for reads must agree; only without
\* one do the generic fields count, and they must agree as well.  The pointer
\* record has lost a value that a scalar field of the same name overwrote.
Named(p) ==
    LET record == IF p.scalar = Absent THEN p.record ELSE p.scalar
        there == {p.runtime, record, p.scalar} \ {Absent}
        counting == IF there # {} THEN there ELSE p.generic
    IN IF Cardinality(counting) = 1 THEN counting ELSE {}

\* The next step of a read, from one call to the next.
Step(r, read) == reads' = [reads EXCEPT ![r] = read]

FirstStep == IF readConfig.dryrun THEN "dryrun" ELSE "message"

\* A call of executeAoRead begins without errors and without a signer.
Call(read, pc) == [read EXCEPT !.pc = pc, !.step = FirstStep, !.dryError = "none",
                               !.signed = FALSE, !.answer = Absent]

Told(read, told) == [read EXCEPT !.pc = "answered", !.step = "none", !.told = told]

\* A page or route of a site, once the site fields agree and the token is the
\* site's: its process is configured, or the registry is asked for it.
StartPage(r, site, fields) ==
    /\ reads[r].pc = "new"
    /\ seen' = [seen EXCEPT ![r] = {pointers[site]}]
    /\ LET read == [reads[r] EXCEPT !.site = site] IN
       Step(r, IF fields # {site} THEN Told(read, "rejected")
               ELSE IF readConfig.sitePid # Absent
               THEN Call([read EXCEPT !.pid = readConfig.sitePid], "page")
               ELSE IF readConfig.registry THEN Call(read, "lookup")
               ELSE Told(read, "missing_ao_site_process_id"))
    /\ UNCHANGED <<readConfig, pointers, bound, repoints, appended>>

\* A host name that is valid; one that is not is rejected.
StartHost(r, host) ==
    /\ reads[r].pc = "new"
    /\ seen' = [seen EXCEPT ![r] = {bound[h] : h \in Hosts \cap {host}}]
    /\ LET read == [reads[r] EXCEPT !.kind = "host", !.host = host] IN
       Step(r, IF host = Absent THEN Told(read, "rejected")
               ELSE IF readConfig.registry THEN Call(read, "host")
               ELSE Told(read, "missing_ao_registry_process_id"))
    /\ UNCHANGED <<readConfig, pointers, bound, repoints, appended>>

\* What the process asked says at this moment: the registry what it knows, a
\* site's process what it has.
Says(r) ==
    CASE reads[r].pc = "lookup" -> Named(pointers[reads[r].site])
      [] reads[r].pc = "host" -> {bound[reads[r].host]} \ {Absent}
      [] OTHER -> {reads[r].pid}

\* What a request does with the answer of a call: content, or none.
Use(read, answer) ==
    CASE read.pc = "lookup" /\ answer # {} ->
            Call([read EXCEPT !.pid = CHOOSE pid \in answer : TRUE], "page")
      [] read.pc = "lookup" /\ answer = {} -> Told(read, "missing_ao_site_process_id")
      [] read.pc = "host" /\ answer # {} ->
            Told([read EXCEPT !.pid = CHOOSE site \in answer : TRUE], "ok")
      [] read.pc = "host" /\ answer = {} -> Told(read, "not_found")
      [] OTHER -> Told(read, "ok")

\* An answer without an envelope is as good as none; for a lookup so is text,
\* elsewhere it is a 502; the process may say that there is no such page.
UseWithout(read, shape) ==
    IF read.pc = "lookup" THEN Told(read, "missing_ao_site_process_id")
    ELSE Told(read, IF shape = "shell" THEN "invalid_response" ELSE "not_found")

Answered(r, answer) ==
    \/ Step(r, Use(reads[r], answer))
    \/ \E shape \in {"empty", "shell", "missing"} : Step(r, UseWithout(reads[r], shape))

\* A call that failed for good: a lookup's error is swallowed; a time-out is a
\* 504; the error of the dry run hides that of an unsigned message.
Break(r, error) ==
    LET read == reads[r] IN
    Step(r, Told(read, IF read.pc = "lookup" THEN "missing_ao_site_process_id"
                       ELSE IF read.dryError # "none" /\ ~read.signed THEN read.dryError
                       ELSE error))

Failures == {"timeout", "failure"}

DryRun(r) ==
    /\ reads[r].step = "dryrun"
    /\ \/ Answered(r, Says(r))
       \/ \E error \in Failures : Step(r, [reads[r] EXCEPT !.step = "message", !.dryError = error])
    /\ UNCHANGED <<readConfig, pointers, bound, repoints, appended, seen>>

\* Wrong: a message that could not be sent is sent again, signed or not.
ResendsAny(r) == TRUE

\* Only an unsigned message is sent again, signed.
Resends(r) == ~reads[r].signed

\* The message has a slot, or the time is over, or the client could not send it,
\* whether or not the process has it by then.
Message(r) ==
    /\ reads[r].step = "message"
    /\ \/ /\ appended' = [appended EXCEPT ![r][reads[r].pc] = @ + 1]
          /\ Step(r, [reads[r] EXCEPT !.step = "result", !.answer = Says(r)])
       \/ /\ \E arrived \in {0, 1} : appended' = [appended EXCEPT ![r][reads[r].pc] = @ + arrived]
          /\ \/ \E error \in Failures : Break(r, error)
             \/ /\ Resends(r)
                /\ IF readConfig.wallet THEN Step(r, [reads[r] EXCEPT !.signed = TRUE])
                   ELSE Step(r, Told(reads[r],
                                     IF reads[r].pc = "lookup" THEN "missing_ao_site_process_id"
                                     ELSE "missing_ao_wallet_json"))
    /\ UNCHANGED <<readConfig, pointers, bound, repoints, seen>>

\* The result, or the compute URL when it cannot be had.
FetchResult(r) ==
    /\ \/ /\ reads[r].step \in {"result", "compute"}
          /\ Answered(r, reads[r].answer)
       \/ reads[r].step = "result" /\ Step(r, [reads[r] EXCEPT !.step = "compute"])
       \/ reads[r].step = "compute" /\ \E error \in Failures : Break(r, error)
    /\ UNCHANGED <<readConfig, pointers, bound, repoints, appended, seen>>

\* The registry changes: a site's processes, or the site of a host.
Repoint(site, p) ==
    /\ repoints < MaxRepoints /\ p # pointers[site]
    /\ repoints' = repoints + 1
    /\ pointers' = [pointers EXCEPT ![site] = p]
    /\ seen' = [r \in Reads |-> IF reads[r].kind = "page" /\ reads[r].site = site
                                THEN seen[r] \cup {p} ELSE seen[r]]
    /\ UNCHANGED <<readConfig, bound, reads, appended>>

Rebind(host, site) ==
    /\ repoints < MaxRepoints /\ site # bound[host]
    /\ repoints' = repoints + 1
    /\ bound' = [bound EXCEPT ![host] = site]
    /\ seen' = [r \in Reads |-> IF reads[r].host = host THEN seen[r] \cup {site} ELSE seen[r]]
    /\ UNCHANGED <<readConfig, pointers, reads, appended>>

ReadsNext ==
    \/ \E r \in Reads : DryRun(r) \/ Message(r) \/ FetchResult(r)
    \/ \E r \in Reads, site \in ReadSites, fields \in SUBSET ReadSites : StartPage(r, site, fields)
    \/ \E r \in Reads, host \in Hosts \cup {Absent} : StartHost(r, host)
    \/ \E site \in ReadSites, p \in PointerSets : Repoint(site, p)
    \/ \E host \in Hosts, site \in ReadSites \cup {Absent} : Rebind(host, site)

ReadsSpec == ReadsInit /\ [][ReadsNext]_readVars

-----------------------------------------------------------------------------

\* A page comes from the process that is configured or that the registry named
\* at some moment of the request, with no field of its own or of the runtime
\* naming another; a site by host is one the host was bound to at some moment.
ReadFromNamed ==
    \A r \in Reads : reads[r].told = "ok" =>
        IF reads[r].kind = "host" THEN reads[r].pid \in seen[r] \ {Absent}
        ELSE \/ readConfig.sitePid = reads[r].pid
             \/ /\ readConfig.sitePid = Absent
                /\ \E p \in seen[r] :
                      /\ {p.runtime, p.scalar} \subseteq {reads[r].pid, Absent}
                      /\ reads[r].pid \in {p.runtime, p.record, p.scalar} \cup p.generic

\* A call leaves at most two messages in the log of the process it asks, however
\* many of its steps time out after the message got through.
ReadsSpareTheLog ==
    \A r \in Reads : \A call \in DOMAIN appended[r] : appended[r][call] <= 2

=============================================================================
