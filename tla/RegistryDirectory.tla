-------------------------- MODULE RegistryDirectory --------------------------
(***************************************************************************)
(* The directory part of ao/registry/process.lua: sites with their domains,*)
(* runtime pointers, active versions and roles, the gateways, the trusted  *)
(* resolvers and the resolver flags, together with what a restart does to  *)
(* them (ao/shared/persist.lua) and with the file of flags that the gate   *)
(* reads (ao/shared/auth.lua).                                             *)
(*                                                                         *)
(* A message is handled, the state is saved (the file is truncated, then   *)
(* written), the answer leaves.  A crash may fall between any two of these *)
(* steps, and persist.save may give up without a word.  AO_STATE_DIR is    *)
(* set, and AO_FLAGS_PATH and AUTH_RESOLVER_FLAGS_FILE name one file       *)
(* (ops/env.prod.example), which can be opened; an append is one write.    *)
(*                                                                         *)
(* Left out: Last-Seen and the other fields no handler looks at, and the   *)
(* checks of role, signature and rate that come before the handlers.       *)
(***************************************************************************)
EXTENDS Integers, FiniteSets

CONSTANTS
    Sites,          \* Site-Id values
    Hosts,          \* normalized Host values
    Versions,       \* Version values
    Fields,         \* the fields of a runtime pointer
    Anchors,        \* those that name a process or a template
    Pointers,       \* their values
    Users,          \* Subject values of GrantRole
    Roles,          \* Role values
    Gateways,       \* Gateway-Id values; their order breaks ties
    Scores,         \* Score values
    Weights,        \* Capacity-Weight values
    Regions,        \* Region values
    Domains,        \* domain patterns of gateways
    Covers,         \* which host matches which pattern
    DomainLists,    \* Domains values callers send
    Resolvers,      \* Resolver-Id values
    PiiKeys,        \* the names above that are pii_keys ("email", "token", ...)
    MaxUnsaved,     \* bound: how many saves in a row fail
    Unset,          \* the region of a gateway that has none, ""
    NoVal,          \* Lua's nil
    Bad,            \* an invalid value of a field
    Torn            \* a snapshot that does not decode

\* Of the five status values "offline" stands for all but "online".
Statuses == {"online", "offline"}
Flags == {"ok", "suspicious", "blocked"}
FileFlags == Flags \cup {"cleared", NoVal}

ASSUME DirectoryAssumption ==
    /\ Anchors \subseteq Fields
    /\ Gateways \subseteq Nat /\ Scores \subseteq Nat /\ Weights \subseteq Nat
    /\ DomainLists \subseteq SUBSET Domains
    /\ Covers \subseteq Hosts \X Domains
    /\ MaxUnsaved \in Nat

VARIABLES
    state,      \* the table `state`, its gateways apart
    gateways,   \* state.gateways
    disk,       \* registry_state.json
    file,       \* what the file of flags says of a resolver: its last line
    phase,      \* how far the message at hand is
    reply,      \* its answer
    standing,   \* history: what the last answer confirmed, or a later message
                \* left that was saved whole; NoVal once a crash took it back
    unsaved,    \* history: how many answers the snapshot is behind
    behind,     \* history: resolvers flagged since the last complete save
    cut         \* history: resolvers whose flagging a crash has cut off

vars == <<state, gateways, disk, file, phase, reply, standing, unsaved, behind,
          cut>>

Runtime == [Fields -> Pointers \cup {NoVal}]
NoRuntime == [f \in Fields |-> NoVal]

Gateway == [status : Statuses, score : Scores, weight : Weights,
            domains : DomainLists, region : Regions \cup {Unset}]
SavedGateway == [status : Statuses, score : Scores, weight : Weights,
                 domains : DomainLists]

Flagged(flag) == flag \in {"suspicious", "blocked"}

State == [sites : SUBSET Sites,
          domains : [Hosts -> Sites \cup {NoVal}],
          runtimes : [Sites -> Runtime],
          versions : [Sites -> Versions \cup {NoVal}],
          roles : [Sites -> [Users -> Roles \cup {NoVal}]],
          trust : SUBSET Resolvers,
          flags : [Resolvers -> Flags \cup {NoVal}]]

Snapshot == [state : State, gateways : [Gateways -> SavedGateway \cup {NoVal}]]

ASSUME DistinctAssumption ==
    /\ NoVal \notin Sites \cup Versions \cup Pointers \cup Roles \cup Flags
    /\ {NoVal, Bad} \cap Statuses = {} /\ {NoVal, Bad} \cap Scores = {}
    /\ {NoVal, Bad} \cap Weights = {} /\ {NoVal, Bad} \cap DomainLists = {}
    /\ NoVal \notin Gateways /\ NoVal \notin Resolvers
    /\ NoVal \notin Gateway /\ NoVal \notin SavedGateway
    /\ NoVal \notin Snapshot /\ Torn \notin Snapshot

Ops == {"GetSiteByHost", "GetSiteConfig", "GetSiteRuntime", "RegisterSite",
        "SetSiteRuntime", "BindDomain", "SetActiveVersion", "GrantRole",
        "RegisterGateway", "UpdateGatewayStatus", "ResolveGatewayForHost",
        "ListGateways", "UpdateTrustResolvers", "GetTrustedResolvers",
        "FlagResolver", "UnflagResolver", "GetResolverFlags"}
FlagOps == {"FlagResolver", "UnflagResolver", "GetResolverFlags"}
Codes == {"OK", "INVALID_INPUT", "NOT_FOUND", "VERSION_CONFLICT", "FORBIDDEN"}

\* The code of an answer, and the gateway or resolver it is about.
Reply == [op : Ops, code : Codes, on : Gateways \cup Resolvers \cup {NoVal}]

-----------------------------------------------------------------------------
(***************************************************************************)
(* Saving and loading                                                      *)
(***************************************************************************)

Fresh == [state |-> [sites |-> {},
                     domains |-> [h \in Hosts |-> NoVal],
                     runtimes |-> [s \in Sites |-> NoRuntime],
                     versions |-> [s \in Sites |-> NoVal],
                     roles |-> [s \in Sites |-> [u \in Users |-> NoVal]],
                     trust |-> {},
                     flags |-> [r \in Resolvers |-> NoVal]],
          gateways |-> [g \in Gateways |-> NoVal]]

\* Entries whose key is one of the pii_keys, at any depth.
Kept(f, empty) == [k \in DOMAIN f |-> IF k \in PiiKeys THEN empty ELSE f[k]]

ScrubbedState(st) ==
    [sites    |-> st.sites \ PiiKeys,
     domains  |-> Kept(st.domains, NoVal),
     runtimes |-> Kept(st.runtimes, NoRuntime),
     versions |-> Kept(st.versions, NoVal),
     roles    |-> Kept([s \in Sites |-> Kept(st.roles[s], NoVal)],
                       [u \in Users |-> NoVal]),
     trust    |-> st.trust,
     flags    |-> Kept(st.flags, NoVal)]

\* `region` is one of the pii_keys too.
ScrubbedGateway(gw) ==
    [status |-> gw.status, score |-> gw.score, weight |-> gw.weight,
     domains |-> gw.domains]

ScrubbedGateways ==
    [g \in Gateways |-> IF gateways[g] = NoVal \/ g \in PiiKeys THEN NoVal
                        ELSE ScrubbedGateway(gateways[g])]

\* Wrong: the flags are not in the snapshot.
ScrubbedNoFlags ==
    [state |-> [ScrubbedState(state) EXCEPT !.flags = Fresh.state.flags],
     gateways |-> ScrubbedGateways]

\* What persist.save writes.
Scrubbed == [state |-> ScrubbedState(state), gateways |-> ScrubbedGateways]

\* normalize_runtime_pointer: a pointer must name a process or a template.
ValidRuntime(rt) == \E f \in Anchors : rt[f] # NoVal

LoadedGateway(gw) ==
    [status |-> gw.status, score |-> gw.score, weight |-> gw.weight,
     domains |-> gw.domains, region |-> Unset]

\* Pointers are checked again when they are loaded.
LoadedRuntime(st, s) ==
    IF s \in st.sites /\ ValidRuntime(st.runtimes[s])
    THEN st.runtimes[s] ELSE NoRuntime

LoadedState(snap) ==
    [snap.state EXCEPT !.runtimes = [s \in Sites |-> LoadedRuntime(snap.state, s)]]

LoadedGateways(snap) ==
    [g \in Gateways |-> IF snap.gateways[g] = NoVal THEN NoVal
                        ELSE LoadedGateway(snap.gateways[g])]

\* persist.load: a snapshot that does not decode is replaced by the default.
Readable == IF disk = Torn THEN Fresh ELSE disk

Init ==
    /\ state = Fresh.state
    /\ gateways = Fresh.gateways
    /\ disk = Fresh
    /\ file = [r \in Resolvers |-> NoVal]
    /\ phase = "idle"
    /\ reply = NoVal
    /\ standing = Fresh
    /\ unsaved = 0
    /\ behind = {}
    /\ cut = {}

dirVars == <<state, gateways, file>>
diskVars == <<disk, standing, unsaved, cut>>

\* The handler has run; what it left alone is up to the caller.
Handled(op, code, on) ==
    /\ phase = "idle"
    /\ phase' = "handled"
    /\ reply' = [op |-> op, code |-> code, on |-> on]
    /\ behind' = IF op \in {"FlagResolver", "UnflagResolver"} /\ code = "OK"
                 THEN behind \cup {on} ELSE behind
    /\ UNCHANGED diskVars

\* persist.save returns without a word when the state does not encode or the
\* file does not open: the snapshot stays the one it was.
SaveFails ==
    /\ phase = "handled"
    /\ unsaved < MaxUnsaved
    /\ phase' = "unsaved"
    /\ UNCHANGED <<dirVars, diskVars, reply, behind>>

\* It opens the file, which empties it ...
Truncate ==
    /\ phase = "handled"
    /\ phase' = "writing"
    /\ disk' = Torn
    /\ UNCHANGED <<dirVars, reply, standing, unsaved, behind, cut>>

\* ... and writes it.
Write ==
    /\ phase = "writing"
    /\ phase' = "written"
    /\ disk' = Scrubbed
    /\ unsaved' = 0
    /\ behind' = {}
    /\ cut' = cut \ behind
    /\ UNCHANGED <<dirVars, reply, standing>>

\* The answer leaves.
Answer ==
    /\ phase \in {"written", "unsaved"}
    /\ phase' = "idle"
    /\ reply' = NoVal
    /\ standing' = Scrubbed
    /\ unsaved' = IF phase = "unsaved" THEN unsaved + 1 ELSE 0
    /\ UNCHANGED <<dirVars, disk, behind, cut>>

\* The process dies and starts again.
Crash ==
    /\ state' = LoadedState(Readable)
    /\ gateways' = LoadedGateways(Readable)
    /\ phase' = "idle"
    /\ reply' = NoVal
    /\ standing' = IF unsaved > 0 \/ disk = Torn THEN NoVal
                   ELSE IF phase = "written" THEN Scrubbed ELSE standing
    /\ unsaved' = 0
    /\ behind' = {}
    /\ cut' = IF disk = Torn THEN Resolvers ELSE cut \cup behind
    /\ UNCHANGED <<disk, file>>

-----------------------------------------------------------------------------
(***************************************************************************)
(* Sites                                                                   *)
(***************************************************************************)

Optional(S) == S \cup {NoVal}

\* Fields are missing, superfluous or malformed; nothing has been assigned.
\* UpdateGatewayStatus checks while it assigns and is not among them.
RejectMalformed(op) ==
    /\ op # "UpdateGatewayStatus"
    /\ Handled(op, "INVALID_INPUT", NoVal)
    /\ UNCHANGED dirVars

Registered(s) == s \in state.sites

GetSiteByHost(h) ==
    /\ Handled("GetSiteByHost",
               IF state.domains[h] = NoVal THEN "NOT_FOUND" ELSE "OK", NoVal)
    /\ UNCHANGED dirVars

GetSiteConfig(s) ==
    /\ Handled("GetSiteConfig", IF Registered(s) THEN "OK" ELSE "NOT_FOUND", NoVal)
    /\ UNCHANGED dirVars

GetSiteRuntime(s) ==
    /\ Handled("GetSiteRuntime",
               IF Registered(s) /\ state.runtimes[s] # NoRuntime THEN "OK"
               ELSE "NOT_FOUND", NoVal)
    /\ UNCHANGED dirVars

\* Fields that are not given keep their value.
Merged(old, rt) == [f \in Fields |-> IF rt[f] = NoVal THEN old[f] ELSE rt[f]]

\* Wrong: a pointer in a message may name just a worker.
AcceptedAny(rt) == rt # NoRuntime

Accepted(rt) == ValidRuntime(rt)

\* v is the version in the configuration, or else the one in the message;
\* rt is NoRuntime when the message has none.  A site that is registered
\* already is answered OK and stays as it is.
RegisterSite(s, v, rt) ==
    LET valid == rt = NoRuntime \/ Accepted(rt)
    IN  /\ Handled("RegisterSite", IF valid THEN "OK" ELSE "INVALID_INPUT", NoVal)
        /\ state' = IF ~valid \/ Registered(s) THEN state
                    ELSE [state EXCEPT !.sites = @ \cup {s},
                                       !.versions[s] = v,
                                       !.runtimes[s] = Merged(@, rt)]
        /\ UNCHANGED <<gateways, file>>

\* SetSiteRuntime and UpsertSiteRuntime.
SetSiteRuntime(s, rt) ==
    /\ Handled("SetSiteRuntime",
               IF ~Registered(s) THEN "NOT_FOUND"
               ELSE IF Accepted(rt) THEN "OK" ELSE "INVALID_INPUT", NoVal)
    /\ state' = IF Registered(s) /\ Accepted(rt)
                THEN [state EXCEPT !.runtimes[s] = Merged(@, rt)] ELSE state
    /\ UNCHANGED <<gateways, file>>

\* A host that is bound to another site changes hands.
BindDomain(s, h) ==
    /\ Handled("BindDomain", IF Registered(s) THEN "OK" ELSE "NOT_FOUND", NoVal)
    /\ state' = IF Registered(s) THEN [state EXCEPT !.domains[h] = s] ELSE state
    /\ UNCHANGED <<gateways, file>>

\* The expected version counts only when the site has an active one.
SetActiveVersion(s, v, expected) ==
    LET conflict == /\ expected # NoVal
                    /\ state.versions[s] \notin {NoVal, expected}
    IN  /\ Handled("SetActiveVersion",
                   IF ~Registered(s) THEN "NOT_FOUND"
                   ELSE IF conflict THEN "VERSION_CONFLICT" ELSE "OK", NoVal)
        /\ state' = IF Registered(s) /\ ~conflict
                    THEN [state EXCEPT !.versions[s] = v] ELSE state
        /\ UNCHANGED <<gateways, file>>

GrantRole(s, u, role) ==
    /\ Handled("GrantRole", IF Registered(s) THEN "OK" ELSE "NOT_FOUND", NoVal)
    /\ state' = IF Registered(s) THEN [state EXCEPT !.roles[s][u] = role] ELSE state
    /\ UNCHANGED <<gateways, file>>

-----------------------------------------------------------------------------
(***************************************************************************)
(* Gateways                                                                *)
(***************************************************************************)

\* A gateway that is registered already is answered OK and stays as it is.
RegisterGateway(g, gw) ==
    /\ Handled("RegisterGateway", "OK", NoVal)
    /\ gateways' = IF gateways[g] # NoVal THEN gateways
                   ELSE [gateways EXCEPT ![g] = gw]
    /\ UNCHANGED <<state, file>>

\* A field is written when it is given and valid and no field before it was
\* refused.
Updated(old, given, refused) ==
    IF given \in {NoVal, Bad} \/ refused THEN old ELSE given

\* Each field is checked and assigned before the next one is looked at; a
\* refusal keeps what has been assigned.
UpdateGatewayStatus(g, status, score, weight, domains) ==
    LET none  == status = NoVal /\ score = NoVal /\ weight = NoVal /\ domains = NoVal
        bad1  == status = Bad
        bad2  == bad1 \/ score = Bad
        bad3  == bad2 \/ weight = Bad
    IN  /\ Handled("UpdateGatewayStatus",
                   IF gateways[g] = NoVal THEN "NOT_FOUND"
                   ELSE IF none \/ bad3 \/ domains = Bad THEN "INVALID_INPUT"
                   ELSE "OK", NoVal)
        /\ gateways' = IF gateways[g] = NoVal THEN gateways
               ELSE [gateways EXCEPT
                       ![g].status  = Updated(@, status, FALSE),
                       ![g].score   = Updated(@, score, bad1),
                       ![g].weight  = Updated(@, weight, bad2),
                       ![g].domains = Updated(@, domains, bad3)]
        /\ UNCHANGED <<state, file>>

Serves(g, h) == \E d \in gateways[g].domains : <<h, d>> \in Covers

\* Wrong: gateways that are not online are candidates too.
CandidatesAny(h) == {g \in Gateways : gateways[g] # NoVal /\ Serves(g, h)}

Candidates(h) ==
    {g \in Gateways : /\ gateways[g] # NoVal
                      /\ gateways[g].status = "online"
                      /\ Serves(g, h)}

\* The order of the candidates: score, weight, id.
Before(a, b) ==
    LET x == gateways[a]
        y == gateways[b]
    IN  \/ x.score > y.score
        \/ x.score = y.score /\ x.weight > y.weight
        \/ x.score = y.score /\ x.weight = y.weight /\ a < b

ResolveGatewayForHost(h) ==
    /\ \/ /\ Candidates(h) = {}
          /\ Handled("ResolveGatewayForHost", "NOT_FOUND", NoVal)
       \/ \E g \in Candidates(h) :
              /\ \A o \in Candidates(h) \ {g} : Before(g, o)
              /\ Handled("ResolveGatewayForHost", "OK", g)
    /\ UNCHANGED dirVars

ListGateways ==
    /\ Handled("ListGateways", "OK", NoVal)
    /\ UNCHANGED dirVars

-----------------------------------------------------------------------------
(***************************************************************************)
(* Resolvers and their flags                                               *)
(***************************************************************************)

UpdateTrustResolvers(list) ==
    /\ Handled("UpdateTrustResolvers", "OK", NoVal)
    /\ state' = [state EXCEPT !.trust = list]
    /\ UNCHANGED <<gateways, file>>

GetTrustedResolvers ==
    /\ Handled("GetTrustedResolvers", "OK", NoVal)
    /\ UNCHANGED dirVars

\* Wrong: taking a flag off is let through.
GatePassesUnflag(op, r) ==
    \/ ~Flagged(file[r])
    \/ op = "UnflagResolver"
    \/ file[r] = "suspicious" /\ op = "GetResolverFlags"

\* check_resolver_flag, which reads the file for every message that names a
\* resolver.  Of the registry's actions these are the three below.
GatePasses(op, r) ==
    \/ ~Flagged(file[r])
    \/ file[r] = "suspicious" /\ op = "GetResolverFlags"

\* Nothing runs and nothing is saved.
RefusedByGate(op, r) ==
    /\ phase = "idle"
    /\ ~GatePasses(op, r)
    /\ reply' = [op |-> op, code |-> "FORBIDDEN", on |-> r]
    /\ UNCHANGED <<dirVars, phase, diskVars, behind>>

FlagResolver(r, flag) ==
    /\ GatePasses("FlagResolver", r)
    /\ Handled("FlagResolver", "OK", r)
    /\ state' = [state EXCEPT !.flags[r] = flag]
    /\ file' = [file EXCEPT ![r] = flag]
    /\ UNCHANGED gateways

UnflagResolver(r) ==
    /\ GatePasses("UnflagResolver", r)
    /\ Handled("UnflagResolver", "OK", r)
    /\ state' = [state EXCEPT !.flags[r] = NoVal]
    /\ file' = [file EXCEPT ![r] = "cleared"]
    /\ UNCHANGED gateways

\* For one resolver; the call without a Resolver-Id lists all flags and, like
\* GetTrustedResolvers, passes the gate and changes nothing.
GetResolverFlags(r) ==
    /\ GatePasses("GetResolverFlags", r)
    /\ Handled("GetResolverFlags", "OK", r)
    /\ UNCHANGED dirVars

-----------------------------------------------------------------------------
SiteMessage ==
    \/ \E h \in Hosts : GetSiteByHost(h)
    \/ \E s \in Sites :
        \/ GetSiteConfig(s)
        \/ GetSiteRuntime(s)
        \/ \E v \in Optional(Versions), rt \in Runtime : RegisterSite(s, v, rt)
        \/ \E rt \in Runtime : SetSiteRuntime(s, rt)
        \/ \E h \in Hosts : BindDomain(s, h)
        \/ \E v \in Versions, e \in Optional(Versions) : SetActiveVersion(s, v, e)
        \/ \E u \in Users, role \in Roles : GrantRole(s, u, role)

Given(S) == S \cup {NoVal, Bad}

GatewayMessage ==
    \/ \E g \in Gateways, gw \in Gateway :
        gw.region # Unset /\ RegisterGateway(g, gw)
    \/ \E g \in Gateways, st \in Given(Statuses), sc \in Given(Scores),
          w \in Given(Weights), ds \in Given(DomainLists) :
        UpdateGatewayStatus(g, st, sc, w, ds)
    \/ \E h \in Hosts : ResolveGatewayForHost(h)
    \/ ListGateways

ResolverMessage ==
    \/ \E list \in SUBSET Resolvers : UpdateTrustResolvers(list)
    \/ GetTrustedResolvers
    \/ \E r \in Resolvers :
        \/ \E flag \in Flags : FlagResolver(r, flag)
        \/ UnflagResolver(r)
        \/ GetResolverFlags(r)
        \/ \E op \in FlagOps : RefusedByGate(op, r)

Next ==
    \/ \E op \in Ops : RejectMalformed(op)
    \/ SiteMessage
    \/ GatewayMessage
    \/ ResolverMessage
    \/ SaveFails
    \/ Truncate
    \/ Write
    \/ Answer
    \/ Crash

Spec == Init /\ [][Next]_vars

-----------------------------------------------------------------------------
(***************************************************************************)
(* Properties                                                              *)
(***************************************************************************)

\* The tables keep their shape, whatever is lost on the way to the disk and
\* back: ensure_gateway_state fills in what persist.save leaves out.
TypeOK ==
    /\ state \in State
    /\ gateways \in [Gateways -> Gateway \cup {NoVal}]
    /\ disk \in Snapshot \cup {Torn}
    /\ file \in [Resolvers -> FileFlags]
    /\ phase \in {"idle", "handled", "unsaved", "writing", "written"}
    /\ reply \in Reply \cup {NoVal}
    /\ standing \in Snapshot \cup {NoVal}
    /\ unsaved \in 0..MaxUnsaved
    /\ behind \subseteq Resolvers
    /\ cut \subseteq Resolvers

\* Domains, pointers, active versions and roles belong to registered sites,
\* also in a state that was loaded after a crash; only a site whose name is
\* one of the pii_keys leaves its domains behind.
ReferencesRegistered ==
    /\ \A h \in Hosts : state.domains[h] \in state.sites \cup PiiKeys \cup {NoVal}
    /\ \A s \in Sites \ state.sites :
        /\ state.runtimes[s] = NoRuntime
        /\ state.versions[s] = NoVal
        /\ \A u \in Users : state.roles[s][u] = NoVal

\* Between two messages the registry holds, but for what is scrubbed, what
\* the last answered message left or a later one that was saved whole: no
\* crash takes back an answer or brings in half a message, unless it falls
\* inside persist.save or persist.save has given up on the last answer.
AnsweredSurvives == phase = "idle" /\ standing # NoVal => Scrubbed = standing

\* A resolver the registry reports as suspicious or blocked is treated as
\* such by the gate, whatever crashes fell between the line in the file and
\* the snapshot and whatever saves failed.
FlagEnforced ==
    \A r \in Resolvers : Flagged(state.flags[r]) => file[r] = state.flags[r]

\* The registry reports every flag the gate enforces, except where a crash
\* separated the two or the resolver's name is scrubbed.
FlagVisible ==
    \A r \in Resolvers \ (cut \cup PiiKeys) :
        Flagged(file[r]) => state.flags[r] = file[r]

\* Visitors are sent only to gateways that are online according to the last
\* answered message or a later one that was saved whole.  How the message was
\* answered does not matter: a refused UpdateGatewayStatus keeps what it had
\* assigned before it was refused.
RoutedAsAnswered ==
    \A g \in Gateways \ PiiKeys :
        reply # NoVal /\ reply.op = "ResolveGatewayForHost" /\ reply.on = g
                /\ standing # NoVal
            => standing.gateways[g] # NoVal /\ standing.gateways[g].status = "online"

\* Taking the flag off a resolver is answered OK (contracts.lua).  The gate
\* refuses the message that does it.
UnflagAnswered ==
    reply # NoVal /\ reply.op = "UnflagResolver" => reply.code # "FORBIDDEN"
=============================================================================
