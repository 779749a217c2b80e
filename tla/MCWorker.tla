------------------------------- MODULE MCWorker -------------------------------
(***************************************************************************)
(* Instances for TLC of what worker/src/index.ts keeps between requests    *)
(* and checks before it serves one: the mailbox, notifications, access and *)
(* signing.  They share no state, so a behaviour is one of one of them,    *)
(* with the others at rest.                                                *)
(***************************************************************************)
EXTENDS WorkerInbox, WorkerNotify, WorkerAccess, WorkerSigning, TLC

CONSTANTS
    t1, t2, t3, t4, s1, s2,
    MaxRequests     \* bound: requests to the mailbox in one behaviour

VARIABLE part

MCVars == <<part, vars, notifyVars, accessVars, signVars>>

-----------------------------------------------------------------------------
(***************************************************************************)
(* Settings, environments, bodies and policies                             *)
(***************************************************************************)

Lite == [rate |-> 0, spray |-> 0, subject |-> 0, dedupe |-> FALSE, channel |-> FALSE,
         attempts |-> 2, threshold |-> 1]

MCSettings ==
    {[Lite EXCEPT !.rate = 1], [Lite EXCEPT !.rate = 2], [Lite EXCEPT !.spray = 1],
     [Lite EXCEPT !.subject = 1],
     [Lite EXCEPT !.dedupe = TRUE, !.channel = TRUE, !.attempts = 1, !.threshold = 5],
     [Lite EXCEPT !.channel = TRUE],
     [Lite EXCEPT !.channel = TRUE, !.threshold = 2, !.attempts = 1]}

MCTokens(read, forgetting, notify, sign) ==
    [read |-> read, forget |-> forgetting, notify |-> notify, sign |-> sign]

Distinct == MCTokens(t1, t2, t3, t4)

\* Deployments of every mode, with and without enforced secrets.
Guarded ==
    [mode : {"other", "staging", "production", "masked", "capital"}, require : BOOLEAN,
     memory : BOOLEAN, process : BOOLEAN, strict : {NoToken}, tokens : {Distinct}, auth : {NoToken},
     forget : {t1}, inboxSecret : {"unset", "placeholder", "set"}, inboxOptional : BOOLEAN,
     notifySecret : {"unset", "set"}, notifyOptional : BOOLEAN, tokenMap : {<<>>},
     templateToken : {NoToken}, templateOptional : {FALSE}]

\* Deployments whose tokens are shared or missing.
Scoped ==
    [mode : {"other", "capital"}, require : {FALSE}, memory : {TRUE}, process : {FALSE},
     strict : {"unset", "0", "1"},
     tokens : {Distinct, MCTokens(t1, t1, t3, t4), MCTokens(NoToken, t2, t3, t4),
               MCTokens(NoToken, NoToken, NoToken, NoToken)},
     auth : {NoToken, t1}, forget : {NoToken, t2}, inboxSecret : {"set"},
     inboxOptional : {FALSE}, notifySecret : {"set"}, notifyOptional : {FALSE},
     tokenMap : {<<>>}, templateToken : {NoToken}, templateOptional : {FALSE}]

\* Deployments with tokens for none, one or all of the sites.
Template ==
    [mode : {"other"}, require : {FALSE}, memory : {TRUE}, process : {FALSE}, strict : {"0"},
     tokens : {Distinct}, auth : {NoToken}, forget : {NoToken}, inboxSecret : {"set"},
     inboxOptional : {FALSE}, notifySecret : {"set"}, notifyOptional : {FALSE},
     tokenMap : {<<>>, s1 :> t1, (s1 :> t1) @@ (s2 :> t2)},
     templateToken : {NoToken, t1}, templateOptional : BOOLEAN]

MCEnvironments == Guarded \cup Scoped \cup Template

MCBody(ts, sites, refs, action, role) ==
    [nonce |-> "n", ts |-> ts, sites |-> sites, refs |-> refs, action |-> action,
     role |-> role]

MCBodies ==
    {MCBody(2, {"s1"}, {}, "PublishPage", "admin"),
     MCBody(3, {"s1"}, {"ref"}, "PublishPage", "admin"),
     MCBody(2, {"s1", "s2"}, {"ref"}, "PublishPage", "admin"),
     MCBody(2, {"s1"}, {"ref"}, "BindDomain", "viewer")}

MCRule(family, selector, action, role) ==
    [family |-> family, selector |-> selector, action |-> action, role |-> role]

NoPolicy == [state |-> "absent", required |-> FALSE, families |-> {}, rules |-> {},
             controlPlane |-> TRUE]

MCPolicies ==
    {NoPolicy,
     [NoPolicy EXCEPT !.state = "broken", !.required = TRUE, !.controlPlane = FALSE],
     [NoPolicy EXCEPT !.state = "set", !.required = TRUE, !.controlPlane = FALSE,
        !.families = {"site", "ref"},
        !.rules = {MCRule("site", "s1", "PublishPage", "*"),
                   MCRule("ref", "ref", "PublishPage", "admin"),
                   MCRule("site", "s1", "BindDomain", "*")}]}

-----------------------------------------------------------------------------

\* The configuration of a part at rest makes no difference.
MCInit ==
    /\ part \in {"mailbox", "notify", "access", "signing"}
    /\ Init /\ NotifyInit /\ AccessInit /\ SigningInit
    /\ part # "mailbox" => durable
    /\ part # "notify" => setting = [Lite EXCEPT !.channel = TRUE]
    /\ part # "access" => env = CHOOSE e \in Scoped : TRUE
    /\ part # "signing" => policy = NoPolicy

Begun == Cardinality({p \in Posts : posts[p].pc # "new"})
         + Cardinality({g \in Reads : reads[g].pc # "new"}) + forget.count

MCMailbox ==
    /\ part = "mailbox" /\ Next
    /\ Begun' <= MaxRequests
    /\ UNCHANGED <<notifyVars, accessVars, signVars>>

MCNotify == part = "notify" /\ NotifyNext /\ UNCHANGED <<vars, accessVars, signVars>>
MCAccess == part = "access" /\ AccessNext /\ UNCHANGED <<vars, notifyVars, signVars>>
MCSigning == part = "signing" /\ SigningNext /\ UNCHANGED <<vars, notifyVars, accessVars>>

MCNext == (MCMailbox \/ MCNotify \/ MCAccess \/ MCSigning) /\ UNCHANGED part

MCSpec == MCInit /\ [][MCNext]_MCVars

\* Requests, and what names a message, are the same values in all of the parts.
MCSymmetry == Permutations(Posts) \cup Permutations(Reads) \cup Permutations(Nonces)
              \cup Permutations(Isolates)

=============================================================================
