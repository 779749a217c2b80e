---------------------------- MODULE WorkerAccess ----------------------------
(***************************************************************************)
(* What the environment of worker/src/index.ts lets through: the secrets   *)
(* every request needs, the tokens of its scopes and of the sites of the   *)
(* template API, and the signature of POST /notify.                        *)
(*                                                                         *)
(* Which variable names the deployment is the mode.  Two tests for         *)
(* production look at it: "masked" is a deployment where the first         *)
(* variable set is not production and a later one is, "capital" one where  *)
(* the first is production but for the case of its letters.                *)
(***************************************************************************)
EXTENDS Integers, FiniteSets

CONSTANTS
    Tokens,         \* values a token may have
    Sites,          \* sites of the template API
    Environments    \* bound: the environments a deployment may have

NoToken == "unset"
Scopes == {"read", "forget", "notify", "sign"}

\* A deployment: the variables that say what it is, tokens, secrets, and what is
\* optional.  An empty token in the map counts as none.
ASSUME AccessAssumption ==
    /\ NoToken \notin Tokens
    /\ Environments \subseteq
        [mode : {"other", "staging", "production", "masked", "capital"},
         require : BOOLEAN, memory : BOOLEAN, process : BOOLEAN, strict : {"unset", "0", "1"},
         tokens : [Scopes -> Tokens \cup {NoToken}], auth : Tokens \cup {NoToken},
         forget : Tokens \cup {NoToken},
         inboxSecret : {"unset", "placeholder", "set"}, inboxOptional : BOOLEAN,
         notifySecret : {"unset", "placeholder", "set"}, notifyOptional : BOOLEAN,
         tokenMap : UNION {[S -> Tokens] : S \in SUBSET Sites},
         templateToken : Tokens \cup {NoToken}, templateOptional : BOOLEAN]

VARIABLES
    env,            \* the environment as configured
    opened,         \* history: what a token has opened: a scope or a site
    volatile,       \* history: a request was taken on the in-memory store
    unsigned        \* history: a notification without a valid signature was taken

accessVars == <<env, opened, volatile, unsigned>>

AccessInit == env \in Environments /\ opened = {} /\ volatile = FALSE /\ unsigned = FALSE

-----------------------------------------------------------------------------

Enforced(e) == e.require \/ ~e.memory

\* kvFor takes the in-memory store when the bindings ask for it, or the
\* environment of the process, which nothing else looks at.
InMemory(e) == e.memory \/ e.process

Production(e) == e.mode \in {"production", "masked"}

ProductionLike(e) == e.mode \in {"production", "staging", "capital"}

Proper(secret) == secret \notin {"unset", "placeholder"}

\* Either of FORGET_TOKEN and WORKER_AUTH_TOKEN stands in for the other, and an
\* optional inbox signature gets a secret.
Normalized(e) ==
    [e EXCEPT !.auth = IF @ = NoToken THEN e.forget ELSE @,
              !.forget = IF @ = NoToken THEN e.auth ELSE @,
              !.inboxSecret = IF @ = "unset" /\ e.inboxOptional THEN "stress-secret" ELSE @]

\* Wrong: a production deployment may do without enforced secrets.
ConfiguredAnyhow(e) ==
    Enforced(e) => Proper(e.inboxSecret) /\ (e.notifyOptional \/ Proper(e.notifySecret))

\* ensureProdSecrets, asked by every request.
Configured(e) ==
    IF Enforced(e)
    THEN /\ Proper(e.inboxSecret)
         /\ e.notifyOptional \/ Proper(e.notifySecret)
         /\ ~(Production(e) /\ e.memory)
    ELSE ~Production(e)

Strict(e) ==
    IF e.strict = "unset" THEN Enforced(e) \/ ProductionLike(e) ELSE e.strict # "0"

\* Wrong: every scope has a token, but two may have the same.
TopologyShared(e) == \A s \in Scopes : e.tokens[s] # NoToken

Topology(e) ==
    /\ \A s \in Scopes : e.tokens[s] # NoToken
    /\ \A s, t \in Scopes : e.tokens[s] = e.tokens[t] => s = t

\* The token of a scope; without strict scopes a shared one stands in, but for /sign.
Expected(e, scope) ==
    IF e.tokens[scope] # NoToken \/ Strict(e) \/ scope = "sign" THEN e.tokens[scope]
    ELSE e.auth

Opens(e, scope, token) ==
    /\ Expected(e, scope) # NoToken /\ token = Expected(e, scope)
    /\ Strict(e) => Topology(e)

\* The token of a site: from the map, if it is there, or the one for all sites.
ExpectedOf(e, site) ==
    IF site \in DOMAIN e.tokenMap THEN e.tokenMap[site] ELSE e.templateToken

OpensSite(e, site, token) ==
    IF ExpectedOf(e, site) = NoToken THEN e.templateOptional ELSE token = ExpectedOf(e, site)

\* What verifyNotifySignature lets through: a request with a signature that is
\* valid, wrong or missing.
SignatureTaken(e, sig) ==
    /\ Enforced(e) => Proper(e.notifySecret)
    /\ \/ e.notifySecret = "unset"
       \/ sig = "missing" /\ e.notifyOptional
       \/ sig = "valid"

\* A request with the token of a scope; a notification needs a signature as well.
ScopeRequest(scope, token, sig) ==
    LET e == Normalized(env) IN
    /\ Configured(e) /\ Opens(e, scope, token)
    /\ opened' = opened \cup {[kind |-> "scope", of |-> scope, token |-> token]}
    /\ volatile' = (volatile \/ InMemory(e))
    /\ unsigned' = (unsigned \/ (scope = "notify" /\ sig # "valid" /\ SignatureTaken(e, sig)))
    /\ UNCHANGED env

TemplateRequest(site, token) ==
    LET e == Normalized(env) IN
    /\ Configured(e) /\ OpensSite(e, site, token)
    /\ opened' = opened \cup {[kind |-> "site", of |-> site, token |-> token]}
    /\ volatile' = (volatile \/ InMemory(e))
    /\ UNCHANGED <<env, unsigned>>

AccessNext ==
    \/ \E scope \in Scopes, token \in Tokens, sig \in {"valid", "wrong", "missing"} :
          ScopeRequest(scope, token, sig)
    \/ \E site \in Sites, token \in Tokens : TemplateRequest(site, token)

AccessSpec == AccessInit /\ [][AccessNext]_accessVars

-----------------------------------------------------------------------------

\* Where scopes are strict no token opens two of them, whatever fallbacks are
\* configured beside them; sites with tokens of their own in the map never share
\* one either.
TokenIsolation ==
    \A p, q \in opened : p.token = q.token /\ p.kind = q.kind /\ p.of # q.of =>
        /\ p.kind = "scope" => ~Strict(env)
        /\ p.kind = "site" /\ {p.of, q.of} \subseteq DOMAIN env.tokenMap =>
              env.tokenMap[p.of] = env.tokenMap[q.of]

\* A deployment any variable calls production, in lower case, takes no request on
\* the in-memory store unless the environment of the process asks for it, and no
\* unsigned notification unless NOTIFY_HMAC_OPTIONAL says so.
ProductionGuarded ==
    Production(env) => /\ volatile => env.process
                       /\ unsigned => env.notifyOptional

=============================================================================
