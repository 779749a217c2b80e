-------------------------- MODULE IntegrityRegistry --------------------------
(***************************************************************************)
(* The integrity part of ao/registry/process.lua: trusted releases and the *)
(* index of their roots, the active release of every component, the policy *)
(* (active root, pause switch), the signing authorities and the audit      *)
(* commitments.  One action per handler; a handler runs to completion      *)
(* before the next message is taken.                                       *)
(*                                                                         *)
(* Data kept: component, version and root of a release, one digest for the *)
(* pair Uri-Hash/Meta-Hash, whether it is revoked.  Timestamps, reasons    *)
(* and the upgrade/emergency authorities are opaque and left out.          *)
(***************************************************************************)
EXTENDS Integers, FiniteSets

CONSTANTS
    Components,     \* Component-Id values
    Versions,       \* Version values
    Roots,          \* Root values of releases
    Digests,        \* (Uri-Hash, Meta-Hash) pairs
    PolicyHashes,   \* Policy-Hash values
    AgeInputs,      \* Max-CheckIn-Age-Sec values callers send, valid or not
    DefaultAge,     \* maxCheckInAgeSec of a fresh registry
    SeqInputs,      \* Seq-From and Seq-To values callers send, valid or not
    Tokens,         \* authority, reporter and signature references
    UnsetToken,     \* the "authority-...-unset" placeholder
    NoVal           \* Lua's nil

ASSUME InputAssumption ==
    /\ AgeInputs \subseteq Int
    /\ DefaultAge \in Nat \ {0}
    /\ SeqInputs \subseteq Int
    /\ UnsetToken \in Tokens

Keys == Components \X Versions

Release == [componentId : Components, version : Versions, root : Roots,
            digest : Digests, revoked : BOOLEAN]

ASSUME NoValAssumption ==
    NoVal \notin (Components \cup Versions \cup Roots \cup PolicyHashes
                  \cup AgeInputs \cup Keys \cup Release)

VARIABLES
    releases,       \* state.integrity.releases
    roots,          \* state.integrity.roots
    active,         \* state.integrity.active
    policy,         \* state.integrity.policy
    authority,      \* state.integrity.authority
    audit,          \* state.integrity.audit
    committed,      \* history: the sequence numbers accepted so far
    reply           \* the response to the last message

relVars == <<releases, roots, active>>
vars == <<releases, roots, active, policy, authority, audit, committed, reply>>

Ops == {"PublishTrustedRelease", "RevokeTrustedRelease",
        "GetTrustedReleaseByVersion", "GetTrustedReleaseByRoot",
        "GetTrustedRoot", "GetIntegritySnapshot", "SetIntegrityPolicyPause",
        "SetIntegrityAuthority", "AppendIntegrityAuditCommitment"}

Codes == {"OK", "INVALID_INPUT", "VERSION_CONFLICT", "ROOT_CONFLICT",
          "NOT_FOUND"}

Reply == [op : Ops, code : Codes, component : Components \cup {NoVal},
          release : Release \cup {NoVal}]

Answer(op, code, c, rel) ==
    [op |-> op, code |-> code, component |-> c, release |-> rel]

Init ==
    /\ releases = [k \in Keys |-> NoVal]
    /\ roots = [r \in Roots |-> NoVal]
    /\ active = [c \in Components |-> NoVal]
    /\ policy = [activeRoot |-> NoVal, activePolicyHash |-> NoVal,
                 paused |-> FALSE, maxCheckInAgeSec |-> DefaultAge]
    /\ authority = [root |-> UnsetToken, reporter |-> UnsetToken,
                    signatureRefs |-> {UnsetToken}]
    /\ audit = [seqFrom |-> 0, seqTo |-> 0, reporterRef |-> UnsetToken]
    /\ committed = {}
    /\ reply = NoVal

-----------------------------------------------------------------------------
(***************************************************************************)
(* Releases                                                                *)
(***************************************************************************)

\* A field that may be absent in the message.
Optional(S) == S \cup {NoVal}

\* A message whose fields are missing, superfluous or malformed.  The checks
\* precede every assignment of the handler.
RejectMalformed(op) ==
    /\ reply' = Answer(op, "INVALID_INPUT", NoVal, NoVal)
    /\ UNCHANGED <<relVars, policy, authority, audit, committed>>

ValidAge(age) == age > 0

ReleaseOfRoot(r) ==
    IF r = NoVal THEN NoVal
    ELSE IF roots[r] = NoVal THEN NoVal ELSE releases[roots[r]]

\* Wrong: the named component is not compared with the policy's release, and
\* its own active version is not consulted.
GetActiveReleaseAnyComponent(c) == ReleaseOfRoot(policy.activeRoot)

\* The release a component runs; NoVal for c stands for the call without a
\* component.
GetActiveRelease(c) ==
    LET own    == IF c = NoVal THEN NoVal
                  ELSE IF active[c] = NoVal THEN NoVal
                  ELSE releases[<<c, active[c]>>]
        byRoot == ReleaseOfRoot(policy.activeRoot)
    IN  IF own # NoVal THEN own
        ELSE IF byRoot = NoVal THEN NoVal
        ELSE IF c # NoVal /\ byRoot.componentId # c THEN NoVal
        ELSE byRoot

\* The fields an activating publish writes in the policy.
ActivatedPolicy(root, hash, age) ==
    [policy EXCEPT !.activeRoot = root,
                   !.activePolicyHash = IF hash = NoVal THEN @ ELSE hash,
                   !.maxCheckInAgeSec = IF age = NoVal THEN @ ELSE age]

\* Republishing a version: the same data is acknowledged without activating
\* it, other data is refused.
PublishExisting(c, v, root, digest) ==
    LET existing == releases[<<c, v>>] IN
    /\ existing # NoVal
    /\ reply' = IF existing.root # root \/ existing.digest # digest
                THEN Answer("PublishTrustedRelease", "VERSION_CONFLICT", c, NoVal)
                ELSE Answer("PublishTrustedRelease", "OK", c, existing)
    /\ UNCHANGED <<relVars, policy, authority, audit, committed>>

\* Wrong: the root index is not consulted.
RootTakenUnchecked(root, key) == FALSE

\* The root is registered for another release.
RootTaken(root, key) == roots[root] # NoVal /\ roots[root] # key

PublishRootConflict(c, v, root) ==
    /\ releases[<<c, v>>] = NoVal
    /\ RootTaken(root, <<c, v>>)
    /\ reply' = Answer("PublishTrustedRelease", "ROOT_CONFLICT", c, NoVal)
    /\ UNCHANGED <<relVars, policy, authority, audit, committed>>

\* The two indexes after a publish that stores the release.
Stored(c, v, root, digest) ==
    LET rel == [componentId |-> c, version |-> v, root |-> root,
                digest |-> digest, revoked |-> FALSE]
    IN  /\ releases' = [releases EXCEPT ![<<c, v>>] = rel]
        /\ roots' = [roots EXCEPT ![root] = <<c, v>>]
        /\ reply' = Answer("PublishTrustedRelease", "OK", c, rel)

PublishNew(c, v, root, digest, activate, hash, age) ==
    /\ releases[<<c, v>>] = NoVal
    /\ ~RootTaken(root, <<c, v>>)
    /\ Stored(c, v, root, digest)
    /\ IF activate
       THEN /\ active' = [active EXCEPT ![c] = v]
            /\ policy' = ActivatedPolicy(root, hash, age)
       ELSE UNCHANGED <<active, policy>>
    /\ UNCHANGED <<authority, audit, committed>>

PublishTrustedRelease(c, v, root, digest, activate, hash, age) ==
    IF age # NoVal /\ ~ValidAge(age)
    THEN RejectMalformed("PublishTrustedRelease")
    ELSE \/ PublishExisting(c, v, root, digest)
         \/ PublishRootConflict(c, v, root)
         \/ PublishNew(c, v, root, digest, activate, hash, age)

\* Root and Version both name a release, and not the same one.
RevokeAmbiguous(c, v, root) ==
    /\ v # NoVal /\ root # NoVal
    /\ roots[root] # NoVal /\ roots[root] # <<c, v>>

\* key_from_root or key_from_version: a Root nobody registered falls back to
\* the Version.
RevokedKey(c, v, root) ==
    IF root # NoVal /\ roots[root] # NoVal THEN roots[root]
    ELSE IF v # NoVal THEN <<c, v>> ELSE NoVal

ReleaseAt(k) == IF k = NoVal THEN NoVal ELSE releases[k]

\* Wrong: the pause is forgotten.
PausedByRevokeNever(rel) == policy.paused

\* Revoking the release behind the active root pauses the policy.
PausedByRevoke(rel) == IF policy.activeRoot = rel.root THEN TRUE ELSE policy.paused

\* Wrong: revoking deletes the release and leaves the root index behind.
RevokeFoundDeletes(c, v, root) ==
    LET k == RevokedKey(c, v, root)
        rel == ReleaseAt(k)
    IN  /\ ~RevokeAmbiguous(c, v, root)
        /\ rel # NoVal
        /\ releases' = [releases EXCEPT ![k] = NoVal]
        /\ policy' = [policy EXCEPT !.paused = PausedByRevoke(rel)]
        /\ reply' = Answer("RevokeTrustedRelease", "OK", c, rel)
        /\ UNCHANGED <<roots, active, authority, audit, committed>>

RevokeFound(c, v, root) ==
    LET k == RevokedKey(c, v, root)
        rel == ReleaseAt(k)
    IN  /\ ~RevokeAmbiguous(c, v, root)
        /\ rel # NoVal
        /\ IF rel.revoked
           THEN /\ reply' = Answer("RevokeTrustedRelease", "OK", c, rel)
                /\ UNCHANGED <<releases, policy>>
           ELSE /\ releases' = [releases EXCEPT ![k].revoked = TRUE]
                /\ policy' = [policy EXCEPT !.paused = PausedByRevoke(rel)]
                /\ reply' = Answer("RevokeTrustedRelease", "OK", c, releases'[k])
        /\ UNCHANGED <<roots, active, authority, audit, committed>>

RevokeRefused(c, v, root) ==
    /\ \/ RevokeAmbiguous(c, v, root)
       \/ ReleaseAt(RevokedKey(c, v, root)) = NoVal
    /\ reply' = Answer("RevokeTrustedRelease",
                       IF RevokeAmbiguous(c, v, root) THEN "INVALID_INPUT"
                                                      ELSE "NOT_FOUND",
                       c, NoVal)
    /\ UNCHANGED <<relVars, policy, authority, audit, committed>>

RevokeTrustedRelease(c, v, root) ==
    /\ v # NoVal \/ root # NoVal
    /\ RevokeFound(c, v, root) \/ RevokeRefused(c, v, root)

\* The release an answer carries, or NOT_FOUND.
Found(op, c, rel) ==
    /\ reply' = IF rel = NoVal THEN Answer(op, "NOT_FOUND", c, NoVal)
                               ELSE Answer(op, "OK", c, rel)
    /\ UNCHANGED <<relVars, policy, authority, audit, committed>>

GetTrustedReleaseByVersion(c, v) ==
    Found("GetTrustedReleaseByVersion", c, releases[<<c, v>>])

GetTrustedReleaseByRoot(root) ==
    Found("GetTrustedReleaseByRoot", NoVal, ReleaseOfRoot(root))

\* A revoked release is reported as not found to the two trust queries.
Trusted(rel) == IF rel = NoVal THEN NoVal ELSE IF rel.revoked THEN NoVal ELSE rel

GetTrustedRoot(c) == Found("GetTrustedRoot", c, Trusted(GetActiveRelease(c)))

GetIntegritySnapshot ==
    Found("GetIntegritySnapshot", NoVal, Trusted(GetActiveRelease(NoVal)))

-----------------------------------------------------------------------------
(***************************************************************************)
(* Policy, authority, audit commitments                                    *)
(***************************************************************************)

\* The policy hash is written before the age is validated: a bad age leaves
\* the new hash in place and the pause switch as it was.
SetIntegrityPolicyPause(paused, hash, age) ==
    LET hashed == [policy EXCEPT !.activePolicyHash = IF hash = NoVal THEN @ ELSE hash]
    IN  /\ IF age # NoVal /\ ~ValidAge(age)
           THEN /\ policy' = hashed
                /\ reply' = Answer("SetIntegrityPolicyPause", "INVALID_INPUT",
                                   NoVal, NoVal)
           ELSE /\ policy' = [hashed EXCEPT
                                !.maxCheckInAgeSec = IF age = NoVal THEN @ ELSE age,
                                !.paused = paused]
                /\ reply' = Answer("SetIntegrityPolicyPause", "OK", NoVal, NoVal)
        /\ UNCHANGED <<relVars, authority, audit, committed>>

\* Signature-Refs default to the root authority and may not be empty.
SetIntegrityAuthority(root, reporter, refs) ==
    /\ IF refs = {}
       THEN /\ reply' = Answer("SetIntegrityAuthority", "INVALID_INPUT", NoVal, NoVal)
            /\ UNCHANGED authority
       ELSE /\ authority' = [root |-> root, reporter |-> reporter,
                             signatureRefs |-> IF refs = NoVal THEN {root} ELSE refs]
            /\ reply' = Answer("SetIntegrityAuthority", "OK", NoVal, NoVal)
    /\ UNCHANGED <<relVars, policy, audit, committed>>

\* Wrong: a range may start where the last one ended.
SeqCheckOffByOne(from, to) ==
    IF from <= 0 \/ to <= 0 \/ to < from THEN "INVALID_INPUT"
    ELSE IF audit.seqTo > 0 /\ from < audit.seqTo THEN "VERSION_CONFLICT"
    ELSE "OK"

\* The outcome of the sequence checks of an audit commitment, in the order
\* the handler makes them.
SeqCheck(from, to) ==
    IF from <= 0 \/ to <= 0 \/ to < from THEN "INVALID_INPUT"
    ELSE IF audit.seqTo > 0 /\ from <= audit.seqTo THEN "VERSION_CONFLICT"
    ELSE "OK"

\* Reporter-Ref is stored as sent; it is not compared with the authority.
AppendIntegrityAuditCommitment(from, to, reporter) ==
    LET code == SeqCheck(from, to) IN
    /\ IF code = "OK"
       THEN /\ audit' = [seqFrom |-> from, seqTo |-> to, reporterRef |-> reporter]
            /\ committed' = committed \cup (from .. to)
       ELSE UNCHANGED <<audit, committed>>
    /\ reply' = Answer("AppendIntegrityAuditCommitment", code, NoVal, NoVal)
    /\ UNCHANGED <<relVars, policy, authority>>

-----------------------------------------------------------------------------

ReleaseNext ==
    \E c \in Components :
        \/ \E v \in Versions, root \in Roots, digest \in Digests,
              activate \in BOOLEAN, hash \in Optional(PolicyHashes),
              age \in Optional(AgeInputs) :
              PublishTrustedRelease(c, v, root, digest, activate, hash, age)
        \/ \E v \in Optional(Versions), root \in Optional(Roots) :
              RevokeTrustedRelease(c, v, root)
        \/ \E v \in Versions : GetTrustedReleaseByVersion(c, v)
        \/ GetTrustedRoot(c)

PolicyNext ==
    \/ \E paused \in BOOLEAN, hash \in Optional(PolicyHashes),
          age \in Optional(AgeInputs) :
          SetIntegrityPolicyPause(paused, hash, age)
    \/ \E root, reporter \in Tokens, refs \in Optional(SUBSET Tokens) :
          SetIntegrityAuthority(root, reporter, refs)
    \/ \E from, to \in SeqInputs, reporter \in Tokens :
          AppendIntegrityAuditCommitment(from, to, reporter)

Next ==
    \/ ReleaseNext
    \/ PolicyNext
    \/ \E root \in Roots : GetTrustedReleaseByRoot(root)
    \/ GetIntegritySnapshot
    \/ \E op \in Ops : RejectMalformed(op)

Spec == Init /\ [][Next]_vars

-----------------------------------------------------------------------------
(***************************************************************************)
(* Properties                                                              *)
(***************************************************************************)

\* The shape of state.integrity: what ensure_integrity_state restores on load
\* and every handler keeps (a pause flag, a positive check-in age, at least
\* one signature reference, an ordered audit range).
TypeOK ==
    /\ releases \in [Keys -> Release \cup {NoVal}]
    /\ roots \in [Roots -> Keys \cup {NoVal}]
    /\ active \in [Components -> Versions \cup {NoVal}]
    /\ policy \in [activeRoot : Roots \cup {NoVal},
                   activePolicyHash : PolicyHashes \cup {NoVal},
                   paused : BOOLEAN, maxCheckInAgeSec : Nat \ {0}]
    /\ authority \in [root : Tokens, reporter : Tokens,
                      signatureRefs : SUBSET Tokens]
    /\ authority.signatureRefs # {}
    /\ audit \in [seqFrom : Nat, seqTo : Nat, reporterRef : Tokens]
    /\ audit.seqFrom <= audit.seqTo
    /\ committed \subseteq Nat
    /\ reply \in Reply \cup {NoVal}

\* The releases table and the roots table are each other's inverse: a root
\* leads to the one release that carries it and every release is reachable by
\* its root, so no two releases ever share a root (PublishTrustedRelease keeps
\* them in step, RevokeTrustedRelease must not break them apart).
IndexesAgree ==
    /\ \A r \in Roots : roots[r] # NoVal =>
          /\ releases[roots[r]] # NoVal
          /\ releases[roots[r]].root = r
    /\ \A c \in Components, v \in Versions : releases[<<c, v>>] # NoVal =>
          /\ releases[<<c, v>>].componentId = c
          /\ releases[<<c, v>>].version = v
          /\ roots[releases[<<c, v>>].root] = <<c, v>>

\* The two ways of naming what runs agree: the policy's active root belongs to
\* a release that is also the active version of its own component, and every
\* active version is a published release.  get_active_release relies on this
\* when it falls back from the component to the policy.
ActivePointersAgree ==
    /\ \A c \in Components : active[c] # NoVal => releases[<<c, active[c]>>] # NoVal
    /\ policy.activeRoot # NoVal =>
          /\ roots[policy.activeRoot] # NoVal
          /\ active[roots[policy.activeRoot][1]] = roots[policy.activeRoot][2]

\* A component that asks for its trusted root is answered with a release of
\* its own, the version activated last and not a revoked one; a snapshot
\* carries the unrevoked release behind the policy's active root.
TrustedAnswers ==
    reply # NoVal /\ reply.code = "OK" =>
        /\ reply.op = "GetTrustedRoot" =>
              /\ reply.release.componentId = reply.component
              /\ reply.release.version = active[reply.component]
              /\ ~releases[<<reply.component, active[reply.component]>>].revoked
        /\ reply.op = "GetIntegritySnapshot" =>
              /\ reply.release.root = policy.activeRoot
              /\ ~releases[roots[policy.activeRoot]].revoked

\* Once published, a version keeps its root and digests for ever, and once
\* revoked it stays revoked: no republication, activation or second revocation
\* rewrites or revives a release.
ReleaseHistory ==
    [][\A k \in Keys : releases[k] # NoVal =>
          /\ releases'[k] # NoVal
          /\ releases'[k].root = releases[k].root
          /\ releases'[k].digest = releases[k].digest
          /\ releases[k].revoked => releases'[k].revoked]_vars

ActiveRootRevoked ==
    LET rel == ReleaseOfRoot(policy.activeRoot)
    IN  rel # NoVal /\ rel.revoked

\* The registry fails closed: it reaches a state that runs on a revoked active
\* root with the policy not paused only because an operator said so with
\* SetIntegrityPolicyPause; neither a revocation nor a publication leads there.
FailClosed ==
    [][(ActiveRootRevoked' /\ ~policy'.paused) =>
          \/ ActiveRootRevoked /\ ~policy.paused
          \/ reply'.op = "SetIntegrityPolicyPause" /\ reply'.code = "OK"]_vars

\* No sequence number is committed by two audit commitments, whatever ranges
\* were accepted before the current one.
NoSeqCommittedTwice ==
    [][audit' # audit => (audit'.seqFrom .. audit'.seqTo) \cap committed = {}]_vars

=============================================================================
