---------------------- MODULE IntegrityRegistryProofs ----------------------
(***************************************************************************)
(* Proofs that the integrity registry keeps its tables consistent and      *)
(* fails closed, for any sets of components, versions, roots and tokens.   *)
(***************************************************************************)
EXTENDS IntegrityRegistry, TLAPS

\* Every committed sequence number lies at or below the end of the last range:
\* what makes the single comparison of SeqCheck enough.
CommittedBelow == \A n \in committed : n <= audit.seqTo

IInv == TypeOK /\ IndexesAgree /\ ActivePointersAgree /\ CommittedBelow

\* What the handlers that only answer leave unchanged.
Quiet == UNCHANGED <<relVars, policy, authority, audit, committed>>

\* An optional field is either present or nil.
LEMMA OptionalCases ==
    ASSUME NEW S, NEW x \in Optional(S)
    PROVE  x \in S \/ x = NoVal
  BY DEF Optional

\* Init establishes the inductive invariant.
LEMMA InitInv == Init => IInv
  <1> SUFFICES ASSUME Init PROVE IInv
    OBVIOUS
  <1>1. TypeOK
    BY InputAssumption DEF Init, TypeOK
  <1>2. IndexesAgree
    BY DEF Init, IndexesAgree, Keys
  <1>3. ActivePointersAgree /\ CommittedBelow
    BY DEF Init, ActivePointersAgree, CommittedBelow
  <1> QED
    BY <1>1, <1>2, <1>3 DEF IInv

\* A release found through a root or through the active pointers is nil or a
\* stored release.
LEMMA ReadTypes ==
    ASSUME TypeOK
    PROVE  /\ \A r \in Optional(Roots) : ReleaseOfRoot(r) \in Optional(Release)
           /\ \A c \in Optional(Components) : GetActiveRelease(c) \in Optional(Release)
  <1>1. \A r \in Optional(Roots) : ReleaseOfRoot(r) \in Optional(Release)
    BY NoValAssumption DEF TypeOK, Optional, ReleaseOfRoot
  <1>2. policy.activeRoot \in Optional(Roots)
    BY DEF TypeOK, Optional
  <1>3. ASSUME NEW c \in Components, active[c] # NoVal
        PROVE  releases[<<c, active[c]>>] \in Optional(Release)
    <2>1. <<c, active[c]>> \in Keys
      BY <1>3 DEF TypeOK, Keys
    <2> QED
      BY <2>1 DEF TypeOK, Optional
  <1>4. ASSUME NEW c \in Optional(Components)
        PROVE  GetActiveRelease(c) \in Optional(Release)
    BY <1>1, <1>2, <1>3, NoValAssumption DEF GetActiveRelease, Optional
  <1> QED
    BY <1>1, <1>4

\* A handler that only answers keeps the invariant.
LEMMA QuietStep ==
    ASSUME IInv, Quiet, reply' \in Reply \cup {NoVal}
    PROVE  IInv'
  BY DEF IInv, Quiet, relVars, TypeOK, IndexesAgree, ActivePointersAgree,
         CommittedBelow

\* Answers are replies.
LEMMA AnswerType ==
    ASSUME NEW op \in Ops, NEW code \in Codes, NEW c \in Optional(Components),
           NEW rel \in Optional(Release)
    PROVE  Answer(op, code, c, rel) \in Reply
  BY DEF Answer, Reply, Optional

\* A lookup that ends in Found only answers.
LEMMA FoundStep ==
    ASSUME IInv, NEW op \in Ops, NEW c \in Optional(Components),
           NEW rel \in Optional(Release), Found(op, c, rel)
    PROVE  IInv'
  <1>1. Quiet
    BY DEF Found, Quiet
  <1>2. reply' \in Reply
    <2>1. NoVal \in Optional(Release) /\ {"OK", "NOT_FOUND"} \subseteq Codes
      BY DEF Optional, Codes
    <2> QED
      BY <2>1, AnswerType DEF Found
  <1> QED
    BY <1>1, <1>2, QuietStep

\* A malformed message only answers.
LEMMA RejectStep ==
    ASSUME IInv, NEW op \in Ops, RejectMalformed(op)
    PROVE  IInv'
  <1>1. Quiet
    BY DEF RejectMalformed, Quiet
  <1>2. reply' \in Reply
    BY AnswerType DEF RejectMalformed, Codes, Optional
  <1> QED
    BY <1>1, <1>2, QuietStep

\* Storing a release under a free key and a free root keeps the two tables
\* inverse; activating it moves both active pointers together.
LEMMA PublishNewStep ==
    ASSUME IInv, NEW c \in Components, NEW v \in Versions, NEW root \in Roots,
           NEW digest \in Digests, NEW activate \in BOOLEAN,
           NEW hash \in Optional(PolicyHashes), NEW age \in Optional(AgeInputs),
           age = NoVal \/ ValidAge(age),
           PublishNew(c, v, root, digest, activate, hash, age)
    PROVE  IInv'
  <1> DEFINE k == <<c, v>>
             rel == [componentId |-> c, version |-> v, root |-> root,
                     digest |-> digest, revoked |-> FALSE]
  <1>1. k \in Keys /\ rel \in Release /\ rel # NoVal /\ k # NoVal
    <2>1. k \in Keys
      BY DEF Keys
    <2>2. rel \in Release
      BY DEF Release
    <2>3. NoVal \notin Keys /\ NoVal \notin Release
      BY NoValAssumption
    <2> QED
      BY <2>1, <2>2, <2>3
  <1>2. /\ releases[k] = NoVal
        /\ roots[root] = NoVal \/ roots[root] = k
        /\ releases' = [releases EXCEPT ![k] = rel]
        /\ roots' = [roots EXCEPT ![root] = k]
        /\ reply' = Answer("PublishTrustedRelease", "OK", c, rel)
        /\ UNCHANGED <<authority, audit, committed>>
    BY DEF PublishNew, Stored, RootTaken
  <1>3. roots[root] = NoVal
    BY <1>1, <1>2 DEF IInv, IndexesAgree
  <1>4. /\ activate => /\ active' = [active EXCEPT ![c] = v]
                       /\ policy' = ActivatedPolicy(root, hash, age)
        /\ ~activate => UNCHANGED <<active, policy>>
    BY DEF PublishNew
  <1>5. reply' \in Reply
    BY <1>1, <1>2, AnswerType DEF Ops, Codes, Optional
  <1>6. releases' \in [Keys -> Release \cup {NoVal}] /\ roots' \in [Roots -> Keys \cup {NoVal}]
    BY <1>1, <1>2 DEF IInv, TypeOK
  <1>7. active' \in [Components -> Versions \cup {NoVal}]
    BY <1>4 DEF IInv, TypeOK
  <1>8. policy' \in [activeRoot : Roots \cup {NoVal},
                     activePolicyHash : PolicyHashes \cup {NoVal},
                     paused : BOOLEAN, maxCheckInAgeSec : Nat \ {0}]
    <2>1. age = NoVal \/ age \in Nat \ {0}
      BY InputAssumption DEF ValidAge, Optional
    <2> QED
      BY <1>4, <2>1, NoValAssumption DEF ActivatedPolicy, Optional, IInv, TypeOK
  <1>9. TypeOK'
    BY <1>2, <1>5, <1>6, <1>7, <1>8 DEF IInv, TypeOK
  <1>10. IndexesAgree'
    <2>1. ASSUME NEW r \in Roots, roots'[r] # NoVal
          PROVE  releases'[roots'[r]] # NoVal /\ releases'[roots'[r]].root = r
      <3>1. CASE r = root
        BY <3>1, <1>1, <1>2 DEF IInv, TypeOK
      <3>2. CASE r # root
        <4>1. roots'[r] = roots[r] /\ roots[r] \in Keys
          BY <3>2, <2>1, <1>2 DEF IInv, TypeOK
        <4>2. releases[roots[r]] # NoVal /\ releases[roots[r]].root = r
          BY <4>1, <2>1 DEF IInv, IndexesAgree
        <4>3. releases'[roots[r]] = releases[roots[r]]
          BY <4>1, <4>2, <1>2 DEF IInv, TypeOK
        <4> QED
          BY <4>1, <4>2, <4>3
      <3> QED
        BY <3>1, <3>2
    <2>2. ASSUME NEW c2 \in Components, NEW v2 \in Versions,
                 releases'[<<c2, v2>>] # NoVal
          PROVE  /\ releases'[<<c2, v2>>].componentId = c2
                 /\ releases'[<<c2, v2>>].version = v2
                 /\ roots'[releases'[<<c2, v2>>].root] = <<c2, v2>>
      <3>0. <<c2, v2>> \in Keys
        BY DEF Keys
      <3>1. CASE <<c2, v2>> = k
        BY <3>1, <1>1, <1>2 DEF IInv, TypeOK
      <3>2. CASE <<c2, v2>> # k
        <4>1. releases'[<<c2, v2>>] = releases[<<c2, v2>>]
          BY <3>0, <3>2, <1>2 DEF IInv, TypeOK
        <4>2. /\ releases[<<c2, v2>>].componentId = c2
              /\ releases[<<c2, v2>>].version = v2
              /\ roots[releases[<<c2, v2>>].root] = <<c2, v2>>
          BY <4>1, <2>2 DEF IInv, IndexesAgree
        <4>3. releases[<<c2, v2>>].root \in Roots
          BY <4>1, <2>2, <3>0 DEF IInv, TypeOK, Release
        <4>4. releases[<<c2, v2>>].root # root
          BY <4>2, <1>3, <3>0, NoValAssumption
        <4> QED
          BY <4>1, <4>2, <4>3, <4>4, <1>2 DEF IInv, TypeOK
      <3> QED
        BY <3>1, <3>2
    <2> QED
      BY <2>1, <2>2 DEF IndexesAgree
  <1>11. ActivePointersAgree'
    <2>1. ASSUME NEW c2 \in Components, active'[c2] # NoVal
          PROVE  releases'[<<c2, active'[c2]>>] # NoVal
      <3>1. CASE activate /\ c2 = c
        BY <3>1, <1>1, <1>2, <1>4 DEF IInv, TypeOK
      <3>2. CASE ~(activate /\ c2 = c)
        <4>1. active'[c2] = active[c2]
          BY <3>2, <1>4 DEF IInv, TypeOK
        <4>2. releases[<<c2, active[c2]>>] # NoVal /\ <<c2, active[c2]>> \in Keys
          BY <4>1, <2>1 DEF IInv, TypeOK, ActivePointersAgree, Keys
        <4> QED
          BY <4>1, <4>2, <1>1, <1>2 DEF IInv, TypeOK
      <3> QED
        BY <3>1, <3>2
    <2>2. ASSUME policy'.activeRoot # NoVal
          PROVE  /\ roots'[policy'.activeRoot] # NoVal
                 /\ active'[roots'[policy'.activeRoot][1]] = roots'[policy'.activeRoot][2]
      <3>1. CASE activate
        <4>1. policy'.activeRoot = root
          BY <3>1, <1>4 DEF ActivatedPolicy, IInv, TypeOK
        <4>2. roots'[root] = k /\ active'[c] = v
          BY <3>1, <1>2, <1>4 DEF IInv, TypeOK
        <4> QED
          BY <4>1, <4>2, <1>1
      <3>2. CASE ~activate
        <4>1. policy' = policy /\ active' = active
          BY <3>2, <1>4
        <4>2. policy.activeRoot \in Roots /\ policy.activeRoot # root
          BY <4>1, <2>2, <1>3 DEF IInv, TypeOK, ActivePointersAgree
        <4>3. roots'[policy.activeRoot] = roots[policy.activeRoot]
          BY <4>2, <1>2 DEF IInv, TypeOK
        <4> QED
          BY <4>1, <4>3, <2>2 DEF IInv, ActivePointersAgree
      <3> QED
        BY <3>1, <3>2
    <2> QED
      BY <2>1, <2>2 DEF ActivePointersAgree
  <1>12. CommittedBelow'
    BY <1>2 DEF IInv, CommittedBelow
  <1> QED
    BY <1>9, <1>10, <1>11, <1>12 DEF IInv

\* Publishing keeps the invariant in each of its outcomes.
LEMMA PublishStep ==
    ASSUME IInv, NEW c \in Components, NEW v \in Versions, NEW root \in Roots,
           NEW digest \in Digests, NEW activate \in BOOLEAN,
           NEW hash \in Optional(PolicyHashes), NEW age \in Optional(AgeInputs),
           PublishTrustedRelease(c, v, root, digest, activate, hash, age)
    PROVE  IInv'
  <1>0. "PublishTrustedRelease" \in Ops
    BY DEF Ops
  <1>1. CASE age # NoVal /\ ~ValidAge(age)
    BY <1>0, <1>1, RejectStep DEF PublishTrustedRelease
  <1>2. CASE ~(age # NoVal /\ ~ValidAge(age))
    <2>1. CASE PublishExisting(c, v, root, digest)
      <3>1. releases[<<c, v>>] \in Release
        <4>1. <<c, v>> \in Keys
          BY DEF Keys
        <4> QED
          BY <2>1, <4>1 DEF PublishExisting, IInv, TypeOK
      <3>2. reply' \in Reply
        <4>1. /\ {"VERSION_CONFLICT", "OK"} \subseteq Codes
              /\ NoVal \in Optional(Release) /\ releases[<<c, v>>] \in Optional(Release)
              /\ c \in Optional(Components)
          BY <3>1 DEF Codes, Optional
        <4> QED
          BY <2>1, <4>1, <1>0, AnswerType DEF PublishExisting
      <3>3. Quiet
        BY <2>1 DEF PublishExisting, Quiet
      <3> QED
        BY <3>2, <3>3, QuietStep
    <2>2. CASE PublishRootConflict(c, v, root)
      <3>1. reply' \in Reply
        <4>1. "ROOT_CONFLICT" \in Codes /\ NoVal \in Optional(Release)
              /\ c \in Optional(Components)
          BY DEF Codes, Optional
        <4> QED
          BY <2>2, <4>1, <1>0, AnswerType DEF PublishRootConflict
      <3>2. Quiet
        BY <2>2 DEF PublishRootConflict, Quiet
      <3> QED
        BY <3>1, <3>2, QuietStep
    <2>3. CASE PublishNew(c, v, root, digest, activate, hash, age)
      BY <1>2, <2>3, PublishNewStep
    <2> QED
      BY <1>2, <2>1, <2>2, <2>3 DEF PublishTrustedRelease
  <1> QED
    BY <1>1, <1>2

\* The key a revocation resolves to is a key or nil.
LEMMA RevokedKeyType ==
    ASSUME TypeOK, NEW c \in Components, NEW v \in Optional(Versions),
           NEW root \in Optional(Roots)
    PROVE  RevokedKey(c, v, root) \in Keys \cup {NoVal}
  <1>1. root # NoVal => roots[root] \in Keys \cup {NoVal}
    BY DEF TypeOK, Optional
  <1>2. v # NoVal => <<c, v>> \in Keys
    BY DEF Optional, Keys
  <1> QED
    BY <1>1, <1>2 DEF RevokedKey

\* Revoking only sets the mark of one release (and the pause switch).
LEMMA RevokeEffect ==
    ASSUME TypeOK, NEW c \in Components, NEW v \in Optional(Versions),
           NEW root \in Optional(Roots), RevokeFound(c, v, root)
    PROVE  \E k \in Keys :
             LET rel == releases[k] IN
             /\ rel \in Release
             /\ \/ UNCHANGED <<releases, policy>> /\ rel.revoked
                \/ /\ ~rel.revoked
                   /\ releases' = [releases EXCEPT ![k] = [rel EXCEPT !.revoked = TRUE]]
                   /\ policy' = [policy EXCEPT !.paused = PausedByRevoke(rel)]
             /\ reply' = Answer("RevokeTrustedRelease", "OK", c, releases'[k])
             /\ UNCHANGED <<roots, active, authority, audit, committed>>
  <1> DEFINE k == RevokedKey(c, v, root)
  <1>1. k \in Keys \cup {NoVal}
    BY RevokedKeyType
  <1>2. k # NoVal /\ ReleaseAt(k) # NoVal
    BY DEF RevokeFound, ReleaseAt
  <1>3. k \in Keys /\ ReleaseAt(k) = releases[k] /\ releases[k] \in Release
    BY <1>1, <1>2 DEF ReleaseAt, TypeOK
  <1>4. CASE releases[k].revoked
    BY <1>3, <1>4 DEF RevokeFound
  <1>5. CASE ~releases[k].revoked
    <2>1. /\ releases' = [releases EXCEPT ![k].revoked = TRUE]
          /\ policy' = [policy EXCEPT !.paused = PausedByRevoke(releases[k])]
          /\ reply' = Answer("RevokeTrustedRelease", "OK", c, releases'[k])
          /\ UNCHANGED <<roots, active, authority, audit, committed>>
      BY <1>3, <1>5 DEF RevokeFound
    <2>2. releases' = [releases EXCEPT ![k] = [releases[k] EXCEPT !.revoked = TRUE]]
      BY <2>1
    <2> QED
      BY <1>3, <1>5, <2>1, <2>2
  <1> QED
    BY <1>4, <1>5

\* Revoking keeps the invariant.
LEMMA RevokeStep ==
    ASSUME IInv, NEW c \in Components, NEW v \in Optional(Versions),
           NEW root \in Optional(Roots), RevokeTrustedRelease(c, v, root)
    PROVE  IInv'
  <1>0. "RevokeTrustedRelease" \in Ops /\ c \in Optional(Components)
    BY DEF Ops, Optional
  <1>1. CASE RevokeRefused(c, v, root)
    <2>1. Quiet
      BY <1>1 DEF RevokeRefused, Quiet
    <2>2. reply' \in Reply
      <3>1. {"INVALID_INPUT", "NOT_FOUND"} \subseteq Codes /\ NoVal \in Optional(Release)
        BY DEF Codes, Optional
      <3> QED
        BY <1>0, <1>1, <3>1, AnswerType DEF RevokeRefused
    <2> QED
      BY <2>1, <2>2, QuietStep
  <1>2. CASE RevokeFound(c, v, root)
    <2>1. PICK k \in Keys :
             LET rel == releases[k] IN
             /\ rel \in Release
             /\ \/ UNCHANGED <<releases, policy>> /\ rel.revoked
                \/ /\ ~rel.revoked
                   /\ releases' = [releases EXCEPT ![k] = [rel EXCEPT !.revoked = TRUE]]
                   /\ policy' = [policy EXCEPT !.paused = PausedByRevoke(rel)]
             /\ reply' = Answer("RevokeTrustedRelease", "OK", c, releases'[k])
             /\ UNCHANGED <<roots, active, authority, audit, committed>>
      BY <1>2, RevokeEffect DEF IInv
    <2> DEFINE new == [releases[k] EXCEPT !.revoked = TRUE]
    <2>2. /\ new \in Release /\ new.root = releases[k].root
          /\ new.componentId = releases[k].componentId
          /\ new.version = releases[k].version
      BY <2>1 DEF Release
    <2>3. releases[k] # NoVal /\ new # NoVal
      BY <2>1, <2>2, NoValAssumption
    <2>4. /\ releases' \in [Keys -> Release \cup {NoVal}]
          /\ \A j \in Keys : /\ releases'[j] = NoVal <=> releases[j] = NoVal
                             /\ releases[j] # NoVal =>
                                  /\ releases'[j].root = releases[j].root
                                  /\ releases'[j].componentId = releases[j].componentId
                                  /\ releases'[j].version = releases[j].version
      <3>1. CASE releases' = releases
        BY <3>1 DEF IInv, TypeOK
      <3>2. CASE releases' = [releases EXCEPT ![k] = new]
        BY <3>2, <2>2, <2>3 DEF IInv, TypeOK
      <3> QED
        BY <2>1, <3>1, <3>2
    <2>5. reply' \in Reply
      <3>1. releases'[k] \in Optional(Release)
        BY <2>4 DEF Optional
      <3> QED
        BY <1>0, <2>1, <3>1, AnswerType DEF Codes
    <2>6. /\ policy' \in [activeRoot : Roots \cup {NoVal},
                          activePolicyHash : PolicyHashes \cup {NoVal},
                          paused : BOOLEAN, maxCheckInAgeSec : Nat \ {0}]
          /\ policy'.activeRoot = policy.activeRoot
      BY <2>1 DEF PausedByRevoke, IInv, TypeOK
    <2>7. TypeOK'
      BY <2>1, <2>4, <2>5, <2>6 DEF IInv, TypeOK
    <2>8. IndexesAgree'
      <3>1. ASSUME NEW r \in Roots, roots[r] # NoVal
            PROVE  releases'[roots[r]] # NoVal /\ releases'[roots[r]].root = r
        <4>1. roots[r] \in Keys
          BY <3>1 DEF IInv, TypeOK
        <4> QED
          BY <3>1, <4>1, <2>4 DEF IInv, IndexesAgree
      <3>2. ASSUME NEW c2 \in Components, NEW v2 \in Versions,
                   releases'[<<c2, v2>>] # NoVal
            PROVE  /\ releases'[<<c2, v2>>].componentId = c2
                   /\ releases'[<<c2, v2>>].version = v2
                   /\ roots[releases'[<<c2, v2>>].root] = <<c2, v2>>
        <4>1. <<c2, v2>> \in Keys
          BY DEF Keys
        <4> QED
          BY <3>2, <4>1, <2>4 DEF IInv, IndexesAgree
      <3> QED
        BY <3>1, <3>2, <2>1 DEF IndexesAgree
    <2>9. ActivePointersAgree'
      <3>1. ASSUME NEW c2 \in Components, active[c2] # NoVal
            PROVE  releases'[<<c2, active[c2]>>] # NoVal
        <4>1. <<c2, active[c2]>> \in Keys
          BY <3>1 DEF IInv, TypeOK, Keys
        <4> QED
          BY <3>1, <4>1, <2>4 DEF IInv, ActivePointersAgree
      <3> QED
        BY <3>1, <2>1, <2>6 DEF IInv, ActivePointersAgree
    <2>10. CommittedBelow'
      BY <2>1 DEF IInv, CommittedBelow
    <2> QED
      BY <2>7, <2>8, <2>9, <2>10 DEF IInv
  <1> QED
    BY <1>1, <1>2 DEF RevokeTrustedRelease

\* The policy handler touches neither the tables nor the active root.
LEMMA PauseStep ==
    ASSUME IInv, NEW paused \in BOOLEAN, NEW hash \in Optional(PolicyHashes),
           NEW age \in Optional(AgeInputs),
           SetIntegrityPolicyPause(paused, hash, age)
    PROVE  IInv'
  <1>1. UNCHANGED <<releases, roots, active, authority, audit, committed>>
    BY DEF SetIntegrityPolicyPause, relVars
  <1>2. /\ policy' \in [activeRoot : Roots \cup {NoVal},
                        activePolicyHash : PolicyHashes \cup {NoVal},
                        paused : BOOLEAN, maxCheckInAgeSec : Nat \ {0}]
        /\ policy'.activeRoot = policy.activeRoot
    <2>1. CASE age # NoVal /\ ~ValidAge(age)
      BY <2>1, NoValAssumption DEF SetIntegrityPolicyPause, Optional, IInv, TypeOK
    <2>2. CASE ~(age # NoVal /\ ~ValidAge(age))
      <3>1. age = NoVal \/ age \in Nat \ {0}
        BY <2>2, InputAssumption DEF ValidAge, Optional
      <3> DEFINE hashed == [policy EXCEPT !.activePolicyHash =
                                IF hash = NoVal THEN policy.activePolicyHash ELSE hash]
                 newAge == IF age = NoVal THEN hashed.maxCheckInAgeSec ELSE age
      <3>2. /\ hashed \in [activeRoot : Roots \cup {NoVal},
                           activePolicyHash : PolicyHashes \cup {NoVal},
                           paused : BOOLEAN, maxCheckInAgeSec : Nat \ {0}]
            /\ hashed.activeRoot = policy.activeRoot
        BY DEF Optional, IInv, TypeOK
      <3>3. policy' = [hashed EXCEPT !.maxCheckInAgeSec = newAge, !.paused = paused]
        BY <2>2 DEF SetIntegrityPolicyPause
      <3>4. newAge \in Nat \ {0}
        BY <3>1, <3>2
      <3> HIDE DEF hashed, newAge
      <3> QED
        BY <3>2, <3>3, <3>4
    <2> QED
      BY <2>1, <2>2
  <1>3. reply' \in Reply
    <2>1. /\ {"OK", "INVALID_INPUT"} \subseteq Codes
          /\ "SetIntegrityPolicyPause" \in Ops
          /\ NoVal \in Optional(Components) /\ NoVal \in Optional(Release)
      BY DEF Codes, Ops, Optional
    <2> QED
      BY <2>1, AnswerType DEF SetIntegrityPolicyPause
  <1> QED
    BY <1>1, <1>2, <1>3 DEF IInv, TypeOK, IndexesAgree, ActivePointersAgree,
       CommittedBelow

\* The authority handler touches the authority only.
LEMMA AuthorityStep ==
    ASSUME IInv, NEW root \in Tokens, NEW reporter \in Tokens,
           NEW refs \in Optional(SUBSET Tokens),
           SetIntegrityAuthority(root, reporter, refs)
    PROVE  IInv'
  <1>1. UNCHANGED <<releases, roots, active, policy, audit, committed>>
    BY DEF SetIntegrityAuthority, relVars
  <1>2. /\ authority' \in [root : Tokens, reporter : Tokens,
                           signatureRefs : SUBSET Tokens]
        /\ authority'.signatureRefs # {}
    BY DEF SetIntegrityAuthority, Optional, IInv, TypeOK
  <1>3. reply' \in Reply
    <2>1. /\ {"OK", "INVALID_INPUT"} \subseteq Codes
          /\ "SetIntegrityAuthority" \in Ops
          /\ NoVal \in Optional(Components) /\ NoVal \in Optional(Release)
      BY DEF Codes, Ops, Optional
    <2> QED
      BY <2>1, AnswerType DEF SetIntegrityAuthority
  <1> QED
    BY <1>1, <1>2, <1>3 DEF IInv, TypeOK, IndexesAgree, ActivePointersAgree,
       CommittedBelow

\* An accepted range starts above everything committed before it.
LEMMA AppendEffect ==
    ASSUME IInv, NEW from \in SeqInputs, NEW to \in SeqInputs,
           SeqCheck(from, to) = "OK"
    PROVE  /\ from \in Nat /\ to \in Nat /\ from <= to
           /\ \A n \in committed : n < from
  <1>1. from \in Int /\ to \in Int
    BY InputAssumption
  <1>2. from > 0 /\ to > 0 /\ from <= to
    BY <1>1 DEF SeqCheck
  <1>3. audit.seqTo \in Nat /\ (audit.seqTo > 0 => from > audit.seqTo)
    BY <1>1 DEF SeqCheck, IInv, TypeOK
  <1>4. ASSUME NEW n \in committed
        PROVE  n < from
    BY <1>1, <1>2, <1>3 DEF IInv, TypeOK, CommittedBelow
  <1> QED
    BY <1>1, <1>2, <1>4

\* An audit commitment keeps the invariant.
LEMMA AppendStep ==
    ASSUME IInv, NEW from \in SeqInputs, NEW to \in SeqInputs,
           NEW reporter \in Tokens,
           AppendIntegrityAuditCommitment(from, to, reporter)
    PROVE  IInv'
  <1>1. UNCHANGED <<releases, roots, active, policy, authority>>
    BY DEF AppendIntegrityAuditCommitment, relVars
  <1>2. reply' \in Reply
    <2>1. /\ SeqCheck(from, to) \in Codes
          /\ "AppendIntegrityAuditCommitment" \in Ops
          /\ NoVal \in Optional(Components) /\ NoVal \in Optional(Release)
      BY DEF Codes, Ops, Optional, SeqCheck
    <2> QED
      BY <2>1, AnswerType DEF AppendIntegrityAuditCommitment
  <1>3. CASE SeqCheck(from, to) # "OK"
    BY <1>1, <1>2, <1>3 DEF AppendIntegrityAuditCommitment, IInv, TypeOK,
       IndexesAgree, ActivePointersAgree, CommittedBelow
  <1>4. CASE SeqCheck(from, to) = "OK"
    <2>1. /\ audit' = [seqFrom |-> from, seqTo |-> to, reporterRef |-> reporter]
          /\ committed' = committed \cup (from .. to)
      BY <1>4 DEF AppendIntegrityAuditCommitment
    <2>2. /\ from \in Nat /\ to \in Nat /\ from <= to
          /\ \A n \in committed : n < from
      BY <1>4, AppendEffect
    <2>3. committed' \subseteq Nat /\ CommittedBelow'
      BY <2>1, <2>2 DEF IInv, TypeOK, CommittedBelow
    <2> QED
      BY <1>1, <1>2, <2>1, <2>2, <2>3 DEF IInv, TypeOK, IndexesAgree,
         ActivePointersAgree
  <1> QED
    BY <1>3, <1>4

\* Every step keeps the invariant: one case per handler.
LEMMA NextInv == IInv /\ [Next]_vars => IInv'
  <1> SUFFICES ASSUME IInv, [Next]_vars PROVE IInv'
    OBVIOUS
  <1>0. TypeOK
    BY DEF IInv
  <1>1. CASE UNCHANGED vars
    BY <1>1 DEF vars, IInv, TypeOK, IndexesAgree, ActivePointersAgree, CommittedBelow
  <1>2. ASSUME NEW c \in Components, NEW v \in Versions, NEW root \in Roots,
               NEW digest \in Digests, NEW activate \in BOOLEAN,
               NEW hash \in Optional(PolicyHashes), NEW age \in Optional(AgeInputs),
               PublishTrustedRelease(c, v, root, digest, activate, hash, age)
        PROVE  IInv'
    BY <1>2, PublishStep
  <1>3. ASSUME NEW c \in Components, NEW v \in Optional(Versions),
               NEW root \in Optional(Roots), RevokeTrustedRelease(c, v, root)
        PROVE  IInv'
    BY <1>3, RevokeStep
  <1>4. ASSUME NEW c \in Components, NEW v \in Versions,
               GetTrustedReleaseByVersion(c, v)
        PROVE  IInv'
    <2>1. <<c, v>> \in Keys
      BY DEF Keys
    <2>2. releases[<<c, v>>] \in Optional(Release) /\ c \in Optional(Components)
      BY <1>0, <2>1 DEF TypeOK, Optional
    <2> QED
      BY <1>4, <2>2, FoundStep DEF GetTrustedReleaseByVersion, Ops
  <1>5. ASSUME NEW c \in Components, GetTrustedRoot(c)
        PROVE  IInv'
    <2>1. c \in Optional(Components) /\ NoVal \in Optional(Release)
      BY DEF Optional
    <2>2. Trusted(GetActiveRelease(c)) \in Optional(Release)
      BY <1>0, <2>1, ReadTypes DEF Trusted
    <2> QED
      BY <1>5, <2>1, <2>2, FoundStep DEF GetTrustedRoot, Ops
  <1>6. ASSUME NEW root \in Roots, GetTrustedReleaseByRoot(root)
        PROVE  IInv'
    <2>1. NoVal \in Optional(Components) /\ root \in Optional(Roots)
      BY DEF Optional
    <2>2. ReleaseOfRoot(root) \in Optional(Release)
      BY <1>0, <2>1, ReadTypes
    <2> QED
      BY <1>6, <2>1, <2>2, FoundStep DEF GetTrustedReleaseByRoot, Ops
  <1>7. ASSUME GetIntegritySnapshot
        PROVE  IInv'
    <2>1. NoVal \in Optional(Components) /\ NoVal \in Optional(Release)
      BY DEF Optional
    <2>2. Trusted(GetActiveRelease(NoVal)) \in Optional(Release)
      BY <1>0, <2>1, ReadTypes DEF Trusted
    <2> QED
      BY <1>7, <2>1, <2>2, FoundStep DEF GetIntegritySnapshot, Ops
  <1>8. ASSUME NEW op \in Ops, RejectMalformed(op)
        PROVE  IInv'
    BY <1>8, RejectStep
  <1>9. CASE PolicyNext
    BY <1>9, PauseStep, AuthorityStep, AppendStep DEF PolicyNext
  <1>10. CASE ReleaseNext
    BY <1>10, <1>2, <1>3, <1>4, <1>5 DEF ReleaseNext
  <1> QED
    BY <1>1, <1>6, <1>7, <1>8, <1>9, <1>10 DEF Next

\* The inductive invariant holds throughout.
LEMMA InvariantHolds == Spec => []IInv
  BY InitInv, NextInv, PTL DEF Spec

\* The state of the integrity registry keeps its shape: positive check-in age,
\* non-empty signature references, ordered audit range.
THEOREM TypeCorrect == Spec => []TypeOK
  <1>1. IInv => TypeOK
    BY DEF IInv
  <1> QED
    BY <1>1, InvariantHolds, PTL

\* The releases and roots tables stay inverse to each other.
THEOREM IndexesCorrect == Spec => []IndexesAgree
  <1>1. IInv => IndexesAgree
    BY DEF IInv
  <1> QED
    BY <1>1, InvariantHolds, PTL

\* The policy's active root always belongs to the active version of its own
\* component.
THEOREM PointersCorrect == Spec => []ActivePointersAgree
  <1>1. IInv => ActivePointersAgree
    BY DEF IInv
  <1> QED
    BY <1>1, InvariantHolds, PTL

-----------------------------------------------------------------------------
(***************************************************************************)
(* Action properties                                                       *)
(***************************************************************************)

\* A publish that stores a release, with the inputs it may carry.
SomePublishNew ==
    \E c \in Components, v \in Versions, root \in Roots, digest \in Digests,
       activate \in BOOLEAN, hash \in Optional(PolicyHashes),
       age \in Optional(AgeInputs) :
          PublishNew(c, v, root, digest, activate, hash, age)

\* A revocation that found its release.
SomeRevokeFound ==
    \E c \in Components, v \in Optional(Versions), root \in Optional(Roots) :
          RevokeFound(c, v, root)

SomePause ==
    \E paused \in BOOLEAN, hash \in Optional(PolicyHashes),
       age \in Optional(AgeInputs) : SetIntegrityPolicyPause(paused, hash, age)

SomeAppend ==
    \E from, to \in SeqInputs, reporter \in Tokens :
          AppendIntegrityAuditCommitment(from, to, reporter)

\* Only four handlers change the trust state; every other step leaves the
\* tables, the policy and the audit range as they are.
LEMMA WhoChanges ==
    ASSUME [Next]_vars
    PROVE  \/ UNCHANGED <<releases, roots, active, policy, audit, committed>>
           \/ SomePublishNew /\ UNCHANGED <<audit, committed>>
           \/ SomeRevokeFound /\ UNCHANGED <<roots, active, audit, committed>>
           \/ SomePause /\ UNCHANGED <<releases, roots, active, audit, committed>>
           \/ SomeAppend /\ UNCHANGED <<releases, roots, active, policy>>
  <1> DEFINE Same == UNCHANGED <<releases, roots, active, policy, audit, committed>>
  <1>1. CASE UNCHANGED vars
    BY <1>1 DEF vars
  <1>2. ASSUME NEW c \in Components, NEW v \in Versions, NEW root \in Roots,
               NEW digest \in Digests, NEW activate \in BOOLEAN,
               NEW hash \in Optional(PolicyHashes), NEW age \in Optional(AgeInputs),
               PublishTrustedRelease(c, v, root, digest, activate, hash, age)
        PROVE  Same \/ (SomePublishNew /\ UNCHANGED <<audit, committed>>)
    <2>1. CASE PublishNew(c, v, root, digest, activate, hash, age)
      BY <2>1 DEF SomePublishNew, PublishNew
    <2>2. CASE ~PublishNew(c, v, root, digest, activate, hash, age)
      BY <1>2, <2>2 DEF PublishTrustedRelease, RejectMalformed, PublishExisting,
         PublishRootConflict, relVars
    <2> QED
      BY <2>1, <2>2
  <1>3. ASSUME NEW c \in Components, NEW v \in Optional(Versions),
               NEW root \in Optional(Roots), RevokeTrustedRelease(c, v, root)
        PROVE  Same \/ (SomeRevokeFound /\ UNCHANGED <<roots, active, audit, committed>>)
    <2>1. CASE RevokeFound(c, v, root)
      BY <2>1 DEF SomeRevokeFound, RevokeFound
    <2>2. CASE RevokeRefused(c, v, root)
      BY <2>2 DEF RevokeRefused, relVars
    <2> QED
      BY <1>3, <2>1, <2>2 DEF RevokeTrustedRelease
  <1>4. CASE \/ \E c \in Components, v \in Versions : GetTrustedReleaseByVersion(c, v)
             \/ \E c \in Components : GetTrustedRoot(c)
             \/ \E root \in Roots : GetTrustedReleaseByRoot(root)
             \/ GetIntegritySnapshot
             \/ \E op \in Ops : RejectMalformed(op)
    BY <1>4 DEF GetTrustedReleaseByVersion, GetTrustedRoot, GetTrustedReleaseByRoot,
       GetIntegritySnapshot, Found, RejectMalformed, relVars
  <1>5. ASSUME SomePause
        PROVE  UNCHANGED <<releases, roots, active, audit, committed>>
    BY <1>5 DEF SomePause, SetIntegrityPolicyPause, relVars
  <1>6. ASSUME NEW root \in Tokens, NEW reporter \in Tokens,
               NEW refs \in Optional(SUBSET Tokens),
               SetIntegrityAuthority(root, reporter, refs)
        PROVE  Same
    BY <1>6 DEF SetIntegrityAuthority, relVars
  <1>7. ASSUME SomeAppend
        PROVE  UNCHANGED <<releases, roots, active, policy>>
    BY <1>7 DEF SomeAppend, AppendIntegrityAuditCommitment, relVars
  <1>8. CASE PolicyNext
    BY <1>8, <1>5, <1>6, <1>7 DEF PolicyNext, SomePause, SomeAppend
  <1>9. CASE ReleaseNext
    BY <1>9, <1>2, <1>3, <1>4 DEF ReleaseNext
  <1> QED
    BY <1>1, <1>4, <1>8, <1>9 DEF Next

\* Published releases keep root and digests, revoked ones stay revoked.
THEOREM HistoryCorrect == Spec => ReleaseHistory
  <1> DEFINE Kept(k) == /\ releases'[k] # NoVal
                        /\ releases'[k].root = releases[k].root
                        /\ releases'[k].digest = releases[k].digest
                        /\ releases[k].revoked => releases'[k].revoked
  <1>1. ASSUME IInv, [Next]_vars, NEW k \in Keys, releases[k] # NoVal
        PROVE  Kept(k)
    <2>0. TypeOK /\ releases[k] \in Release
      BY <1>1 DEF IInv, TypeOK
    <2>1. CASE UNCHANGED releases
      BY <2>1, <1>1
    <2>2. ASSUME NEW c \in Components, NEW v \in Versions, NEW root \in Roots,
                 NEW digest \in Digests, NEW activate \in BOOLEAN,
                 NEW hash \in Optional(PolicyHashes),
                 NEW age \in Optional(AgeInputs),
                 PublishNew(c, v, root, digest, activate, hash, age)
          PROVE  Kept(k)
      <3>1. k # <<c, v>>
        BY <1>1, <2>2 DEF PublishNew
      <3>2. releases'[k] = releases[k]
        BY <2>0, <2>2, <3>1 DEF PublishNew, Stored, TypeOK
      <3> QED
        BY <1>1, <3>2
    <2>3. ASSUME NEW c \in Components, NEW v \in Optional(Versions),
                 NEW root \in Optional(Roots), RevokeFound(c, v, root)
          PROVE  Kept(k)
      <3>1. PICK j \in Keys :
              LET rel == releases[j] IN
              /\ rel \in Release
              /\ \/ UNCHANGED <<releases, policy>> /\ rel.revoked
                 \/ /\ ~rel.revoked
                    /\ releases' = [releases EXCEPT ![j] = [rel EXCEPT !.revoked = TRUE]]
                    /\ policy' = [policy EXCEPT !.paused = PausedByRevoke(rel)]
              /\ reply' = Answer("RevokeTrustedRelease", "OK", c, releases'[j])
              /\ UNCHANGED <<roots, active, authority, audit, committed>>
        BY <2>0, <2>3, RevokeEffect
      <3>2. CASE k # j \/ UNCHANGED releases
        <4>1. releases'[k] = releases[k]
          BY <2>0, <3>1, <3>2 DEF TypeOK
        <4> QED
          BY <1>1, <4>1
      <3>3. CASE k = j /\ ~UNCHANGED releases
        <4>1. releases'[k] = [releases[k] EXCEPT !.revoked = TRUE]
          BY <2>0, <3>1, <3>3 DEF TypeOK
        <4>2. [releases[k] EXCEPT !.revoked = TRUE] \in Release
          BY <2>0 DEF Release
        <4>3. releases'[k] # NoVal
          BY <4>1, <4>2, NoValAssumption
        <4> QED
          BY <4>1, <4>3, <2>0 DEF Release
      <3> QED
        BY <3>2, <3>3
    <2> QED
      BY <1>1, <2>1, <2>2, <2>3, WhoChanges DEF SomePublishNew, SomeRevokeFound
  <1>2. IInv /\ [Next]_vars =>
          [\A k \in Keys : releases[k] # NoVal => Kept(k)]_vars
    BY <1>1
  <1> QED
    BY <1>2, InvariantHolds, PTL DEF Spec, ReleaseHistory

\* No sequence number is committed twice.
THEOREM SequenceCorrect == Spec => NoSeqCommittedTwice
  <1>1. ASSUME IInv, [Next]_vars, audit' # audit
        PROVE  (audit'.seqFrom .. audit'.seqTo) \cap committed = {}
    <2>1. SomeAppend
      BY <1>1, WhoChanges
    <2>2. PICK from \in SeqInputs, to \in SeqInputs, reporter \in Tokens :
             AppendIntegrityAuditCommitment(from, to, reporter)
      BY <2>1 DEF SomeAppend
    <2>3. /\ SeqCheck(from, to) = "OK"
          /\ audit' = [seqFrom |-> from, seqTo |-> to, reporterRef |-> reporter]
      BY <1>1, <2>2 DEF AppendIntegrityAuditCommitment
    <2>4. from \in Nat /\ to \in Nat /\ \A n \in committed : n < from
      BY <1>1, <2>3, AppendEffect
    <2> QED
      BY <1>1, <2>3, <2>4 DEF IInv, TypeOK
  <1>2. IInv /\ [Next]_vars =>
          [audit' # audit => (audit'.seqFrom .. audit'.seqTo) \cap committed = {}]_vars
    BY <1>1
  <1> QED
    BY <1>2, InvariantHolds, PTL DEF Spec, NoSeqCommittedTwice

\* The release behind the active root, when there is one.
LEMMA ActiveRelease ==
    ASSUME IInv, policy.activeRoot # NoVal
    PROVE  /\ policy.activeRoot \in Roots
           /\ roots[policy.activeRoot] \in Keys
           /\ releases[roots[policy.activeRoot]] \in Release
           /\ releases[roots[policy.activeRoot]].root = policy.activeRoot
           /\ ReleaseOfRoot(policy.activeRoot) = releases[roots[policy.activeRoot]]
  <1>1. policy.activeRoot \in Roots /\ roots[policy.activeRoot] # NoVal
    BY DEF IInv, TypeOK, ActivePointersAgree
  <1>2. roots[policy.activeRoot] \in Keys
    BY <1>1 DEF IInv, TypeOK
  <1>3. /\ releases[roots[policy.activeRoot]] # NoVal
        /\ releases[roots[policy.activeRoot]].root = policy.activeRoot
    BY <1>1 DEF IInv, IndexesAgree
  <1> QED
    BY <1>1, <1>2, <1>3 DEF ReleaseOfRoot, IInv, TypeOK

\* The same fact about the next state.
LEMMA ActiveReleaseNext ==
    ASSUME IInv', policy'.activeRoot # NoVal
    PROVE  /\ policy'.activeRoot \in Roots
           /\ roots'[policy'.activeRoot] \in Keys
           /\ ReleaseOfRoot(policy.activeRoot)' = releases'[roots'[policy'.activeRoot]]
  <1>1. policy'.activeRoot \in Roots /\ roots'[policy'.activeRoot] # NoVal
    BY DEF IInv, TypeOK, ActivePointersAgree
  <1>2. roots'[policy'.activeRoot] \in Keys
    BY <1>1 DEF IInv, TypeOK
  <1> QED
    BY <1>1, <1>2 DEF ReleaseOfRoot

\* Neither a revocation nor a publication leaves the registry running on a
\* revoked active root unpaused.
THEOREM FailClosedCorrect == Spec => FailClosed
  <1> DEFINE Resumed == reply'.op = "SetIntegrityPolicyPause" /\ reply'.code = "OK"
  <1>1. ASSUME IInv, [Next]_vars, ActiveRootRevoked', ~policy'.paused
        PROVE  (ActiveRootRevoked /\ ~policy.paused) \/ Resumed
    <2>0. IInv' /\ TypeOK
      BY <1>1, NextInv DEF IInv
    <2>1. CASE UNCHANGED <<releases, roots, policy>>
      BY <1>1, <2>1 DEF ActiveRootRevoked, ReleaseOfRoot
    <2>2. ASSUME NEW c \in Components, NEW v \in Versions, NEW root \in Roots,
                 NEW digest \in Digests, NEW activate \in BOOLEAN,
                 NEW hash \in Optional(PolicyHashes),
                 NEW age \in Optional(AgeInputs),
                 PublishNew(c, v, root, digest, activate, hash, age)
          PROVE  ActiveRootRevoked /\ ~policy.paused
      <3>1. <<c, v>> \in Keys
        BY DEF Keys
      <3>2. /\ releases[<<c, v>>] = NoVal
            /\ roots' = [roots EXCEPT ![root] = <<c, v>>]
            /\ releases' = [releases EXCEPT ![<<c, v>>] =
                   [componentId |-> c, version |-> v, root |-> root,
                    digest |-> digest, revoked |-> FALSE]]
        BY <2>2 DEF PublishNew, Stored
      <3>3. roots'[root] = <<c, v>> /\ ~releases'[<<c, v>>].revoked
        BY <2>0, <3>1, <3>2 DEF TypeOK
      <3>4. policy'.activeRoot # NoVal
        BY <1>1 DEF ActiveRootRevoked, ReleaseOfRoot
      <3>5. policy'.activeRoot # root
        BY <1>1, <2>0, <3>3, <3>4, ActiveReleaseNext DEF ActiveRootRevoked
      <3>6. ~activate
        BY <2>0, <2>2, <3>5 DEF PublishNew, ActivatedPolicy, TypeOK
      <3>7. policy' = policy
        BY <2>2, <3>6 DEF PublishNew
      <3>8. /\ policy.activeRoot \in Roots /\ roots[policy.activeRoot] \in Keys
            /\ releases[roots[policy.activeRoot]] \in Release
            /\ ReleaseOfRoot(policy.activeRoot) = releases[roots[policy.activeRoot]]
        BY <1>1, <3>4, <3>7, ActiveRelease
      <3>9. /\ roots'[policy.activeRoot] = roots[policy.activeRoot]
            /\ roots[policy.activeRoot] # <<c, v>>
        BY <2>0, <3>2, <3>5, <3>7, <3>8, NoValAssumption DEF TypeOK
      <3>10. releases'[roots[policy.activeRoot]] = releases[roots[policy.activeRoot]]
        BY <2>0, <3>2, <3>8, <3>9 DEF TypeOK
      <3> QED
        BY <1>1, <2>0, <3>4, <3>7, <3>8, <3>9, <3>10, ActiveReleaseNext,
           NoValAssumption DEF ActiveRootRevoked
    <2>3. ASSUME NEW c \in Components, NEW v \in Optional(Versions),
                 NEW root \in Optional(Roots), RevokeFound(c, v, root),
                 UNCHANGED roots
          PROVE  ActiveRootRevoked /\ ~policy.paused
      <3>1. PICK j \in Keys :
              LET rel == releases[j] IN
              /\ rel \in Release
              /\ \/ UNCHANGED <<releases, policy>> /\ rel.revoked
                 \/ /\ ~rel.revoked
                    /\ releases' = [releases EXCEPT ![j] = [rel EXCEPT !.revoked = TRUE]]
                    /\ policy' = [policy EXCEPT !.paused = PausedByRevoke(rel)]
              /\ reply' = Answer("RevokeTrustedRelease", "OK", c, releases'[j])
              /\ UNCHANGED <<roots, active, authority, audit, committed>>
        BY <2>0, <2>3, RevokeEffect
      <3>2. CASE UNCHANGED <<releases, policy>>
        BY <1>1, <2>3, <3>2 DEF ActiveRootRevoked, ReleaseOfRoot
      <3>3. CASE /\ releases' = [releases EXCEPT ![j] = [releases[j] EXCEPT !.revoked = TRUE]]
                 /\ policy' = [policy EXCEPT !.paused = PausedByRevoke(releases[j])]
        <4>1. /\ policy'.activeRoot = policy.activeRoot
              /\ policy'.paused = PausedByRevoke(releases[j])
          BY <2>0, <3>3 DEF TypeOK
        <4>2. policy.activeRoot # releases[j].root /\ ~policy.paused
          BY <1>1, <4>1 DEF PausedByRevoke
        <4>3. policy.activeRoot # NoVal
          BY <1>1, <4>1 DEF ActiveRootRevoked, ReleaseOfRoot
        <4>4. /\ policy.activeRoot \in Roots /\ roots[policy.activeRoot] \in Keys
              /\ releases[roots[policy.activeRoot]] \in Release
              /\ releases[roots[policy.activeRoot]].root = policy.activeRoot
              /\ ReleaseOfRoot(policy.activeRoot) = releases[roots[policy.activeRoot]]
          BY <1>1, <4>3, ActiveRelease
        <4>5. roots[policy.activeRoot] # j
          BY <4>2, <4>4
        <4>6. releases'[roots[policy.activeRoot]] = releases[roots[policy.activeRoot]]
          BY <2>0, <3>3, <4>4, <4>5 DEF TypeOK
        <4> QED
          BY <1>1, <2>0, <2>3, <4>1, <4>2, <4>3, <4>4, <4>6, ActiveReleaseNext,
             NoValAssumption DEF ActiveRootRevoked
      <3> QED
        BY <3>1, <3>2, <3>3
    <2>4. ASSUME NEW paused \in BOOLEAN, NEW hash \in Optional(PolicyHashes),
                 NEW age \in Optional(AgeInputs),
                 SetIntegrityPolicyPause(paused, hash, age),
                 UNCHANGED <<releases, roots>>
          PROVE  (ActiveRootRevoked /\ ~policy.paused) \/ Resumed
      <3>1. CASE age # NoVal /\ ~ValidAge(age)
        <4>1. policy' = [policy EXCEPT !.activePolicyHash =
                            IF hash = NoVal THEN policy.activePolicyHash ELSE hash]
          BY <2>4, <3>1 DEF SetIntegrityPolicyPause
        <4>2. policy'.activeRoot = policy.activeRoot /\ policy'.paused = policy.paused
          BY <2>0, <4>1 DEF TypeOK
        <4> QED
          BY <1>1, <2>4, <4>2 DEF ActiveRootRevoked, ReleaseOfRoot
      <3>2. CASE ~(age # NoVal /\ ~ValidAge(age))
        BY <2>4, <3>2 DEF SetIntegrityPolicyPause, Answer
      <3> QED
        BY <3>1, <3>2
    <2> QED
      BY <1>1, <2>1, <2>2, <2>3, <2>4, WhoChanges
         DEF SomePublishNew, SomeRevokeFound, SomePause
  <1>2. IInv /\ [Next]_vars =>
          [(ActiveRootRevoked' /\ ~policy'.paused) =>
              (ActiveRootRevoked /\ ~policy.paused) \/ Resumed]_vars
    BY <1>1
  <1> QED
    BY <1>2, InvariantHolds, PTL DEF Spec, FailClosed


-----------------------------------------------------------------------------
(***************************************************************************)
(* Answers of the two trust queries                                        *)
(***************************************************************************)

Queries == {"GetTrustedRoot", "GetIntegritySnapshot"}

\* Only the trust queries themselves answer as trust queries with success.
LEMMA WhoAnswers ==
    ASSUME [Next]_vars
    PROVE  \/ UNCHANGED vars
           \/ \E c \in Components : GetTrustedRoot(c)
           \/ GetIntegritySnapshot
           \/ reply'.code # "OK" \/ reply'.op \notin Queries
  <1> DEFINE Other == reply'.code # "OK" \/ reply'.op \notin Queries
  <1>1. ASSUME NEW op, RejectMalformed(op) PROVE Other
    BY <1>1 DEF RejectMalformed, Answer
  <1>2. ASSUME NEW c \in Components, NEW v, NEW root, NEW digest, NEW activate, NEW hash,
               NEW age, PublishTrustedRelease(c, v, root, digest, activate, hash, age)
        PROVE  Other
    <2>1. CASE PublishExisting(c, v, root, digest)
      BY <2>1 DEF PublishExisting, Answer, Queries
    <2>2. CASE PublishRootConflict(c, v, root)
      BY <2>2 DEF PublishRootConflict, Answer, Queries
    <2>3. CASE PublishNew(c, v, root, digest, activate, hash, age)
      BY <2>3 DEF PublishNew, Stored, Answer, Queries
    <2> QED
      BY <1>1, <1>2, <2>1, <2>2, <2>3 DEF PublishTrustedRelease
  <1>3. ASSUME NEW c \in Components, NEW v, NEW root, RevokeTrustedRelease(c, v, root)
        PROVE  Other
    BY <1>3 DEF RevokeTrustedRelease, RevokeFound, RevokeRefused, Answer, Queries
  <1>4. ASSUME NEW c \in Components, NEW v, GetTrustedReleaseByVersion(c, v) PROVE Other
    BY <1>4 DEF GetTrustedReleaseByVersion, Found, Answer, Queries
  <1>5. ASSUME NEW root, GetTrustedReleaseByRoot(root) PROVE Other
    BY <1>5 DEF GetTrustedReleaseByRoot, Found, Answer, Queries
  <1>6. ASSUME PolicyNext PROVE Other
    <2>1. ASSUME NEW paused, NEW hash, NEW age, SetIntegrityPolicyPause(paused, hash, age)
          PROVE  Other
      BY <2>1 DEF SetIntegrityPolicyPause, Answer, Queries
    <2>2. ASSUME NEW root, NEW reporter, NEW refs, SetIntegrityAuthority(root, reporter, refs)
          PROVE  Other
      BY <2>2 DEF SetIntegrityAuthority, Answer, Queries
    <2>3. ASSUME NEW from, NEW to, NEW reporter,
                 AppendIntegrityAuditCommitment(from, to, reporter)
          PROVE  Other
      BY <2>3 DEF AppendIntegrityAuditCommitment, Answer, Queries
    <2> QED
      BY <1>6, <2>1, <2>2, <2>3 DEF PolicyNext
  <1>7. ASSUME ReleaseNext PROVE Other \/ \E c \in Components : GetTrustedRoot(c)
    BY <1>2, <1>3, <1>4, <1>7 DEF ReleaseNext
  <1> QED
    BY <1>1, <1>5, <1>6, <1>7 DEF Next

\* A component's active release is the one its own pointer names: where the pointer
\* is empty, the policy's release belongs to another component.
LEMMA OwnRelease ==
    ASSUME IInv, NEW c \in Components, GetActiveRelease(c) # NoVal
    PROVE  /\ active[c] \in Versions
           /\ GetActiveRelease(c) = releases[<<c, active[c]>>]
           /\ releases[<<c, active[c]>>].componentId = c
           /\ releases[<<c, active[c]>>].version = active[c]
  <1>0. c # NoVal
    BY NoValAssumption
  <1>1. CASE active[c] # NoVal
    <2>1. active[c] \in Versions /\ releases[<<c, active[c]>>] # NoVal
      BY <1>1 DEF IInv, TypeOK, ActivePointersAgree
    <2>2. GetActiveRelease(c) = releases[<<c, active[c]>>]
      BY <1>0, <1>1, <2>1 DEF GetActiveRelease
    <2> QED
      BY <2>1, <2>2 DEF IInv, IndexesAgree
  <1>2. CASE active[c] = NoVal
    <2> DEFINE byRoot == ReleaseOfRoot(policy.activeRoot)
    <2>1. byRoot # NoVal /\ byRoot.componentId = c
      BY <1>0, <1>2 DEF GetActiveRelease
    <2>2. policy.activeRoot # NoVal
      BY <2>1 DEF ReleaseOfRoot
    <2>3. roots[policy.activeRoot] \in Keys /\ byRoot = releases[roots[policy.activeRoot]]
      BY <2>2, ActiveRelease
    <2>4. PICK d \in Components, v \in Versions : roots[policy.activeRoot] = <<d, v>>
      BY <2>3 DEF Keys
    <2>5. d = c
      BY <2>1, <2>3, <2>4 DEF IInv, IndexesAgree
    <2>6. active[d] = v
      BY <2>2, <2>4 DEF IInv, ActivePointersAgree
    <2> QED
      BY <1>2, <2>5, <2>6, NoValAssumption
  <1> QED
    BY <1>1, <1>2

\* A trust query that is answered with a release names the one that is active, never
\* a revoked one, whatever was published, activated and revoked before.
THEOREM TrustedAnswersCorrect == Spec => []TrustedAnswers
  <1>1. Init => TrustedAnswers
    BY DEF Init, TrustedAnswers
  <1>2. IInv /\ TrustedAnswers /\ [Next]_vars => TrustedAnswers'
    <2> SUFFICES ASSUME IInv, TrustedAnswers, [Next]_vars PROVE TrustedAnswers'
      OBVIOUS
    <2>1. CASE UNCHANGED vars
      BY <2>1 DEF vars, TrustedAnswers
    <2>2. ASSUME NEW c \in Components, GetTrustedRoot(c) PROVE TrustedAnswers'
      <3> DEFINE rel == Trusted(GetActiveRelease(c))
      <3>1. /\ reply' = IF rel = NoVal THEN Answer("GetTrustedRoot", "NOT_FOUND", c, NoVal)
                                       ELSE Answer("GetTrustedRoot", "OK", c, rel)
            /\ UNCHANGED <<releases, roots, active, policy>>
        BY <2>2 DEF GetTrustedRoot, Found, relVars
      <3>2. CASE rel = NoVal
        BY <3>1, <3>2 DEF Answer, TrustedAnswers
      <3>3. CASE rel # NoVal
        <4>1. GetActiveRelease(c) # NoVal /\ rel = GetActiveRelease(c) /\ ~rel.revoked
          BY <3>3 DEF Trusted
        <4>2. /\ rel = releases[<<c, active[c]>>] /\ rel.componentId = c
              /\ rel.version = active[c]
          BY <4>1, OwnRelease
        <4>3. /\ reply'.op = "GetTrustedRoot" /\ reply'.component = c
              /\ reply'.release = rel
          BY <3>1, <3>3 DEF Answer
        <4> QED
          BY <3>1, <4>1, <4>2, <4>3 DEF TrustedAnswers
      <3> QED
        BY <3>2, <3>3
    <2>3. ASSUME GetIntegritySnapshot PROVE TrustedAnswers'
      <3> DEFINE rel == Trusted(GetActiveRelease(NoVal))
      <3>1. /\ reply' = IF rel = NoVal
                        THEN Answer("GetIntegritySnapshot", "NOT_FOUND", NoVal, NoVal)
                        ELSE Answer("GetIntegritySnapshot", "OK", NoVal, rel)
            /\ UNCHANGED <<releases, roots, active, policy>>
        BY <2>3 DEF GetIntegritySnapshot, Found, relVars
      <3>2. CASE rel = NoVal
        BY <3>1, <3>2 DEF Answer, TrustedAnswers
      <3>3. CASE rel # NoVal
        <4>1. /\ ReleaseOfRoot(policy.activeRoot) # NoVal /\ ~rel.revoked
              /\ rel = ReleaseOfRoot(policy.activeRoot)
          BY <3>3 DEF Trusted, GetActiveRelease
        <4>2. policy.activeRoot # NoVal
          BY <4>1 DEF ReleaseOfRoot
        <4>3. rel = releases[roots[policy.activeRoot]] /\ rel.root = policy.activeRoot
          BY <4>1, <4>2, ActiveRelease
        <4>4. reply'.op = "GetIntegritySnapshot" /\ reply'.release = rel
          BY <3>1, <3>3 DEF Answer
        <4> QED
          BY <3>1, <4>1, <4>3, <4>4 DEF TrustedAnswers
      <3> QED
        BY <3>2, <3>3
    <2>4. CASE reply'.code # "OK" \/ reply'.op \notin Queries
      BY <2>4 DEF TrustedAnswers, Queries
    <2> QED
      BY <2>1, <2>2, <2>3, <2>4, WhoAnswers
  <1> QED
    BY <1>1, <1>2, InvariantHolds, PTL DEF Spec

=============================================================================
