----------------------- MODULE RegistryDirectoryProofs -----------------------
(***************************************************************************)
(* Proofs about RegistryDirectory for any sets of sites, hosts, fields,    *)
(* gateways and resolvers.                                                 *)
(*                                                                         *)
(* A crash brings back what the last complete save wrote, so what is shown *)
(* of the state is shown of the snapshot too, and the invariant tells how  *)
(* far the snapshot and the file of flags are apart: by what was flagged   *)
(* since that save and by what a crash has cut off.  All handlers are      *)
(* summed up by HandlerStep, and the invariant is shown for that and for   *)
(* the other kinds of step.                                                *)
(***************************************************************************)
EXTENDS RegistryDirectory, TLAPS

\* ReferencesRegistered of any state table.
RefsOf(st) ==
    /\ \A h \in Hosts : st.domains[h] \in st.sites \cup PiiKeys \cup {NoVal}
    /\ \A s \in Sites \ st.sites :
        /\ st.runtimes[s] = NoRuntime
        /\ st.versions[s] = NoVal
        /\ \A u \in Users : st.roles[s][u] = NoVal

\* Stored pointers pass the check that loading them makes.
RuntimesGood(st) ==
    \A s \in Sites : st.runtimes[s] = NoRuntime \/ ValidRuntime(st.runtimes[s])

\* A snapshot holds no entry whose key is scrubbed.
Clean(snap) ==
    /\ snap.state.sites \cap PiiKeys = {}
    /\ \A h \in Hosts \cap PiiKeys : snap.state.domains[h] = NoVal
    /\ \A s \in Sites \cap PiiKeys :
        /\ snap.state.runtimes[s] = NoRuntime
        /\ snap.state.versions[s] = NoVal
    /\ \A s \in Sites, u \in Users :
        s \in PiiKeys \/ u \in PiiKeys => snap.state.roles[s][u] = NoVal
    /\ \A r \in Resolvers \cap PiiKeys : snap.state.flags[r] = NoVal
    /\ \A g \in Gateways \cap PiiKeys : snap.gateways[g] = NoVal

SnapGood(snap) ==
    /\ snap \in Snapshot
    /\ RefsOf(snap.state) /\ RuntimesGood(snap.state)
    /\ Clean(snap)

\* What each phase has done, and when the snapshot is the one that stands.
DiskMatches ==
    /\ phase # "idle" => reply \in Reply
    /\ phase = "unsaved" => unsaved < MaxUnsaved
    /\ phase = "writing" => disk = Torn
    /\ phase = "written" => disk = Scrubbed /\ unsaved = 0
    /\ disk # Torn => SnapGood(disk)
    /\ phase # "written" /\ disk # Torn /\ unsaved = 0 /\ standing # NoVal
           => disk = standing

\* Flags of the snapshot are in the file; those of the file are in the
\* snapshot, but for the resolvers flagged since and those cut off.
FlagsOnDisk ==
    disk # Torn =>
        /\ \A r \in Resolvers : Flagged(disk.state.flags[r]) =>
              file[r] = disk.state.flags[r]
        /\ \A r \in Resolvers \ (cut \cup behind \cup PiiKeys) : Flagged(file[r]) =>
              disk.state.flags[r] = file[r]

\* The registry knows what it has written to the file.
BehindKnown ==
    \A r \in behind : Flagged(file[r]) => state.flags[r] = file[r]

StateGood == RefsOf(state) /\ RuntimesGood(state)

IInv ==
    /\ TypeOK /\ StateGood /\ DiskMatches /\ AnsweredSurvives
    /\ FlagEnforced /\ FlagVisible /\ FlagsOnDisk /\ BehindKnown /\ RoutedAsAnswered

\* What every handler does.
FlagsAlone == state'.flags = state.flags /\ file' = file /\ behind' = behind

FlagsOne(r) ==
    /\ ~Flagged(file[r]) /\ behind' = behind \cup {r}
    /\ \A q \in Resolvers \ {r} : state'.flags[q] = state.flags[q] /\ file'[q] = file[q]
    /\ Flagged(file'[r]) \/ Flagged(state'.flags[r]) => state'.flags[r] = file'[r]

Routes ==
    \A g \in Gateways : reply'.op = "ResolveGatewayForHost" /\ reply'.on = g =>
        gateways[g] # NoVal /\ gateways[g].status = "online"

HandlerStep ==
    /\ phase = "idle" /\ phase' = "handled" /\ reply' \in Reply
    /\ UNCHANGED diskVars
    /\ state' \in State
    /\ gateways' \in [Gateways -> Gateway \cup {NoVal}]
    /\ file' \in [Resolvers -> FileFlags]
    /\ RefsOf(state') /\ RuntimesGood(state')
    /\ FlagsAlone \/ \E r \in Resolvers : FlagsOne(r)
    /\ Routes

RefusedStep == \E op \in FlagOps, r \in Resolvers : RefusedByGate(op, r)

-----------------------------------------------------------------------------
(***************************************************************************)
(* Handlers                                                                *)
(***************************************************************************)

\* A handler that leaves the state alone.
LEMMA QuietHandler ==
    ASSUME IInv, NEW op \in Ops, NEW code \in Codes,
           NEW on \in Gateways \cup Resolvers \cup {NoVal},
           Handled(op, code, on), UNCHANGED dirVars,
           op \in {"FlagResolver", "UnflagResolver"} => code # "OK",
           op = "ResolveGatewayForHost" /\ on \in Gateways =>
               gateways[on] # NoVal /\ gateways[on].status = "online"
    PROVE  HandlerStep
<1>1. reply' = [op |-> op, code |-> code, on |-> on] /\ reply' \in Reply
  BY DEF Handled, Reply
<1>2. FlagsAlone /\ Routes
  BY <1>1 DEF FlagsAlone, Routes, dirVars, Handled
<1>3. QED
  BY <1>1, <1>2 DEF HandlerStep, Handled, dirVars, IInv, TypeOK, StateGood

\* A handler that changes the tables of sites.
LEMMA SiteHandler ==
    ASSUME IInv, NEW op \in Ops \ FlagOps, NEW code \in Codes,
           op # "ResolveGatewayForHost", Handled(op, code, NoVal),
           UNCHANGED <<gateways, file>>,
           state' \in State, RefsOf(state'), RuntimesGood(state'),
           state'.flags = state.flags
    PROVE  HandlerStep
<1>1. reply' = [op |-> op, code |-> code, on |-> NoVal] /\ reply' \in Reply
  BY DEF Handled, Reply
<1>2. FlagsAlone /\ Routes
  BY <1>1 DEF FlagsAlone, Routes, FlagOps, Handled
<1>3. QED
  BY <1>1, <1>2 DEF HandlerStep, Handled, IInv, TypeOK

\* A handler that changes the gateways.
LEMMA GatewayHandler ==
    ASSUME IInv, NEW op \in {"RegisterGateway", "UpdateGatewayStatus"}, NEW code \in Codes,
           Handled(op, code, NoVal), UNCHANGED <<state, file>>,
           gateways' \in [Gateways -> Gateway \cup {NoVal}]
    PROVE  HandlerStep
<1>1. reply' = [op |-> op, code |-> code, on |-> NoVal] /\ reply' \in Reply
  BY DEF Handled, Reply, Ops
<1>2. FlagsAlone /\ Routes
  BY <1>1 DEF FlagsAlone, Routes, Handled
<1>3. QED
  BY <1>1, <1>2 DEF HandlerStep, Handled, IInv, TypeOK, StateGood


LEMMA RejectStep ==
    ASSUME IInv, NEW op \in Ops, RejectMalformed(op)
    PROVE  HandlerStep
BY QuietHandler, DistinctAssumption DEF RejectMalformed, Codes

\* Merging a pointer that is accepted gives one that is.
LEMMA MergedFacts ==
    ASSUME NEW old \in Runtime, NEW rt \in Runtime, Accepted(rt)
    PROVE  /\ Merged(old, rt) \in Runtime
           /\ ValidRuntime(Merged(old, rt))
BY DirectoryAssumption DEF Merged, Runtime, Accepted, ValidRuntime

LEMMA MergedNothing ==
    ASSUME NEW old \in Runtime
    PROVE  Merged(old, NoRuntime) = old
BY DEF Merged, Runtime, NoRuntime

LEMMA SetSiteRuntimeStep ==
    ASSUME IInv, NEW s \in Sites, NEW rt \in Runtime, SetSiteRuntime(s, rt)
    PROVE  HandlerStep
<1>1. CASE Registered(s) /\ Accepted(rt)
  <2> DEFINE m == Merged(state.runtimes[s], rt)
  <2>1. state.runtimes[s] \in Runtime
    BY DEF IInv, TypeOK, State
  <2>2. m \in Runtime /\ ValidRuntime(m)
    BY <1>1, <2>1, MergedFacts
  <2>3. state' = [state EXCEPT !.runtimes[s] = m]
    BY <1>1 DEF SetSiteRuntime
  <2> HIDE DEF m
  <2>4. state' \in State /\ state'.flags = state.flags
    BY <2>2, <2>3 DEF IInv, TypeOK, State
  <2>5. RefsOf(state')
    BY <1>1, <2>3 DEF RefsOf, IInv, StateGood, TypeOK, State, Registered
  <2>6. RuntimesGood(state')
    BY <2>2, <2>3 DEF RuntimesGood, IInv, StateGood, TypeOK, State
  <2>7. QED
    BY <1>1, <2>4, <2>5, <2>6, SiteHandler
       DEF SetSiteRuntime, Ops, FlagOps, Codes
<1>2. CASE ~(Registered(s) /\ Accepted(rt))
  BY <1>2, SiteHandler
     DEF SetSiteRuntime, Ops, FlagOps, Codes, IInv, TypeOK, StateGood
<1>3. QED
  BY <1>1, <1>2

LEMMA RegisterSiteStep ==
    ASSUME IInv, NEW s \in Sites, NEW v \in Optional(Versions), NEW rt \in Runtime,
           RegisterSite(s, v, rt)
    PROVE  HandlerStep
<1> DEFINE valid == rt = NoRuntime \/ Accepted(rt)
<1>1. CASE valid /\ ~Registered(s)
  <2> DEFINE m == Merged(state.runtimes[s], rt)
  <2>1. state.runtimes[s] = NoRuntime /\ NoRuntime \in Runtime
    BY <1>1 DEF IInv, StateGood, RefsOf, Registered, NoRuntime, Runtime
  <2>2. m \in Runtime /\ (m = NoRuntime \/ ValidRuntime(m))
    BY <1>1, <2>1, MergedFacts, MergedNothing
  <2>3. state' = [state EXCEPT !.sites = @ \cup {s}, !.versions[s] = v,
                               !.runtimes[s] = m]
    BY <1>1 DEF RegisterSite
  <2> HIDE DEF m
  <2>4. state' \in State /\ state'.flags = state.flags
    BY <2>2, <2>3 DEF IInv, TypeOK, State, Optional
  <2>5. RefsOf(state')
    BY <2>3 DEF RefsOf, IInv, StateGood, TypeOK, State
  <2>6. RuntimesGood(state')
    BY <2>2, <2>3 DEF RuntimesGood, IInv, StateGood, TypeOK, State
  <2>7. QED
    BY <1>1, <2>4, <2>5, <2>6, SiteHandler
       DEF RegisterSite, Ops, FlagOps, Codes
<1>2. CASE ~(valid /\ ~Registered(s))
  BY <1>2, SiteHandler
     DEF RegisterSite, Ops, FlagOps, Codes, IInv, TypeOK, StateGood
<1>3. QED
  BY <1>1, <1>2

LEMMA BindDomainStep ==
    ASSUME IInv, NEW s \in Sites, NEW h \in Hosts, BindDomain(s, h)
    PROVE  HandlerStep
<1>1. state' \in State /\ state'.flags = state.flags /\ state'.runtimes = state.runtimes
  BY DEF BindDomain, IInv, TypeOK, State
<1>2. RefsOf(state') /\ RuntimesGood(state')
  BY <1>1 DEF BindDomain, RefsOf, RuntimesGood, IInv, StateGood, TypeOK, State, Registered
<1>3. QED
  BY <1>1, <1>2, SiteHandler DEF BindDomain, Ops, FlagOps, Codes

LEMMA SetActiveVersionStep ==
    ASSUME IInv, NEW s \in Sites, NEW v \in Versions, NEW e \in Optional(Versions),
           SetActiveVersion(s, v, e)
    PROVE  HandlerStep
<1>1. state' \in State /\ state'.flags = state.flags /\ state'.runtimes = state.runtimes
  BY DEF SetActiveVersion, IInv, TypeOK, State
<1>2. RefsOf(state') /\ RuntimesGood(state')
  BY <1>1 DEF SetActiveVersion, RefsOf, RuntimesGood, IInv, StateGood, TypeOK, State,
              Registered
<1>3. QED
  BY <1>1, <1>2, SiteHandler DEF SetActiveVersion, Ops, FlagOps, Codes

LEMMA GrantRoleStep ==
    ASSUME IInv, NEW s \in Sites, NEW u \in Users, NEW role \in Roles,
           GrantRole(s, u, role)
    PROVE  HandlerStep
<1>1. state' \in State /\ state'.flags = state.flags /\ state'.runtimes = state.runtimes
  BY DEF GrantRole, IInv, TypeOK, State
<1>2. RefsOf(state') /\ RuntimesGood(state')
  BY <1>1 DEF GrantRole, RefsOf, RuntimesGood, IInv, StateGood, TypeOK, State, Registered
<1>3. QED
  BY <1>1, <1>2, SiteHandler DEF GrantRole, Ops, FlagOps, Codes

LEMMA UpdateTrustResolversStep ==
    ASSUME IInv, NEW list \in SUBSET Resolvers, UpdateTrustResolvers(list)
    PROVE  HandlerStep
<1>1. /\ state' \in State /\ state'.flags = state.flags
      /\ state'.runtimes = state.runtimes
  BY DEF UpdateTrustResolvers, IInv, TypeOK, State
<1>2. RefsOf(state') /\ RuntimesGood(state')
  BY DEF UpdateTrustResolvers, RefsOf, RuntimesGood, IInv, StateGood, TypeOK, State
<1>3. QED
  BY <1>1, <1>2, SiteHandler DEF UpdateTrustResolvers, Ops, FlagOps, Codes

LEMMA GatewaySteps ==
    ASSUME IInv, NEW g \in Gateways
    PROVE  /\ \A gw \in Gateway : RegisterGateway(g, gw) => HandlerStep
           /\ \A st \in Given(Statuses), sc \in Given(Scores), w \in Given(Weights),
                 ds \in Given(DomainLists) :
                 UpdateGatewayStatus(g, st, sc, w, ds) => HandlerStep
<1>1. ASSUME NEW gw \in Gateway, RegisterGateway(g, gw) PROVE HandlerStep
  <2>1. gateways' \in [Gateways -> Gateway \cup {NoVal}]
    BY <1>1 DEF RegisterGateway, IInv, TypeOK
  <2>2. QED
    BY <1>1, <2>1, GatewayHandler DEF RegisterGateway, Codes
<1>2. ASSUME NEW st \in Given(Statuses), NEW sc \in Given(Scores), NEW w \in Given(Weights),
             NEW ds \in Given(DomainLists), UpdateGatewayStatus(g, st, sc, w, ds)
      PROVE  HandlerStep
  <2>1. ASSUME NEW S, NEW old \in S, NEW given \in Given(S), NEW refused \in BOOLEAN
        PROVE  Updated(old, given, refused) \in S
    BY <2>1 DEF Updated, Given
  <2>2. CASE gateways[g] = NoVal
    BY <1>2, <2>2, GatewayHandler DEF UpdateGatewayStatus, Codes, IInv, TypeOK
  <2>3. CASE gateways[g] # NoVal
    <3> DEFINE u1 == Updated(gateways[g].status, st, FALSE)
               u2 == Updated(gateways[g].score, sc, st = Bad)
               u3 == Updated(gateways[g].weight, w, st = Bad \/ sc = Bad)
               u4 == Updated(gateways[g].domains, ds, (st = Bad \/ sc = Bad) \/ w = Bad)
    <3>1. gateways[g] \in Gateway
      BY <2>3 DEF IInv, TypeOK
    <3>2. /\ gateways[g].status \in Statuses /\ gateways[g].score \in Scores
          /\ gateways[g].weight \in Weights /\ gateways[g].domains \in DomainLists
      BY <3>1 DEF Gateway
    <3>3. u1 \in Statuses /\ u2 \in Scores /\ u3 \in Weights /\ u4 \in DomainLists
      BY <2>1, <3>2
    <3>4. gateways' = [gateways EXCEPT ![g].status = u1, ![g].score = u2,
                                       ![g].weight = u3, ![g].domains = u4]
      BY <1>2, <2>3 DEF UpdateGatewayStatus
    <3> HIDE DEF u1, u2, u3, u4
    <3>5. gateways' \in [Gateways -> Gateway \cup {NoVal}]
      BY <3>1, <3>3, <3>4 DEF IInv, TypeOK, Gateway
    <3>6. QED
      BY <1>2, <3>5, GatewayHandler DEF UpdateGatewayStatus, Codes
  <2>4. QED
    BY <2>2, <2>3
<1>3. QED
  BY <1>1, <1>2

LEMMA ResolveStep ==
    ASSUME IInv, NEW h \in Hosts, ResolveGatewayForHost(h)
    PROVE  HandlerStep
<1>1. CASE Handled("ResolveGatewayForHost", "NOT_FOUND", NoVal)
  BY <1>1, QuietHandler, DistinctAssumption DEF ResolveGatewayForHost, Ops, Codes
<1>2. ASSUME NEW g \in Candidates(h), Handled("ResolveGatewayForHost", "OK", g)
      PROVE  HandlerStep
  <2>1. g \in Gateways /\ gateways[g] # NoVal /\ gateways[g].status = "online"
    BY DEF Candidates
  <2>2. QED
    BY <1>2, <2>1, QuietHandler DEF ResolveGatewayForHost, Ops, Codes
<1>3. QED
  BY <1>1, <1>2 DEF ResolveGatewayForHost

\* The two handlers that write to the file of flags.
LEMMA FlagSteps ==
    ASSUME IInv, NEW r \in Resolvers,
           (\E flag \in Flags : FlagResolver(r, flag)) \/ UnflagResolver(r)
    PROVE  HandlerStep
<1>1. PICK op \in {"FlagResolver", "UnflagResolver"}, flag \in Flags \cup {NoVal},
           line \in FileFlags :
        /\ Handled(op, "OK", r) /\ ~Flagged(file[r]) /\ UNCHANGED gateways
        /\ state' = [state EXCEPT !.flags[r] = flag]
        /\ file' = [file EXCEPT ![r] = line]
        /\ Flagged(line) \/ Flagged(flag) => flag = line
  <2>1. ASSUME NEW flag \in Flags, FlagResolver(r, flag)
        PROVE  /\ Handled("FlagResolver", "OK", r) /\ ~Flagged(file[r])
               /\ UNCHANGED gateways
               /\ state' = [state EXCEPT !.flags[r] = flag]
               /\ file' = [file EXCEPT ![r] = flag]
               /\ flag \in FileFlags
    BY <2>1 DEF FlagResolver, GatePasses, FileFlags
  <2>2. ASSUME UnflagResolver(r)
        PROVE  /\ Handled("UnflagResolver", "OK", r) /\ ~Flagged(file[r])
               /\ UNCHANGED gateways
               /\ state' = [state EXCEPT !.flags[r] = NoVal]
               /\ file' = [file EXCEPT ![r] = "cleared"]
               /\ ~Flagged("cleared") /\ ~Flagged(NoVal) /\ "cleared" \in FileFlags
    BY <2>2, DistinctAssumption DEF UnflagResolver, GatePasses, FileFlags, Flagged, Flags
  <2>3. QED
    BY <2>1, <2>2
<1>2. reply' = [op |-> op, code |-> "OK", on |-> r] /\ reply' \in Reply
  BY <1>1 DEF Handled, Reply, Ops, Codes
<1>3. state' \in State /\ file' \in [Resolvers -> FileFlags]
  BY <1>1 DEF IInv, TypeOK, State
<1>4. state'.flags[r] = flag /\ file'[r] = line
  BY <1>1 DEF IInv, TypeOK, State
<1>5. \A q \in Resolvers \ {r} : state'.flags[q] = state.flags[q] /\ file'[q] = file[q]
  BY <1>1 DEF IInv, TypeOK, State
<1>6. FlagsOne(r)
  BY <1>1, <1>4, <1>5 DEF FlagsOne, Handled
<1>7. /\ state'.sites = state.sites /\ state'.domains = state.domains
      /\ state'.runtimes = state.runtimes /\ state'.versions = state.versions
      /\ state'.roles = state.roles
  BY <1>1 DEF IInv, TypeOK, State
<1>8. RefsOf(state') /\ RuntimesGood(state')
  BY <1>7 DEF RefsOf, RuntimesGood, IInv, StateGood
<1>9. Routes
  BY <1>1, <1>2 DEF Routes
<1>10. QED
  BY <1>1, <1>2, <1>3, <1>6, <1>7, <1>8, <1>9 DEF HandlerStep, Handled, IInv, TypeOK


LEMMA NextKinds ==
    ASSUME IInv, Next
    PROVE  HandlerStep \/ RefusedStep \/ SaveFails \/ Truncate \/ Write \/ Answer \/ Crash
<1>1. CASE \E op \in Ops : RejectMalformed(op)
  BY <1>1, RejectStep
<1>2. CASE SiteMessage
  <2>1. CASE \E h \in Hosts : GetSiteByHost(h)
    BY <2>1, QuietHandler DEF GetSiteByHost, Ops, Codes
  <2>2. ASSUME NEW s \in Sites,
               \/ GetSiteConfig(s)
               \/ GetSiteRuntime(s)
        PROVE  HandlerStep
    BY <2>2, QuietHandler DEF GetSiteConfig, GetSiteRuntime, Ops, Codes
  <2>3. QED
    BY <1>2, <2>1, <2>2, RegisterSiteStep, SetSiteRuntimeStep, BindDomainStep,
       SetActiveVersionStep, GrantRoleStep DEF SiteMessage
<1>3. CASE GatewayMessage
  <2>1. ListGateways => HandlerStep
    BY QuietHandler DEF ListGateways, Ops, Codes
  <2>2. QED
    BY <1>3, <2>1, GatewaySteps, ResolveStep DEF GatewayMessage
<1>4. CASE ResolverMessage
  <2>1. GetTrustedResolvers => HandlerStep
    BY QuietHandler DEF GetTrustedResolvers, Ops, Codes
  <2>2. ASSUME NEW r \in Resolvers, GetResolverFlags(r) PROVE HandlerStep
    BY <2>2, QuietHandler DEF GetResolverFlags, Ops, Codes
  <2>3. QED
    BY <1>4, <2>1, <2>2, UpdateTrustResolversStep, FlagSteps
       DEF ResolverMessage, RefusedStep
<1>5. QED
  BY <1>1, <1>2, <1>3, <1>4 DEF Next

-----------------------------------------------------------------------------
(***************************************************************************)
(* The invariant                                                           *)
(***************************************************************************)

LEMMA FreshFacts ==
    /\ SnapGood(Fresh)
    /\ Fresh.state.runtimes = [s \in Sites |-> NoRuntime]
    /\ Fresh.gateways = [g \in Gateways |-> NoVal]
    /\ \A r \in Resolvers : ~Flagged(Fresh.state.flags[r])
<1>1. NoRuntime \in Runtime
  BY DEF NoRuntime, Runtime
<1>2. ~Flagged(NoVal)
  BY DistinctAssumption DEF Flagged, Flags
<1>3. Fresh \in Snapshot
  BY <1>1 DEF Fresh, Snapshot, State
<1>4. RefsOf(Fresh.state) /\ RuntimesGood(Fresh.state) /\ Clean(Fresh)
  BY DEF Fresh, RefsOf, RuntimesGood, Clean
<1>5. QED
  BY <1>2, <1>3, <1>4 DEF Fresh, SnapGood

\* Scrubbing.
LEMMA KeptFacts ==
    ASSUME NEW S, NEW T, NEW f \in [S -> T], NEW empty \in T
    PROVE  /\ Kept(f, empty) \in [S -> T]
           /\ \A k \in S : Kept(f, empty)[k] = IF k \in PiiKeys THEN empty ELSE f[k]
           /\ (\A k \in S \cap PiiKeys : f[k] = empty) => Kept(f, empty) = f
BY DEF Kept

LEMMA ScrubbedStateFacts ==
    ASSUME NEW st \in State
    PROVE  /\ ScrubbedState(st) \in State
           /\ \A h \in Hosts : ScrubbedState(st).domains[h] =
                 IF h \in PiiKeys THEN NoVal ELSE st.domains[h]
           /\ \A s \in Sites :
                 /\ ScrubbedState(st).runtimes[s] =
                       IF s \in PiiKeys THEN NoRuntime ELSE st.runtimes[s]
                 /\ ScrubbedState(st).versions[s] =
                       IF s \in PiiKeys THEN NoVal ELSE st.versions[s]
                 /\ \A u \in Users : ScrubbedState(st).roles[s][u] =
                       IF s \in PiiKeys \/ u \in PiiKeys THEN NoVal ELSE st.roles[s][u]
           /\ \A r \in Resolvers : ScrubbedState(st).flags[r] =
                 IF r \in PiiKeys THEN NoVal ELSE st.flags[r]
<1> DEFINE noRoles == [u \in Users |-> NoVal]
           roles1  == [s \in Sites |-> Kept(st.roles[s], NoVal)]
           Row     == [Users -> Roles \cup {NoVal}]
<1>1. st.runtimes \in [Sites -> Runtime] /\ NoRuntime \in Runtime
  BY DEF State, NoRuntime, Runtime
<1>2. /\ Kept(st.runtimes, NoRuntime) \in [Sites -> Runtime]
      /\ \A s \in Sites : Kept(st.runtimes, NoRuntime)[s] =
            IF s \in PiiKeys THEN NoRuntime ELSE st.runtimes[s]
  BY <1>1, KeptFacts
<1>3. /\ Kept(st.domains, NoVal) \in [Hosts -> Sites \cup {NoVal}]
      /\ \A h \in Hosts : Kept(st.domains, NoVal)[h] =
            IF h \in PiiKeys THEN NoVal ELSE st.domains[h]
  <2>1. st.domains \in [Hosts -> Sites \cup {NoVal}]
    BY DEF State
  <2>2. QED
    BY <2>1 DEF Kept
<1>4. /\ Kept(st.versions, NoVal) \in [Sites -> Versions \cup {NoVal}]
      /\ \A s \in Sites : Kept(st.versions, NoVal)[s] =
            IF s \in PiiKeys THEN NoVal ELSE st.versions[s]
  <2>1. st.versions \in [Sites -> Versions \cup {NoVal}]
    BY DEF State
  <2>2. QED
    BY <2>1 DEF Kept
<1>5. /\ Kept(st.flags, NoVal) \in [Resolvers -> Flags \cup {NoVal}]
      /\ \A r \in Resolvers : Kept(st.flags, NoVal)[r] =
            IF r \in PiiKeys THEN NoVal ELSE st.flags[r]
  <2>1. st.flags \in [Resolvers -> Flags \cup {NoVal}]
    BY DEF State
  <2>2. QED
    BY <2>1 DEF Kept
<1>6. ASSUME NEW s \in Sites
      PROVE  /\ Kept(st.roles[s], NoVal) \in Row
             /\ \A u \in Users : Kept(st.roles[s], NoVal)[u] =
                   IF u \in PiiKeys THEN NoVal ELSE st.roles[s][u]
  <2>1. st.roles[s] \in Row
    BY DEF State
  <2>2. QED
    BY <2>1 DEF Kept
<1>7. roles1 \in [Sites -> Row] /\ noRoles \in Row
  BY <1>6
<1>8. /\ Kept(roles1, noRoles) \in [Sites -> Row]
      /\ \A s \in Sites : Kept(roles1, noRoles)[s] =
            IF s \in PiiKeys THEN noRoles ELSE roles1[s]
  <2> HIDE DEF roles1, noRoles, Row
  <2>1. QED
    BY <1>7, KeptFacts
<1>9. \A s \in Sites, u \in Users : Kept(roles1, noRoles)[s][u] =
         IF s \in PiiKeys \/ u \in PiiKeys THEN NoVal ELSE st.roles[s][u]
  BY <1>6, <1>8
<1>10. /\ ScrubbedState(st).sites = st.sites \ PiiKeys
       /\ ScrubbedState(st).domains = Kept(st.domains, NoVal)
       /\ ScrubbedState(st).runtimes = Kept(st.runtimes, NoRuntime)
       /\ ScrubbedState(st).versions = Kept(st.versions, NoVal)
       /\ ScrubbedState(st).roles = Kept(roles1, noRoles)
       /\ ScrubbedState(st).trust = st.trust
       /\ ScrubbedState(st).flags = Kept(st.flags, NoVal)
  BY DEF ScrubbedState
<1>11. ScrubbedState(st) \in State
  <2>1. st.sites \ PiiKeys \in SUBSET Sites /\ st.trust \in SUBSET Resolvers
    BY DEF State
  <2>2. QED
    BY <1>2, <1>3, <1>4, <1>5, <1>8, <2>1 DEF ScrubbedState, State
<1>12. QED
  BY <1>2, <1>3, <1>4, <1>5, <1>9, <1>10, <1>11

LEMMA ScrubbedFacts ==
    ASSUME TypeOK, StateGood
    PROVE  /\ SnapGood(Scrubbed)
           /\ Scrubbed.state = ScrubbedState(state)
           /\ Scrubbed.gateways = ScrubbedGateways
<1> DEFINE st == ScrubbedState(state)
<1>1. state \in State
  BY DEF TypeOK
<1>2. /\ st \in State /\ st.sites = state.sites \ PiiKeys
  BY <1>1, ScrubbedStateFacts DEF ScrubbedState
<1>3. ASSUME NEW g \in Gateways, gateways[g] # NoVal
      PROVE  ScrubbedGateway(gateways[g]) \in SavedGateway
  <2>1. gateways[g] \in Gateway
    BY <1>3 DEF TypeOK
  <2>2. QED
    BY <2>1 DEF ScrubbedGateway, Gateway, SavedGateway
<1>4. Scrubbed \in Snapshot
  BY <1>2, <1>3 DEF Scrubbed, ScrubbedGateways, Snapshot
<1>5. Scrubbed.state = st /\ Scrubbed.gateways = ScrubbedGateways
  BY DEF Scrubbed
<1>6. RefsOf(st)
  <2>1. \A h \in Hosts : st.domains[h] \in st.sites \cup PiiKeys \cup {NoVal}
    BY <1>1, <1>2, ScrubbedStateFacts DEF StateGood, RefsOf
  <2>2. ASSUME NEW s \in Sites \ st.sites
        PROVE  /\ st.runtimes[s] = NoRuntime /\ st.versions[s] = NoVal
               /\ \A u \in Users : st.roles[s][u] = NoVal
    <3>1. CASE s \in PiiKeys
      BY <1>1, <3>1, ScrubbedStateFacts
    <3>2. CASE s \notin PiiKeys
      <4>1. s \in Sites \ state.sites
        BY <1>2, <3>2
      <4>2. /\ state.runtimes[s] = NoRuntime /\ state.versions[s] = NoVal
            /\ \A u \in Users : state.roles[s][u] = NoVal
        BY <4>1 DEF StateGood, RefsOf
      <4>3. QED
        BY <1>1, <4>2, ScrubbedStateFacts
    <3>3. QED
      BY <3>1, <3>2
  <2>3. QED
    BY <2>1, <2>2 DEF RefsOf
<1>7. RuntimesGood(st)
  BY <1>1, ScrubbedStateFacts DEF StateGood, RuntimesGood
<1>8. Clean(Scrubbed)
  <2>1. \A g \in Gateways \cap PiiKeys : ScrubbedGateways[g] = NoVal
    BY DEF ScrubbedGateways
  <2>2. QED
    BY <1>1, <1>2, <1>5, <2>1, ScrubbedStateFacts DEF Clean
<1>9. QED
  BY <1>4, <1>5, <1>6, <1>7, <1>8 DEF SnapGood

LEMMA InitInv == Init => IInv
<1> SUFFICES ASSUME Init PROVE IInv
  OBVIOUS
<1>1. TypeOK
  BY FreshFacts, DirectoryAssumption DEF Init, TypeOK, SnapGood, Snapshot, FileFlags, Fresh
<1>2. StateGood /\ FlagEnforced /\ FlagVisible /\ FlagsOnDisk /\ BehindKnown
  BY FreshFacts, DistinctAssumption
     DEF Init, StateGood, FlagEnforced, FlagVisible, FlagsOnDisk, BehindKnown, SnapGood,
         Flagged, Flags
<1>3. Scrubbed = standing
  <2>1. ScrubbedState(state) = Fresh.state
    BY DEF Init, Fresh, ScrubbedState, Kept
  <2>2. ScrubbedGateways = Fresh.gateways
    BY DEF Init, Fresh, ScrubbedGateways
  <2>3. QED
    BY <2>1, <2>2 DEF Init, Scrubbed, Fresh
<1>4. DiskMatches /\ AnsweredSurvives /\ RoutedAsAnswered
  <2>1. DiskMatches /\ RoutedAsAnswered
    BY FreshFacts, DistinctAssumption DEF Init, DiskMatches, RoutedAsAnswered
  <2>2. AnsweredSurvives
    BY <1>3 DEF Init, AnsweredSurvives
  <2>3. QED
    BY <2>1, <2>2
<1>5. QED
  BY <1>1, <1>2, <1>4 DEF IInv

\* A good snapshot is read back unchanged, and saved again unchanged.
LEMMA LoadFacts ==
    ASSUME NEW snap, SnapGood(snap)
    PROVE  /\ LoadedState(snap) = snap.state
           /\ ScrubbedState(snap.state) = snap.state
           /\ LoadedGateways(snap) \in [Gateways -> Gateway \cup {NoVal}]
           /\ \A g \in Gateways :
                 IF snap.gateways[g] = NoVal THEN LoadedGateways(snap)[g] = NoVal
                 ELSE /\ LoadedGateways(snap)[g] # NoVal
                      /\ ScrubbedGateway(LoadedGateways(snap)[g]) = snap.gateways[g]
<1>0. snap \in Snapshot /\ snap.state \in State
  BY DEF SnapGood, Snapshot
<1>1. ASSUME NEW s \in Sites PROVE LoadedRuntime(snap.state, s) = snap.state.runtimes[s]
  BY DEF LoadedRuntime, RefsOf, RuntimesGood, SnapGood
<1>2. LoadedState(snap) = snap.state
  <2>1. [s \in Sites |-> LoadedRuntime(snap.state, s)] = snap.state.runtimes
    BY <1>0, <1>1 DEF State
  <2>2. QED
    BY <1>0, <2>1 DEF LoadedState, State
<1>3. ASSUME NEW g \in Gateways, snap.gateways[g] # NoVal
      PROVE  /\ LoadedGateway(snap.gateways[g]) \in Gateway
             /\ LoadedGateway(snap.gateways[g]) # NoVal
             /\ ScrubbedGateway(LoadedGateway(snap.gateways[g])) = snap.gateways[g]
  <2>1. snap.gateways[g] \in SavedGateway
    BY <1>0, <1>3 DEF Snapshot
  <2>2. LoadedGateway(snap.gateways[g]) \in Gateway
    BY <2>1 DEF LoadedGateway, Gateway, SavedGateway
  <2>3. ScrubbedGateway(LoadedGateway(snap.gateways[g])) = snap.gateways[g]
    BY <2>1 DEF LoadedGateway, ScrubbedGateway, SavedGateway
  <2>4. QED
    BY <2>2, <2>3, DistinctAssumption
<1>4. ScrubbedState(snap.state) = snap.state
  <2> PICK st \in State : st = snap.state
    BY <1>0
  <2>1. Clean(snap)
    BY DEF SnapGood
  <2>2. st.sites \ PiiKeys = st.sites /\ Kept(st.domains, NoVal) = st.domains
    BY <2>1 DEF Clean, State, Kept
  <2>3. Kept(st.runtimes, NoRuntime) = st.runtimes /\ Kept(st.versions, NoVal) = st.versions
    BY <2>1 DEF Clean, State, Kept
  <2>4. Kept(st.flags, NoVal) = st.flags
    BY <2>1 DEF Clean, State, Kept
  <2>5. ASSUME NEW s \in Sites
        PROVE  /\ Kept(st.roles[s], NoVal) = st.roles[s]
               /\ s \in PiiKeys => st.roles[s] = [u \in Users |-> NoVal]
    BY <2>1 DEF Clean, State, Kept
  <2>6. [s \in Sites |-> Kept(st.roles[s], NoVal)] = st.roles
    BY <2>5 DEF State
  <2>7. Kept(st.roles, [u \in Users |-> NoVal]) = st.roles
    BY <2>5 DEF State, Kept
  <2>8. ScrubbedState(st) = [sites |-> st.sites, domains |-> st.domains,
            runtimes |-> st.runtimes, versions |-> st.versions, roles |-> st.roles,
            trust |-> st.trust, flags |-> st.flags]
    BY <2>2, <2>3, <2>4, <2>6, <2>7 DEF ScrubbedState
  <2>9. QED
    BY <2>8 DEF State
<1>5. QED
  BY <1>2, <1>3, <1>4 DEF LoadedGateways

LEMMA HandlerInv ==
    ASSUME IInv, HandlerStep
    PROVE  IInv'
<1>1. TypeOK'
  BY DEF HandlerStep, IInv, TypeOK, diskVars, FlagsAlone, FlagsOne
<1>2. StateGood' /\ DiskMatches' /\ AnsweredSurvives'
  <2>1. StateGood'
    BY DEF HandlerStep, StateGood
  <2>2. DiskMatches'
    BY DEF HandlerStep, IInv, DiskMatches, SnapGood, diskVars
  <2>3. AnsweredSurvives'
    BY DEF HandlerStep, AnsweredSurvives
  <2>4. QED
    BY <2>1, <2>2, <2>3
<1>3. FlagEnforced'
  BY DEF HandlerStep, IInv, FlagEnforced, FlagsAlone, FlagsOne
<1>4. FlagVisible'
  BY DEF HandlerStep, IInv, FlagVisible, FlagsAlone, FlagsOne, diskVars
<1>5. FlagsOnDisk' /\ BehindKnown'
  <2>1. CASE FlagsAlone
    BY <2>1 DEF HandlerStep, IInv, FlagsOnDisk, BehindKnown, FlagsAlone, diskVars
  <2>2. ASSUME NEW r \in Resolvers, FlagsOne(r) PROVE FlagsOnDisk' /\ BehindKnown'
    <3>1. BehindKnown'
      BY <2>2 DEF IInv, TypeOK, BehindKnown, FlagsOne
    <3>2. disk # Torn => ~Flagged(disk.state.flags[r])
      BY <2>2 DEF IInv, FlagsOnDisk, FlagsOne
    <3>3. FlagsOnDisk'
      BY <2>2, <3>2 DEF HandlerStep, IInv, FlagsOnDisk, FlagsOne, diskVars
    <3>4. QED
      BY <3>1, <3>3
  <2>3. QED
    BY <2>1, <2>2 DEF HandlerStep
<1>6. RoutedAsAnswered'
  <2> SUFFICES ASSUME NEW g \in Gateways \ PiiKeys, reply'.op = "ResolveGatewayForHost",
                      reply'.on = g, standing # NoVal
               PROVE  standing.gateways[g] # NoVal /\ standing.gateways[g].status = "online"
    BY DEF RoutedAsAnswered, HandlerStep, diskVars
  <2>1. gateways[g] # NoVal /\ gateways[g].status = "online"
    BY DEF HandlerStep, Routes
  <2>2. standing.gateways[g] = ScrubbedGateway(gateways[g])
    <3>1. Scrubbed = standing
      BY DEF HandlerStep, IInv, AnsweredSurvives
    <3>2. Scrubbed.gateways[g] = ScrubbedGateway(gateways[g])
      BY <2>1 DEF Scrubbed, ScrubbedGateways
    <3>3. QED
      BY <3>1, <3>2
  <2>3. ScrubbedGateway(gateways[g]) \in SavedGateway
    BY <2>1 DEF IInv, TypeOK, ScrubbedGateway, Gateway, SavedGateway
  <2>4. QED
    BY <2>1, <2>2, <2>3, DistinctAssumption DEF ScrubbedGateway
<1>7. QED
  BY <1>1, <1>2, <1>3, <1>4, <1>5, <1>6 DEF IInv

LEMMA RefusedInv ==
    ASSUME IInv, RefusedStep
    PROVE  IInv'
<1>1. PICK op \in FlagOps, r \in Resolvers :
        /\ phase = "idle" /\ reply' = [op |-> op, code |-> "FORBIDDEN", on |-> r]
        /\ UNCHANGED <<dirVars, phase, diskVars, behind>>
  BY DEF RefusedStep, RefusedByGate
<1>2. reply' \in Reply /\ reply'.op # "ResolveGatewayForHost"
  BY <1>1 DEF Reply, FlagOps, Ops, Codes
<1>3. TypeOK'
  BY <1>1, <1>2 DEF IInv, TypeOK, dirVars, diskVars
<1>4. Scrubbed' = Scrubbed
  BY <1>1 DEF Scrubbed, ScrubbedGateways, dirVars
<1>5. StateGood' /\ DiskMatches' /\ RoutedAsAnswered'
  BY <1>1, <1>2 DEF IInv, StateGood, DiskMatches, RoutedAsAnswered, dirVars, diskVars
<1>6. AnsweredSurvives'
  BY <1>1, <1>4 DEF IInv, AnsweredSurvives, dirVars, diskVars
<1>7. FlagEnforced' /\ FlagVisible' /\ FlagsOnDisk' /\ BehindKnown'
  BY <1>1 DEF IInv, FlagEnforced, FlagVisible, FlagsOnDisk, BehindKnown, dirVars, diskVars
<1>8. QED
  BY <1>3, <1>5, <1>6, <1>7 DEF IInv

\* Giving up and opening the file.
LEMMA TruncateInv ==
    ASSUME IInv, SaveFails \/ Truncate
    PROVE  IInv'
<1>1. TypeOK'
  BY DEF SaveFails, Truncate, IInv, TypeOK, dirVars, diskVars
<1>2. /\ phase = "handled" /\ phase' \in {"unsaved", "writing"}
      /\ phase' = "writing" => disk' = Torn
      /\ phase' = "unsaved" => disk' = disk
      /\ UNCHANGED <<state, gateways, file, reply, standing, unsaved, behind, cut>>
  BY DEF SaveFails, Truncate, dirVars, diskVars
<1>3. StateGood' /\ RoutedAsAnswered' /\ AnsweredSurvives'
  BY <1>2 DEF IInv, StateGood, RoutedAsAnswered, AnsweredSurvives
<1>4. DiskMatches'
  BY <1>2 DEF IInv, DiskMatches, SaveFails, Truncate
<1>5. FlagEnforced' /\ FlagVisible' /\ FlagsOnDisk' /\ BehindKnown'
  BY <1>2 DEF IInv, FlagEnforced, FlagVisible, FlagsOnDisk, BehindKnown
<1>6. QED
  BY <1>1, <1>3, <1>4, <1>5 DEF IInv

LEMMA WriteInv ==
    ASSUME IInv, Write
    PROVE  IInv'
<1>1. SnapGood(Scrubbed) /\ Scrubbed.state = ScrubbedState(state) /\ state \in State
  BY ScrubbedFacts DEF IInv, TypeOK
<1>2. TypeOK'
  BY <1>1, DirectoryAssumption DEF Write, IInv, TypeOK, dirVars, SnapGood
<1>3. Scrubbed' = Scrubbed
  BY DEF Write, Scrubbed, ScrubbedGateways, dirVars
<1>4. StateGood' /\ RoutedAsAnswered' /\ AnsweredSurvives'
  BY DEF Write, IInv, StateGood, RoutedAsAnswered, AnsweredSurvives, dirVars
<1>5. DiskMatches'
  BY <1>1, <1>3 DEF Write, IInv, DiskMatches, dirVars
<1>6. FlagEnforced' /\ FlagVisible' /\ BehindKnown'
  BY DEF Write, IInv, FlagEnforced, FlagVisible, BehindKnown, dirVars
<1>7. FlagsOnDisk'
  <2>1. ~Flagged(NoVal)
    BY DistinctAssumption DEF Flagged, Flags
  <2>2. \A r \in Resolvers : disk'.state.flags[r] =
            IF r \in PiiKeys THEN NoVal ELSE state.flags[r]
    BY <1>1, ScrubbedStateFacts DEF Write
  <2>3. file' = file /\ behind' = {} /\ state' = state
    BY DEF Write, dirVars
  <2>4. QED
    BY <1>6, <2>1, <2>2, <2>3 DEF IInv, FlagsOnDisk, FlagEnforced, FlagVisible
<1>8. QED
  BY <1>2, <1>4, <1>5, <1>6, <1>7 DEF IInv

LEMMA AnswerInv ==
    ASSUME IInv, Answer
    PROVE  IInv'
<1>1. Scrubbed \in Snapshot
  BY ScrubbedFacts DEF IInv, SnapGood
<1>2. TypeOK'
  <2>1. CASE phase = "written"
    BY <1>1, <2>1, DirectoryAssumption DEF Answer, IInv, TypeOK, dirVars
  <2>2. CASE phase = "unsaved"
    BY <1>1, <2>2, DirectoryAssumption DEF Answer, IInv, TypeOK, DiskMatches, dirVars
  <2>3. QED
    BY <2>1, <2>2 DEF Answer
<1>3. Scrubbed' = Scrubbed
  BY DEF Answer, Scrubbed, ScrubbedGateways, dirVars
<1>4. StateGood' /\ RoutedAsAnswered' /\ AnsweredSurvives'
  BY <1>3 DEF Answer, IInv, StateGood, RoutedAsAnswered, AnsweredSurvives, dirVars
<1>5. DiskMatches'
  BY <1>3 DEF Answer, IInv, TypeOK, DiskMatches, dirVars
<1>6. FlagEnforced' /\ FlagVisible' /\ FlagsOnDisk' /\ BehindKnown'
  BY DEF Answer, IInv, FlagEnforced, FlagVisible, FlagsOnDisk, BehindKnown, dirVars
<1>7. QED
  BY <1>2, <1>4, <1>5, <1>6 DEF IInv

\* What is in memory after a restart is what would be saved again.
LEMMA ScrubbedAfterCrash ==
    ASSUME IInv, Crash, disk # Torn
    PROVE  Scrubbed' = disk
<1>1. SnapGood(disk) /\ Readable = disk
  BY DEF IInv, DiskMatches, Readable
<1>2. state' = disk.state /\ gateways' = LoadedGateways(disk)
  BY <1>1, LoadFacts DEF Crash
<1>3. ASSUME NEW g \in Gateways
      PROVE  (IF gateways'[g] = NoVal \/ g \in PiiKeys THEN NoVal
              ELSE ScrubbedGateway(gateways'[g])) = disk.gateways[g]
  BY <1>1, <1>2, LoadFacts DEF SnapGood, Clean
<1>4. ScrubbedGateways' = disk.gateways
  <2>1. disk.gateways \in [Gateways -> SavedGateway \cup {NoVal}]
    BY <1>1 DEF SnapGood, Snapshot
  <2>2. QED
    BY <1>3, <2>1 DEF ScrubbedGateways
<1>5. ScrubbedState(state)' = disk.state
  BY <1>1, <1>2, LoadFacts DEF ScrubbedState
<1>6. Scrubbed' = [state |-> disk.state, gateways |-> disk.gateways]
  BY <1>4, <1>5 DEF Scrubbed
<1>7. QED
  BY <1>1, <1>6 DEF SnapGood, Snapshot

LEMMA CrashInv ==
    ASSUME IInv, Crash
    PROVE  IInv'
<1>1. SnapGood(Readable)
  BY FreshFacts DEF Readable, IInv, DiskMatches
<1>2. /\ state' = Readable.state /\ state' \in State
      /\ gateways' \in [Gateways -> Gateway \cup {NoVal}]
  BY <1>1, LoadFacts DEF Crash, SnapGood, Snapshot
<1>3. Scrubbed \in Snapshot
  BY ScrubbedFacts DEF IInv, SnapGood
<1>4. TypeOK'
  BY <1>2, <1>3, DirectoryAssumption DEF Crash, IInv, TypeOK
<1>5. StateGood' /\ RoutedAsAnswered'
  BY <1>1, <1>2 DEF Crash, SnapGood, StateGood, RoutedAsAnswered
<1>6. disk # Torn /\ standing' # NoVal => disk = standing'
  BY DEF Crash, IInv, TypeOK, DiskMatches
<1>7. DiskMatches' /\ AnsweredSurvives'
  <2>1. SnapGood(disk)' = SnapGood(disk')
    BY DEF SnapGood
  <2>2. DiskMatches'
    BY <1>6, <2>1 DEF Crash, IInv, DiskMatches
  <2>3. standing' # NoVal => disk # Torn
    BY DEF Crash
  <2>4. AnsweredSurvives'
    BY <1>6, <2>3, ScrubbedAfterCrash DEF AnsweredSurvives
  <2>5. QED
    BY <2>2, <2>4
<1>8. FlagEnforced' /\ FlagVisible' /\ FlagsOnDisk' /\ BehindKnown'
  <2>1. behind' = {} /\ file' = file /\ disk' = disk
    BY DEF Crash
  <2>2. CASE disk = Torn
    <3>1. Readable = Fresh /\ cut' = Resolvers
      BY <2>2 DEF Readable, Crash
    <3>2. \A r \in Resolvers : ~Flagged(state'.flags[r])
      BY <1>2, <3>1, FreshFacts
    <3>3. QED
      BY <2>1, <2>2, <3>1, <3>2 DEF FlagEnforced, FlagVisible, FlagsOnDisk, BehindKnown
  <2>3. CASE disk # Torn
    <3>1. state' = disk.state /\ cut' = cut \cup behind
      BY <1>2, <2>3 DEF Readable, Crash
    <3>2. QED
      BY <2>1, <2>3, <3>1 DEF IInv, FlagEnforced, FlagVisible, FlagsOnDisk, BehindKnown
  <2>4. QED
    BY <2>2, <2>3
<1>9. QED
  BY <1>4, <1>5, <1>7, <1>8 DEF IInv

LEMMA StutterInv ==
    ASSUME IInv, UNCHANGED vars
    PROVE  IInv'
<1>1. Scrubbed' = Scrubbed
  BY DEF vars, Scrubbed, ScrubbedGateways
<1>2. TypeOK' /\ StateGood' /\ RoutedAsAnswered'
  BY DEF vars, IInv, TypeOK, StateGood, RoutedAsAnswered
<1>3. DiskMatches' /\ AnsweredSurvives'
  BY <1>1 DEF vars, IInv, DiskMatches, AnsweredSurvives
<1>4. FlagEnforced' /\ FlagVisible' /\ FlagsOnDisk' /\ BehindKnown'
  BY DEF vars, IInv, FlagEnforced, FlagVisible, FlagsOnDisk, BehindKnown
<1>5. QED
  BY <1>2, <1>3, <1>4 DEF IInv

LEMMA StepInv == IInv /\ [Next]_vars => IInv'
BY NextKinds, HandlerInv, RefusedInv, TruncateInv, WriteInv, AnswerInv, CrashInv, StutterInv

LEMMA Invariance == Spec => []IInv
BY InitInv, StepInv, PTL DEF Spec

-----------------------------------------------------------------------------
(***************************************************************************)
(* Theorems                                                                *)
(***************************************************************************)

\* The tables keep their shape through saving, scrubbing and loading.
THEOREM TypeCorrect == Spec => []TypeOK
<1>1. IInv => TypeOK
  BY DEF IInv
<1>2. QED
  BY <1>1, Invariance, PTL

\* What the tables say about a site they say about a registered one.
THEOREM ReferencesCorrect == Spec => []ReferencesRegistered
<1>1. IInv => ReferencesRegistered
  BY DEF IInv, StateGood, RefsOf, ReferencesRegistered
<1>2. QED
  BY <1>1, Invariance, PTL

\* What has been answered is taken back only by a crash inside persist.save
\* or after one that gave up; a message without an answer is kept whole.
THEOREM SurvivesCorrect == Spec => []AnsweredSurvives
<1>1. IInv => AnsweredSurvives
  BY DEF IInv
<1>2. QED
  BY <1>1, Invariance, PTL

\* The gate enforces every flag the registry reports.
THEOREM EnforcedCorrect == Spec => []FlagEnforced
<1>1. IInv => FlagEnforced
  BY DEF IInv
<1>2. QED
  BY <1>1, Invariance, PTL

\* The registry reports every flag the gate enforces, crashes apart.
THEOREM VisibleCorrect == Spec => []FlagVisible
<1>1. IInv => FlagVisible
  BY DEF IInv
<1>2. QED
  BY <1>1, Invariance, PTL

\* Visitors are sent to gateways that the last message on record left online.
THEOREM RoutedCorrect == Spec => []RoutedAsAnswered
<1>1. IInv => RoutedAsAnswered
  BY DEF IInv
<1>2. QED
  BY <1>1, Invariance, PTL

=============================================================================
