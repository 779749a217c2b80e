--------------------------- MODULE SitePublishing ---------------------------
(***************************************************************************)
(* Authoring and publication in ao/site/process.lua: drafts and their      *)
(* review status, published page versions, the active version, the publish *)
(* schedule with its scheduler, and the read cache in front of GetPage.    *)
(*                                                                         *)
(* One site: handlers touch a single site, and RunPublishScheduler treats  *)
(* its sites one after the other and independently.  A page stands for a   *)
(* page id with its locale.                                                *)
(***************************************************************************)
EXTENDS Integers, SequencesExt

CONSTANTS
    Pages,              \* page ids
    Versions,           \* version ids
    Contents,           \* draft contents
    Times,              \* Publish-At and Expire-At values, as seconds
    NoVal,              \* Lua's nil; also a timestamp iso_to_ts cannot parse
    MAX_PUBLISH_RETRY,  \* SITE_MAX_PUBLISH_RETRY
    PUBLISH_LOG_LIMIT,  \* SITE_PUBLISH_LOG_LIMIT
    CACHE_STALE_TTL,    \* SITE_CACHE_STALE_TTL
    MaxTime,            \* bound: the clock stops here
    MaxEntries          \* bound: SchedulePublish calls in one behaviour

ASSUME PublishingAssumption ==
    /\ Times \subseteq Nat
    /\ {MAX_PUBLISH_RETRY, PUBLISH_LOG_LIMIT, CACHE_STALE_TTL, MaxTime, MaxEntries}
          \subseteq Nat
    /\ MAX_PUBLISH_RETRY > 0

Keys == Pages \X Versions
Ids == 1 .. MaxEntries

VARIABLES
    now,        \* os.time()
    drafts,     \* state.drafts
    pages,      \* state.pages
    active,     \* state.active_versions[site]
    schedule,   \* state.publish_schedules[site]
    logSize,    \* #state.publish_log
    cache,      \* cache_store for GetPage
    served,     \* the response to the last GetPage
    fate,       \* history: what became of each scheduled entry
    live,       \* history: when each content was last readable in the store
    behind      \* history: pages changed since the last purge of the cache

vars == <<now, drafts, pages, active, schedule, logSize, cache, served,
          fate, live, behind>>

Draft == [content : Contents, status : {"draft", "in_review", "approved", "published"}]
Page == [content : Contents, archived : BOOLEAN]
Entry == [id : Ids, pageId : Pages, version : Versions,
          publishAt : Times \cup {NoVal}, expireAt : Times \cup {NoVal},
          status : {"pending", "failed"}, retryCount : 0 .. MAX_PUBLISH_RETRY]

EmptyCache == [k \in Keys |-> NoVal]

Init ==
    /\ now = 0
    /\ drafts = [p \in Pages |-> NoVal]
    /\ pages = [k \in Keys |-> NoVal]
    /\ active = NoVal
    /\ schedule = <<>>
    /\ logSize = 0
    /\ cache = EmptyCache
    /\ served = NoVal
    /\ fate = [i \in Ids |-> "none"]
    /\ live = {}
    /\ behind = FALSE

-----------------------------------------------------------------------------

\* The content visitors can read under key k in store s.
Readable(s, k) ==
    IF s[k] = NoVal THEN NoVal ELSE IF s[k].archived THEN NoVal ELSE s[k].content

\* The history of readable contents after a step that changes the store to s:
\* what was readable until now, what is readable from now on.
LiveAfter(s) ==
    LET seen == {x \in {<<k, Readable(pages, k)>> : k \in Keys}
                     \cup {<<k, Readable(s, k)>> : k \in Keys} : x[2] # NoVal}
    IN  {l \in live : <<l.key, l.content>> \notin seen /\ l.at >= now - CACHE_STALE_TTL}
        \cup {[key |-> x[1], content |-> x[2], at |-> now] : x \in seen}

\* PutDraft: the draft is replaced, whatever its review status and locks, and
\* the site's cache is purged.
PutDraft(p, content) ==
    /\ drafts' = [drafts EXCEPT ![p] = [content |-> content, status |-> "draft"]]
    /\ cache' = EmptyCache
    /\ behind' = FALSE
    /\ served' = NoVal
    /\ UNCHANGED <<now, pages, active, schedule, logSize, fate, live>>

\* RequestPublish and ApprovePublish: no order between them is required.
Review(p, status) ==
    /\ drafts[p] # NoVal
    /\ drafts' = [drafts EXCEPT ![p].status = status]
    /\ served' = NoVal
    /\ UNCHANGED <<now, pages, active, schedule, logSize, cache, fate, live, behind>>

RequestPublish(p) == Review(p, "in_review")
ApprovePublish(p) == Review(p, "approved")

\* Every draft of the site becomes the page of version v.
Promoted(v) ==
    [k \in Keys |-> IF k[2] = v /\ drafts[k[1]] # NoVal
                    THEN [content |-> drafts[k[1]].content, archived |-> FALSE]
                    ELSE pages[k]]

\* PublishVersion.  The pages are written before the snapshot is stored; when
\* that fails (fits is FALSE) the call ends in an error, with the pages written,
\* the active version as it was and the cache not purged.
PublishVersion(v, expected, fits) ==
    /\ expected = NoVal \/ active = NoVal \/ expected = active
    /\ pages' = Promoted(v)
    /\ live' = LiveAfter(Promoted(v))
    /\ IF fits \/ \A p \in Pages : drafts[p] = NoVal
       THEN /\ active' = v
            /\ cache' = EmptyCache
            /\ behind' = FALSE
       ELSE /\ behind' = (behind \/ pages' # pages)
            /\ UNCHANGED <<active, cache>>
    /\ served' = NoVal
    /\ UNCHANGED <<now, drafts, schedule, logSize, fate>>

\* Wrong: the cache keeps what it holds.
ArchivePageUnpurged(p, version) ==
    LET v == IF version = NoVal THEN active ELSE version
        s == IF v = NoVal THEN pages
             ELSE IF pages[<<p, v>>] = NoVal THEN pages
             ELSE [pages EXCEPT ![<<p, v>>].archived = TRUE]
    IN  /\ pages' = s
        /\ live' = LiveAfter(s)
        /\ served' = NoVal
        /\ UNCHANGED <<now, drafts, active, schedule, logSize, cache, fate, behind>>

\* ArchivePage for a version, or for the active one.
ArchivePage(p, version) ==
    LET v == IF version = NoVal THEN active ELSE version
        s == IF v = NoVal THEN pages
             ELSE IF pages[<<p, v>>] = NoVal THEN pages
             ELSE [pages EXCEPT ![<<p, v>>].archived = TRUE]
    IN  /\ pages' = s
        /\ live' = LiveAfter(s)
        /\ cache' = EmptyCache
        /\ behind' = FALSE
        /\ served' = NoVal
        /\ UNCHANGED <<now, drafts, active, schedule, logSize, fate>>

SchedulePublish(p, v, publishAt, expireAt) ==
    \E id \in Ids :
        /\ fate[id] = "none" /\ \A j \in Ids : j < id => fate[j] # "none"
        /\ schedule' = Append(schedule,
              [id |-> id, pageId |-> p, version |-> v, publishAt |-> publishAt,
               expireAt |-> expireAt, status |-> "pending", retryCount |-> 0])
        /\ fate' = [fate EXCEPT ![id] = "scheduled"]
        /\ served' = NoVal
        /\ UNCHANGED <<now, drafts, pages, active, logSize, cache, live, behind>>

-----------------------------------------------------------------------------
(***************************************************************************)
(* RunPublishScheduler: one pass over the entries, in order.               *)
(***************************************************************************)

Due(t) == t # NoVal /\ t <= now

\* The pass so far, with entry e kept for the next run.
Keep(run, e) == [run EXCEPT !.pending = Append(@, e)]

\* A due entry with a draft: the page is written and the version activated.
PublishEntry(run, e) ==
    [run EXCEPT
       !.pages[<<e.pageId, e.version>>] =
           [content |-> run.drafts[e.pageId].content, archived |-> FALSE],
       !.drafts[e.pageId].status = "published",
       !.active = e.version,
       !.log = @ + 1,
       !.fate[e.id] = "published"]

\* Wrong: the entry is tried again for ever.
MissingDraftForEver(run, e) ==
    [Keep(run, e) EXCEPT !.log = @ + 1]

\* A due entry without a draft is kept and counted; the last attempt allowed
\* marks it failed.
MissingDraft(run, e) ==
    LET tries == e.retryCount + 1
        gone  == tries >= MAX_PUBLISH_RETRY
        kept  == [e EXCEPT !.retryCount = tries,
                           !.status = IF gone THEN "failed" ELSE @]
    IN  [Keep(run, kept) EXCEPT !.log = @ + (IF gone THEN 2 ELSE 1),
                                !.fate[e.id] = IF gone THEN "failed" ELSE @]

ExpireEntry(run, e) ==
    LET k == <<e.pageId, e.version>> IN
    IF run.pages[k] = NoVal THEN run
    ELSE [run EXCEPT !.pages[k].archived = TRUE, !.log = @ + 1]

\* An entry that expires before it was due leaves the schedule unpublished.
Outdated(run, e) ==
    [ExpireEntry(run, e) EXCEPT !.fate[e.id] = "expired"]

\* Wrong: an entry is only kept until its first due date.
ProcessEntryForgets(run, e) ==
    IF run.stopped \/ ~Due(e.publishAt) THEN run
    ELSE IF e.status = "failed" THEN [Keep(run, e) EXCEPT !.stopped = TRUE]
    ELSE IF run.drafts[e.pageId] # NoVal THEN PublishEntry(run, e)
    ELSE MissingDraft(run, e)

\* An entry marked failed by an earlier run ends the pass (the loop breaks).
\* An entry neither due nor expired is kept.  A published entry leaves the
\* schedule, with an Expire-At still to come or not.
ProcessEntry(run, e) ==
    IF run.stopped THEN run
    ELSE IF e.status = "failed" THEN [Keep(run, e) EXCEPT !.stopped = TRUE]
    ELSE IF ~Due(e.publishAt)
    THEN IF Due(e.expireAt) THEN Outdated(run, e) ELSE Keep(run, e)
    ELSE LET tried == IF run.drafts[e.pageId] # NoVal THEN PublishEntry(run, e)
                      ELSE MissingDraft(run, e)
         IN  IF Due(e.expireAt) THEN ExpireEntry(tried, e) ELSE tried

Pass == FoldLeft(ProcessEntry,
                 [drafts |-> drafts, pages |-> pages, active |-> active, log |-> logSize,
                  pending |-> <<>>, stopped |-> FALSE, fate |-> fate],
                 schedule)

\* Entries that a pass neither settles nor keeps.
Dropped(run) ==
    {e.id : e \in ToSet(schedule)} \ ({e.id : e \in ToSet(run.pending)}
                                     \cup {i \in Ids : run.fate[i] # fate[i]})

CutLog(size) == IF size > PUBLISH_LOG_LIMIT THEN PUBLISH_LOG_LIMIT ELSE size

\* The cache is not purged, and the log is cut to its limit.
RunPublishScheduler ==
  \E run \in {Pass} :
    /\ drafts' = run.drafts
    /\ pages' = run.pages
    /\ active' = run.active
    /\ schedule' = run.pending
    /\ logSize' = CutLog(run.log)
    /\ fate' = [i \in Ids |-> IF i \in Dropped(run) THEN "dropped" ELSE run.fate[i]]
    /\ live' = LiveAfter(run.pages)
    /\ behind' = (behind \/ run.pages # pages)
    /\ served' = NoVal
    /\ UNCHANGED <<now, cache>>

-----------------------------------------------------------------------------

\* Wrong: serving a cached page renews it.
CacheHitRenews(k) == [cache EXCEPT ![k] = [content |-> cache[k].content, ts |-> now]]

\* A hit leaves the entry as it is, stale or not.
CacheHit(k) == cache

\* GetPage through with_cache: an entry up to CACHE_STALE_TTL old answers, else
\* the store does and, when it has the page, fills the cache.
GetPage(p, version) ==
    LET v == IF version = NoVal THEN active ELSE version
        k == <<p, v>>
        fresh == cache[k] # NoVal /\ now - cache[k].ts <= CACHE_STALE_TTL
        found == Readable(pages, k)
    IN  /\ v \in Versions
        /\ IF fresh
           THEN served' = [key |-> k, content |-> cache[k].content] /\ cache' = CacheHit(k)
           ELSE /\ served' = [key |-> k, content |-> found]
                /\ cache' = [cache EXCEPT ![k] =
                      IF found = NoVal THEN NoVal ELSE [content |-> found, ts |-> now]]
        /\ UNCHANGED <<now, drafts, pages, active, schedule, logSize, fate, live, behind>>

Tick ==
    /\ now < MaxTime
    /\ live' = LiveAfter(pages)
    /\ now' = now + 1
    /\ served' = NoVal
    /\ UNCHANGED <<drafts, pages, active, schedule, logSize, cache, fate, behind>>

Optional(S) == S \cup {NoVal}

Next ==
    \/ \E p \in Pages, content \in Contents : PutDraft(p, content)
    \/ \E p \in Pages : RequestPublish(p) \/ ApprovePublish(p)
    \/ \E v \in Versions, expected \in Optional(Versions), fits \in BOOLEAN :
          PublishVersion(v, expected, fits)
    \/ \E p \in Pages, v \in Optional(Versions) : ArchivePage(p, v)
    \/ \E p \in Pages, v \in Versions, publishAt, expireAt \in Optional(Times) :
          SchedulePublish(p, v, publishAt, expireAt)
    \/ RunPublishScheduler
    \/ \E p \in Pages, v \in Optional(Versions) : GetPage(p, v)
    \/ Tick

Spec == Init /\ [][Next]_vars

\* The clock moves on and somebody keeps calling RunPublishScheduler.
FairSpec == Spec /\ WF_vars(Tick) /\ WF_vars(RunPublishScheduler)

-----------------------------------------------------------------------------

\* Types.  An entry that still waits has tries left, and the publish log is
\* within its limit after every message.
TypeOK ==
    /\ now \in 0 .. MaxTime
    /\ drafts \in [Pages -> Draft \cup {NoVal}]
    /\ pages \in [Keys -> Page \cup {NoVal}]
    /\ active \in Versions \cup {NoVal}
    /\ schedule \in Seq(Entry)
    /\ \A j \in DOMAIN schedule :
          schedule[j].status = "pending" => schedule[j].retryCount < MAX_PUBLISH_RETRY
    /\ logSize \in 0 .. PUBLISH_LOG_LIMIT
    /\ cache \in [Keys -> [content : Contents, ts : 0 .. MaxTime] \cup {NoVal}]
    /\ served \in [key : Keys, content : Contents \cup {NoVal}] \cup {NoVal}
    /\ fate \in [Ids -> {"none", "scheduled", "published", "failed", "expired", "dropped"}]
    /\ live \subseteq [key : Keys, content : Contents, at : 0 .. MaxTime]
    /\ behind \in BOOLEAN

\* What GetPage answers was readable in the store within the last
\* CACHE_STALE_TTL seconds, although the scheduler and a failed PublishVersion
\* change pages without purging the cache.
BoundedStaleness ==
    served # NoVal /\ served.content # NoVal =>
        \/ Readable(pages, served.key) = served.content
        \/ \E l \in live : /\ l.key = served.key /\ l.content = served.content
                           /\ l.at >= now - CACHE_STALE_TTL

\* Since the last purge only RunPublishScheduler and a failed PublishVersion
\* can have set the cache and the pages apart: every other handler that changes
\* a page purges, so an archived or republished page is not served again.
CacheCoherent ==
    ~behind => \A k \in Keys : cache[k] # NoVal => Readable(pages, k) = cache[k].content

\* A pass of the scheduler loses an entry, neither published nor expired nor
\* kept, only behind one that had failed before the pass.
LostOnlyBehindFailed ==
    [][\A i \in Ids : fate'[i] = "dropped" /\ fate[i] # "dropped" =>
          \E j, k \in DOMAIN schedule :
             j < k /\ schedule[j].status = "failed" /\ schedule[k].id = i]_vars

\* An entry with a readable date is settled some day: published, failed after
\* MAX_PUBLISH_RETRY attempts, expired or dropped; none is tried for ever.
EntriesSettle ==
    \A i \in Ids :
        (\E e \in ToSet(schedule) : e.id = i /\ e.publishAt # NoVal)
            ~> fate[i] \in {"published", "failed", "expired", "dropped"}

\* "no draft yet; keep waiting" (RunPublishScheduler): a due entry whose draft is
\* still missing, and which has not failed, is still scheduled after the pass.
WaitingIsKept ==
    [][\A e \in ToSet(schedule) :
          e.status = "pending" /\ Due(e.publishAt) /\ drafts[e.pageId] = NoVal =>
             \E f \in ToSet(schedule') : f.id = e.id]_vars

=============================================================================
