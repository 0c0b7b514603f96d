--------------------------- MODULE DashboardProofs ---------------------------
(***************************************************************************)
(* Proofs about the components of the dashboard, for every value of the    *)
(* constants.  Each component has a section: its invariant, a lemma on     *)
(* what every step does to it, and the theorems, first of the component    *)
(* and then of the behaviours of MCDashboard, where it is the one that     *)
(* scene names.                                                            *)
(***************************************************************************)
EXTENDS MCDashboard, FiniteSetTheorems, WellFoundedInduction, TLAPS

(***************************************************************************)
(* Widget Studio.                                                          *)
(*                                                                         *)
(* What a response says of a version is what that version published, since *)
(* a version and its appearance are read together and a published version  *)
(* never changes.  A tag names the bucket it was computed in, and an answer *)
(* takes less than a bucket, so the URLs in it were signed in that bucket  *)
(* or the one before.                                                      *)
(***************************************************************************)

EnrichType == [pc : {"enrich"}, version : 1..MaxVersion, appearance : Studio!Appearances]
AnswerType == [pc : {"answer"}, version : 1..MaxVersion, appearance : Studio!Appearances,
               signed : 0..MaxBucket]
ResponseType == [tag : (1..MaxVersion) \X (0..MaxBucket), version : 1..MaxVersion,
                 appearance : Studio!Appearances, signed : 0..MaxBucket]

\* The row and the pages, with V versions: the pages alone have one more.
RowType(V) == [draft : Studio!Appearances, published : Studio!Appearances, version : 1..V]

PageTypes(V) ==
    {Studio!Closed}
    \union [pc : {"idle"}, form : Studio!Appearances, known : 1..V]
    \union [pc : {"publish"}, form : Studio!Appearances, known : 1..V,
            expected : 1..V, saved : 1..V]

EditorTypes(V) ==
    /\ config \in RowType(V)
    /\ published \in Seq(Studio!Appearances) /\ Len(published) = config.version
    /\ edits \in 0..MaxEdit
    /\ tab \in [Slots -> PageTypes(V)]

StudioTypes ==
    /\ EditorTypes(MaxVersion)
    /\ bucket \in 0..MaxBucket
    /\ signed \in [Browsers -> {Studio!NoFetch} \union EnrichType \union AnswerType]
    /\ cache \in [Browsers -> {Studio!NoResponse} \union ResponseType]

\* Version v has been published, and it looks like this or the same without a logo.
OfVersion(appearance, v) ==
    /\ v <= Len(published)
    /\ appearance.text = published[v].text
    /\ appearance.logo => published[v].logo

\* The URLs of an answer were signed in this bucket or the one before.
FetchInv ==
    \A b \in Browsers :
        /\ signed[b] \in EnrichType \union AnswerType
               => OfVersion(signed[b].appearance, signed[b].version)
        /\ signed[b] \in AnswerType => signed[b].signed <= bucket /\ bucket <= signed[b].signed + 1

\* The tag of a response is of its version, and of the bucket in which its URLs
\* were signed or the next one.
CacheInv ==
    \A b \in Browsers : cache[b] \in ResponseType =>
        /\ OfVersion(cache[b].appearance, cache[b].version)
        /\ cache[b].tag[1] = cache[b].version
        /\ cache[b].tag[2] <= bucket /\ cache[b].tag[2] <= cache[b].signed + 1

StudioInv ==
    /\ StudioTypes
    /\ published[config.version] = config.published
    /\ FetchInv
    /\ CacheInv
-----------------------------------------------------------------------------
LEMMA StudioInit == Studio!StudioAssumption /\ Studio!Init => StudioInv
<1> SUFFICES ASSUME Studio!StudioAssumption, Studio!Init PROVE StudioInv
  OBVIOUS
<1>1. Studio!Defaults \in Studio!Appearances
  BY DEF Studio!Defaults, Studio!Appearances, Studio!StudioAssumption
<1>2. StudioTypes
  BY <1>1 DEF Studio!Init, StudioTypes, EditorTypes, RowType, PageTypes, Studio!StudioAssumption
<1>3. \A b \in Browsers : signed[b] \notin EnrichType \union AnswerType
  BY DEF Studio!Init, EnrichType, AnswerType, Studio!NoFetch
<1>4. \A b \in Browsers : cache[b] \notin ResponseType
  BY DEF Studio!Init, ResponseType, Studio!NoResponse
<1> QED  BY <1>2, <1>3, <1>4 DEF StudioInv, FetchInv, CacheInv, Studio!Init

\* What a page is, in each of its states.
LEMMA PageKinds ==
    ASSUME NEW V, NEW p \in PageTypes(V)
    PROVE  /\ p.pc = "idle" => p.form \in Studio!Appearances /\ p.known \in 1..V
           /\ p.pc = "publish" => /\ p.form \in Studio!Appearances /\ p.known \in 1..V
                                  /\ p.saved \in 1..V /\ p.expected \in 1..V
  BY DEF PageTypes, Studio!Closed

\* The steps of a page change neither what browsers hold nor, but for a
\* publication, what has been published.
LEMMA EditorKeepsTypes ==
    ASSUME MaxEdit \in Nat, NEW V \in Nat, EditorTypes(V), NEW t \in Slots,
           Studio!Editor(t), ~Studio!Publish(t)
    PROVE  /\ EditorTypes(V)'
           /\ published' = published /\ config'.version = config.version
           /\ config'.published = config.published
<1>1. /\ EditorTypes(V) /\ MaxEdit \in Nat /\ tab[t] \in PageTypes(V)
      /\ config.version \in 1..V
  BY DEF EditorTypes, RowType
<1>2. \A form \in Studio!Appearances, v \in 1..V : Studio!Page(form, v) \in PageTypes(V)
  BY DEF Studio!Page, PageTypes
<1>3. Studio!Defaults \in Studio!Appearances
  BY DEF Studio!Defaults, Studio!Appearances
<1> DEFINE Typed == /\ config' \in RowType(V) /\ tab' \in [Slots -> PageTypes(V)]
                    /\ edits' \in 0..MaxEdit
<1>4. ASSUME Studio!Load(t) PROVE Typed
  BY <1>1, <1>2, <1>4 DEF Studio!Load, EditorTypes, RowType
<1>5. ASSUME Studio!Edit(t) PROVE Typed
  <2>1. tab[t] = Studio!Page(tab[t].form, tab[t].known)
    BY <1>1, <1>5 DEF Studio!Edit, Studio!Idle, PageTypes, Studio!Closed, Studio!Page
  <2>2. [tab[t].form EXCEPT !.text = edits + 1] \in Studio!Appearances
    BY <1>1, <1>5, PageKinds DEF Studio!Edit, Studio!Idle, Studio!Appearances, EditorTypes, RowType
  <2>3. tab'[t] = Studio!Page([tab[t].form EXCEPT !.text = edits + 1], tab[t].known)
    BY <1>1, <1>5, <2>1 DEF Studio!Edit, Studio!Page, EditorTypes, RowType
  <2> QED  BY <1>1, <1>2, <1>5, <2>2, <2>3, PageKinds DEF Studio!Edit, Studio!Idle, EditorTypes,
              RowType
<1>6. ASSUME Studio!UploadLogo(t) PROVE Typed
  <2>1. tab[t] = Studio!Page(tab[t].form, tab[t].known)
    BY <1>1, <1>6 DEF Studio!UploadLogo, Studio!Idle, PageTypes, Studio!Closed, Studio!Page
  <2>2. [tab[t].form EXCEPT !.logo = TRUE] \in Studio!Appearances
    BY <1>1, <1>6, PageKinds DEF Studio!UploadLogo, Studio!Idle, Studio!Appearances, EditorTypes,
       RowType
  <2>3. tab'[t] = Studio!Page([tab[t].form EXCEPT !.logo = TRUE], tab[t].known)
    <3> DEFINE form == [tab[t].form EXCEPT !.logo = TRUE]
    <3>1. tab' = [tab EXCEPT ![t] = [tab[t] EXCEPT !.form = form]]
      BY <1>6 DEF Studio!UploadLogo
    <3> HIDE DEF form
    <3>2. tab'[t] = [tab[t] EXCEPT !.form = form]
      BY <1>1, <3>1 DEF EditorTypes, RowType
    <3>3. tab'[t] = Studio!Page(form, tab[t].known)
      BY <2>1, <3>2 DEF Studio!Page
    <3> QED  BY <3>3 DEF form
  <2> QED  BY <1>1, <1>2, <1>6, <2>2, <2>3, PageKinds DEF Studio!UploadLogo, Studio!Idle,
     EditorTypes, RowType
<1>7. ASSUME Studio!Save(t) \/ Studio!Discard(t) \/ Studio!Reset(t) PROVE Typed
  <2>1. config' \in RowType(V) /\ edits' = edits
    BY <1>1, <1>3, <1>7, PageKinds DEF Studio!Save, Studio!Discard, Studio!Reset, Studio!Idle,
       EditorTypes, RowType
  <2>2. Studio!Adopt(t)
    BY <1>7 DEF Studio!Save, Studio!Discard, Studio!Reset
  <2> QED  BY <1>1, <1>2, <2>1, <2>2 DEF Studio!Adopt, EditorTypes, RowType
<1>8. ASSUME Studio!ApplyPreset(t) PROVE Typed
  <2> DEFINE form == [tab[t].form EXCEPT !.text = edits + 1]
  <2>1. tab[t] = Studio!Page(tab[t].form, tab[t].known) /\ tab[t].known \in 1..V
    BY <1>1, <1>8, PageKinds DEF Studio!ApplyPreset, Studio!Idle, PageTypes,
       Studio!Closed, Studio!Page
  <2>2. form \in Studio!Appearances
    <3>1. tab[t].form \in Studio!Appearances /\ edits + 1 \in 0..MaxEdit
      BY <1>1, <1>8, PageKinds DEF Studio!ApplyPreset, Studio!Idle, EditorTypes, RowType
    <3> QED  BY <3>1 DEF Studio!Appearances
  <2>3. tab'[t] \in {Studio!Page(form, config.version), Studio!Page(form, tab[t].known)}
    BY <1>1, <1>8, <2>1 DEF Studio!ApplyPreset, Studio!Page, EditorTypes, RowType
  <2>4. config.version \in 1..V
    BY <1>1 DEF EditorTypes, RowType
  <2> HIDE DEF form
  <2>5. tab'[t] \in PageTypes(V)
    BY <1>2, <2>1, <2>2, <2>3, <2>4
  <2>6. \E p \in PageTypes(V) : tab' = [tab EXCEPT ![t] = p]
    <3>1. \/ tab' = [tab EXCEPT ![t] = Studio!Page(form, config.version)]
          \/ tab' = [tab EXCEPT ![t] = [tab[t] EXCEPT !.form = form]]
      BY <1>8 DEF Studio!ApplyPreset, form
    <3>2. tab' = [tab EXCEPT ![t] = tab'[t]]
      BY <1>1, <3>1 DEF EditorTypes, RowType
    <3> QED  BY <2>5, <3>2
  <2>7. tab' \in [Slots -> PageTypes(V)]
    BY <1>1, <2>6 DEF EditorTypes, RowType
  <2>8. config' = [config EXCEPT !.draft = form] /\ edits' \in 0..MaxEdit
    BY <1>1, <1>8 DEF Studio!ApplyPreset, EditorTypes, RowType, form
  <2>9. config' \in RowType(V)
    BY <1>1, <2>2, <2>8 DEF EditorTypes, RowType
  <2> QED  BY <2>7, <2>8, <2>9
<1>9. ASSUME Studio!SaveToPublish(t) PROVE Typed
  <2>1. config' \in RowType(V) /\ edits' = edits
    BY <1>1, <1>9, PageKinds DEF Studio!SaveToPublish, Studio!Idle, EditorTypes, RowType
  <2> DEFINE page == [pc |-> "publish", form |-> tab[t].form, known |-> tab[t].known,
                      expected |-> tab[t].known, saved |-> config.version]
  <2>2. /\ tab[t].form \in Studio!Appearances
        /\ {tab[t].known, config.version} \subseteq 1..V
    BY <1>1, <1>9, PageKinds DEF Studio!SaveToPublish, Studio!Idle, EditorTypes, RowType
  <2>3. page \in PageTypes(V)
    BY <2>2 DEF PageTypes
  <2>4. tab' = [tab EXCEPT ![t] = page] \/ tab' = tab
    BY <1>9 DEF Studio!SaveToPublish, Studio!Expected
  <2> QED  BY <1>1, <2>1, <2>3, <2>4 DEF EditorTypes, RowType
<1>10. ASSUME Studio!PublishFails(t) PROVE Typed
  BY <1>1, <1>2, <1>10, PageKinds DEF Studio!PublishFails, EditorTypes, RowType
<1>11. /\ published' = published /\ config'.version = config.version
       /\ config'.published = config.published
  BY DEF EditorTypes, RowType, Studio!Editor, Studio!Load, Studio!Edit, Studio!UploadLogo,
     Studio!Save, Studio!ApplyPreset, Studio!Discard, Studio!Reset, Studio!SaveToPublish,
     Studio!PublishFails
<1>12. Typed
  BY <1>4, <1>5, <1>6, <1>7, <1>8, <1>9, <1>10 DEF Studio!Editor
<1> QED  BY <1>11, <1>12 DEF EditorTypes

\* The row and the pages after a publication, whichever the bound on versions.
AfterPublish(t) ==
    /\ tab[t].pc = "publish"
    /\ config' = [config EXCEPT !.published = config.draft, !.version = config.version + 1]
    /\ published' = Append(published, config.draft)
    /\ \/ tab' = [tab EXCEPT ![t] = Studio!Page(config.draft, config.version + 1)]
       \/ tab' = [tab EXCEPT ![t] = Studio!Page(tab[t].form, tab[t].saved)]
    /\ edits' = edits

LEMMA PublishKeepsTypes ==
    ASSUME NEW V \in Nat, EditorTypes(V), NEW t \in Slots, AfterPublish(t), config.version < V
    PROVE  /\ EditorTypes(V)' /\ published'[config'.version] = config'.published
           /\ Len(published') = Len(published) + 1
           /\ \A v \in 1..Len(published) : published'[v] = published[v]
<1>1. /\ config.version + 1 \in 1..V /\ tab[t] \in PageTypes(V)
      /\ config.draft \in Studio!Appearances /\ config.version \in Nat
  BY DEF EditorTypes, RowType
<1>2. /\ published' \in Seq(Studio!Appearances) /\ Len(published') = config.version + 1
      /\ \A v \in 1..Len(published) : published'[v] = published[v]
      /\ published'[config.version + 1] = config.draft
  BY <1>1 DEF EditorTypes, AfterPublish
<1>3. /\ config' \in RowType(V) /\ config'.version = config.version + 1
      /\ config'.published = config.draft
  BY <1>1 DEF EditorTypes, AfterPublish, RowType
<1>4. tab' \in [Slots -> PageTypes(V)]
  <2>1. tab[t].form \in Studio!Appearances /\ tab[t].saved \in 1..V
    BY <1>1, PageKinds DEF AfterPublish
  <2>2. /\ Studio!Page(config.draft, config.version + 1) \in PageTypes(V)
        /\ Studio!Page(tab[t].form, tab[t].saved) \in PageTypes(V)
    BY <1>1, <2>1 DEF Studio!Page, PageTypes
  <2> QED  BY <2>2 DEF EditorTypes, AfterPublish
<1> QED  BY <1>2, <1>3, <1>4 DEF EditorTypes, AfterPublish

LEMMA EditorStep ==
    ASSUME Studio!StudioAssumption, StudioInv, NEW t \in Slots, Studio!Editor(t)
    PROVE  StudioInv'
<1>1. /\ EditorTypes(MaxVersion) /\ MaxEdit \in Nat /\ MaxVersion \in Nat
      /\ UNCHANGED <<bucket, signed, cache>>
  BY DEF StudioInv, StudioTypes, Studio!StudioAssumption, Studio!Editor, Studio!Load, Studio!Edit,
         Studio!UploadLogo, Studio!Save, Studio!ApplyPreset, Studio!Discard, Studio!Reset,
         Studio!SaveToPublish, Studio!Publish, Studio!PublishFails, Studio!visitorVars
<1>2. CASE ~Studio!Publish(t)
  <2>1. /\ EditorTypes(MaxVersion)' /\ published' = published
        /\ config'.version = config.version /\ config'.published = config.published
    BY <1>1, <1>2, EditorKeepsTypes
  <2> QED  BY <1>1, <2>1 DEF StudioInv, StudioTypes, FetchInv, CacheInv, OfVersion
<1>3. CASE Studio!Publish(t)
  <2>1. AfterPublish(t) /\ config.version < MaxVersion
    BY <1>3 DEF Studio!Publish, AfterPublish
  <2>2. /\ EditorTypes(MaxVersion)' /\ published'[config'.version] = config'.published
        /\ Len(published') = Len(published) + 1
        /\ \A v \in 1..Len(published) : published'[v] = published[v]
    BY <1>1, <2>1, PublishKeepsTypes
  <2>3. ASSUME NEW a, NEW v \in 1..MaxVersion, OfVersion(a, v)
        PROVE  OfVersion(a, v)'
    <3>1. Len(published) \in Nat
      BY <1>1 DEF EditorTypes
    <3> QED  BY <2>2, <2>3, <3>1 DEF OfVersion
  <2>4. FetchInv' /\ CacheInv'
    BY <1>1, <2>3 DEF StudioInv, FetchInv, CacheInv, EnrichType, AnswerType, ResponseType
  <2> QED  BY <1>1, <2>2, <2>4 DEF StudioInv, StudioTypes
<1> QED  BY <1>2, <1>3

\* The steps of a visitor's browser.
LEMMA VisitorStep ==
    ASSUME Studio!StudioAssumption, StudioInv, NEW b \in Browsers, Studio!Visitor(b)
    PROVE  StudioInv'
<1>1. /\ StudioTypes /\ MaxBucket \in Nat /\ FetchInv /\ CacheInv
      /\ published[config.version] = config.published
      /\ UNCHANGED <<config, published, edits, tab, bucket>>
  BY DEF StudioInv, Studio!StudioAssumption, Studio!Visitor, Studio!Resolve, Studio!Enrich,
         Studio!Answer, Studio!AnswerLost, Studio!editorVars
<1> DEFINE GoodFetch(f) ==
      /\ f \in {Studio!NoFetch} \union EnrichType \union AnswerType
      /\ f \in EnrichType \union AnswerType => OfVersion(f.appearance, f.version)
      /\ f \in AnswerType => f.signed <= bucket /\ bucket <= f.signed + 1
<1>2. OfVersion(config.published, config.version)
  BY <1>1 DEF OfVersion, StudioTypes, EditorTypes, RowType
<1>3. \A a \in Studio!Appearances, v \in 1..MaxVersion :
          OfVersion(a, v) => /\ [a EXCEPT !.logo = FALSE] \in Studio!Appearances
                             /\ OfVersion([a EXCEPT !.logo = FALSE], v)
  BY DEF OfVersion, Studio!Appearances
<1>4. GoodFetch(Studio!NoFetch)
  BY DEF Studio!NoFetch, EnrichType, AnswerType
<1>5. ASSUME NEW v \in 1..MaxVersion, NEW a \in Studio!Appearances, OfVersion(a, v)
      PROVE  GoodFetch([pc |-> "answer", version |-> v, appearance |-> a, signed |-> bucket])
  BY <1>1, <1>5 DEF StudioTypes, EditorTypes, RowType, AnswerType, EnrichType
<1>6. ASSUME NEW f, signed' = [signed EXCEPT ![b] = f], GoodFetch(f), cache' = cache
      PROVE  StudioInv'
  <2>1. StudioTypes'
    BY <1>1, <1>6 DEF StudioTypes, EditorTypes, RowType
  <2>2. FetchInv'
    <3> SUFFICES ASSUME NEW x \in Browsers
                 PROVE  /\ signed'[x] \in EnrichType \union AnswerType
                               => OfVersion(signed'[x].appearance, signed'[x].version)
                        /\ signed'[x] \in AnswerType
                               => signed'[x].signed <= bucket /\ bucket <= signed'[x].signed + 1
      BY <1>1 DEF FetchInv, OfVersion
    <3>1. CASE x = b
      BY <1>1, <1>6, <3>1 DEF StudioTypes, EditorTypes, RowType
    <3>2. CASE x # b
      BY <1>1, <1>6, <3>2 DEF StudioTypes, EditorTypes, RowType, FetchInv
    <3> QED  BY <3>1, <3>2
  <2> QED  BY <1>1, <1>6, <2>1, <2>2 DEF StudioInv, CacheInv, OfVersion
<1>7. CASE Studio!Resolve(b)
  <2> DEFINE f == [pc |-> "enrich", version |-> config.version, appearance |-> config.published]
  <2>1. GoodFetch(f)
    BY <1>1, <1>2 DEF StudioTypes, EditorTypes, RowType, EnrichType, AnswerType
  <2> QED  BY <1>6, <1>7, <2>1 DEF Studio!Resolve
<1>8. CASE Studio!Enrich(b)
  <2>1. /\ config.version \in 1..MaxVersion /\ config.published \in Studio!Appearances
        /\ signed[b] \in EnrichType
    BY <1>1, <1>8 DEF StudioTypes, EditorTypes, RowType, Studio!Enrich, AnswerType, Studio!NoFetch
  <2>2. /\ signed[b].version \in 1..MaxVersion /\ signed[b].appearance \in Studio!Appearances
        /\ OfVersion(signed[b].appearance, signed[b].version)
    BY <1>1, <2>1 DEF EnrichType, FetchInv
  <2> DEFINE reply(v, a) == [pc |-> "answer", version |-> v, appearance |-> a, signed |-> bucket]
  <2>3. /\ GoodFetch(reply(config.version, config.published))
        /\ GoodFetch(reply(config.version, [config.published EXCEPT !.logo = FALSE]))
        /\ GoodFetch(reply(signed[b].version, [signed[b].appearance EXCEPT !.logo = FALSE]))
    BY <1>2, <1>3, <1>5, <2>1, <2>2
  <2>4. /\ cache' = cache
        /\ \E f \in {reply(config.version, config.published),
                     reply(config.version, [config.published EXCEPT !.logo = FALSE]),
                     reply(signed[b].version, [signed[b].appearance EXCEPT !.logo = FALSE])} :
               signed' = [signed EXCEPT ![b] = f]
    BY <1>8 DEF Studio!Enrich
  <2> QED  BY <1>6, <2>3, <2>4
<1>9. CASE Studio!Answer(b)
  <2> DEFINE f == signed[b]
             new == [tag |-> Studio!Etag(f.version), version |-> f.version,
                     appearance |-> f.appearance, signed |-> f.signed]
  <2>1. /\ f \in AnswerType /\ signed' = [signed EXCEPT ![b] = Studio!NoFetch]
        /\ cache' = cache \/ cache' = [cache EXCEPT ![b] = new]
    BY <1>1, <1>9 DEF StudioTypes, EditorTypes, RowType, Studio!Answer, EnrichType, Studio!NoFetch
  <2>2. /\ new \in ResponseType /\ OfVersion(new.appearance, new.version)
        /\ new.tag[1] = new.version
        /\ new.tag[2] <= bucket /\ new.tag[2] <= new.signed + 1
    BY <1>1, <2>1 DEF StudioTypes, EditorTypes, RowType, FetchInv, AnswerType, ResponseType,
       Studio!Etag
  <2> HIDE DEF new
  <2>3. StudioTypes'
    BY <1>1, <2>1, <2>2 DEF StudioTypes, EditorTypes, RowType
  <2>4. CacheInv'
    <3> SUFFICES ASSUME NEW x \in Browsers, cache'[x] \in ResponseType
                 PROVE  /\ OfVersion(cache'[x].appearance, cache'[x].version)
                        /\ cache'[x].tag[1] = cache'[x].version
                        /\ cache'[x].tag[2] <= bucket /\ cache'[x].tag[2] <= cache'[x].signed + 1
      BY <1>1 DEF CacheInv, OfVersion
    <3>1. cache'[x] = cache[x] \/ cache'[x] = new
      BY <1>1, <2>1 DEF StudioTypes, EditorTypes, RowType
    <3> QED  BY <1>1, <2>2, <3>1 DEF CacheInv
  <2>5. FetchInv'
    <3>1. \A x \in Browsers : signed'[x] = signed[x] \/ signed'[x] = Studio!NoFetch
      BY <1>1, <2>1 DEF StudioTypes, EditorTypes, RowType
    <3> QED  BY <1>1, <1>4, <3>1 DEF FetchInv, OfVersion
  <2> QED  BY <1>1, <2>3, <2>4, <2>5 DEF StudioInv
<1>10. CASE Studio!AnswerLost(b)
  BY <1>4, <1>6, <1>10 DEF Studio!AnswerLost
<1> QED  BY <1>7, <1>8, <1>9, <1>10 DEF Studio!Visitor

\* An answer does not last a bucket.
LEMMA TickStep == Studio!StudioAssumption /\ StudioInv /\ Studio!Tick => StudioInv'
<1> SUFFICES ASSUME Studio!StudioAssumption, StudioInv, Studio!Tick PROVE StudioInv'
  OBVIOUS
<1>1. /\ StudioTypes /\ bucket' = bucket + 1 /\ bucket' \in 0..MaxBucket
      /\ UNCHANGED <<config, published, edits, tab, signed, cache>>
  BY DEF StudioInv, StudioTypes, EditorTypes, RowType, Studio!Tick, Studio!editorVars,
     Studio!StudioAssumption
<1>2. FetchInv'
  BY <1>1 DEF StudioInv, FetchInv, OfVersion, Studio!Tick, AnswerType
<1>3. CacheInv'
  BY <1>1 DEF StudioInv, StudioTypes, EditorTypes, RowType, CacheInv, OfVersion, ResponseType
<1> QED  BY <1>1, <1>2, <1>3 DEF StudioInv, StudioTypes, EditorTypes, RowType

LEMMA StudioStep == Studio!StudioAssumption /\ StudioInv /\ [Studio!Next]_studioVars => StudioInv'
<1> SUFFICES ASSUME Studio!StudioAssumption, StudioInv, [Studio!Next]_studioVars PROVE StudioInv'
  OBVIOUS
<1>1. CASE UNCHANGED studioVars
  BY <1>1 DEF studioVars, StudioInv, StudioTypes, EditorTypes, RowType, FetchInv, CacheInv,
     OfVersion
<1> QED  BY <1>1, EditorStep, VisitorStep, TickStep DEF Studio!Next

LEMMA StudioInvImplies ==
    Studio!StudioAssumption /\ StudioInv => Studio!TypeOK /\ Studio!CacheIsItsVersion
<1> SUFFICES ASSUME Studio!StudioAssumption, StudioInv
             PROVE  Studio!TypeOK /\ Studio!CacheIsItsVersion
  OBVIOUS
<1>1. StudioTypes /\ CacheInv
  BY DEF StudioInv
<1>2. \A b \in Browsers : cache[b] # Studio!NoResponse => cache[b] \in ResponseType
  BY <1>1 DEF StudioTypes, EditorTypes, RowType
<1>3. Studio!CacheIsItsVersion
  BY <1>1, <1>2 DEF CacheInv, OfVersion, Studio!CacheIsItsVersion
<1>4. ASSUME NEW b \in Browsers
      PROVE  /\ signed[b].pc \in {"idle", "enrich", "answer"}
             /\ signed[b] # Studio!NoFetch => signed[b].version \in 1..MaxVersion
             /\ cache[b].version \in 0..MaxVersion
  <2>1. signed[b].pc \in {"idle", "enrich", "answer"}
    BY <1>1 DEF StudioTypes, EditorTypes, RowType, EnrichType, AnswerType, Studio!NoFetch
  <2>2. signed[b] # Studio!NoFetch => signed[b].version \in 1..MaxVersion
    BY <1>1 DEF StudioTypes, EditorTypes, RowType, EnrichType, AnswerType
  <2>3. cache[b].version \in 0..MaxVersion
    BY <1>1 DEF StudioTypes, EditorTypes, RowType, ResponseType, Studio!NoResponse,
       Studio!StudioAssumption
  <2> QED  BY <2>1, <2>2, <2>3
<1> QED  BY <1>1, <1>3, <1>4 DEF StudioTypes, EditorTypes, RowType, PageTypes, Studio!TabType,
            Studio!TypeOK

\* An answer that is kept or stored has the tag of its bucket.
LEMMA AnswerIsFresh ==
    ASSUME Studio!StudioAssumption, StudioInv', bucket' = bucket,
           NEW b \in Browsers, NEW v, cache'[b] # Studio!NoResponse, cache'[b].tag = Studio!Etag(v)
    PROVE  bucket < cache'[b].signed + UrlBuckets
<1>1. /\ cache'[b] \in ResponseType /\ cache'[b].tag[2] = bucket /\ UrlBuckets \in Nat
      /\ UrlBuckets >= 2
  BY DEF StudioInv, StudioTypes, EditorTypes, RowType, Studio!StudioAssumption, Studio!Etag,
     Studio!NoResponse
<1>2. bucket <= cache'[b].signed + 1 /\ cache'[b].signed \in Nat /\ bucket \in Nat
  BY <1>1 DEF StudioInv, StudioTypes, EditorTypes, RowType, CacheInv, ResponseType
<1> QED  BY <1>1, <1>2

\* What the row and the pages keep, in either scene: a page publishes over the
\* version that it showed.
PageInv ==
    /\ config = [draft |-> config.draft, published |-> config.published,
                 version |-> config.version]
    /\ tab = [t \in Slots |-> tab[t]]
    /\ \A t \in Slots :
          /\ tab[t].pc = "idle" => tab[t] = Studio!Page(tab[t].form, tab[t].known)
          /\ tab[t].pc = "publish" => tab[t].expected = tab[t].known

\* What a step of a page does to it, and to the row.
PageStep(t) ==
    /\ \/ tab' = tab
       \/ \E form, known : tab' = [tab EXCEPT ![t] = Studio!Page(form, known)]
       \/ tab[t].pc = "idle" /\ \E form : tab' = [tab EXCEPT ![t] = [tab[t] EXCEPT !.form = form]]
       \/ \E form, known, saved :
             tab' = [tab EXCEPT ![t] = [pc |-> "publish", form |-> form, known |-> known,
                                        expected |-> known, saved |-> saved]]
    /\ \/ config' = config
       \/ \E draft : config' = [config EXCEPT !.draft = draft]
       \/ /\ config' = [config EXCEPT !.published = config.draft, !.version = config.version + 1]
          /\ tab[t].pc = "publish" /\ config.version = tab[t].expected

LEMMA EditorsStepPages ==
    ASSUME NEW t \in Slots, Studio!Editor(t) \/ Editors!Editor(t) PROVE PageStep(t)
<1>1. CASE Studio!Load(t) \/ Editors!Load(t)
  BY <1>1 DEF Studio!Load, Editors!Load, PageStep, Studio!Page, Editors!Page
<1>2. CASE Studio!Edit(t) \/ Editors!Edit(t)
  <2>1. tab' = [tab EXCEPT ![t] = [tab[t] EXCEPT !.form = [tab[t].form EXCEPT !.text = edits + 1]]]
    BY <1>2 DEF Studio!Edit, Editors!Edit
  <2> QED  BY <1>2, <2>1 DEF Studio!Edit, Editors!Edit, Studio!Idle, Editors!Idle, PageStep
<1>3. CASE Studio!UploadLogo(t) \/ Editors!UploadLogo(t)
  <2>1. tab' = [tab EXCEPT ![t] = [tab[t] EXCEPT !.form = [tab[t].form EXCEPT !.logo = TRUE]]]
    BY <1>3 DEF Studio!UploadLogo, Editors!UploadLogo
  <2> QED  BY <1>3, <2>1 DEF Studio!UploadLogo, Editors!UploadLogo, Studio!Idle, Editors!Idle,
     PageStep
<1>4. CASE Studio!Save(t) \/ Editors!Save(t)
  BY <1>4 DEF Studio!Save, Editors!Save, Studio!Adopt, Editors!Adopt, PageStep, Studio!Page,
     Editors!Page
<1>5. CASE Studio!ApplyPreset(t) \/ Editors!ApplyPreset(t)
  <2> DEFINE form == [tab[t].form EXCEPT !.text = edits + 1]
  <2>1. /\ tab[t].pc = "idle" /\ config' = [config EXCEPT !.draft = form]
        /\ \/ tab' = [tab EXCEPT ![t] = Studio!Page(form, config.version)]
           \/ tab' = [tab EXCEPT ![t] = [tab[t] EXCEPT !.form = form]]
    BY <1>5 DEF Studio!ApplyPreset, Editors!ApplyPreset, Studio!Idle, Editors!Idle,
         Studio!Page, Editors!Page
  <2> HIDE DEF form
  <2> QED  BY <2>1 DEF PageStep
<1>6. CASE Studio!Discard(t) \/ Editors!Discard(t) \/ Studio!Reset(t) \/ Editors!Reset(t)
  BY <1>6 DEF Studio!Discard, Editors!Discard, Studio!Reset, Editors!Reset, Studio!Adopt,
     Editors!Adopt, PageStep, Studio!Page, Editors!Page
<1>7. CASE Studio!SaveToPublish(t) \/ Editors!SaveToPublish(t)
  BY <1>7 DEF Studio!SaveToPublish, Editors!SaveToPublish, Studio!Expected, Editors!Expected,
     PageStep
<1>8. CASE Studio!Publish(t) \/ Editors!Publish(t)
  BY <1>8 DEF Studio!Publish, Editors!Publish, Studio!VersionMatches, Editors!VersionMatches,
     PageStep, Studio!Page, Editors!Page
<1>9. CASE Studio!PublishFails(t) \/ Editors!PublishFails(t)
  BY <1>9 DEF Studio!PublishFails, Editors!PublishFails, PageStep, Studio!Page, Editors!Page
<1> QED
  BY <1>1, <1>2, <1>3, <1>4, <1>5, <1>6, <1>7, <1>8, <1>9 DEF Studio!Editor, Editors!Editor

LEMMA PagesStep ==
    ASSUME NEW t \in Slots, PageInv, PageStep(t)
    PROVE  /\ PageInv'
           /\ config'.version # config.version
                  => config.version = tab[t].known /\ \A u \in Slots \ {t} : tab'[u] = tab[u]
<1>1. \A u \in Slots \ {t} : tab'[u] = tab[u]
  BY DEF PageInv, PageStep
<1>2. tab' = [u \in Slots |-> tab'[u]]
  BY DEF PageInv, PageStep
<1>3. /\ tab'[t].pc = "idle" => tab'[t] = Studio!Page(tab'[t].form, tab'[t].known)
      /\ tab'[t].pc = "publish" => tab'[t].expected = tab'[t].known
  <2>1. CASE tab' = tab
    BY <2>1 DEF PageInv
  <2>2. ASSUME NEW form, NEW known, tab' = [tab EXCEPT ![t] = Studio!Page(form, known)]
        PROVE  <1>3!1 /\ <1>3!2
    <3>1. tab'[t] = Studio!Page(form, known)
      BY <2>2 DEF PageInv
    <3> QED  BY <3>1 DEF Studio!Page
  <2>3. ASSUME NEW form, tab[t].pc = "idle",
               tab' = [tab EXCEPT ![t] = [tab[t] EXCEPT !.form = form]]
        PROVE  <1>3!1 /\ <1>3!2
    <3>1. tab[t] = Studio!Page(tab[t].form, tab[t].known)
          /\ tab'[t] = [tab[t] EXCEPT !.form = form]
      BY <2>3 DEF PageInv
    <3>2. tab'[t] = Studio!Page(form, tab[t].known)
      BY <3>1 DEF Studio!Page
    <3> QED  BY <3>2 DEF Studio!Page
  <2>4. ASSUME NEW form, NEW known, NEW saved,
               tab' = [tab EXCEPT ![t] = [pc |-> "publish", form |-> form, known |-> known,
                                          expected |-> known, saved |-> saved]]
        PROVE  <1>3!1 /\ <1>3!2
    BY <2>4 DEF PageInv
  <2> QED  BY <2>1, <2>2, <2>3, <2>4 DEF PageStep
<1>4. /\ config' = [draft |-> config'.draft, published |-> config'.published,
                    version |-> config'.version]
      /\ config'.version # config.version => config.version = tab[t].known
  BY DEF PageInv, PageStep
<1> QED  BY <1>1, <1>2, <1>3, <1>4 DEF PageInv

\* WidgetStudio.TypeOK: the row, the pages and the browsers' caches are typed.
THEOREM StudioTypeCorrect == Studio!StudioAssumption => (Studio!Spec => []Studio!TypeOK)
<1> SUFFICES ASSUME Studio!StudioAssumption PROVE Studio!Spec => []Studio!TypeOK
  OBVIOUS
<1>1. Studio!Init => StudioInv
  BY StudioInit
<1>2. StudioInv /\ [Studio!Next]_Studio!vars => StudioInv'
  BY StudioStep DEF studioVars, Studio!vars
<1>3. StudioInv => Studio!TypeOK
  BY StudioInvImplies
<1> QED  BY <1>1, <1>2, <1>3, PTL DEF Studio!Spec

(***************************************************************************)
(* The same two scenes of the dashboard: the pages and the visitors, and   *)
(* the pages alone.                                                        *)
(***************************************************************************)

EditorsInv ==
    /\ EditorTypes(MaxVersion + 1)
    /\ bucket = 0
    /\ \A b \in Browsers : cache[b] = Studio!NoResponse

StudioScenes ==
    /\ scene # "editors" => StudioInv
    /\ scene = "editors" => EditorsInv
    /\ PageInv

LEMMA ScenesInit == Init => StudioScenes
<1> SUFFICES ASSUME Init PROVE StudioScenes
  OBVIOUS
<1>1. StudioInv
  BY StudioInit, StudioConstants DEF Init
<1>2. PageInv /\ bucket = 0 /\ \A b \in Browsers : cache[b] = Studio!NoResponse
  BY DEF Init, Studio!Init, PageInv, Studio!Closed
<1>3. EditorTypes(MaxVersion + 1)
  <2>1. /\ EditorTypes(MaxVersion) /\ MaxVersion \in Nat
        /\ tab = [t \in Slots |-> Studio!Closed]
    BY <1>1, StudioConstants DEF StudioInv, StudioTypes, Studio!StudioAssumption, Init, Studio!Init
  <2>2. 1..MaxVersion \subseteq 1..(MaxVersion + 1)
    BY <2>1
  <2>3. RowType(MaxVersion) \subseteq RowType(MaxVersion + 1)
    BY <2>2 DEF RowType
  <2>4. tab \in [Slots -> PageTypes(MaxVersion + 1)]
    BY <2>1 DEF PageTypes
  <2> QED  BY <2>1, <2>3, <2>4 DEF EditorTypes
<1> QED  BY <1>1, <1>2, <1>3 DEF StudioScenes, EditorsInv

\* Without browsers only the row and the pages change, and they keep their types.
LEMMA EditorsStep ==
    ASSUME Studio!StudioAssumption, EditorsInv, Editors!Next
    PROVE  EditorsInv' /\ signed' = signed
<1>1. EditorTypes(MaxVersion + 1) /\ {MaxEdit, MaxVersion, MaxVersion + 1} \subseteq Nat
  BY DEF EditorsInv, Studio!StudioAssumption
<1>2. PICK t \in Slots : Editors!Editor(t)
  BY DEF Editors!Next, Editors!Tick, EditorsInv
<1>3. UNCHANGED <<bucket, signed, cache>>
  BY <1>2 DEF Editors!Editor, Editors!Load, Editors!Edit, Editors!UploadLogo, Editors!Save,
     Editors!ApplyPreset, Editors!Discard, Editors!Reset, Editors!SaveToPublish, Editors!Publish,
     Editors!PublishFails, Editors!visitorVars
<1>4. CASE Editors!Publish(t)
  <2>1. AfterPublish(t) /\ config.version < MaxVersion + 1
    BY <1>4 DEF Editors!Publish, AfterPublish, Editors!Page, Studio!Page
  <2> QED  BY <1>1, <1>3, <2>1, PublishKeepsTypes DEF EditorsInv, Studio!NoResponse
<1>5. CASE ~Editors!Publish(t)
  <2>1. \/ Studio!Load(t) \/ Studio!Edit(t) \/ Studio!UploadLogo(t)
        \/ Studio!Save(t) \/ Studio!ApplyPreset(t) \/ Studio!Discard(t) \/ Studio!Reset(t)
        \/ Studio!SaveToPublish(t) \/ Studio!PublishFails(t)
    <3>1. CASE Editors!Load(t)
      BY <3>1 DEF Editors!Load, Studio!Load, Editors!Page, Studio!Page, Editors!visitorVars,
         Studio!visitorVars
    <3>2. CASE Editors!Edit(t)
      BY <3>2 DEF Editors!Edit, Studio!Edit, Editors!Idle, Studio!Idle, Editors!visitorVars,
         Studio!visitorVars
    <3>3. CASE Editors!UploadLogo(t)
      BY <3>3 DEF Editors!UploadLogo, Studio!UploadLogo, Editors!Idle, Studio!Idle,
         Editors!visitorVars, Studio!visitorVars
    <3>4. CASE Editors!Save(t) \/ Editors!Discard(t) \/ Editors!Reset(t)
      BY <3>4 DEF Editors!Save, Editors!Discard, Editors!Reset, Studio!Save, Studio!Discard,
         Studio!Reset, Editors!Adopt, Studio!Adopt, Editors!Idle, Studio!Idle, Editors!Defaults,
         Studio!Defaults, Editors!Page, Studio!Page, Editors!visitorVars, Studio!visitorVars
    <3>5. CASE Editors!ApplyPreset(t)
      BY <3>5 DEF Editors!ApplyPreset, Studio!ApplyPreset, Editors!Idle, Studio!Idle,
         Editors!Page, Studio!Page, Editors!visitorVars, Studio!visitorVars
    <3>6. CASE Editors!SaveToPublish(t)
      BY <3>6 DEF Editors!SaveToPublish, Studio!SaveToPublish, Editors!Idle, Studio!Idle,
         Editors!Expected, Studio!Expected, Editors!visitorVars, Studio!visitorVars
    <3>7. CASE Editors!PublishFails(t)
      BY <3>7 DEF Editors!PublishFails, Studio!PublishFails, Editors!Page, Studio!Page,
         Editors!visitorVars, Studio!visitorVars
    <3> QED  BY <1>2, <1>5, <3>1, <3>2, <3>3, <3>4, <3>5, <3>6, <3>7 DEF Editors!Editor
  <2>2. CASE ~Studio!Publish(t)
    BY <1>1, <1>3, <2>1, <2>2, EditorKeepsTypes DEF EditorsInv, Studio!NoResponse, Studio!Editor
  <2>3. CASE Studio!Publish(t)
    <3>1. AfterPublish(t) /\ config.version < MaxVersion + 1
      BY <1>1, <2>3 DEF Studio!Publish, AfterPublish, EditorTypes, RowType, EditorsInv
    <3> QED  BY <1>1, <1>3, <3>1, PublishKeepsTypes DEF EditorsInv, Studio!NoResponse
  <2> QED  BY <2>2, <2>3
<1> QED  BY <1>4, <1>5

\* What every step of the dashboard does to Widget Studio's state.
LEMMA StudioKinds ==
    ASSUME [Next]_vars
    PROVE  /\ scene' = scene
           /\ \/ UNCHANGED studioVars
              \/ scene = "studio" /\ Studio!Next
              \/ scene = "editors" /\ Editors!Next
  BY DEF Next, vars

\* A step is of one page, or leaves them all as they are.
LEMMA PagesNext ==
    ASSUME Studio!Next \/ Editors!Next
    PROVE  (\E t \in Slots : PageStep(t)) \/ UNCHANGED <<config, tab>>
<1>1. ASSUME NEW b \in Browsers, Studio!Visitor(b) PROVE UNCHANGED <<config, tab>>
  BY <1>1 DEF Studio!Visitor, Studio!Resolve, Studio!Enrich, Studio!Answer, Studio!AnswerLost,
     Studio!editorVars
<1>2. CASE Studio!Tick \/ Editors!Tick
  BY <1>2 DEF Studio!Tick, Editors!Tick, Studio!editorVars, Editors!editorVars
<1> QED  BY <1>1, <1>2, EditorsStepPages DEF Studio!Next, Editors!Next

LEMMA ScenesStep == StudioScenes /\ [Next]_vars => StudioScenes'
<1> SUFFICES ASSUME StudioScenes, [Next]_vars PROVE StudioScenes'
  OBVIOUS
<1>1. PageInv'
  <2>1. CASE UNCHANGED <<config, tab>>
    BY <2>1 DEF StudioScenes, PageInv
  <2>2. CASE UNCHANGED studioVars
    BY <2>1, <2>2 DEF studioVars
  <2> QED  BY <2>1, <2>2, StudioKinds, PagesNext, PagesStep DEF StudioScenes
<1>2. scene' # "editors" => StudioInv'
  BY StudioKinds, StudioStep, StudioConstants DEF StudioScenes
<1>3. scene' = "editors" => EditorsInv'
  <2>1. CASE UNCHANGED studioVars
    BY <2>1, StudioKinds
       DEF StudioScenes, studioVars, EditorsInv, EditorTypes, Studio!NoResponse
  <2> QED  BY <2>1, StudioKinds, EditorsStep, StudioConstants DEF StudioScenes
<1> QED  BY <1>1, <1>2, <1>3 DEF StudioScenes

\* CacheIsItsVersion: a cached response shows what its version published,
\* whatever was published while it was put together from several reads.
THEOREM CachedVersions == Spec => []CacheIsItsVersion
<1>1. StudioScenes => CacheIsItsVersion
  BY StudioInvImplies, StudioConstants
     DEF StudioScenes, EditorsInv, CacheIsItsVersion, Studio!CacheIsItsVersion
<1> QED  BY <1>1, ScenesInit, ScenesStep, PTL DEF Spec

\* RevalidatedUrlsWork: the logo URL of a response that was just stored, or
\* confirmed by its tag, has not expired.
THEOREM RevalidatedUrls == Spec => RevalidatedUrlsWork
<1> DEFINE Fresh == \A b \in Browsers :
      signed[b].pc = "answer" /\ signed'[b] = Studio!NoFetch /\ cache'[b] # Studio!NoResponse
          /\ cache'[b].tag = Studio!Etag(signed[b].version)
          => bucket < cache'[b].signed + UrlBuckets
<1>1. StudioScenes /\ StudioScenes' /\ [Next]_vars => Fresh
  <2> SUFFICES ASSUME StudioScenes, StudioScenes', [Next]_vars, NEW b \in Browsers,
                      signed[b].pc = "answer", signed'[b] = Studio!NoFetch,
                      cache'[b] # Studio!NoResponse,
                      cache'[b].tag = Studio!Etag(signed[b].version)
               PROVE  bucket < cache'[b].signed + UrlBuckets
    OBVIOUS
  <2>1. signed' # signed
    BY DEF Studio!NoFetch
  <2>2. scene = "studio" /\ scene' = "studio" /\ Studio!Next
    BY <2>1, StudioKinds, EditorsStep, StudioConstants DEF StudioScenes, studioVars
  <2>3. bucket' = bucket
    <3>1. ~Studio!Tick
      BY <2>1 DEF Studio!Tick
    <3> QED
      BY <2>2, <3>1 DEF Studio!Next, Studio!Visitor, Studio!Resolve, Studio!Enrich, Studio!Answer,
         Studio!AnswerLost, Studio!Editor, Studio!Load, Studio!Edit, Studio!UploadLogo,
         Studio!Save, Studio!ApplyPreset, Studio!Discard, Studio!Reset, Studio!SaveToPublish,
         Studio!Publish, Studio!PublishFails, Studio!visitorVars
  <2>4. StudioInv'
    BY <2>2 DEF StudioScenes
  <2> QED  BY <2>3, <2>4, AnswerIsFresh, StudioConstants
<1>2. StudioScenes /\ StudioScenes' /\ [Next]_vars => [Fresh]_Studio!vars
  BY <1>1
<1> QED
  BY <1>2, ScenesInit, ScenesStep, PTL
     DEF Spec, RevalidatedUrlsWork, Studio!RevalidatedUrlsWork

\* ReplacesWhatWasShown: a publication replaces the version that its page
\* showed when it was pressed, also when another page publishes between its two
\* requests.
THEOREM PublishesOverWhatWasShown == Spec => ReplacesWhatWasShown
<1> DEFINE Replaces == \A t \in Slots :
      config'.version # config.version /\ tab[t].pc = "publish" /\ tab'[t].pc # "publish"
          => config.version = tab[t].known
<1>1. StudioScenes /\ [Next]_vars => [Replaces]_Editors!vars
  <2> SUFFICES ASSUME StudioScenes, [Next]_vars, NEW t \in Slots, config'.version # config.version,
                      tab[t].pc = "publish", tab'[t].pc # "publish"
               PROVE  config.version = tab[t].known
    OBVIOUS
  <2>1. PICK u \in Slots : PageStep(u)
    BY StudioKinds, PagesNext DEF studioVars
  <2>2. config.version = tab[u].known /\ \A x \in Slots \ {u} : tab'[x] = tab[x]
    BY <2>1, PagesStep DEF StudioScenes
  <2> QED  BY <2>2
<1> QED
  BY <1>1, ScenesInit, ScenesStep, PTL DEF Spec, ReplacesWhatWasShown, Editors!ReplacesWhatWasShown
-----------------------------------------------------------------------------

(***************************************************************************)
(* Internal notes, for any notes, overlapping transactions and faults of   *)
(* the channel.                                                            *)
(*                                                                         *)
(* Of a note with a change in the feed, the last change in the feed is the *)
(* row as it is stored.  So a change that is received either brings the    *)
(* panel to what is stored or has the one that will behind it, and what a  *)
(* catch-up does not have is on its way or was received since it was read. *)
(***************************************************************************)

NoteRow == [state : {"absent", "active", "deleted"}, stamp : 0..clock, body : 0..clock, order : Nat]
NoteChange == [n : Notes, row : NoteRow]
NoteAnswer == [by : {"own", "link"}, n : Notes, row : NoteRow, older : BOOLEAN]
NoteTxn == [op : {"create", "edit", "delete"}, n : Notes, own : BOOLEAN, stamp : 1..clock]
CatchUpAsked == [pc : {"asked"}, since : 0..clock]
CatchUpRead == [pc : {"read"}, since : 0..clock, joined : BOOLEAN, older : SUBSET Notes,
         rows : [Notes -> NoteRow], tombstones : SUBSET Notes]

NotesTypes ==
    /\ clock \in Nat /\ clock >= 1
    /\ note \in [Notes -> NoteRow]
    /\ txn \in [Slots -> {Panel!NoTxn} \union NoteTxn]
    /\ list \in [Notes -> [stamp : 0..clock, body : 0..clock]]
    /\ tombs \subseteq Notes
    /\ watermark \in 0..clock
    /\ catchUp \in {Panel!Idle} \union CatchUpAsked \union CatchUpRead
    /\ focus \in [pc : {"none", "done"}] \union [pc : {"asked"}, n : Notes]
    /\ answer \subseteq NoteAnswer
    /\ feed \in Seq(NoteChange)
    /\ since \in 0..clock
    /\ skipped \subseteq Notes /\ astray \subseteq Notes /\ notesOwed \in BOOLEAN

\* From a row to the same or a later one of the note.
Leads(old, new) ==
    /\ old.order <= new.order
    /\ old.order = new.order => old = new
    /\ old.state # "absent" => new.state # "absent"
    /\ old.state = "deleted" => new = old

\* The note as the database has it now is on its way to the panel.
NoteComing(n) == \E i \in DOMAIN feed : feed[i] = [n |-> n, row |-> note[n]]

\* A delete is stamped like its row; a note that the panel has taken away is
\* deleted, or the operator's delete is under way.
NoteRowsInv ==
    /\ \A n \in Notes :
            /\ note[n].state = "deleted" => note[n].body = note[n].stamp
            /\ note[n].state = "absent" => list[n] = Panel!NoNote /\ note[n].order = 0
    /\ \A t \in Slots : txn[t].op = "delete" /\ txn[t].own => note[txn[t].n].state # "absent"
    /\ \A n \in tombs :
          \/ note[n].state = "deleted"
          \/ \E t \in Slots : txn[t].op = "delete" /\ txn[t].own /\ txn[t].n = n

\* A change in the feed is the last of its note, or the last one follows.
NoteFeedInv ==
    /\ link = "down" => feed = <<>>
    /\ \A i \in DOMAIN feed :
          /\ feed[i].row.state # "absent"
          /\ feed[i].row.state = "deleted" => note[feed[i].n].state = "deleted"
          /\ \E j \in DOMAIN feed :
                j >= i /\ feed[j] = [n |-> feed[i].n, row |-> note[feed[i].n]]

\* A note is shown as it is stored, or will be.
NoteAgrees(n) ==
    \/ NoteComing(n)
    \/ list[n] = IF note[n].state = "active" THEN Panel!Shown(note[n]) ELSE Panel!NoNote
    \/ list[n] = Panel!NoNote /\ n \in tombs

\* What an answer does not have is on its way, or has been heard since; what it
\* has nothing of and was heard since agrees already.
CatchUpInv ==
    catchUp.pc = "read" =>
        /\ \A n \in Notes :
              /\ Leads(catchUp.rows[n], note[n])
              /\ catchUp.rows[n].state = "absent" => catchUp.rows[n].order = 0
              /\ n \in catchUp.tombstones => catchUp.rows[n].state = "deleted"
              /\ catchUp.rows[n].state = "deleted" =>
                      \/ n \in catchUp.tombstones
                      \/ catchUp.since = 0 \/ catchUp.rows[n].stamp < catchUp.since
        /\ catchUp.joined =>
              /\ link # "down"
              /\ \A n \in Notes : n \in catchUp.older \/ note[n] = catchUp.rows[n] \/ NoteComing(n)
              /\ \A n \in catchUp.older :
                    catchUp.rows[n].state = "absent" => n \in astray \/ NoteAgrees(n)

\* The answer to a save or to a link's fetch is the stored row, or the stored row
\* is on its way, or newer news was heard since or is in the catch-up.
AnswerNews(a) == a.older \/ a.row = note[a.n] \/ NoteComing(a.n)

NoteAnswerInv ==
    \A a \in answer :
        /\ a.row.state = "active" /\ Leads(a.row, note[a.n])
        /\ ~notesOwed => AnswerNews(a)
        /\ catchUp.pc = "read" /\ catchUp.joined =>
                AnswerNews(a) \/ catchUp.rows[a.n].order > a.row.order

SkippedInv == \A n \in skipped : note[n].state = "deleted" /\ (since = 0 \/ note[n].stamp < since)

PanelInv ==
    ~notesOwed =>
        /\ link # "down"
        /\ catchUp.pc = "read" => catchUp.joined
        /\ catchUp.pc = "none" => \A n \in Notes \ (astray \union skipped) : NoteAgrees(n)

NotesInv ==
    NotesTypes /\ NoteRowsInv /\ NoteFeedInv /\ CatchUpInv /\ SkippedInv /\ PanelInv /\ NoteAnswerInv
-----------------------------------------------------------------------------
LEMMA NatWellFounded ==
    \E R : IsWellFoundedOn(R, Nat) /\ \A m, n \in Nat : m < n => <<m, n>> \in R
<1>1. \A m, n \in Nat : m < n => <<m, n>> \in OpToRel(<, Nat)
  BY DEF OpToRel
<1> QED  BY <1>1, NatLessThanWellFounded

LEMMA GreatestExists ==
    ASSUME NEW N \in Nat, NEW S \in SUBSET (0..N), S # {}
    PROVE  \E x \in S : \A y \in S : x >= y
<1> DEFINE T == {n \in Nat : N - n \in S}
<1>1. PICK R : IsWellFoundedOn(R, Nat) /\ \A m, n \in Nat : m < n => <<m, n>> \in R
  BY NatWellFounded
<1>2. \A x \in S : x \in 0..N /\ N - x \in T
  BY SMT
<1>3. T \subseteq Nat /\ T # {}
  BY <1>2
<1>4. \A n \in T : n \in Nat /\ N - n \in S
  OBVIOUS
<1> HIDE DEF T
<1>5. PICK n \in T : \A m \in T : ~(<<m, n>> \in R)
  <2>1. IsWellFoundedOn(R, Nat)
    BY <1>1
  <2> QED  BY <1>3, <2>1, WFMin
<1>6. \A m \in T : n <= m
  <2> TAKE m \in T
  <2>1. m \in Nat /\ n \in Nat
    BY <1>4
  <2>2. ~(m < n)
    BY <1>1, <1>5, <2>1
  <2> QED  BY <2>1, <2>2
<1> QED  BY <1>2, <1>4, <1>6

LEMMA MaxFact ==
    ASSUME NEW N \in Nat, NEW S \in SUBSET (0..N), S # {}
    PROVE  Panel!Max(S) \in S /\ \A y \in S : Panel!Max(S) >= y
BY GreatestExists DEF Panel!Max

\* What is in a feed with one change more, and one change less.
LEMMA Longer ==
    ASSUME NEW S, NEW s \in Seq(S), NEW e \in S
    PROVE  /\ s \o <<e>> \in Seq(S) /\ Len(s) \in Nat
           /\ DOMAIN s = 1..Len(s) /\ DOMAIN (s \o <<e>>) = 1..(Len(s) + 1)
           /\ \A i \in 1..Len(s) : (s \o <<e>>)[i] = s[i]
           /\ (s \o <<e>>)[Len(s) + 1] = e
OBVIOUS

LEMMA Shorter ==
    ASSUME NEW S, NEW s \in Seq(S), s # <<>>
    PROVE  /\ Tail(s) \in Seq(S) /\ Len(s) \in Nat /\ Len(s) >= 1
           /\ DOMAIN s = 1..Len(s) /\ DOMAIN Tail(s) = 1..(Len(s) - 1)
           /\ \A i \in 1..(Len(s) - 1) : Tail(s)[i] = s[i + 1]
           /\ Head(s) = s[1] /\ Head(s) \in S
OBVIOUS

\* A later row of a later row.
LEMMA LeadsFurther ==
    ASSUME NEW r \in NoteRow, NEW s \in NoteRow, NEW u \in NoteRow \union NoteRow', Leads(r, s),
           Leads(s, u)
    PROVE  Leads(r, u)
BY DEF Leads, NoteRow

\* The times that have been stay in range when the clock moves on.
LEMMA NotesLater ==
    ASSUME NotesTypes, clock' \in Nat, clock' >= clock
    PROVE  /\ 0..clock \subseteq 0..clock' /\ 1..clock \subseteq 1..clock'
           /\ NoteRow \subseteq NoteRow'
           /\ NoteChange \subseteq NoteChange' /\ NoteTxn \subseteq NoteTxn'
           /\ NoteAnswer \subseteq NoteAnswer'
           /\ CatchUpAsked \subseteq CatchUpAsked' /\ CatchUpRead \subseteq CatchUpRead'
           /\ [Notes -> NoteRow] \subseteq [Notes -> NoteRow']
           /\ Seq(NoteChange) \subseteq Seq(NoteChange')
<1>1. 0..clock \subseteq 0..clock' /\ 1..clock \subseteq 1..clock'
  BY DEF NotesTypes
<1>2. NoteRow \subseteq NoteRow'
  BY <1>1 DEF NoteRow
<1>3. NoteChange \subseteq NoteChange' /\ NoteAnswer \subseteq NoteAnswer'
  BY <1>2 DEF NoteChange, NoteAnswer
<1>4. [Notes -> NoteRow] \subseteq [Notes -> NoteRow']
  BY <1>2
<1>5. CatchUpRead \subseteq CatchUpRead'
  BY <1>1, <1>4 DEF CatchUpRead
<1>6. Seq(NoteChange) \subseteq Seq(NoteChange')
  BY <1>3
<1> QED  BY <1>1, <1>2, <1>3, <1>4, <1>5, <1>6 DEF NoteTxn, CatchUpAsked

LEMMA NotesInit == Panel!Init => NotesInv
<1> SUFFICES ASSUME Panel!Init PROVE NotesInv
  OBVIOUS
<1>1. /\ note \in [Notes -> NoteRow]
      /\ \A n \in Notes : /\ note[n].state # "deleted" /\ note[n].stamp \in 0..1
                          /\ note[n].state = "absent" => note[n].order = 0
  <2>1. PICK initial \in SUBSET InitNotes :
          note = [n \in Notes |->
                    IF n \in initial
                    THEN [Panel!Absent EXCEPT !.state = "active", !.stamp = 1, !.body = 1]
                    ELSE Panel!Absent]
    BY DEF Panel!Init
  <2>2. \A n \in Notes :
            note[n] \in {[Panel!Absent EXCEPT !.state = "active", !.stamp = 1, !.body = 1],
                         Panel!Absent}
    BY <2>1
  <2>3. clock = 1
    BY DEF Panel!Init
  <2>4. Panel!Absent \in NoteRow /\ Panel!Absent.stamp = 0 /\ Panel!Absent.state = "absent"
        /\ Panel!Absent.order = 0
    BY <2>3 DEF NoteRow, Panel!Absent
  <2>5. /\ [Panel!Absent EXCEPT !.state = "active", !.stamp = 1, !.body = 1] \in NoteRow
        /\ [Panel!Absent EXCEPT !.state = "active", !.stamp = 1, !.body = 1].state = "active"
        /\ [Panel!Absent EXCEPT !.state = "active", !.stamp = 1, !.body = 1].stamp = 1
    <3>1. [Panel!Absent EXCEPT !.state = "active"] \in NoteRow
      BY <2>4 DEF NoteRow
    <3>2. 1 \in 0..clock
      BY <2>3
    <3> QED  BY <2>4, <3>1, <3>2 DEF NoteRow
  <2>6. \A n \in Notes : /\ note[n] \in NoteRow /\ note[n].state # "deleted"
                         /\ note[n].stamp \in 0..1
                         /\ note[n].state = "absent" => note[n].order = 0
    <3> DEFINE r == [Panel!Absent EXCEPT !.state = "active", !.stamp = 1, !.body = 1]
    <3>1. r \in NoteRow /\ r.state = "active" /\ r.stamp = 1
      BY <2>5
    <3>2. \A n \in Notes : note[n] = r \/ note[n] = Panel!Absent
      BY <2>2
    <3> HIDE DEF r
    <3> QED  BY <2>4, <3>1, <3>2
  <2> QED  BY <2>1, <2>6
<1>2. watermark \in 0..1
  <2> DEFINE S == {0} \union {note[n].stamp : n \in Notes}
  <2>1. S \in SUBSET (0..1) /\ S # {}
    BY <1>1
  <2>2. Panel!Max(S) \in S
    BY <2>1, MaxFact
  <2> QED  BY <2>1, <2>2 DEF Panel!Init
<1>3. \A n \in Notes : /\ list[n] = Panel!Shown(note[n])
                       /\ note[n].state = "absent" => list[n] = Panel!NoNote
  BY DEF Panel!Init, Panel!Shown, Panel!NoNote, Panel!Absent
<1>4. NotesTypes
  BY <1>1, <1>2 DEF Panel!Init, Panel!ChannelInit, NotesTypes, NoteRow, Panel!Shown, Panel!Idle
<1>5. NoteRowsInv
  BY <1>1, <1>3 DEF Panel!Init, NoteRowsInv, Panel!NoTxn
<1> QED  BY <1>4, <1>5 DEF Panel!Init, Panel!ChannelInit, NotesInv, NoteFeedInv, CatchUpInv,
            SkippedInv, PanelInv, NoteAnswerInv, Panel!Idle

\* A step that changes neither the rows nor what is on its way, nor the list.
LEMMA BeginWriteInv ==
    ASSUME NotesInv, NEW t \in Slots, NEW op \in {"create", "edit", "delete"}, NEW n \in Notes,
           NEW own \in BOOLEAN, Panel!BeginWrite(t, op, n, own), op = "delete" => ~own
    PROVE  NotesInv'
<1> DEFINE x == [op |-> op, n |-> n, own |-> own, stamp |-> clock + 1]
<1>1. /\ clock' = clock + 1 /\ txn[t].op = "none" /\ txn' = [txn EXCEPT ![t] = x]
      /\ UNCHANGED <<note, list, tombs, watermark, catchUp, focus, answer, since, skipped, astray,
                     notesOwed, link, feed>>
  BY DEF Panel!BeginWrite, Panel!Begin, Panel!channelVars
<1>2. clock' \in Nat /\ clock' >= clock /\ clock \in Nat
  BY <1>1 DEF NotesInv, NotesTypes
<1>3. x \in NoteTxn'
  BY <1>1, <1>2 DEF NoteTxn
<1>4. NotesTypes'
  BY <1>1, <1>2, <1>3, NotesLater DEF NotesInv, NotesTypes
<1>5. \A u \in Slots : txn[u].op = "delete" /\ txn[u].own <=> txn'[u].op = "delete" /\ txn'[u].own
  BY <1>1 DEF NotesInv, NotesTypes
<1>6. \A u \in Slots : txn[u].op = "delete" => txn'[u] = txn[u]
  BY <1>1 DEF NotesInv, NotesTypes
<1>7. NoteRowsInv'
  BY <1>1, <1>5, <1>6 DEF NotesInv, NoteRowsInv
<1>8. NoteFeedInv' /\ CatchUpInv' /\ SkippedInv' /\ PanelInv' /\ NoteAnswerInv'
  BY <1>1 DEF NotesInv, NoteFeedInv, CatchUpInv, SkippedInv, PanelInv, NoteAnswerInv, AnswerNews,
     NoteAgrees, NoteComing
<1> QED  BY <1>4, <1>7, <1>8 DEF NotesInv

LEMMA AnswerFact ==
    ASSUME NEW by \in {"own", "link"}, NEW n \in Notes, NEW r \in NoteRow, r.state = "active"
    PROVE  LET b == Panel!Answer(by, n, r) IN
              b \in NoteAnswer /\ b.n = n /\ b.row = r /\ Leads(r, r)
BY DEF Panel!Answer, NoteAnswer, Leads, NoteRow

LEMMA CommitWriteInv ==
    ASSUME NotesInv, NEW t \in Slots, Panel!CommitWrite(t) PROVE NotesInv'
<1> DEFINE x == txn[t]
           new == [state |-> IF x.op = "delete" THEN "deleted" ELSE "active",
                   stamp |-> Panel!Stamp(x.op, x.n, x.stamp),
                   body |-> x.stamp,
                   order |-> note[x.n].order + 1]
           e == [n |-> x.n, row |-> new]
           mine == Panel!Answer("own", x.n, new)
<1> USE DEF NotesInv
<1>1. /\ x \in NoteTxn /\ x.n \in Notes /\ new.stamp = x.stamp /\ new.body = x.stamp
      /\ txn' = [txn EXCEPT ![t] = Panel!NoTxn]
      /\ UNCHANGED <<clock, list, tombs, watermark, catchUp, focus, since, skipped, astray,
                     notesOwed, link>>
  BY DEF Panel!CommitWrite, NotesTypes, NoteTxn, Panel!Stamp, Panel!Publish, Panel!channelVars,
     Panel!NoTxn
<1>2. \A u \in Slots : txn'[u].op = "delete" => u # t /\ txn'[u] = txn[u]
  BY <1>1 DEF NotesTypes, Panel!NoTxn
<1>3. txn' \in [Slots -> {Panel!NoTxn} \union NoteTxn]
  BY <1>1 DEF NotesTypes
<1>4. CASE UNCHANGED <<note, answer, Panel!channelVars>>
             /\ note[x.n].state # (IF x.op = "create" THEN "absent" ELSE "active")
  <2>1. NotesTypes'
    BY <1>1, <1>3, <1>4 DEF NotesTypes, Panel!channelVars, NoteRow, NoteChange, NoteAnswer, NoteTxn,
       CatchUpAsked, CatchUpRead
  <2>2. x.op = "delete" /\ x.own => note[x.n].state = "deleted"
    BY <1>1, <1>4 DEF NoteRowsInv, NotesTypes, NoteRow
  <2>3. NoteRowsInv'
    BY <1>1, <1>2, <1>4, <2>2 DEF NoteRowsInv
  <2>4. NoteFeedInv' /\ CatchUpInv' /\ SkippedInv' /\ PanelInv' /\ NoteAnswerInv'
    BY <1>1, <1>4 DEF NoteFeedInv, CatchUpInv, SkippedInv, PanelInv, NoteAnswerInv, AnswerNews,
       NoteAgrees, NoteComing, Panel!channelVars
  <2> QED  BY <2>1, <2>3, <2>4
<1>5. CASE /\ note[x.n].state = (IF x.op = "create" THEN "absent" ELSE "active")
           /\ note' = [note EXCEPT ![x.n] = new]
           /\ feed' = IF link = "down" THEN feed ELSE feed \o <<e>>
           /\ answer' = answer \union IF x.own /\ x.op # "delete" THEN {mine} ELSE {}
  <2>1. /\ new \in NoteRow /\ e \in NoteChange /\ note'[x.n] = new
        /\ \A n \in Notes \ {x.n} : note'[n] = note[n]
    BY <1>1, <1>5 DEF NotesTypes, NoteRow, NoteChange, NoteTxn
  <2>2. \A n \in Notes :
            Leads(note[n], note'[n]) /\ note'[n].state \in {"absent", "active", "deleted"}
    BY <1>1, <1>5, <2>1 DEF NotesTypes, NoteRow, Leads
  <2>8. x.op # "delete" =>
            /\ mine \in NoteAnswer /\ mine.row = new /\ mine.row = note'[mine.n]
            /\ mine.row.state = "active" /\ Leads(mine.row, note'[mine.n])
    <3>1. x.op # "delete" => new.state = "active"
      OBVIOUS
    <3> HIDE DEF new
    <3> QED  BY <1>1, <2>1, <3>1, AnswerFact
  <2>3. NotesTypes'
    <3>1. note' \in [Notes -> NoteRow]
      BY <1>1, <1>5, <2>1 DEF NotesTypes
    <3>2. feed' \in Seq(NoteChange)
      BY <1>5, <2>1 DEF NotesTypes
    <3>4. answer' \subseteq NoteAnswer
      <4> HIDE DEF mine
      <4> QED  BY <1>5, <2>8 DEF NotesTypes
    <3> QED  BY <1>1, <1>3, <3>1, <3>2, <3>4 DEF NotesTypes, NoteRow, NoteChange, NoteAnswer,
                NoteTxn, CatchUpAsked, CatchUpRead
  <2>4. NoteRowsInv'
    <3>1. \A n \in Notes :
               /\ note'[n].state = "deleted" => note'[n].body = note'[n].stamp
               /\ note'[n].state = "absent" => list[n] = Panel!NoNote /\ note'[n].order = 0
      BY <1>1, <2>1, <2>2 DEF NoteRowsInv, Leads
    <3>3. \A u \in Slots : txn'[u].op = "delete" /\ txn'[u].own => note'[txn'[u].n].state # "absent"
      BY <1>1, <1>2, <2>2 DEF NoteRowsInv, Leads, NotesTypes, NoteTxn, Panel!NoTxn
    <3>4. x.op = "delete" => note'[x.n].state = "deleted"
      BY <2>1
    <3>5. \A n \in tombs :
               \/ note'[n].state = "deleted"
               \/ \E u \in Slots : txn'[u].op = "delete" /\ txn'[u].own /\ txn'[u].n = n
      BY <1>1, <1>2, <2>2, <3>4 DEF NoteRowsInv, Leads, NotesTypes
    <3> QED  BY <1>1, <3>1, <3>3, <3>5 DEF NoteRowsInv
  <2>7. \A a \in answer : a \in answer' /\ a.n \in Notes /\ Leads(a.row, note'[a.n])
    <3>1. \A a \in answer : a.n \in Notes /\ a.row \in NoteRow /\ Leads(a.row, note[a.n])
      BY DEF NotesTypes, NoteAnswer, NoteAnswerInv
    <3>2. \A n \in Notes : note[n] \in NoteRow /\ note'[n] \in NoteRow'
      BY <2>3 DEF NotesTypes
    <3> QED  BY <1>5, <2>2, <3>1, <3>2, LeadsFurther
  <2>9. \A a \in answer' : a \in answer \/ (a = mine /\ x.op # "delete")
    BY <1>5
  <2>5. CASE link = "down"
    <3>1. feed' = feed /\ feed = <<>> /\ DOMAIN feed = {}
      BY <1>5, <2>5 DEF NoteFeedInv
    <3>2. NoteFeedInv'
      BY <1>1, <3>1, <2>5 DEF NoteFeedInv
    <3>3. CatchUpInv'
      <4>1. catchUp.pc = "read" =>
              \A n \in Notes : catchUp.rows[n] \in NoteRow /\ Leads(catchUp.rows[n], note'[n])
        BY <2>2, <2>3, LeadsFurther DEF CatchUpInv, NotesTypes, Panel!Idle, CatchUpAsked,
           CatchUpRead
      <4> QED  BY <1>1, <2>5, <4>1 DEF CatchUpInv
    <3>4. PanelInv'
      BY <1>1, <2>5 DEF PanelInv
    <3>5. notesOwed /\ (catchUp.pc = "read" => ~catchUp.joined)
      BY <2>5 DEF PanelInv, CatchUpInv
    <3>6. NoteAnswerInv'
      BY <1>1, <2>7, <2>8, <2>9, <3>5 DEF NoteAnswerInv, AnswerNews
    <3> QED  BY <1>1, <2>2, <2>3, <2>4, <3>2, <3>3, <3>4, <3>6 DEF SkippedInv, Leads, NotesTypes
  <2>6. CASE link # "down"
    <3>1. /\ feed' = feed \o <<e>> /\ Len(feed) \in Nat
          /\ DOMAIN feed = 1..Len(feed) /\ DOMAIN feed' = 1..(Len(feed) + 1)
          /\ \A i \in 1..Len(feed) : feed'[i] = feed[i]
          /\ feed'[Len(feed) + 1] = e
          /\ \A i \in DOMAIN feed : feed[i] \in NoteChange
      BY <1>5, <2>1, <2>6, Longer DEF NotesTypes
    <3>2. \A n \in Notes : n = x.n => NoteComing(n)'
      BY <2>1, <3>1 DEF NoteComing
    <3>3. \A n \in Notes : n # x.n /\ NoteComing(n) => NoteComing(n)'
      BY <2>1, <3>1 DEF NoteComing
    <3>4. NoteFeedInv'
      <4>1. link' # "down"
        BY <1>1, <2>6
      <4>2. ASSUME NEW i \in DOMAIN feed'
            PROVE  /\ feed'[i].row.state # "absent"
                   /\ feed'[i].row.state = "deleted" => note'[feed'[i].n].state = "deleted"
                   /\ \E j \in DOMAIN feed' :
                        j >= i /\ feed'[j] = [n |-> feed'[i].n, row |-> note'[feed'[i].n]]
        <5>0. i \in 1..Len(feed) \/ i = Len(feed) + 1
          BY <3>1
        <5>1. CASE i = Len(feed) + 1
          BY <2>1, <3>1, <5>1
        <5>2. CASE i \in 1..Len(feed)
          <6>1. feed'[i] = feed[i] /\ feed[i].n \in Notes
            BY <3>1, <5>2 DEF NoteChange
          <6>2. /\ feed[i].row.state # "absent"
                /\ feed[i].row.state = "deleted" => note[feed[i].n].state = "deleted"
            BY <3>1, <5>2 DEF NoteFeedInv
          <6>3. PICK j \in DOMAIN feed :
                    j >= i /\ feed[j] = [n |-> feed[i].n, row |-> note[feed[i].n]]
            BY <3>1, <5>2 DEF NoteFeedInv
          <6>4. CASE feed[i].n = x.n
            BY <2>1, <2>2, <3>1, <5>2, <6>1, <6>2, <6>4 DEF Leads
          <6>5. CASE feed[i].n # x.n
            BY <2>1, <3>1, <5>2, <6>1, <6>2, <6>3, <6>5
          <6> QED  BY <6>4, <6>5
        <5> QED  BY <5>0, <5>1, <5>2
      <4> QED  BY <4>1, <4>2 DEF NoteFeedInv
    <3>5. CatchUpInv'
      <4> SUFFICES ASSUME catchUp.pc = "read" PROVE CatchUpInv'
        BY <1>1 DEF CatchUpInv
      <4>1. catchUp \in CatchUpRead
        BY DEF NotesTypes, Panel!Idle, CatchUpAsked
      <4>2. \A n \in Notes :
              /\ Leads(catchUp.rows[n], note'[n])
              /\ catchUp.rows[n].state = "absent" => catchUp.rows[n].order = 0
              /\ n \in catchUp.tombstones => catchUp.rows[n].state = "deleted"
              /\ catchUp.rows[n].state = "deleted" =>
                      \/ n \in catchUp.tombstones
                      \/ catchUp.since = 0 \/ catchUp.rows[n].stamp < catchUp.since
        BY <2>2, <2>3, <4>1, LeadsFurther DEF CatchUpInv, NotesTypes, CatchUpRead
      <4>3. catchUp.joined =>
              /\ link # "down"
              /\ \A n \in Notes :
                    n \in catchUp.older \/ note'[n] = catchUp.rows[n] \/ NoteComing(n)'
        BY <2>1, <3>2, <3>3 DEF CatchUpInv
      <4>4. catchUp.joined =>
              \A n \in catchUp.older :
                  catchUp.rows[n].state = "absent" => n \in astray \/ NoteAgrees(n)'
        <5>1. \A n \in Notes : NoteAgrees(n) => NoteAgrees(n)'
          BY <1>1, <2>1, <3>2, <3>3 DEF NoteAgrees
        <5> QED  BY <4>1, <5>1 DEF CatchUpInv, CatchUpRead
      <4> QED  BY <1>1, <4>2, <4>3, <4>4 DEF CatchUpInv
    <3>6. PanelInv'
      <4> SUFFICES ASSUME ~notesOwed PROVE PanelInv'
        BY <1>1 DEF PanelInv
      <4>1. catchUp.pc = "none" => \A n \in Notes \ (astray \union skipped) : NoteAgrees(n)'
        BY <1>1, <2>1, <3>2, <3>3 DEF PanelInv, NoteAgrees
      <4> QED  BY <1>1, <4>1 DEF PanelInv
    <3>7. NoteAnswerInv'
      <4>1. \A a \in answer : AnswerNews(a) => AnswerNews(a)'
        BY <2>1, <2>7, <3>2, <3>3 DEF AnswerNews
      <4> QED  BY <1>1, <2>7, <2>8, <2>9, <4>1 DEF NoteAnswerInv, AnswerNews
    <3> QED  BY <1>1, <2>2, <2>3, <2>4, <3>4, <3>5, <3>6, <3>7 DEF SkippedInv, Leads, NotesTypes
  <2> QED  BY <2>5, <2>6
<1>6. \/ UNCHANGED <<note, answer, Panel!channelVars>>
             /\ note[x.n].state # (IF x.op = "create" THEN "absent" ELSE "active")
      \/ /\ note[x.n].state = (IF x.op = "create" THEN "absent" ELSE "active")
         /\ note' = [note EXCEPT ![x.n] = new]
         /\ feed' = IF link = "down" THEN feed ELSE feed \o <<e>>
         /\ answer' = answer \union IF x.own /\ x.op # "delete" THEN {mine} ELSE {}
  BY DEF Panel!CommitWrite, Panel!Publish
<1> QED  BY <1>4, <1>5, <1>6

\* A transaction ends without a write.
LEMMA GiveUpInv ==
    ASSUME NotesInv, NEW t \in Slots, Panel!Abort(t) \/ Panel!OwnFails(t) PROVE NotesInv'
<1> USE DEF NotesInv
<1> DEFINE x == txn[t]
<1>1. /\ txn' = [txn EXCEPT ![t] = Panel!NoTxn] /\ x \in NoteTxn
      /\ UNCHANGED <<note, clock, list, watermark, focus, answer, since, skipped, astray, notesOwed,
                     link, feed>>
      /\ \/ UNCHANGED <<tombs, catchUp>> /\ ~(x.own /\ x.op = "delete")
         \/ /\ x.own /\ x.op = "delete"
            /\ tombs' = tombs \ {x.n} /\ catchUp' = [pc |-> "asked", since |-> watermark]
  BY DEF Panel!Abort, Panel!OwnFails, NotesTypes, Panel!NoTxn, Panel!channelVars, Panel!AskCatchUp,
     NoteTxn
<1>2. \A u \in Slots :
           /\ txn'[u].op = "delete" => u # t /\ txn'[u] = txn[u]
           /\ u # t => txn'[u] = txn[u]
  BY <1>1 DEF NotesTypes, Panel!NoTxn
<1>3. NotesTypes'
  <2>1. catchUp' \in {Panel!Idle} \union CatchUpAsked \union CatchUpRead /\ tombs' \subseteq Notes
    BY <1>1 DEF NotesTypes, CatchUpAsked
  <2>2. txn' \in [Slots -> {Panel!NoTxn} \union NoteTxn]
    BY <1>1 DEF NotesTypes
  <2> QED  BY <1>1, <2>1, <2>2 DEF NotesTypes, NoteRow, NoteChange, NoteAnswer, NoteTxn, CatchUpAsked,
              CatchUpRead
<1>4. NoteRowsInv'
  BY <1>1, <1>2 DEF NoteRowsInv
<1>5. NoteFeedInv' /\ SkippedInv'
  BY <1>1 DEF NoteFeedInv, SkippedInv
<1>6. CatchUpInv' /\ PanelInv' /\ NoteAnswerInv'
  BY <1>1 DEF CatchUpInv, PanelInv, NoteAnswerInv, AnswerNews, NoteAgrees, NoteComing
<1> QED  BY <1>3, <1>4, <1>5, <1>6

\* The panel asks.
LEMMA AskCatchUpInv ==
    ASSUME NotesInv, Panel!CatchUp \/ Panel!Connected PROVE NotesInv'
<1> USE DEF NotesInv
<1>1. /\ catchUp' = [pc |-> "asked", since |-> watermark]
      /\ UNCHANGED <<note, clock, txn, list, tombs, watermark, focus, answer, since, skipped,
                     astray, notesOwed, feed>>
      /\ link' = link \/ (link = "joined" /\ link' = "up")
  BY DEF Panel!CatchUp, Panel!Connected, Panel!AskCatchUp, Panel!channelVars, Panel!Subscribed
<1>2. NotesTypes'
  BY <1>1 DEF NotesTypes, NoteRow, NoteChange, NoteAnswer, NoteTxn, CatchUpAsked, CatchUpRead
<1>3. NoteRowsInv' /\ NoteFeedInv' /\ SkippedInv' /\ CatchUpInv' /\ PanelInv' /\ NoteAnswerInv'
  BY <1>1 DEF NoteRowsInv, NoteFeedInv, SkippedInv, CatchUpInv, PanelInv, NoteAnswerInv, AnswerNews,
     NoteComing
<1> QED  BY <1>2, <1>3

LEMMA ServeCatchUpInv ==
    ASSUME NotesInv, Panel!ServeCatchUp PROVE NotesInv'
<1> USE DEF NotesInv
<1> DEFINE c == [pc |-> "read", since |-> catchUp.since, joined |-> link # "down", older |-> {},
                 rows |-> note, tombstones |-> Panel!Tombstones(catchUp.since)]
<1>1. /\ catchUp' = c /\ catchUp.pc = "asked"
      /\ UNCHANGED <<note, clock, txn, list, tombs, watermark, focus, answer, since, skipped,
                     astray, notesOwed, link, feed>>
  BY DEF Panel!ServeCatchUp, Panel!channelVars
<1>2. catchUp \in CatchUpAsked
  BY <1>1 DEF NotesTypes, Panel!Idle, CatchUpRead
<1>3. c \in CatchUpRead
  BY <1>2 DEF NotesTypes, CatchUpAsked, CatchUpRead, Panel!Tombstones, Panel!In
<1>4. NotesTypes'
  BY <1>1, <1>3 DEF NotesTypes, NoteRow, NoteChange, NoteAnswer, NoteTxn, CatchUpAsked, CatchUpRead
<1>5. CatchUpInv'
  <2>1. \A n \in Notes : /\ Leads(note[n], note[n]) /\ note[n].stamp \in 0..clock
                         /\ note[n].state = "absent" => note[n].order = 0
    BY DEF Leads, NotesTypes, NoteRow, NoteRowsInv
  <2>2. \A n \in Notes :
             /\ n \in Panel!Tombstones(catchUp.since) => note[n].state = "deleted"
             /\ note[n].state = "deleted" =>
                  \/ n \in Panel!Tombstones(catchUp.since)
                  \/ catchUp.since = 0 \/ note[n].stamp < catchUp.since
    BY <1>2, <2>1 DEF Panel!Tombstones, Panel!In, CatchUpAsked, NotesTypes
  <2> QED  BY <1>1, <2>1, <2>2 DEF CatchUpInv
<1>6. NoteRowsInv' /\ NoteFeedInv' /\ SkippedInv'
  BY <1>1 DEF NoteRowsInv, NoteFeedInv, SkippedInv
<1>7. PanelInv'
  BY <1>1 DEF PanelInv
<1>8. NoteAnswerInv'
  <2>1. \A a \in answer : a.row = note[a.n] \/ note[a.n].order > a.row.order
    <3>1. \A a \in answer : a.row \in NoteRow /\ note[a.n] \in NoteRow /\ Leads(a.row, note[a.n])
      BY DEF NotesTypes, NoteAnswer, NoteAnswerInv
    <3> QED  BY <3>1 DEF Leads, NoteRow
  <2> QED  BY <1>1, <2>1 DEF NoteAnswerInv, AnswerNews, NoteComing
<1> QED  BY <1>4, <1>5, <1>6, <1>7, <1>8

\* An answer of which newer news is heard.
LEMMA HeardFact ==
    ASSUME NotesTypes, NEW a \in answer, NEW n, NEW r
    PROVE  LET b == Panel!Heard(a, n, r) IN
              /\ b \in NoteAnswer /\ b.n = a.n /\ b.row = a.row
              /\ b.older = (a.older \/ (a.n = n /\ r.order > a.row.order))
BY DEF NotesTypes, NoteAnswer, Panel!Heard

\* The answer of the newest catch-up replaces the list.
LEMMA ApplyCatchUpInv ==
    ASSUME NotesInv, Panel!ApplyCatchUp PROVE NotesInv'
<1> USE DEF NotesInv
<1> DEFINE c == catchUp
           active == {n \in Notes : c.rows[n].state = "active"}
           gone == c.tombstones \union tombs
<1>1. /\ c.pc = "read"
      /\ list' = [n \in Notes |-> IF n \in gone THEN Panel!NoNote
                                  ELSE IF n \in active THEN Panel!Shown(c.rows[n])
                                  ELSE list[n]]
      /\ watermark' = Panel!Max({c.since} \union {c.rows[n].stamp : n \in active \union c.tombstones})
      /\ since' = c.since
      /\ skipped' = {n \in Notes : c.rows[n].state = "deleted" /\ list'[n] # Panel!NoNote}
      /\ astray' = ((c.older \intersect active) \ tombs) \union (astray \ (active \union gone))
      /\ answer' = {Panel!Heard(a, a.n, c.rows[a.n]) : a \in answer}
      /\ notesOwed' = (notesOwed /\ ~c.joined)
      /\ catchUp' = Panel!Idle
      /\ UNCHANGED <<note, clock, txn, tombs, focus, link, feed>>
  BY DEF Panel!ApplyCatchUp, Panel!LocalTombs, Panel!channelVars
<1>2. c \in CatchUpRead
  BY <1>1 DEF NotesTypes, Panel!Idle, CatchUpAsked
<1>3. /\ \A n \in Notes :
            /\ c.rows[n] \in NoteRow /\ Leads(c.rows[n], note[n])
            /\ n \in c.tombstones => c.rows[n].state = "deleted"
            /\ c.rows[n].state = "deleted" =>
                 n \in c.tombstones \/ c.since = 0 \/ c.rows[n].stamp < c.since
      /\ c.joined => /\ link # "down"
                     /\ \A n \in Notes : n \in c.older \/ note[n] = c.rows[n] \/ NoteComing(n)
                     /\ \A n \in c.older :
                           c.rows[n].state = "absent" => n \in astray \/ NoteAgrees(n)
  BY <1>1, <1>2 DEF CatchUpInv, CatchUpRead
<1>4. NotesTypes'
  <2>1. watermark' \in 0..clock
    <3> DEFINE S == {c.since} \union {c.rows[n].stamp : n \in active \union c.tombstones}
    <3>1. S \in SUBSET (0..clock) /\ S # {} /\ clock \in Nat
      BY <1>2, <1>3 DEF NotesTypes, NoteRow, CatchUpRead
    <3>2. Panel!Max(S) \in S
      BY <3>1, MaxFact
    <3> QED  BY <1>1, <3>1, <3>2
  <2>2. list' \in [Notes -> [stamp : 0..clock, body : 0..clock]]
    <3>1. Panel!NoNote \in [stamp : 0..clock, body : 0..clock]
      BY DEF Panel!NoNote, NotesTypes
    <3>2. \A n \in Notes : Panel!Shown(c.rows[n]) \in [stamp : 0..clock, body : 0..clock]
      BY <1>3 DEF Panel!Shown, NoteRow
    <3> QED  BY <1>1, <3>1, <3>2 DEF NotesTypes
  <2>4. answer' \subseteq NoteAnswer
    BY <1>1, HeardFact
  <2>3. /\ since' \in 0..clock /\ skipped' \subseteq Notes /\ astray' \subseteq Notes
        /\ notesOwed' \in BOOLEAN /\ catchUp' = Panel!Idle
    BY <1>1, <1>2 DEF NotesTypes, CatchUpRead
  <2> QED  BY <1>1, <2>1, <2>2, <2>3, <2>4 DEF NotesTypes, NoteRow, NoteChange, NoteAnswer,
              NoteTxn, CatchUpAsked, CatchUpRead, Panel!Idle
<1>5. \A n \in Notes : note[n].state = "absent" =>
                         c.rows[n].state = "absent" /\ list'[n] = Panel!NoNote
  BY <1>1, <1>3 DEF NoteRowsInv, Leads, NoteRow
<1>6. NoteRowsInv'
  BY <1>1, <1>5 DEF NoteRowsInv
<1>7. NoteFeedInv' /\ CatchUpInv'
  BY <1>1 DEF NoteFeedInv, CatchUpInv, Panel!Idle
<1>8. SkippedInv'
  <2> SUFFICES ASSUME NEW n \in skipped'
               PROVE  note[n].state = "deleted" /\ (c.since = 0 \/ note[n].stamp < c.since)
    BY <1>1 DEF SkippedInv
  <2>1. n \in Notes /\ c.rows[n].state = "deleted" /\ n \notin c.tombstones
    BY <1>1
  <2> QED  BY <1>3, <2>1 DEF Leads
<1>9. PanelInv'
  <2> SUFFICES ASSUME ~notesOwed' PROVE PanelInv'
    BY DEF PanelInv
  <2>1. c.joined /\ link # "down"
    BY <1>1, <1>3 DEF PanelInv
  <2>2. ASSUME NEW n \in Notes, n \notin astray', n \notin skipped'
        PROVE  NoteAgrees(n)'
    <3>1. CASE n \in tombs
      BY <1>1, <3>1 DEF NoteAgrees
    <3>2. CASE n \in c.tombstones
      BY <1>1, <1>3, <3>2 DEF NoteAgrees, Leads
    <3>3. CASE n \notin gone /\ NoteComing(n)
      BY <1>1, <3>3 DEF NoteAgrees, NoteComing
    <3>4. CASE n \notin gone /\ note[n] = c.rows[n]
      <4>1. c.rows[n].state = "active" => list'[n] = Panel!Shown(note[n])
        BY <1>1, <3>4
      <4>2. c.rows[n].state = "deleted" => list'[n] = Panel!NoNote
        BY <1>1, <2>2
      <4>3. c.rows[n].state = "absent" => list'[n] = Panel!NoNote
        BY <1>5, <3>4
      <4>4. c.rows[n].state \in {"absent", "active", "deleted"}
        BY <1>3 DEF NoteRow
      <4> QED  BY <1>1, <3>4, <4>1, <4>2, <4>3, <4>4 DEF NoteAgrees
    <3>5. CASE n \notin gone /\ n \in c.older
      <4>1. n \notin active
        BY <1>1, <2>2, <3>5
      <4>2. c.rows[n].state = "absent" => NoteAgrees(n) /\ list'[n] = list[n]
        BY <1>1, <1>3, <2>1, <2>2, <3>5, <4>1
      <4>3. c.rows[n].state = "deleted" => note[n] = c.rows[n]
        BY <1>3 DEF Leads
      <4>4. c.rows[n].state \in {"absent", "deleted"}
        BY <1>3, <4>1 DEF NoteRow
      <4> QED  BY <1>1, <3>4, <3>5, <4>2, <4>3, <4>4 DEF NoteAgrees, NoteComing
    <3> QED  BY <1>3, <2>1, <3>1, <3>2, <3>3, <3>4, <3>5
  <2> QED  BY <1>1, <2>1, <2>2 DEF PanelInv, Panel!Idle
<1>10. NoteAnswerInv'
  <2>1. ~notesOwed' => c.joined
    BY <1>1 DEF PanelInv
  <2>2. ASSUME NEW a \in answer, NEW b, b = Panel!Heard(a, a.n, c.rows[a.n])
        PROVE  /\ b.row.state = "active" /\ Leads(b.row, note[b.n])
               /\ c.joined => AnswerNews(b)'
    <3>1. /\ b.n = a.n /\ b.row = a.row
          /\ b.older = (a.older \/ c.rows[a.n].order > a.row.order)
      BY <2>2, HeardFact
    <3>2. /\ a.row.state = "active" /\ Leads(a.row, note[a.n])
          /\ c.joined => AnswerNews(a) \/ c.rows[a.n].order > a.row.order
      BY <1>1 DEF NoteAnswerInv
    <3>3. AnswerNews(a) \/ c.rows[a.n].order > a.row.order => AnswerNews(b)'
      BY <1>1, <3>1 DEF AnswerNews, NoteComing
    <3> QED  BY <3>1, <3>2, <3>3
  <2> QED  BY <1>1, <2>1, <2>2 DEF NoteAnswerInv, Panel!Idle
<1> QED  BY <1>4, <1>6, <1>7, <1>8, <1>9, <1>10

\* A catch-up fails, or the channel: the next one owes the news.
LEMMA BreakPanelInv ==
    ASSUME NotesInv, Panel!CatchUpFails \/ Panel!Break \/ Panel!Join PROVE NotesInv'
<1> USE DEF NotesInv
<1>1. UNCHANGED <<note, clock, txn, list, tombs, watermark, focus, answer, since, skipped, astray>>
  BY DEF Panel!CatchUpFails, Panel!Break, Panel!Join, Panel!notesVars
<1>2. CASE Panel!CatchUpFails
  <2>1. catchUp' = Panel!Idle /\ notesOwed' = TRUE /\ UNCHANGED <<link, feed>>
    BY <1>2 DEF Panel!CatchUpFails, Panel!channelVars
  <2>2. NotesTypes'
    BY <1>1, <2>1 DEF NotesTypes, NoteRow, NoteChange, NoteAnswer, NoteTxn, CatchUpAsked, CatchUpRead,
       Panel!Idle
  <2> QED  BY <1>1, <2>1, <2>2 DEF NoteRowsInv, NoteFeedInv, CatchUpInv, SkippedInv, PanelInv,
              NoteAnswerInv, Panel!Idle
<1>3. CASE Panel!Break
  <2>1. /\ notesOwed' = TRUE /\ link' = "down" /\ feed' = <<>>
        /\ catchUp' = IF catchUp.pc = "read" THEN [catchUp EXCEPT !.joined = FALSE] ELSE catchUp
    BY <1>3 DEF Panel!Break, Panel!ChannelBreaks
  <2>2. /\ catchUp' \in {Panel!Idle} \union CatchUpAsked \union CatchUpRead
        /\ catchUp'.pc = catchUp.pc
        /\ catchUp'.pc = "read" => /\ ~catchUp'.joined /\ catchUp'.rows = catchUp.rows
                                /\ catchUp'.tombstones = catchUp.tombstones
                                /\ catchUp'.since = catchUp.since
    <3>1. catchUp.pc # "read" => catchUp' = catchUp
      BY <2>1
    <3>2. catchUp.pc = "read" => catchUp \in CatchUpRead
      BY DEF NotesTypes, Panel!Idle, CatchUpAsked
    <3>3. catchUp \in CatchUpRead => [catchUp EXCEPT !.joined = FALSE] \in CatchUpRead
      BY DEF CatchUpRead
    <3>4. catchUp \in CatchUpRead => LET d == [catchUp EXCEPT !.joined = FALSE] IN
             /\ d.pc = catchUp.pc /\ ~d.joined /\ d.rows = catchUp.rows
             /\ d.tombstones = catchUp.tombstones /\ d.since = catchUp.since
      BY DEF CatchUpRead
    <3> QED  BY <2>1, <3>1, <3>2, <3>3, <3>4 DEF NotesTypes
  <2>3. NotesTypes'
    <3>1. feed' \in Seq(NoteChange)
      BY <2>1
    <3> QED  BY <1>1, <2>1, <2>2, <3>1 DEF NotesTypes, NoteRow, NoteChange, NoteAnswer, NoteTxn, CatchUpAsked,
                CatchUpRead
  <2>4. NoteRowsInv' /\ SkippedInv' /\ PanelInv'
    BY <1>1, <2>1 DEF NoteRowsInv, SkippedInv, PanelInv
  <2>5. NoteFeedInv'
    BY <2>1 DEF NoteFeedInv
  <2>6. CatchUpInv'
    BY <1>1, <2>1, <2>2 DEF CatchUpInv
  <2>7. NoteAnswerInv'
    BY <1>1, <2>1, <2>2 DEF NoteAnswerInv
  <2> QED  BY <2>3, <2>4, <2>5, <2>6, <2>7
<1>4. CASE Panel!Join
  <2>1. link = "down" /\ link' = "joined" /\ UNCHANGED <<feed, catchUp, notesOwed>>
    BY <1>4 DEF Panel!Join, Panel!ServerJoins, Panel!notesVars
  <2>2. NotesTypes'
    BY <1>1, <2>1 DEF NotesTypes, NoteRow, NoteChange, NoteAnswer, NoteTxn, CatchUpAsked, CatchUpRead
  <2> QED  BY <1>1, <2>1, <2>2 DEF NoteRowsInv, NoteFeedInv, CatchUpInv, SkippedInv, PanelInv,
              NoteAnswerInv, AnswerNews, NoteComing
<1> QED  BY <1>2, <1>3, <1>4

\* A change arrives: it is the last of its note, or the last one is behind it.
LEMMA NoteChangeInv ==
    ASSUME NotesInv, Panel!OnNoteChange PROVE NotesInv'
<1> USE DEF NotesInv
<1> SUFFICES ASSUME NEW e, e = Head(feed) PROVE NotesInv'
  OBVIOUS
<1> DEFINE gone == e.row.state = "deleted" \/ e.n \in tombs
<1>1. /\ link = "up" /\ feed # <<>> /\ feed' = Tail(feed)
      /\ list' = [list EXCEPT ![e.n] = IF gone THEN Panel!NoNote
                                       ELSE IF Panel!Wins(e.row, e.n) THEN Panel!Shown(e.row) ELSE @]
      /\ tombs' = IF gone THEN tombs \union {e.n} ELSE tombs
      /\ astray' = IF gone \/ Panel!Wins(e.row, e.n) THEN astray \ {e.n} ELSE astray \union {e.n}
      /\ skipped' = skipped \ {e.n}
      /\ catchUp' = IF catchUp.pc = "read" /\ e.row.order > catchUp.rows[e.n].order
                 THEN [catchUp EXCEPT !.older = @ \union {e.n}] ELSE catchUp
      /\ answer' = {Panel!Heard(a, e.n, e.row) : a \in answer}
      /\ UNCHANGED <<note, clock, txn, watermark, focus, since, notesOwed, link>>
  BY DEF Panel!OnNoteChange, Panel!Receive
<1>2. /\ Tail(feed) \in Seq(NoteChange) /\ Len(feed) \in Nat /\ Len(feed) >= 1
      /\ DOMAIN feed = 1..Len(feed) /\ DOMAIN Tail(feed) = 1..(Len(feed) - 1)
      /\ \A i \in 1..(Len(feed) - 1) : Tail(feed)[i] = feed[i + 1]
      /\ e = feed[1] /\ e \in NoteChange
  BY <1>1, Shorter DEF NotesTypes
<1>3. /\ e.n \in Notes /\ e.row \in NoteRow /\ e.row.state # "absent"
      /\ e.row.state = "deleted" => note[e.n].state = "deleted"
  <2>1. 1 \in DOMAIN feed /\ e = feed[1]
    BY <1>2
  <2>2. /\ feed[1].row.state # "absent"
        /\ feed[1].row.state = "deleted" => note[feed[1].n].state = "deleted"
    BY <2>1 DEF NoteFeedInv
  <2> QED  BY <1>2, <2>1, <2>2 DEF NoteChange
<1>4. /\ note[e.n].state # "absent"
      /\ \/ e.row = note[e.n]
         \/ \E i \in DOMAIN feed' : feed'[i] = [n |-> e.n, row |-> note[e.n]]
  <2>1. PICK j \in DOMAIN feed : j >= 1 /\ feed[j] = [n |-> e.n, row |-> note[e.n]]
    BY <1>2 DEF NoteFeedInv
  <2>2. CASE j = 1
    BY <1>2, <1>3, <2>1, <2>2
  <2>3. CASE j # 1
    <3>1. j - 1 \in DOMAIN feed' /\ feed'[j - 1] = feed[j] /\ feed[j].row.state # "absent"
      BY <1>1, <1>2, <2>1, <2>3 DEF NoteFeedInv
    <3> QED  BY <2>1, <3>1
  <2> QED  BY <2>2, <2>3
<1>5. \A n \in Notes : NoteComing(n) => n = e.n \/ NoteComing(n)'
  <2> SUFFICES ASSUME NEW n \in Notes, n # e.n, NEW j \in DOMAIN feed,
                      feed[j] = [n |-> n, row |-> note[n]]
               PROVE  NoteComing(n)'
    BY DEF NoteComing
  <2>1. j # 1
    BY <1>2
  <2>2. j - 1 \in DOMAIN feed' /\ feed'[j - 1] = feed[j]
    BY <1>1, <1>2, <2>1
  <2> QED  BY <1>1, <2>2 DEF NoteComing
<1>6. /\ catchUp' \in {Panel!Idle} \union CatchUpAsked \union CatchUpRead
      /\ catchUp'.pc = catchUp.pc
      /\ catchUp.pc = "read" =>
           /\ catchUp \in CatchUpRead /\ catchUp'.rows = catchUp.rows
           /\ catchUp'.tombstones = catchUp.tombstones
           /\ catchUp'.since = catchUp.since /\ catchUp'.joined = catchUp.joined
           /\ catchUp.older \subseteq catchUp'.older
           /\ catchUp'.older \subseteq catchUp.older \union {e.n}
           /\ e.row.order > catchUp.rows[e.n].order => e.n \in catchUp'.older
  <2>1. catchUp.pc = "read" => catchUp \in CatchUpRead
    BY DEF NotesTypes, Panel!Idle, CatchUpAsked
  <2>2. catchUp \in CatchUpRead => [catchUp EXCEPT !.older = @ \union {e.n}] \in CatchUpRead
    BY <1>3 DEF CatchUpRead
  <2>3. catchUp \in CatchUpRead => LET d == [catchUp EXCEPT !.older = @ \union {e.n}] IN
           /\ d.pc = catchUp.pc /\ d.joined = catchUp.joined /\ d.rows = catchUp.rows
           /\ d.tombstones = catchUp.tombstones /\ d.since = catchUp.since
           /\ d.older = catchUp.older \union {e.n}
    BY DEF CatchUpRead
  <2> QED  BY <1>1, <2>1, <2>2, <2>3 DEF NotesTypes
<1>7. NotesTypes'
  <2>1. list' \in [Notes -> [stamp : 0..clock, body : 0..clock]]
    <3>1. /\ Panel!NoNote \in [stamp : 0..clock, body : 0..clock]
          /\ Panel!Shown(e.row) \in [stamp : 0..clock, body : 0..clock]
      BY <1>3 DEF Panel!NoNote, Panel!Shown, NoteRow, NotesTypes
    <3> QED  BY <1>1, <1>3, <3>1 DEF NotesTypes
  <2>2. tombs' \subseteq Notes /\ skipped' \subseteq Notes /\ astray' \subseteq Notes
    BY <1>1, <1>3 DEF NotesTypes
  <2>3. answer' \subseteq NoteAnswer
    BY <1>1, HeardFact
  <2> QED  BY <1>1, <1>2, <1>6, <2>1, <2>2, <2>3 DEF NotesTypes, NoteRow, NoteChange, NoteAnswer,
              NoteTxn, CatchUpAsked, CatchUpRead
<1>8. \A n \in Notes : n # e.n => list'[n] = list[n]
  BY <1>1 DEF NotesTypes
<1>9. NoteRowsInv'
  <2>1. \A n \in Notes : note[n].state = "absent" => list'[n] = Panel!NoNote /\ note[n].order = 0
    BY <1>4, <1>8 DEF NoteRowsInv
  <2>2. \A n \in tombs' : n \in tombs \/ note[n].state = "deleted"
    BY <1>1, <1>3
  <2> QED  BY <1>1, <2>1, <2>2 DEF NoteRowsInv
<1>10. NoteFeedInv'
  <2>1. ASSUME NEW i \in DOMAIN feed'
        PROVE  /\ feed'[i].row.state # "absent"
               /\ feed'[i].row.state = "deleted" => note[feed'[i].n].state = "deleted"
               /\ \E j \in DOMAIN feed' :
                    j >= i /\ feed'[j] = [n |-> feed'[i].n, row |-> note[feed'[i].n]]
    <3>1. i \in 1..(Len(feed) - 1) /\ i + 1 \in DOMAIN feed /\ feed'[i] = feed[i + 1]
      BY <1>1, <1>2
    <3>2. PICK j \in DOMAIN feed :
              j >= i + 1 /\ feed[j] = [n |-> feed[i + 1].n, row |-> note[feed[i + 1].n]]
      BY <3>1 DEF NoteFeedInv
    <3>3. j - 1 \in DOMAIN feed' /\ j - 1 >= i /\ feed'[j - 1] = feed[j]
      BY <1>1, <1>2, <3>1, <3>2
    <3>4. \E k \in DOMAIN feed' :
              k >= i /\ feed'[k] = [n |-> feed'[i].n, row |-> note[feed'[i].n]]
      BY <3>1, <3>2, <3>3
    <3> QED  BY <3>1, <3>4 DEF NoteFeedInv
  <2> QED  BY <1>1, <2>1 DEF NoteFeedInv
<1>14. \A n \in Notes : n # e.n /\ NoteAgrees(n) => NoteAgrees(n)'
  BY <1>1, <1>5, <1>8 DEF NoteAgrees
<1>15. ASSUME e.n \notin astray' PROVE NoteAgrees(e.n)'
  <2>1. e.row # note[e.n] => NoteComing(e.n)'
    BY <1>1, <1>4 DEF NoteComing
  <2>2. gone => list'[e.n] = Panel!NoNote /\ e.n \in tombs'
    BY <1>1, <1>3 DEF NotesTypes
  <2>3. ~gone => list'[e.n] = Panel!Shown(e.row) /\ e.row.state = "active"
    BY <1>1, <1>3, <1>15 DEF NotesTypes, NoteRow
  <2> QED  BY <1>1, <2>1, <2>2, <2>3 DEF NoteAgrees
<1>11. CatchUpInv'
  <2> SUFFICES ASSUME catchUp.pc = "read" PROVE CatchUpInv'
    BY <1>6 DEF CatchUpInv
  <2>1. \A n \in Notes : n \in catchUp.older \/ note[n] = catchUp.rows[n] \/ NoteComing(n)
            => n \in catchUp'.older \/ note[n] = catchUp.rows[n] \/ NoteComing(n)'
    <3>1. \A n \in Notes : n # e.n /\ NoteComing(n) => NoteComing(n)'
      BY <1>5
    <3>2. e.row = note[e.n] => e.n \in catchUp'.older \/ note[e.n] = catchUp.rows[e.n]
      <4>1. Leads(catchUp.rows[e.n], note[e.n]) /\ catchUp.rows[e.n] \in NoteRow
        BY <1>3, <1>6 DEF CatchUpInv, CatchUpRead
      <4> QED  BY <1>3, <1>6, <4>1 DEF Leads, NoteRow
    <3>3. e.row # note[e.n] => NoteComing(e.n)'
      BY <1>1, <1>4 DEF NoteComing
    <3> QED  BY <1>6, <3>1, <3>2, <3>3
  <2>2. catchUp.joined => \A n \in catchUp'.older :
                            catchUp.rows[n].state = "absent" => n \in astray' \/ NoteAgrees(n)'
    <3>1. catchUp.older \subseteq Notes
      BY <1>6 DEF CatchUpRead
    <3>2. \A n \in astray : n = e.n \/ n \in astray'
      BY <1>1
    <3> QED  BY <1>6, <1>14, <1>15, <3>1, <3>2 DEF CatchUpInv
  <2> QED  BY <1>1, <1>6, <2>1, <2>2 DEF CatchUpInv
<1>12. SkippedInv'
  BY <1>1 DEF SkippedInv
<1>13. PanelInv'
  <2> SUFFICES ASSUME ~notesOwed,
                      catchUp.pc = "none"
               PROVE  \A n \in Notes \ (astray' \union skipped') : NoteAgrees(n)'
    BY <1>1, <1>6 DEF PanelInv
  <2>1. \A n \in Notes \ {e.n} : n \in astray \union skipped => n \in astray' \union skipped'
    BY <1>1
  <2> QED  BY <1>14, <1>15, <2>1 DEF PanelInv
<1>16. NoteAnswerInv'
  <2>1. ASSUME NEW a \in answer
        PROVE  LET b == Panel!Heard(a, e.n, e.row) IN
                  /\ b.n = a.n /\ b.row = a.row
                  /\ a.row.state = "active" /\ Leads(a.row, note[a.n])
                  /\ AnswerNews(a) => AnswerNews(b)'
    <3> DEFINE b == Panel!Heard(a, e.n, e.row)
    <3>1. /\ b.n = a.n /\ b.row = a.row /\ a.n \in Notes /\ a.row \in NoteRow
          /\ b.older = (a.older \/ (a.n = e.n /\ e.row.order > a.row.order))
      BY HeardFact DEF NotesTypes, NoteAnswer
    <3>2. a.row.state = "active" /\ Leads(a.row, note[a.n])
      BY DEF NoteAnswerInv
    <3>3. a.n # e.n /\ AnswerNews(a) => AnswerNews(b)'
      BY <1>1, <1>5, <3>1 DEF AnswerNews
    <3>4. a.n = e.n /\ e.row = note[e.n] => AnswerNews(b)'
      <4> SUFFICES ASSUME a.n = e.n, e.row = note[e.n] PROVE AnswerNews(b)'
        OBVIOUS
      <4>1. a.row = e.row \/ e.row.order > a.row.order
        BY <1>3, <3>1, <3>2 DEF Leads, NoteRow
      <4> HIDE DEF b
      <4> QED  BY <1>1, <3>1, <4>1 DEF AnswerNews
    <3>5. a.n = e.n /\ e.row # note[e.n] => AnswerNews(b)'
      BY <1>1, <1>4, <3>1 DEF AnswerNews, NoteComing
    <3> QED  BY <3>1, <3>2, <3>3, <3>4, <3>5
  <2>2. ASSUME NEW b \in answer'
        PROVE  \E a \in answer :
                  /\ b.n = a.n /\ b.row = a.row
                  /\ a.row.state = "active" /\ Leads(a.row, note[a.n])
                  /\ AnswerNews(a) => AnswerNews(b)'
    BY <1>1, <2>1
  <2> QED  BY <1>1, <1>6, <2>2 DEF NoteAnswerInv
<1> QED  BY <1>7, <1>9, <1>10, <1>11, <1>12, <1>13, <1>16

\* An answer is merged, whatever has been heard since.
LEMMA ApplyNoteAnswerInv ==
    ASSUME NotesInv, Panel!ApplyAnswer PROVE NotesInv'
<1> USE DEF NotesInv
<1>1. PICK a \in answer :
          /\ list' = [list EXCEPT ![a.n] = IF Panel!Merges(a) THEN Panel!Shown(a.row) ELSE @]
          /\ astray' = astray \union IF Panel!Merges(a) /\ a.older THEN {a.n} ELSE {}
          /\ answer' = answer \ {a}
  BY DEF Panel!ApplyAnswer
<1>2. UNCHANGED <<note, clock, txn, tombs, watermark, catchUp, focus, since, skipped, notesOwed, link,
                  feed>>
  BY DEF Panel!ApplyAnswer, Panel!channelVars
<1>3. /\ a.n \in Notes /\ a.row \in NoteRow /\ a.row.state = "active" /\ Leads(a.row, note[a.n])
      /\ note[a.n].state # "absent"
  BY DEF NotesTypes, NoteAnswer, NoteAnswerInv, Leads
<1>4. \A n \in Notes : n # a.n => list'[n] = list[n]
  BY <1>1 DEF NotesTypes
<1>5. NotesTypes'
  <2>1. Panel!Shown(a.row) \in [stamp : 0..clock, body : 0..clock]
    BY <1>3 DEF Panel!Shown, NoteRow
  <2>2. list' \in [Notes -> [stamp : 0..clock, body : 0..clock]]
    BY <1>1, <1>3, <2>1 DEF NotesTypes
  <2> QED  BY <1>1, <1>2, <1>3, <2>2 DEF NotesTypes, NoteRow, NoteChange, NoteAnswer, NoteTxn,
              CatchUpAsked, CatchUpRead
<1>6. NoteRowsInv'
  BY <1>2, <1>3, <1>4 DEF NoteRowsInv
<1>7. NoteFeedInv' /\ SkippedInv' /\ NoteAnswerInv'
  BY <1>1, <1>2 DEF NoteFeedInv, SkippedInv, NoteAnswerInv, AnswerNews, NoteComing
<1>8. astray \subseteq astray' /\ \A n \in Notes : n # a.n /\ NoteAgrees(n) => NoteAgrees(n)'
  BY <1>1, <1>2, <1>4 DEF NoteAgrees, NoteComing
<1>9. ASSUME AnswerNews(a), NoteAgrees(a.n) \/ Panel!Merges(a) PROVE a.n \in astray' \/ NoteAgrees(a.n)'
  <2>1. CASE ~Panel!Merges(a)
    BY <1>1, <1>2, <1>9, <2>1 DEF NoteAgrees, NoteComing, NotesTypes
  <2>2. CASE Panel!Merges(a) /\ a.older
    BY <1>1, <2>2
  <2>3. CASE Panel!Merges(a) /\ a.row = note[a.n]
    BY <1>1, <1>2, <1>3, <2>3 DEF NoteAgrees, NotesTypes
  <2>4. CASE NoteComing(a.n)
    BY <1>2, <2>4 DEF NoteAgrees, NoteComing
  <2> QED  BY <1>9, <2>1, <2>2, <2>3, <2>4 DEF AnswerNews
<1>10. ~Panel!Merges(a) => list' = list /\ astray' = astray
  BY <1>1 DEF NotesTypes
<1>11. CatchUpInv'
  <2> SUFFICES ASSUME catchUp.pc = "read" PROVE CatchUpInv'
    BY <1>2 DEF CatchUpInv
  <2>1. catchUp \in CatchUpRead
    BY DEF NotesTypes, CatchUpAsked, Panel!Idle
  <2>2. ASSUME catchUp.joined, NEW n \in catchUp.older, catchUp.rows[n].state = "absent"
        PROVE  n \in astray' \/ NoteAgrees(n)'
    <3>1. n \in Notes /\ (n \in astray \/ NoteAgrees(n)) /\ catchUp.rows[n].order = 0
      BY <2>1, <2>2 DEF CatchUpInv, CatchUpRead
    <3>2. n = a.n => AnswerNews(a)
      <4>1. ~(0 > a.row.order)
        BY <1>3 DEF NoteRow
      <4> QED  BY <2>2, <3>1, <4>1 DEF NoteAnswerInv
    <3>3. CASE n # a.n \/ n \in astray
      BY <1>8, <3>1, <3>3
    <3>4. CASE n = a.n /\ NoteAgrees(n)
      BY <1>9, <3>2, <3>4
    <3> QED  BY <3>1, <3>3, <3>4
  <2> QED  BY <1>2, <2>2 DEF CatchUpInv, NoteComing
<1>12. PanelInv'
  <2> SUFFICES ASSUME ~notesOwed, catchUp.pc = "none",
                      NEW n \in Notes, n \notin astray', n \notin skipped
               PROVE  NoteAgrees(n)'
    BY <1>2 DEF PanelInv
  <2>1. NoteAgrees(n)
    BY <1>8 DEF PanelInv
  <2>2. AnswerNews(a)
    BY DEF NoteAnswerInv
  <2> QED  BY <1>8, <1>9, <2>1, <2>2
<1> QED  BY <1>5, <1>6, <1>7, <1>11, <1>12

\* A link's fetch is asked, answered or given up.
LEMMA LinkInv ==
    ASSUME NotesInv,
           (\E n \in Notes : Panel!OpenLink(n)) \/ Panel!ServeLink \/ Panel!CancelLink
    PROVE  NotesInv'
<1> USE DEF NotesInv
<1>1. UNCHANGED <<note, clock, txn, list, tombs, watermark, catchUp, since, skipped, astray,
                  notesOwed, link, feed>>
  BY DEF Panel!OpenLink, Panel!ServeLink, Panel!CancelLink, Panel!channelVars
<1> DEFINE fetched == Panel!Answer("link", focus.n, note[focus.n])
<1>2. \/ answer' \subseteq answer
      \/ /\ focus.pc = "asked" /\ note[focus.n].state = "active"
         /\ answer' = answer \union {fetched}
  BY DEF Panel!OpenLink, Panel!ServeLink, Panel!CancelLink
<1>3. focus' \in [pc : {"none", "done"}] \union [pc : {"asked"}, n : Notes]
  BY DEF Panel!OpenLink, Panel!ServeLink, Panel!CancelLink
<1>4. \A b \in answer' :
          \/ b \in answer
          \/ /\ b \in NoteAnswer /\ b.row.state = "active" /\ b.row = note[b.n]
             /\ Leads(b.row, note[b.n])
  <2> SUFFICES ASSUME focus.pc = "asked", note[focus.n].state = "active"
               PROVE  /\ fetched \in NoteAnswer /\ fetched.row.state = "active"
                      /\ fetched.row = note[fetched.n] /\ Leads(fetched.row, note[fetched.n])
    BY <1>2
  <2>1. focus.n \in Notes /\ note[focus.n] \in NoteRow
    BY DEF NotesTypes
  <2> QED  BY <2>1 DEF NoteAnswer, Panel!Answer, Leads, NoteRow
<1>5. NotesTypes'
  BY <1>1, <1>3, <1>4 DEF NotesTypes, NoteRow, NoteChange, NoteAnswer, NoteTxn, CatchUpAsked,
     CatchUpRead
<1>6. NoteAnswerInv'
  BY <1>1, <1>4 DEF NoteAnswerInv, AnswerNews, NoteComing
<1> QED  BY <1>1, <1>5, <1>6 DEF NoteRowsInv, NoteFeedInv, CatchUpInv, SkippedInv, PanelInv,
            NoteAgrees, NoteComing

\* The operator deletes a note: the panel takes it away before it is deleted.
LEMMA DeleteOwnInv ==
    ASSUME NotesInv, NEW t \in Slots, NEW n \in Notes, Panel!DeleteOwn(t, n) PROVE NotesInv'
<1> USE DEF NotesInv
<1> DEFINE x == [op |-> "delete", n |-> n, own |-> TRUE, stamp |-> clock + 1]
<1>1. /\ clock' = clock + 1 /\ txn[t].op = "none" /\ txn' = [txn EXCEPT ![t] = x]
      /\ list[n] # Panel!NoNote /\ tombs' = tombs \union {n}
      /\ list' = [list EXCEPT ![n] = Panel!NoNote]
      /\ catchUp' = Panel!Idle /\ notesOwed' = (notesOwed \/ catchUp.pc # "none")
      /\ UNCHANGED <<note, watermark, focus, answer, since, skipped, astray, link, feed>>
  BY DEF Panel!DeleteOwn, Panel!Begin, Panel!channelVars
<1>2. clock' \in Nat /\ clock' >= clock /\ clock \in Nat
  BY <1>1 DEF NotesTypes
<1>3. x \in NoteTxn'
  BY <1>1, <1>2 DEF NoteTxn
<1>4. NotesTypes'
  <2>1. list' \in [Notes -> [stamp : 0..clock', body : 0..clock']]
    <3>1. Panel!NoNote \in [stamp : 0..clock', body : 0..clock']
      BY <1>2 DEF Panel!NoNote
    <3>2. \A m \in Notes : list[m] \in [stamp : 0..clock', body : 0..clock']
      BY <1>2, NotesLater DEF NotesTypes
    <3> QED  BY <1>1, <3>1, <3>2 DEF NotesTypes
  <2>2. txn' \in [Slots -> {Panel!NoTxn} \union NoteTxn']
    BY <1>1, <1>2, <1>3, NotesLater DEF NotesTypes
  <2> QED  BY <1>1, <1>2, <2>1, <2>2, NotesLater DEF NotesTypes
<1>5. note[n].state # "absent"
  BY <1>1 DEF NoteRowsInv
<1>6. \A u \in Slots :
           /\ txn[u].op = "delete" => txn'[u] = txn[u]
           /\ txn'[u] # txn[u] => u = t /\ txn'[u] = x
  BY <1>1 DEF NotesTypes
<1>7. txn'[t] = x
  BY <1>1 DEF NotesTypes
<1>8. NoteRowsInv'
  <2>1. \A m \in Notes : note[m].state = "absent" => list'[m] = Panel!NoNote /\ note[m].order = 0
    BY <1>1 DEF NoteRowsInv, NotesTypes
  <2>2. \A u \in Slots : txn'[u].op = "delete" /\ txn'[u].own => note[txn'[u].n].state # "absent"
    BY <1>5, <1>6 DEF NoteRowsInv
  <2>3. \A m \in tombs' :
             \/ note[m].state = "deleted"
             \/ \E u \in Slots : txn'[u].op = "delete" /\ txn'[u].own /\ txn'[u].n = m
    BY <1>1, <1>6, <1>7 DEF NoteRowsInv
  <2> QED  BY <1>1, <2>1, <2>2, <2>3 DEF NoteRowsInv
<1>9. NoteFeedInv' /\ CatchUpInv' /\ SkippedInv' /\ NoteAnswerInv'
  BY <1>1 DEF NoteFeedInv, CatchUpInv, SkippedInv, NoteAnswerInv, AnswerNews, NoteComing, Panel!Idle
<1>10. PanelInv'
  <2> SUFFICES ASSUME ~notesOwed, catchUp.pc = "none" PROVE PanelInv'
    BY <1>1 DEF PanelInv
  <2>1. ASSUME NEW m \in Notes, m \notin astray, m \notin skipped PROVE NoteAgrees(m)'
    BY <1>1, <2>1 DEF NoteAgrees, PanelInv, NoteComing, NotesTypes
  <2> QED  BY <1>1, <2>1 DEF PanelInv, Panel!Idle
<1> QED  BY <1>4, <1>8, <1>9, <1>10

LEMMA NotesStep == NotesInv /\ [Panel!Next]_Panel!vars => NotesInv'
<1> SUFFICES ASSUME NotesInv, [Panel!Next]_Panel!vars PROVE NotesInv'
  OBVIOUS
<1>1. CASE UNCHANGED Panel!vars
  <2> USE <1>1 DEF Panel!vars, Panel!notesVars, Panel!channelVars, NotesInv
  <2>1. NotesTypes'
    BY DEF NotesTypes, NoteRow, NoteChange, NoteAnswer, NoteTxn, CatchUpAsked, CatchUpRead
  <2> QED  BY <2>1 DEF NoteRowsInv, NoteFeedInv, CatchUpInv, SkippedInv, PanelInv, NoteAnswerInv,
              AnswerNews, NoteAgrees, NoteComing
<1>2. ASSUME NEW t \in Slots, NEW n \in Notes, NEW own \in BOOLEAN, NEW op \in {"create", "edit"},
             Panel!BeginWrite(t, op, n, own)
      PROVE  NotesInv'
  BY <1>2, BeginWriteInv
<1>3. ASSUME NEW t \in Slots, NEW n \in Notes,
             Panel!BeginWrite(t, "delete", n, FALSE) PROVE NotesInv'
  BY <1>3, BeginWriteInv
<1> QED  BY <1>1, <1>2, <1>3, CommitWriteInv, GiveUpInv, AskCatchUpInv, ServeCatchUpInv,
            ApplyCatchUpInv, BreakPanelInv, NoteChangeInv,
            ApplyNoteAnswerInv, LinkInv, DeleteOwnInv DEF Panel!Next

LEMMA NotesProperties == NotesInv => Panel!TypeOK /\ Panel!SkippedIsOvertaken /\ Panel!PanelSettles
<1> SUFFICES ASSUME NotesInv PROVE Panel!TypeOK /\ Panel!SkippedIsOvertaken /\ Panel!PanelSettles
  OBVIOUS
<1>1. Panel!TypeOK
  BY DEF NotesInv, NotesTypes, Panel!TypeOK, NoteRow
<1>2. Panel!SkippedIsOvertaken
  BY DEF NotesInv, NotesTypes, SkippedInv, NoteRowsInv, Panel!SkippedIsOvertaken
<1>3. Panel!PanelSettles
  <2> SUFFICES ASSUME Panel!Quiet, ~notesOwed, NEW n \in Notes \ (astray \union skipped)
               PROVE  list[n] = IF note[n].state = "active" THEN Panel!Shown(note[n])
                                ELSE Panel!NoNote
    BY DEF Panel!PanelSettles
  <2>1. NoteAgrees(n) /\ ~NoteComing(n)
    BY DEF NotesInv, PanelInv, Panel!Quiet, Panel!Settled, NoteComing
  <2>2. n \in tombs => note[n].state = "deleted"
    BY DEF NotesInv, NoteRowsInv, Panel!Quiet
  <2> QED  BY <2>1, <2>2 DEF NoteAgrees
<1> QED  BY <1>1, <1>2, <1>3

\* What every step of the dashboard does in the panel's scene.
LEMMA PanelKinds ==
    ASSUME [Next]_vars
    PROVE  scene' = scene /\ (scene = "panel" => [Panel!Next]_Panel!vars)
  BY DEF Next, vars, Panel!vars, panelVars, channelVars, Panel!notesVars, Panel!channelVars

LEMMA PanelScene == Spec => [](scene = "panel" => NotesInv)
<1>1. Init => (scene = "panel" => NotesInv)
  BY NotesInit DEF Init
<1>2. (scene = "panel" => NotesInv) /\ [Next]_vars => (scene = "panel" => NotesInv)'
  BY NotesStep, PanelKinds
<1> QED  BY <1>1, <1>2, PTL DEF Spec

\* SkippedIsOvertaken: a catch-up leaves a deleted note in the list only if it
\* had no watermark, or if the delete began before a change the panel had seen.
THEOREM SkippedNotesAreOvertaken == Spec => []SkippedIsOvertaken
<1>1. (scene = "panel" => NotesInv) => SkippedIsOvertaken
  BY NotesProperties DEF SkippedIsOvertaken
<1> QED  BY <1>1, PanelScene, PTL

\* PanelSettles: when nothing is under way, and a catch-up has got through since
\* the channel was joined, the panel shows what is stored.  Two kinds of notes are
\* left out: those of which the panel preferred an older row to a newer one it had
\* heard (astray: an overtaken answer, or a change turned away for its stamp), and
\* deleted ones that the last catch-up passed over (skipped, of which
\* SkippedNotesAreOvertaken says when).
THEOREM PanelShowsWhatIsStored == Spec => []PanelSettles
<1>1. (scene = "panel" => NotesInv) => PanelSettles
  BY NotesProperties DEF PanelSettles
<1> QED  BY <1>1, PanelScene, PTL
-----------------------------------------------------------------------------
(***************************************************************************)
(* The operator's inbox, for any conversations, number of transactions and *)
(* faults of the channel and the refreshes.                                *)
(*                                                                         *)
(* A count of unread messages Reaches what is stored if the member's       *)
(* cursor is on its way, or if he has none and the messages on their way   *)
(* are just those the count lacks, or if it is right already.  Every entry *)
(* of the list, and every row of an answer that was read, does, except for *)
(* the conversations that late, kept and older name.                       *)
(***************************************************************************)

ConvRow == {s \in [mine : BOOLEAN, messages : Nat \ {0}, read : Nat \union {-1}] :
               s.read <= s.messages}
ShownEntry == [shown : {TRUE}, unread : Nat, labelled : BOOLEAN]
Listing == [Conversations -> {Inbox!NoItem} \union ShownEntry]
ChangeTypes == {"message", "conversation", "read"}
ConvChange == [type : ChangeTypes, c : Conversations, at : 1..changes,
               row : ConvRow]
RefreshAsked == [pc : {"asked"}, before : Listing]
RefreshRead == [pc : {"read"}, before : Listing, convs : [Conversations -> ConvRow],
                at : 0..changes, joined : BOOLEAN, older : SUBSET Conversations]

InboxTypes ==
    /\ changes \in Nat
    /\ conv \in [Conversations -> ConvRow]
    /\ entry \in Listing
    /\ lastRead \in [Conversations -> Nat \union {-1}]
    /\ feed \in Seq(ConvChange)
    /\ refresh \in {Inbox!Idle} \union RefreshAsked \union RefreshRead
    /\ due \in BOOLEAN /\ timer \in BOOLEAN
    /\ newest \in 0..changes
    /\ late \subseteq Conversations /\ kept \subseteq Conversations /\ owed \in BOOLEAN

\* The change at place i of the feed is of this type and conversation.
Of(i, type, c) == feed[i].type = type /\ feed[i].c = c

\* The last change of each type agrees with what is stored, the messages are in
\* order, and a member who has read anything is told of every message.
ConvFeedInv ==
    /\ link = "down" => feed = <<>>
    /\ \A i \in DOMAIN feed, c \in Conversations :
          /\ Of(i, "conversation", c) =>
                \/ feed[i].row.mine = conv[c].mine
                \/ \E j \in DOMAIN feed : j > i /\ Of(j, "conversation", c)
          /\ Of(i, "read", c) =>
                /\ conv[c].read # -1
                /\ \/ Inbox!Unread(feed[i].row) = Inbox!Unread(conv[c])
                   \/ \E j \in DOMAIN feed : j > i /\ Of(j, "read", c)
          /\ Of(i, "message", c) =>
                /\ feed[i].row.messages <= conv[c].messages
                /\ conv[c].read = -1 \/ \E j \in DOMAIN feed : j > i /\ Of(j, "read", c)
                /\ \A j \in DOMAIN feed :
                      j > i /\ Of(j, "message", c) => feed[i].row.messages < feed[j].row.messages

UnreadInv ==
    \A c \in Conversations : conv[c].read = -1 =>
        lastRead[c] = -1 /\ (refresh.pc = "read" => refresh.convs[c].read = -1)

\* Message m of c, that was sent after time t, is on its way.
Underway(m, c, t) ==
    \E i \in DOMAIN feed :
        Of(i, "message", c) /\ feed[i].at > t /\ feed[i].row.messages = m

\* A count of n for c is right, or the changes in the feed will make it so: those
\* of the member's cursor after time s, those of messages after time t.
Reaches(c, n, t, s) ==
    \/ \E i \in DOMAIN feed : Of(i, "read", c) /\ feed[i].at > s
    \/ /\ conv[c].read = -1 /\ n <= conv[c].messages
       /\ \A m \in Nat : Underway(m, c, t) <=> n < m /\ m <= conv[c].messages
    \/ conv[c].read # -1 /\ n = Inbox!Unread(conv[c])

Reassigned(c) == \E i \in DOMAIN feed : Of(i, "conversation", c)

RefreshInv ==
    refresh.pc = "read" /\ refresh.joined =>
        /\ link # "down"
        /\ \A c \in Conversations :
              /\ \/ Reassigned(c) \/ timer
                 \/ refresh.convs[c].mine = conv[c].mine
                 \/ conv[c].mine /\ entry[c].shown
              /\ \/ c \in refresh.older
                 \/ Reaches(c, Inbox!Unread(refresh.convs[c]), refresh.at, refresh.at)

\* While no refresh is to come, the list is right or will be.
Calm == refresh.pc = "none" /\ ~due /\ ~timer

Correct(c) ==
    /\ \/ Reassigned(c)
       \/ IF conv[c].mine THEN entry[c].shown /\ (c \notin kept => entry[c].labelled)
          ELSE entry[c].shown => c \in kept
    /\ entry[c].shown /\ c \notin late \union kept => Reaches(c, entry[c].unread, newest, 0)

InboxListInv ==
    ~owed =>
        /\ link # "down"
        /\ refresh.pc = "read" => refresh.joined
        /\ Calm => \A c \in Conversations : Correct(c)

InboxInv == InboxTypes /\ ConvFeedInv /\ UnreadInv /\ RefreshInv /\ InboxListInv
-----------------------------------------------------------------------------
LEMMA EntryFacts ==
    ASSUME NEW x \in {Inbox!NoItem} \union ShownEntry
    PROVE  /\ x.shown \in BOOLEAN
           /\ x.shown => x \in ShownEntry /\ x.unread \in Nat /\ x.labelled \in BOOLEAN
<1>1. CASE x = Inbox!NoItem
  BY <1>1 DEF Inbox!NoItem
<1>2. CASE x \in ShownEntry
  BY <1>2 DEF ShownEntry
<1> QED  BY <1>1, <1>2

LEMMA TypesOfChanges ==
    "message" \in ChangeTypes /\ "conversation" \in ChangeTypes /\ "read" \in ChangeTypes
BY DEF ChangeTypes

LEMMA ConvRowFacts ==
    ASSUME NEW s \in ConvRow
    PROVE  /\ s.mine \in BOOLEAN /\ s.messages \in Nat /\ s.messages >= 1
           /\ s.read \in Nat \union {-1} /\ s.read <= s.messages
           /\ Inbox!Unread(s) \in Nat /\ Inbox!Row(s) \in ShownEntry
           /\ s.read = -1 => Inbox!Unread(s) = s.messages
BY DEF ConvRow, Inbox!Unread, Inbox!Row, Inbox!Item, ShownEntry

\* What is in a feed with more changes.
LEMMA Appended ==
    ASSUME NEW S, NEW s \in Seq(S), NEW t \in Seq(S)
    PROVE  /\ s \o t \in Seq(S) /\ Len(s) \in Nat /\ Len(t) \in Nat
           /\ DOMAIN s = 1..Len(s) /\ DOMAIN t = 1..Len(t) /\ DOMAIN (s \o t) = 1..(Len(s) + Len(t))
           /\ \A i \in 1..Len(s) : (s \o t)[i] = s[i]
           /\ \A i \in 1..Len(t) : (s \o t)[Len(s) + i] = t[i]
OBVIOUS

LEMMA InboxLater ==
    ASSUME InboxTypes, changes' \in Nat, changes' >= changes
    PROVE  /\ 0..changes \subseteq 0..changes' /\ 1..changes \subseteq 1..changes'
           /\ ConvChange \subseteq ConvChange' /\ RefreshAsked \subseteq RefreshAsked'
           /\ RefreshRead \subseteq RefreshRead' /\ Seq(ConvChange) \subseteq Seq(ConvChange')
<1>1. 0..changes \subseteq 0..changes' /\ 1..changes \subseteq 1..changes'
  BY DEF InboxTypes
<1>2. ConvChange \subseteq ConvChange' /\ RefreshAsked \subseteq RefreshAsked'
  BY <1>1 DEF ConvChange, RefreshAsked, Listing
<1>3. RefreshRead \subseteq RefreshRead'
  BY <1>1 DEF RefreshRead, Listing
<1> QED  BY <1>1, <1>2, <1>3

LEMMA InboxInit == Inbox!Init => InboxInv
<1> SUFFICES ASSUME Inbox!Init PROVE InboxInv
  OBVIOUS
<1>1. conv \in [Conversations -> ConvRow]
  BY DEF Inbox!Init, ConvRow
<1>2. entry \in Listing
  <2>1. \A c \in Conversations : Inbox!Row(conv[c]) \in ShownEntry
    BY <1>1, ConvRowFacts
  <2> QED  BY <2>1 DEF Inbox!Init, Listing
<1>3. InboxTypes
  <2>1. lastRead \in [Conversations -> Nat \union {-1}]
    BY DEF Inbox!Init
  <2>2. feed \in Seq(ConvChange)
    BY DEF Inbox!Init, Inbox!ChannelInit
  <2>3. changes = 0 /\ newest = 0 /\ refresh = Inbox!Idle /\ due = FALSE /\ timer = FALSE
        /\ late = {} /\ kept = {} /\ owed = TRUE
    BY DEF Inbox!Init
  <2>4. changes \in Nat /\ newest \in 0..changes
    BY <2>3
  <2> QED  BY <1>1, <1>2, <2>1, <2>2, <2>3, <2>4 DEF InboxTypes
<1> QED  BY <1>3 DEF Inbox!Init, Inbox!ChannelInit, InboxInv, ConvFeedInv, UnreadInv, RefreshInv,
            InboxListInv, Inbox!Idle

\* A transaction makes s of the row of c and publishes these changes of it.
LEMMA CommitChangeInv ==
    ASSUME InboxInv, NEW c \in Conversations, NEW s \in ConvRow, NEW new,
           Inbox!Commit(c, s, new), new \in Seq(ConvChange'),
           \A i \in DOMAIN new : new[i].c = c /\ new[i].at = changes + 1 /\ new[i].row = s,
           \/ s.mine = conv[c].mine
           \/ \E i \in DOMAIN new : new[i].type = "conversation",
           \/ \E i \in DOMAIN new : new[i].type = "read"
           \/ s.read = -1 /\ conv[c].read = -1
           \/ s.read # -1 /\ conv[c].read # -1 /\ Inbox!Unread(s) = Inbox!Unread(conv[c]),
           \A i \in DOMAIN new : new[i].type = "read" => s.read # -1,
           \/ s.messages = conv[c].messages /\ \A i \in DOMAIN new : new[i].type # "message"
           \/ /\ s.messages = conv[c].messages + 1
              /\ 1 \in DOMAIN new /\ new[1].type = "message"
              /\ \A i \in DOMAIN new : new[i].type = "message" => i = 1
              /\ s.read = -1 \/ \E i \in DOMAIN new : new[i].type = "read"
    PROVE  InboxInv'
<1> USE DEF InboxInv
<1>1. /\ changes' = changes + 1 /\ conv' = [conv EXCEPT ![c] = s]
      /\ feed' = IF link = "down" THEN feed ELSE feed \o new
      /\ UNCHANGED <<entry, lastRead, refresh, due, timer, newest, late, kept, owed, link>>
  BY DEF Inbox!Commit, Inbox!Publish
<1>2. changes \in Nat /\ changes' \in Nat /\ changes' >= changes
  BY <1>1 DEF InboxTypes
<1>3. InboxTypes'
  <2>1. feed' \in Seq(ConvChange') /\ conv' \in [Conversations -> ConvRow]
    BY <1>1, <1>2, InboxLater DEF InboxTypes
  <2> QED  BY <1>1, <1>2, <2>1, InboxLater DEF InboxTypes
<1>4. /\ conv'[c] = s /\ \A d \in Conversations \ {c} : conv'[d] = conv[d]
      /\ \A d \in Conversations : conv[d] \in ConvRow
      /\ s.messages \in Nat /\ conv[c].messages \in Nat /\ conv[c].messages <= s.messages
  BY <1>1, ConvRowFacts DEF InboxTypes
<1>5. UnreadInv'
  BY <1>1, <1>4 DEF UnreadInv
<1>6. CASE link = "down"
  <2>1. feed' = <<>> /\ DOMAIN feed' = {}
    BY <1>1, <1>6 DEF ConvFeedInv
  <2> QED  BY <1>1, <1>3, <1>5, <1>6, <2>1 DEF ConvFeedInv, RefreshInv, InboxListInv
<1>7. CASE link # "down"
  <2>0. PICK L : L = Len(feed)
    OBVIOUS
  <2>1. /\ feed' = feed \o new /\ L \in Nat /\ Len(new) \in Nat
        /\ DOMAIN feed = 1..L /\ DOMAIN new = 1..Len(new)
        /\ DOMAIN feed' = 1..(L + Len(new))
        /\ \A i \in 1..L : feed'[i] = feed[i]
        /\ \A i \in 1..Len(new) : feed'[L + i] = new[i]
    <3>1. feed \in Seq(ConvChange')
      BY <1>2, InboxLater DEF InboxTypes
    <3> QED  BY <1>1, <1>7, <2>0, <3>1, Appended
  <2>2. ASSUME NEW i \in DOMAIN feed'
        PROVE  \/ i \in DOMAIN feed /\ feed'[i] = feed[i] /\ feed[i] \in ConvChange
               \/ i - L \in DOMAIN new /\ feed'[i] = new[i - L] /\ i > L
    <3>1. i \in 1..L \/ i - L \in 1..Len(new)
      BY <2>1
    <3>2. i - L \in 1..Len(new) => i = L + (i - L)
      BY <2>1
    <3> QED  BY <2>1, <3>1, <3>2 DEF InboxTypes
  <2>3. ASSUME NEW i \in DOMAIN feed PROVE i \in DOMAIN feed' /\ feed'[i] = feed[i]
    BY <2>1
  <2>4. ASSUME NEW k \in DOMAIN new
        PROVE  /\ L + k \in DOMAIN feed' /\ feed'[L + k] = new[k]
               /\ \A i \in DOMAIN feed : L + k > i
    BY <2>1
  <2>5. \A i \in DOMAIN new, type \in ChangeTypes : new[i].type = type => Of(L + i, type, c)'
    BY <2>4 DEF Of, ChangeTypes
  <2>6. \A d \in Conversations, type \in ChangeTypes, i \in DOMAIN feed : Of(i, type, d) <=> Of(i, type, d)'
    BY <2>3 DEF Of
  <2>7. ConvFeedInv'
    <3>1. ASSUME NEW i \in DOMAIN feed', NEW d \in Conversations, Of(i, "conversation", d)'
          PROVE  \/ feed'[i].row.mine = conv'[d].mine
                 \/ \E j \in DOMAIN feed' : j > i /\ Of(j, "conversation", d)'
      <4>1. CASE i \in DOMAIN feed /\ feed'[i] = feed[i]
        BY <1>4, <2>3, <2>4, <2>5, <2>6, TypesOfChanges, <3>1, <4>1 DEF ConvFeedInv, Of
      <4>2. CASE i - L \in DOMAIN new /\ feed'[i] = new[i - L]
        BY <1>4, <3>1, <4>2 DEF Of
      <4> QED  BY <2>2, <4>1, <4>2
    <3>2. ASSUME NEW i \in DOMAIN feed', NEW d \in Conversations, Of(i, "read", d)'
          PROVE  /\ conv'[d].read # -1
                 /\ \/ Inbox!Unread(feed'[i].row) = Inbox!Unread(conv'[d])
                    \/ \E j \in DOMAIN feed' : j > i /\ Of(j, "read", d)'
      <4>1. CASE i \in DOMAIN feed /\ feed'[i] = feed[i]
        <5>1. /\ conv[d].read # -1
              /\ \/ Inbox!Unread(feed[i].row) = Inbox!Unread(conv[d])
                 \/ \E j \in DOMAIN feed : j > i /\ Of(j, "read", d)
          BY <2>6, TypesOfChanges, <3>2, <4>1 DEF ConvFeedInv
        <5>2. CASE d = c
          BY <1>4, <2>3, <2>4, <2>5, <2>6, TypesOfChanges, <4>1, <5>1, <5>2
        <5>3. CASE d # c
          BY <1>4, <2>3, <2>6, TypesOfChanges, <4>1, <5>1, <5>3
        <5> QED  BY <5>2, <5>3
      <4>2. CASE i - L \in DOMAIN new /\ feed'[i] = new[i - L]
        BY <1>4, <3>2, <4>2 DEF Of
      <4> QED  BY <2>2, <4>1, <4>2
    <3>3. ASSUME NEW i \in DOMAIN feed', NEW d \in Conversations, Of(i, "message", d)'
          PROVE  /\ feed'[i].row.messages <= conv'[d].messages
                 /\ conv'[d].read = -1 \/ \E j \in DOMAIN feed' : j > i /\ Of(j, "read", d)'
                 /\ \A j \in DOMAIN feed' :
                       j > i /\ Of(j, "message", d)' => feed'[i].row.messages < feed'[j].row.messages
      <4>1. CASE i \in DOMAIN feed /\ feed'[i] = feed[i] /\ feed[i] \in ConvChange
        <5>1. /\ feed[i].row.messages <= conv[d].messages
              /\ conv[d].read = -1 \/ \E j \in DOMAIN feed : j > i /\ Of(j, "read", d)
              /\ \A j \in DOMAIN feed :
                    j > i /\ Of(j, "message", d) => feed[i].row.messages < feed[j].row.messages
          BY <2>6, TypesOfChanges, <3>3, <4>1 DEF ConvFeedInv
        <5>2. feed[i].row.messages \in Nat /\ conv[d].messages \in Nat
          BY <1>4, <4>1, ConvRowFacts DEF ConvChange
        <5>3. feed'[i].row.messages <= conv'[d].messages
          BY <1>4, <4>1, <5>1, <5>2
        <5>4. conv'[d].read = -1 \/ \E j \in DOMAIN feed' : j > i /\ Of(j, "read", d)'
          BY <1>4, <2>3, <2>4, <2>5, <2>6, TypesOfChanges, <4>1, <5>1
        <5>5. ASSUME NEW j \in DOMAIN feed', j > i, Of(j, "message", d)'
              PROVE  feed'[i].row.messages < feed'[j].row.messages
          <6>1. CASE j \in DOMAIN feed /\ feed'[j] = feed[j]
            BY <2>6, TypesOfChanges, <4>1, <5>1, <5>5, <6>1
          <6>2. CASE j - L \in DOMAIN new /\ feed'[j] = new[j - L]
            <7>1. d = c /\ feed'[j].row = s /\ s.messages = conv[c].messages + 1
              BY <5>5, <6>2 DEF Of
            <7> QED  BY <1>4, <4>1, <5>1, <5>2, <7>1
          <6> QED  BY <2>2, <6>1, <6>2
        <5> QED  BY <5>3, <5>4, <5>5
      <4>2. CASE i - L \in DOMAIN new /\ feed'[i] = new[i - L] /\ i > L
        <5>1. d = c /\ feed'[i].row = s /\ i = L + 1 /\ new[1].type = "message"
          BY <2>1, <3>3, <4>2 DEF Of
        <5>2. \A k \in DOMAIN new : new[k].type = "read" => L + k > i
          BY <2>1, <4>2, <5>1
        <5>3. s.read = -1 \/ \E j \in DOMAIN feed' : j > i /\ Of(j, "read", c)'
          BY TypesOfChanges, <2>4, <2>5, <3>3, <4>2, <5>2 DEF Of
        <5>4. ASSUME NEW j \in DOMAIN feed', j > i, Of(j, "message", d)' PROVE FALSE
          <6>1. j - L \in DOMAIN new /\ feed'[j] = new[j - L]
            BY <2>1, <2>2, <5>1, <5>4
          <6> QED  BY <2>1, <3>3, <4>2, <5>1, <5>4, <6>1 DEF Of
        <5> QED  BY <1>4, <5>1, <5>3, <5>4
      <4> QED  BY <2>2, <4>1, <4>2
    <3> QED  BY <1>1, <1>7, <3>1, <3>2, <3>3 DEF ConvFeedInv
  <2>8. ASSUME NEW d \in Conversations, NEW n \in Nat, NEW t \in 0..changes, NEW u \in 0..changes,
               Reaches(d, n, t, u)
        PROVE  Reaches(d, n, t, u)'
    <3>1. CASE \E i \in DOMAIN feed : Of(i, "read", d) /\ feed[i].at > u
      BY <2>3, <2>6, TypesOfChanges, <3>1 DEF Reaches
    <3>2. CASE d = c /\ \E i \in DOMAIN new : new[i].type = "read"
      <4>1. changes + 1 > u
        BY <1>2
      <4> QED  BY TypesOfChanges, <2>4, <2>5, <3>2, <4>1 DEF Reaches
    <3>3. CASE d # c /\ ~(\E i \in DOMAIN feed : Of(i, "read", d) /\ feed[i].at > u)
      <4>1. \A m \in Nat : Underway(m, d, t) <=> Underway(m, d, t)'
        BY <2>2, <2>3, <2>6, TypesOfChanges, <3>3 DEF Underway, Of
      <4> QED  BY <1>4, <2>8, <3>3, <4>1 DEF Reaches
    <3>4. CASE /\ d = c /\ ~(\E i \in DOMAIN new : new[i].type = "read")
               /\ conv[c].read # -1 /\ n = Inbox!Unread(conv[c])
      BY <1>4, <3>4 DEF Reaches
    <3>5. CASE /\ d = c /\ ~(\E i \in DOMAIN new : new[i].type = "read")
               /\ conv[c].read = -1 /\ n <= conv[c].messages
               /\ \A m \in Nat : Underway(m, c, t) <=> n < m /\ m <= conv[c].messages
      <4>1. s.read = -1
        BY <3>5
      <4>2. \A m \in Nat : Underway(m, c, t) => Underway(m, c, t)'
        BY <2>3, <2>6, TypesOfChanges DEF Underway
      <4>3. CASE s.messages = conv[c].messages /\ \A i \in DOMAIN new : new[i].type # "message"
        <5>1. \A m \in Nat : Underway(m, c, t)' => Underway(m, c, t)
          BY <2>2, <2>6, TypesOfChanges, <4>3 DEF Underway, Of
        <5> QED  BY <1>4, <3>5, <4>1, <4>2, <4>3, <5>1 DEF Reaches
      <4>4. CASE s.messages = conv[c].messages + 1 /\ 1 \in DOMAIN new /\ new[1].type = "message"
        <5>1. Underway(s.messages, c, t)'
          <6>1. changes + 1 > t
            BY <1>2
          <6> QED  BY TypesOfChanges, <2>4, <2>5, <4>4, <6>1 DEF Underway
        <5>2. \A m \in Nat : Underway(m, c, t)' => Underway(m, c, t) \/ m = s.messages
          BY <2>2, <2>6, TypesOfChanges DEF Underway, Of
        <5>3. \A m \in Nat : Underway(m, c, t)' <=> n < m /\ m <= s.messages
          BY <1>4, <3>5, <4>2, <4>4, <5>1, <5>2
        <5> QED  BY <1>4, <3>5, <4>1, <4>4, <5>3 DEF Reaches
      <4> QED  BY <4>3, <4>4
    <3> QED  BY <2>8, <3>1, <3>2, <3>3, <3>4, <3>5 DEF Reaches
  <2>9. \A d \in Conversations : /\ Reassigned(d) => Reassigned(d)'
                                 /\ conv'[d].mine = conv[d].mine \/ Reassigned(d)'
    BY <1>4, <2>3, <2>4, <2>5, <2>6, TypesOfChanges DEF Reassigned
  <2>10. RefreshInv'
    <3> SUFFICES ASSUME refresh.pc = "read", refresh.joined PROVE RefreshInv'
      BY <1>1 DEF RefreshInv
    <3>1. /\ refresh.at \in 0..changes
          /\ \A d \in Conversations : Inbox!Unread(refresh.convs[d]) \in Nat
      BY ConvRowFacts DEF InboxTypes, Inbox!Idle, RefreshAsked, RefreshRead
    <3> QED  BY <1>1, <1>7, <2>8, <2>9, <3>1 DEF RefreshInv
  <2>11. InboxListInv'
    <3>1. \A d \in Conversations : entry[d].shown => entry[d].unread \in Nat
      BY EntryFacts DEF InboxTypes, Listing
    <3>2. 0 \in 0..changes /\ newest \in 0..changes
      BY DEF InboxTypes
    <3>3. \A d \in Conversations : Correct(d) => Correct(d)'
      BY <1>1, <2>8, <2>9, <3>1, <3>2 DEF Correct
    <3> QED  BY <1>1, <1>7, <3>3 DEF InboxListInv, Calm
  <2> QED  BY <1>3, <1>5, <2>7, <2>10, <2>11
<1> QED  BY <1>6, <1>7

\* The transactions of the server.
LEMMA ServerChangeInv ==
    ASSUME InboxInv, NEW c \in Conversations,
           Inbox!VisitorSends(c) \/ Inbox!Reassign(c) \/ Inbox!MarkRead(c)
    PROVE  InboxInv'
<1> USE DEF InboxInv
<1>1. /\ conv[c] \in ConvRow /\ conv[c].messages \in Nat /\ conv[c].messages >= 1
      /\ conv[c].mine \in BOOLEAN /\ conv[c].read \in Nat \union {-1} /\ conv[c].read <= conv[c].messages
      /\ changes \in Nat
  BY ConvRowFacts DEF InboxTypes
<1>2. ASSUME NEW s \in ConvRow, NEW type \in ChangeTypes, changes' = changes + 1
      PROVE  /\ Inbox!Change(type, c, s) \in ConvChange'
             /\ Inbox!Change(type, c, s).type = type /\ Inbox!Change(type, c, s).c = c
             /\ Inbox!Change(type, c, s).at = changes + 1 /\ Inbox!Change(type, c, s).row = s
  BY <1>1, <1>2 DEF Inbox!Change, ConvChange
<1>3. CASE Inbox!VisitorSends(c)
  <2> DEFINE s == [conv[c] EXCEPT !.messages = @ + 1]
             both == <<Inbox!Change("message", c, s), Inbox!Change("conversation", c, s)>>
             reading == IF s.read = -1 THEN <<>> ELSE <<Inbox!Change("read", c, s)>>
  <2>1. Inbox!Commit(c, s, both \o reading)
    BY <1>3 DEF Inbox!VisitorSends
  <2>2. changes' = changes + 1
    BY <2>1 DEF Inbox!Commit
  <2>3. /\ s \in ConvRow /\ s.mine = conv[c].mine /\ s.read = conv[c].read
        /\ s.messages = conv[c].messages + 1
    BY <1>1 DEF ConvRow
  <2> HIDE DEF s
  <2>4. /\ both \in Seq(ConvChange') /\ Len(both) = 2
        /\ both[1] = Inbox!Change("message", c, s) /\ both[2] = Inbox!Change("conversation", c, s)
    BY <1>2, <2>2, <2>3, TypesOfChanges
  <2>5. CASE s.read = -1
    <3>1. both \o reading = both
      BY <2>4, <2>5
    <3>2. DOMAIN both = {1, 2}
      BY <2>4
    <3> HIDE DEF both, reading
    <3>3. \A i \in {1, 2} : /\ both[i].c = c /\ both[i].at = changes + 1 /\ both[i].row = s
                            /\ both[i].type = IF i = 1 THEN "message" ELSE "conversation"
      BY <1>2, <2>2, <2>3, <2>4, TypesOfChanges
    <3>4. /\ \A i \in {1, 2} : both[i].type # "read" /\ (both[i].type = "message" => i = 1)
          /\ both[1].type = "message"
      BY <3>3
    <3>5. Inbox!Commit(c, s, both) /\ both \in Seq(ConvChange')
      BY <2>1, <2>4, <3>1
    <3>6. /\ \A i \in DOMAIN both : both[i].c = c /\ both[i].at = changes + 1 /\ both[i].row = s
          /\ \A i \in DOMAIN both : both[i].type = "read" => s.read # -1
          /\ \A i \in DOMAIN both : both[i].type = "message" => i = 1
          /\ 1 \in DOMAIN both /\ both[1].type = "message"
      BY <3>2, <3>3, <3>4
    <3>7. s.read = -1 /\ conv[c].read = -1
      BY <2>3, <2>5
    <3> QED  BY <2>3, <3>5, <3>6, <3>7, CommitChangeInv
  <2>6. CASE s.read # -1
    <3> DEFINE all == both \o reading
    <3>1. reading = <<Inbox!Change("read", c, s)>>
      BY <2>6
    <3>2. /\ all \in Seq(ConvChange') /\ DOMAIN all = {1, 2, 3}
          /\ all[1] = Inbox!Change("message", c, s) /\ all[2] = Inbox!Change("conversation", c, s)
          /\ all[3] = Inbox!Change("read", c, s)
      BY <1>2, <2>2, <2>3, <2>4, <3>1, TypesOfChanges
    <3> HIDE DEF all
    <3>3. \A i \in {1, 2, 3} : /\ all[i].c = c /\ all[i].at = changes + 1 /\ all[i].row = s
                               /\ all[i].type = IF i = 1 THEN "message"
                                                ELSE IF i = 2 THEN "conversation" ELSE "read"
      BY <1>2, <2>2, <2>3, <3>2, TypesOfChanges
    <3>4. /\ all[3].type = "read" /\ all[1].type = "message"
          /\ \A i \in {1, 2, 3} : all[i].type = "message" => i = 1
      BY <3>3
    <3>5. Inbox!Commit(c, s, all)
      BY <2>1 DEF all
    <3> QED  BY <2>3, <2>6, <3>2, <3>3, <3>4, <3>5, CommitChangeInv
  <2> QED  BY <2>5, <2>6
<1>4. ASSUME NEW s \in ConvRow, NEW type \in {"conversation", "read"},
             Inbox!Commit(c, s, <<Inbox!Change(type, c, s)>>), s.messages = conv[c].messages,
             type = "conversation" => s.read = conv[c].read,
             type = "read" => s.mine = conv[c].mine /\ s.read # -1
      PROVE  InboxInv'
  <2> DEFINE new == <<Inbox!Change(type, c, s)>>
  <2>1. changes' = changes + 1 /\ type \in ChangeTypes
    BY <1>4 DEF Inbox!Commit, ChangeTypes
  <2>2. new \in Seq(ConvChange') /\ DOMAIN new = {1} /\ new[1] = Inbox!Change(type, c, s)
    BY <1>2, <2>1
  <2>3. Inbox!Commit(c, s, new)
    BY <1>4
  <2> HIDE DEF new
  <2>4. \A i \in DOMAIN new : /\ new[i].c = c /\ new[i].at = changes + 1 /\ new[i].row = s
                              /\ new[i].type = type /\ new[i].type # "message"
    BY <1>2, <1>4, <2>1, <2>2
  <2>5. type = "conversation" => Inbox!Unread(s) = Inbox!Unread(conv[c])
    BY <1>4 DEF Inbox!Unread
  <2>6. 1 \in DOMAIN new
    BY <2>2
  <2> QED  BY <1>1, <1>4, <2>2, <2>3, <2>4, <2>5, <2>6, CommitChangeInv
<1>5. CASE Inbox!Reassign(c)
  <2> DEFINE s == [conv[c] EXCEPT !.mine = ~@]
  <2>1. s \in ConvRow /\ s.messages = conv[c].messages /\ s.read = conv[c].read
    BY <1>1 DEF ConvRow
  <2>2. Inbox!Commit(c, s, <<Inbox!Change("conversation", c, s)>>)
    BY <1>5 DEF Inbox!Reassign
  <2> HIDE DEF s
  <2> QED  BY <1>4, <2>1, <2>2
<1>6. CASE Inbox!MarkRead(c)
  <2> DEFINE s == [conv[c] EXCEPT !.read = conv[c].messages]
  <2>1. /\ s \in ConvRow /\ s.messages = conv[c].messages /\ s.mine = conv[c].mine
        /\ s.read # -1
    BY <1>1 DEF ConvRow
  <2>2. Inbox!Commit(c, s, <<Inbox!Change("read", c, s)>>)
    BY <1>6 DEF Inbox!MarkRead
  <2> HIDE DEF s
  <2> QED  BY <1>4, <2>1, <2>2
<1> QED  BY <1>3, <1>5, <1>6

\* A refresh is asked for, and nothing else of the list changes.
LEMMA AskRefreshInv ==
    ASSUME InboxInv,
           Inbox!RefreshConnected \/ Inbox!RefreshScheduled \/ Inbox!RefreshAgain PROVE InboxInv'
<1> USE DEF InboxInv
<1>1. /\ refresh' = [pc |-> "asked", before |-> entry]
      /\ UNCHANGED <<conv, changes, entry, lastRead, newest, late, kept, owed, link, feed>>
      /\ due' \in {due, FALSE} /\ timer' \in {timer, FALSE}
  BY DEF Inbox!RefreshConnected, Inbox!RefreshScheduled, Inbox!RefreshAgain, Inbox!AskRefresh,
     Inbox!channelVars
<1>2. InboxTypes'
  <2>1. refresh' \in RefreshAsked /\ due' \in BOOLEAN /\ timer' \in BOOLEAN
    BY <1>1 DEF InboxTypes, RefreshAsked
  <2> QED  BY <1>1, <2>1 DEF InboxTypes, ConvChange, RefreshRead
<1>3. ConvFeedInv'
  BY <1>1 DEF ConvFeedInv, Of
<1>4. UnreadInv' /\ RefreshInv' /\ InboxListInv'
  BY <1>1 DEF UnreadInv, RefreshInv, InboxListInv, Calm
<1> QED  BY <1>2, <1>3, <1>4

LEMMA ServeRefreshInv ==
    ASSUME InboxInv, Inbox!ServeRefresh PROVE InboxInv'
<1> USE DEF InboxInv
<1> DEFINE r == [pc |-> "read", before |-> refresh.before, convs |-> conv, at |-> changes,
                 joined |-> link # "down", older |-> {}]
<1>1. /\ refresh' = r /\ refresh.pc = "asked"
      /\ UNCHANGED <<conv, changes, entry, lastRead, due, timer, newest, late, kept, owed, link, feed>>
  BY DEF Inbox!ServeRefresh, Inbox!channelVars
<1>2. r \in RefreshRead
  <2>1. refresh \in RefreshAsked
    BY <1>1 DEF InboxTypes, Inbox!Idle, RefreshRead
  <2> QED  BY <2>1 DEF RefreshAsked, RefreshRead, InboxTypes
<1>3. InboxTypes'
  BY <1>1, <1>2 DEF InboxTypes, ConvChange, RefreshRead
<1>4. ConvFeedInv'
  BY <1>1 DEF ConvFeedInv, Of
<1>5. UnreadInv'
  BY <1>1 DEF UnreadInv
<1>6. RefreshInv'
  <2>1. ASSUME NEW c \in Conversations PROVE Reaches(c, Inbox!Unread(conv[c]), changes, changes)
    <3>1. conv[c] \in ConvRow
      BY DEF InboxTypes
    <3>2. \A m \in Nat : ~Underway(m, c, changes)
      <4>1. \A i \in DOMAIN feed : feed[i] \in ConvChange
        BY DEF InboxTypes
      <4>2. \A i \in DOMAIN feed : feed[i].at \in 1..changes
        BY <4>1 DEF ConvChange
      <4> QED  BY <4>2 DEF Underway, InboxTypes
    <3>3. CASE conv[c].read = -1
      BY <3>1, <3>2, <3>3, ConvRowFacts DEF Reaches
    <3>4. CASE conv[c].read # -1
      BY <3>4 DEF Reaches
    <3> QED  BY <3>3, <3>4
  <2>2. \A c \in Conversations : Reaches(c, Inbox!Unread(conv[c]), changes, changes)'
    BY <1>1, <2>1 DEF Reaches, Underway, Of
  <2> QED  BY <1>1, <2>2 DEF RefreshInv
<1>7. InboxListInv'
  BY <1>1 DEF InboxListInv, Calm
<1> QED  BY <1>3, <1>4, <1>5, <1>6, <1>7

LEMMA ApplyRefreshInv ==
    ASSUME InboxInv, Inbox!ApplyRefresh PROVE InboxInv'
<1> USE DEF InboxInv
<1> DEFINE r == refresh
           listed == {c \in Conversations : r.convs[c].mine}
<1>1. /\ r.pc = "read"
      /\ entry' = [c \in Conversations |-> IF c \in listed THEN Inbox!Row(r.convs[c]) ELSE Inbox!Kept(c, r)]
      /\ kept' = {c \in Conversations \ listed : entry'[c].shown}
      /\ late' = (late \ listed) \union r.older
      /\ newest' = r.at
      /\ owed' = (owed /\ ~r.joined)
      /\ refresh' = Inbox!Idle
      /\ UNCHANGED <<conv, changes, lastRead, due, timer, link, feed>>
  BY DEF Inbox!ApplyRefresh, Inbox!Listed, Inbox!channelVars
<1>2. r \in RefreshRead
  BY <1>1 DEF InboxTypes, Inbox!Idle, RefreshAsked
<1>3. \A c \in Conversations : /\ entry[c] \in {Inbox!NoItem} \union ShownEntry
                               /\ r.before[c] \in {Inbox!NoItem} \union ShownEntry
                               /\ r.convs[c] \in ConvRow /\ conv[c] \in ConvRow
                               /\ Inbox!Row(r.convs[c]) \in ShownEntry
  BY <1>2, ConvRowFacts DEF InboxTypes, Listing, RefreshRead
<1>4. /\ entry' \in Listing
      /\ \A c \in Conversations : /\ c \in listed => entry'[c] = Inbox!Item(Inbox!Unread(r.convs[c]), TRUE)
                                  /\ c \notin listed => entry'[c] = Inbox!Kept(c, r)
  BY <1>1, <1>3 DEF Listing, Inbox!Kept, Inbox!Row
<1>5. InboxTypes'
  <2>1. /\ newest' \in 0..changes /\ owed' \in BOOLEAN
        /\ late' \subseteq Conversations /\ kept' \subseteq Conversations
    BY <1>1, <1>2 DEF InboxTypes, RefreshRead
  <2> QED  BY <1>1, <1>4, <2>1 DEF InboxTypes, ConvChange, RefreshRead, Inbox!Idle
<1>6. ConvFeedInv' /\ UnreadInv' /\ RefreshInv'
  BY <1>1 DEF ConvFeedInv, Of, UnreadInv, RefreshInv, Inbox!Idle
<1>7. InboxListInv'
  <2> SUFFICES ASSUME ~owed' PROVE InboxListInv'
    BY DEF InboxListInv
  <2>1. r.joined /\ link # "down"
    BY <1>1 DEF InboxListInv, RefreshInv
  <2>2. ASSUME NEW c \in Conversations, ~timer PROVE Correct(c)'
    <3>1. /\ \/ Reassigned(c)
             \/ r.convs[c].mine = conv[c].mine
             \/ conv[c].mine /\ entry[c].shown
          /\ c \in r.older \/ Reaches(c, Inbox!Unread(r.convs[c]), r.at, r.at)
      BY <1>1, <2>1, <2>2 DEF RefreshInv
    <3>2. Reassigned(c) => Reassigned(c)'
      BY <1>1 DEF Reassigned, Of
    <3>3. CASE c \in listed
      <4>0. PICK n, t : n = Inbox!Unread(r.convs[c]) /\ t = r.at
        OBVIOUS
      <4>7. entry'[c] = Inbox!Item(n, TRUE)
        BY <1>4, <3>3, <4>0
      <4>1. /\ r.convs[c].mine /\ entry'[c].shown /\ entry'[c].labelled
            /\ entry'[c].unread = n /\ newest' = t
        BY <1>1, <3>3, <4>0, <4>7 DEF Inbox!Item
      <4>5. c \notin kept'
        BY <1>1, <3>3
      <4>2. c \notin late' => Reaches(c, n, t, 0)
        <5>1. \A i \in DOMAIN feed : feed[i] \in ConvChange
          BY DEF InboxTypes
        <5>2. r.at \in Nat /\ \A i \in DOMAIN feed : feed[i].at > r.at => feed[i].at > 0
          BY <1>2, <5>1 DEF InboxTypes, RefreshRead, ConvChange
        <5> QED  BY <1>1, <3>1, <4>0, <5>2 DEF Reaches
      <4>3. c \notin late' => Reaches(c, n, t, 0)'
        BY <1>1, <4>2 DEF Reaches, Underway, Of
      <4>4. Reassigned(c)' \/ conv'[c].mine
        BY <1>1, <1>3, <3>1, <3>2, <4>1, ConvRowFacts
      <4>6. (Reassigned(c) \/ conv[c].mine)'
        BY <4>4
      <4> QED  BY <4>1, <4>3, <4>5, <4>6 DEF Correct
    <3>4. CASE c \notin listed
      <4>1. entry[c].shown => entry'[c].shown
        BY <1>4, <3>4 DEF Inbox!Kept
      <4>5. ~r.convs[c].mine
        BY <3>4
      <4>2. entry'[c].shown => c \in kept'
        BY <1>1, <3>4
      <4>3. conv[c].mine => Reassigned(c)' \/ entry'[c].shown
        BY <1>3, <3>1, <3>2, <4>5, <4>1, ConvRowFacts
      <4> QED  BY <1>1, <4>2, <4>3 DEF Correct
    <3> QED  BY <3>3, <3>4
  <2> QED  BY <1>1, <2>1, <2>2 DEF InboxListInv, Calm, Inbox!Idle
<1> QED  BY <1>5, <1>6, <1>7

\* Nothing of the list changes.
LEMMA InboxLinkInv ==
    ASSUME InboxInv,
           Inbox!RefreshFails \/ Inbox!Join \/ Inbox!Connected \/ Inbox!Break PROVE InboxInv'
<1> USE DEF InboxInv
<1>1. CASE Inbox!RefreshFails
  <2>1. /\ refresh' = Inbox!Idle /\ owed' = TRUE
        /\ UNCHANGED <<conv, changes, entry, lastRead, due, timer, newest, late, kept, link, feed>>
    BY <1>1 DEF Inbox!RefreshFails, Inbox!channelVars
  <2>2. InboxTypes'
    BY <2>1 DEF InboxTypes, ConvChange, RefreshRead
  <2> QED  BY <2>1, <2>2 DEF ConvFeedInv, Of, UnreadInv, RefreshInv, InboxListInv, Inbox!Idle
<1>2. CASE Inbox!Join \/ Inbox!Connected
  <2>1. /\ UNCHANGED <<conv, changes, entry, lastRead, refresh, timer, newest, late, kept, owed, feed>>
        /\ link' # "down"
        /\ (due' = due /\ link = "down") \/ (due' = TRUE /\ link # "down")
    BY <1>2 DEF Inbox!Join, Inbox!Connected, Inbox!ServerJoins, Inbox!Subscribed, Inbox!inboxVars
  <2>2. InboxTypes'
    BY <2>1 DEF InboxTypes, ConvChange, RefreshRead
  <2>3. ConvFeedInv' /\ UnreadInv'
    BY <2>1 DEF ConvFeedInv, Of, UnreadInv
  <2>4. RefreshInv'
    BY <2>1 DEF RefreshInv, Reassigned, Reaches, Underway, Of
  <2>5. InboxListInv'
    BY <2>1 DEF InboxListInv, Calm
  <2> QED  BY <2>2, <2>3, <2>4, <2>5
<1>3. CASE Inbox!Break
  <2>1. /\ owed' = TRUE /\ due' = FALSE /\ link' = "down" /\ feed' = <<>>
        /\ refresh' = IF refresh.pc = "read" THEN [refresh EXCEPT !.joined = FALSE] ELSE refresh
        /\ UNCHANGED <<conv, changes, entry, lastRead, timer, newest, late, kept>>
    BY <1>3 DEF Inbox!Break, Inbox!ChannelBreaks
  <2>5. <<>> \in Seq(ConvChange')
    OBVIOUS
  <2>6. FALSE \in BOOLEAN /\ TRUE \in BOOLEAN
    OBVIOUS
  <2>4. feed' \in Seq(ConvChange') /\ due' \in BOOLEAN /\ owed' \in BOOLEAN
    BY <2>1, <2>5, <2>6
  <2>2. CASE refresh.pc = "read"
    <3>1. refresh \in RefreshRead
      BY <2>2 DEF InboxTypes, Inbox!Idle, RefreshAsked
    <3>2. refresh' \in RefreshRead /\ refresh'.convs = refresh.convs /\ refresh'.joined = FALSE
      BY <2>1, <2>2, <3>1 DEF RefreshRead
    <3>3. InboxTypes'
      BY <2>1, <2>4, <3>2 DEF InboxTypes, RefreshRead
    <3> QED  BY <2>1, <2>2, <3>2, <3>3 DEF ConvFeedInv, UnreadInv, RefreshInv, InboxListInv
  <2>3. CASE refresh.pc # "read"
    <3>1. InboxTypes'
      BY <2>1, <2>3, <2>4 DEF InboxTypes, RefreshRead
    <3> QED  BY <2>1, <2>3, <3>1 DEF ConvFeedInv, UnreadInv, RefreshInv, InboxListInv
  <2> QED  BY <2>2, <2>3
<1> QED  BY <1>1, <1>2, <1>3

\* The first change leaves the feed.
LEMMA Moved ==
    ASSUME InboxInv, Inbox!Receive, NEW e, e = Head(feed)
    PROVE  /\ link # "down" /\ link' = link /\ feed' \in Seq(ConvChange)
           /\ 1 \in DOMAIN feed /\ feed[1] = e
           /\ \A i \in DOMAIN feed' : i \in Nat /\ i >= 1 /\ i + 1 \in DOMAIN feed /\ feed'[i] = feed[i + 1]
           /\ \A i \in DOMAIN feed : /\ i \in Nat /\ feed[i] \in ConvChange
                                     /\ feed[i].at \in Nat /\ feed[i].at > 0
                                     /\ feed[i].row \in ConvRow /\ feed[i].c \in Conversations
                                     /\ i = 1 \/ (i > 1 /\ i - 1 \in DOMAIN feed' /\ feed'[i - 1] = feed[i])
<1>1. feed \in Seq(ConvChange) /\ feed # <<>> /\ feed' = Tail(feed) /\ link = "up" /\ link' = link
  BY DEF InboxInv, InboxTypes, Inbox!Receive
<1>2. /\ feed' \in Seq(ConvChange) /\ Len(feed) \in Nat /\ Len(feed) >= 1
      /\ DOMAIN feed = 1..Len(feed) /\ DOMAIN feed' = 1..(Len(feed) - 1)
      /\ \A i \in 1..(Len(feed) - 1) : feed'[i] = feed[i + 1]
      /\ e = feed[1]
  BY <1>1, Shorter
<1>3. \A i \in DOMAIN feed : feed[i] \in ConvChange
  BY <1>1
<1>4. \A i \in DOMAIN feed : /\ feed[i].at \in Nat /\ feed[i].at > 0
                             /\ feed[i].row \in ConvRow /\ feed[i].c \in Conversations
  BY <1>3 DEF ConvChange, InboxInv, InboxTypes
<1>5. ASSUME NEW i \in DOMAIN feed
      PROVE  i \in Nat /\ (i = 1 \/ (i > 1 /\ i - 1 \in DOMAIN feed' /\ feed'[i - 1] = feed[i]))
  <2>1. i = 1 \/ (i > 1 /\ i - 1 \in 1..(Len(feed) - 1) /\ (i - 1) + 1 = i)
    BY <1>2
  <2> QED  BY <1>2, <2>1
<1>6. ASSUME NEW i \in DOMAIN feed'
             PROVE i \in Nat /\ i >= 1 /\ i + 1 \in DOMAIN feed /\ feed'[i] = feed[i + 1]
  BY <1>2
<1> QED  BY <1>1, <1>2, <1>3, <1>4, <1>5, <1>6

\* What is said of the changes is still true of the rest of them.
LEMMA FeedRest ==
    ASSUME InboxInv, Inbox!Receive, conv' = conv PROVE ConvFeedInv'
<1> SUFFICES ASSUME NEW e, e = Head(feed) PROVE ConvFeedInv'
  OBVIOUS
<1>1. /\ link # "down" /\ link' = link
      /\ \A i \in DOMAIN feed' : i \in Nat /\ i + 1 \in DOMAIN feed /\ feed'[i] = feed[i + 1]
      /\ \A i \in DOMAIN feed : i \in Nat /\ (i = 1 \/ (i - 1 \in DOMAIN feed' /\ feed'[i - 1] = feed[i]))
  BY Moved
<1>2. ASSUME NEW i \in DOMAIN feed', NEW type, NEW c
      PROVE  /\ Of(i, type, c)' <=> Of(i + 1, type, c)
             /\ feed'[i].row = feed[i + 1].row
             /\ (\E j \in DOMAIN feed : j > i + 1 /\ Of(j, type, c))
                   => \E j \in DOMAIN feed' : j > i /\ Of(j, type, c)'
  <2>1. (Of(i, type, c)' <=> Of(i + 1, type, c)) /\ feed'[i].row = feed[i + 1].row
    BY <1>1 DEF Of
  <2>2. ASSUME NEW j \in DOMAIN feed, j > i + 1, Of(j, type, c)
        PROVE  j - 1 \in DOMAIN feed' /\ j - 1 > i /\ Of(j - 1, type, c)'
    <3>1. j # 1 /\ j - 1 > i
      BY <1>1, <2>2
    <3> QED  BY <1>1, <2>2, <3>1 DEF Of
  <2> QED  BY <2>1, <2>2
<1>3. ASSUME NEW i \in DOMAIN feed', NEW c \in Conversations
      PROVE  /\ Of(i, "conversation", c)' =>
                   \/ feed'[i].row.mine = conv[c].mine
                   \/ \E j \in DOMAIN feed' : j > i /\ Of(j, "conversation", c)'
             /\ Of(i, "read", c)' =>
                   /\ conv[c].read # -1
                   /\ \/ Inbox!Unread(feed'[i].row) = Inbox!Unread(conv[c])
                      \/ \E j \in DOMAIN feed' : j > i /\ Of(j, "read", c)'
             /\ Of(i, "message", c)' =>
                   /\ feed'[i].row.messages <= conv[c].messages
                   /\ conv[c].read = -1 \/ \E j \in DOMAIN feed' : j > i /\ Of(j, "read", c)'
  BY <1>1, <1>2 DEF InboxInv, ConvFeedInv
<1>4. ASSUME NEW i \in DOMAIN feed', NEW c \in Conversations, Of(i, "message", c)',
             NEW j \in DOMAIN feed', j > i, Of(j, "message", c)'
      PROVE  feed'[i].row.messages < feed'[j].row.messages
  <2>1. /\ i + 1 \in DOMAIN feed /\ j + 1 \in DOMAIN feed /\ j + 1 > i + 1
        /\ Of(i + 1, "message", c) /\ Of(j + 1, "message", c)
        /\ feed'[i].row = feed[i + 1].row /\ feed'[j].row = feed[j + 1].row
    BY <1>1, <1>2, <1>4
  <2> QED  BY <2>1 DEF InboxInv, ConvFeedInv
<1> QED  BY <1>1, <1>3, <1>4 DEF ConvFeedInv

\* A change that was not expected leaves what is expected.
LEMMA StillReaches ==
    ASSUME InboxInv, Inbox!Receive, conv' = conv, NEW e, e = Head(feed), NEW c \in Conversations
    PROVE  /\ \A n \in Nat, t \in Nat, u \in Nat :
                 /\ Reaches(c, n, t, u)
                 /\ ~(e.type = "read" /\ e.c = c /\ e.at > u)
                 /\ ~(e.type = "message" /\ e.c = c /\ e.at > t)
                 => Reaches(c, n, t, u)'
           /\ ~(e.type = "conversation" /\ e.c = c) => (Reassigned(c) => Reassigned(c)')
<1>1. /\ feed[1] = e
      /\ \A i \in DOMAIN feed' : i \in Nat /\ i + 1 \in DOMAIN feed /\ feed'[i] = feed[i + 1]
      /\ \A i \in DOMAIN feed : i = 1 \/ (i - 1 \in DOMAIN feed' /\ feed'[i - 1] = feed[i])
  BY Moved
<1>2. ASSUME ~(e.type = "conversation" /\ e.c = c), Reassigned(c) PROVE Reassigned(c)'
  BY <1>1, <1>2 DEF Reassigned, Of
<1>3. ASSUME NEW n \in Nat, NEW t \in Nat, NEW u \in Nat, Reaches(c, n, t, u),
             ~(e.type = "read" /\ e.c = c /\ e.at > u),
             ~(e.type = "message" /\ e.c = c /\ e.at > t)
      PROVE  Reaches(c, n, t, u)'
  <2>1. CASE \E i \in DOMAIN feed : Of(i, "read", c) /\ feed[i].at > u
    <3>1. PICK i \in DOMAIN feed : Of(i, "read", c) /\ feed[i].at > u
      BY <2>1
    <3>2. i - 1 \in DOMAIN feed' /\ feed'[i - 1] = feed[i]
      BY <1>1, <1>3, <3>1 DEF Of
    <3>3. \E k \in DOMAIN feed' : Of(k, "read", c)' /\ feed'[k].at > u
      BY <3>1, <3>2 DEF Of
    <3> QED  BY <3>3 DEF Reaches
  <2>2. \A m \in Nat : Underway(m, c, t) <=> Underway(m, c, t)'
    <3>1. ASSUME NEW m \in Nat, Underway(m, c, t) PROVE Underway(m, c, t)'
      <4>1. PICK i \in DOMAIN feed : Of(i, "message", c) /\ feed[i].at > t /\ feed[i].row.messages = m
        BY <3>1 DEF Underway
      <4>2. i - 1 \in DOMAIN feed' /\ feed'[i - 1] = feed[i]
        BY <1>1, <1>3, <4>1 DEF Of
      <4> QED  BY <4>1, <4>2 DEF Underway, Of
    <3>2. ASSUME NEW m \in Nat, Underway(m, c, t)' PROVE Underway(m, c, t)
      BY <1>1, <3>2 DEF Underway, Of
    <3> QED  BY <3>1, <3>2
  <2> QED  BY <1>3, <2>1, <2>2 DEF Reaches
<1> QED  BY <1>2, <1>3

\* The refresh in flight, when a change has been handed to the hook.
LEMMA OvertakenFacts ==
    ASSUME InboxInv, Inbox!Receive, NEW e, e = Head(feed), changes' = changes,
           refresh' = Inbox!Overtaken(e) \/ (e.type = "conversation" /\ refresh' = refresh)
    PROVE  /\ refresh' \in {Inbox!Idle} \union RefreshAsked \union RefreshRead
           /\ refresh'.pc = refresh.pc
           /\ refresh.pc = "read" =>
                 /\ refresh'.convs = refresh.convs /\ refresh'.at = refresh.at
                 /\ refresh'.joined = refresh.joined
                 /\ refresh.older \subseteq refresh'.older
                 /\ e.type # "conversation" /\ e.at > refresh.at => e.c \in refresh'.older
                 /\ refresh.at \in 0..changes
                 /\ \A c \in Conversations : refresh.convs[c] \in ConvRow
<1>1. CASE refresh.pc = "read"
  <2>1. refresh \in RefreshRead /\ e.c \in Conversations
    BY <1>1, Moved DEF InboxInv, InboxTypes, Inbox!Idle, RefreshAsked
  <2>2. \/ refresh' = IF e.at > refresh.at THEN [refresh EXCEPT !.older = @ \union {e.c}]
                      ELSE refresh
        \/ e.type = "conversation" /\ refresh' = refresh
    BY <1>1 DEF Inbox!Overtaken
  <2>3. refresh' \in RefreshRead
    BY <2>1, <2>2 DEF RefreshRead
  <2> QED  BY <1>1, <2>1, <2>2, <2>3 DEF RefreshRead
<1>2. CASE refresh.pc # "read"
  <2>1. refresh' = refresh
    BY <1>2 DEF Inbox!Overtaken
  <2> QED  BY <1>2, <2>1 DEF InboxInv, InboxTypes
<1> QED  BY <1>1, <1>2

\* A refresh is asked for: what the list shows will be replaced.
LEMMA AskedOnReceive ==
    ASSUME InboxInv, Inbox!Receive, Inbox!AskRefresh, entry' \in Listing, conv' = conv,
           changes' = changes,
           lastRead' = lastRead, due' = due, timer' = timer, newest' = newest, owed' = owed,
           late' \subseteq Conversations, kept' \subseteq Conversations
    PROVE  InboxInv'
<1> USE DEF InboxInv
<1>1. refresh' = [pc |-> "asked", before |-> entry]
  BY DEF Inbox!AskRefresh
<1>2. InboxTypes'
  <2>1. refresh' \in RefreshAsked
    BY <1>1 DEF InboxTypes, RefreshAsked
  <2>2. feed' \in Seq(ConvChange)
    BY Moved
  <2> QED  BY <2>1, <2>2 DEF InboxTypes, ConvChange, RefreshRead
<1>3. ConvFeedInv'
  BY FeedRest
<1>4. UnreadInv' /\ RefreshInv'
  BY <1>1 DEF UnreadInv, RefreshInv
<1>5. link' = link
  BY DEF Inbox!Receive
<1>6. InboxListInv'
  BY <1>1, <1>5 DEF InboxListInv, Calm
<1> QED  BY <1>2, <1>3, <1>4, <1>6

\* One more message is counted.
LEMMA Counted ==
    ASSUME InboxInv, Inbox!Receive, conv' = conv, NEW e, e = Head(feed), NEW c \in Conversations,
           e.type = "message", e.c = c, NEW t \in Nat, e.at > t,
           NEW n \in Nat, Reaches(c, n, t, 0)
    PROVE  IF e.row.messages > lastRead[c] THEN Reaches(c, n + 1, t, 0)' ELSE Reaches(c, n, t, 0)'
<1>1. /\ 1 \in DOMAIN feed /\ feed[1] = e
      /\ \A i \in DOMAIN feed' : i \in Nat /\ i >= 1 /\ i + 1 \in DOMAIN feed /\ feed'[i] = feed[i + 1]
      /\ \A i \in DOMAIN feed : /\ i \in Nat /\ feed[i].at \in Nat /\ feed[i].at > 0 /\ feed[i].row \in ConvRow
                                /\ i = 1 \/ (i > 1 /\ i - 1 \in DOMAIN feed' /\ feed'[i - 1] = feed[i])
  BY Moved
<1>2. Of(1, "message", c) /\ e.row.messages \in Nat
  BY <1>1, ConvRowFacts DEF Of
<1>3. /\ e.row.messages <= conv[c].messages
      /\ conv[c].read = -1 \/ \E j \in DOMAIN feed : j > 1 /\ Of(j, "read", c)
      /\ \A j \in DOMAIN feed :
            j > 1 /\ Of(j, "message", c) => e.row.messages < feed[j].row.messages
  BY <1>1, <1>2 DEF InboxInv, ConvFeedInv
<1>4. CASE \E j \in DOMAIN feed : j > 1 /\ Of(j, "read", c)
  <2>1. PICK j \in DOMAIN feed : j > 1 /\ Of(j, "read", c)
    BY <1>4
  <2>2. j - 1 \in DOMAIN feed' /\ feed'[j - 1] = feed[j] /\ feed[j].at > 0
    BY <1>1, <2>1
  <2>3. \E k \in DOMAIN feed' : Of(k, "read", c)' /\ feed'[k].at > 0
    BY <2>1, <2>2 DEF Of
  <2> QED  BY <2>3 DEF Reaches
<1>5. CASE ~(\E j \in DOMAIN feed : j > 1 /\ Of(j, "read", c))
  <2>1. conv[c].read = -1
    BY <1>3, <1>5
  <2>2. ~(\E i \in DOMAIN feed : Of(i, "read", c) /\ feed[i].at > 0)
    BY <1>1, <1>5 DEF Of
  <2>3. n <= conv[c].messages /\ \A m \in Nat : Underway(m, c, t) <=> n < m /\ m <= conv[c].messages
    BY <2>1, <2>2 DEF Reaches
  <2>4. lastRead[c] = -1 /\ e.row.messages > lastRead[c]
    BY <1>2, <2>1 DEF InboxInv, UnreadInv
  <2>5. conv[c].messages \in Nat
    BY ConvRowFacts DEF InboxInv, InboxTypes
  <2>6. Underway(e.row.messages, c, t)
    BY <1>1, <1>2 DEF Underway
  <2>7. n < e.row.messages
    BY <1>2, <2>3, <2>6
  <2>8. e.row.messages = n + 1
    <3> SUFFICES ASSUME n + 1 < e.row.messages PROVE FALSE
      BY <1>2, <2>7
    <3>1. n + 1 \in Nat /\ n < n + 1 /\ n + 1 <= conv[c].messages
      BY <1>2, <1>3, <2>5
    <3>2. Underway(n + 1, c, t)
      BY <2>3, <3>1
    <3>3. PICK i \in DOMAIN feed : Of(i, "message", c) /\ feed[i].row.messages = n + 1
      BY <3>2 DEF Underway
    <3>4. i # 1
      BY <1>1, <1>2, <3>3
    <3>5. e.row.messages < n + 1
      BY <1>1, <1>3, <3>3, <3>4
    <3> QED  BY <1>2, <3>5
  <2>9. ASSUME NEW m \in Nat PROVE Underway(m, c, t)' <=> n + 1 < m /\ m <= conv[c].messages
    <3>1. ASSUME Underway(m, c, t)' PROVE n + 1 < m /\ m <= conv[c].messages
      <4>1. PICK i \in DOMAIN feed' :
                Of(i, "message", c)' /\ feed'[i].at > t /\ feed'[i].row.messages = m
        BY <3>1 DEF Underway
      <4>2. /\ i + 1 \in DOMAIN feed /\ i + 1 > 1 /\ Of(i + 1, "message", c)
            /\ feed[i + 1].at > t /\ feed[i + 1].row.messages = m
        BY <1>1, <4>1 DEF Of
      <4>3. Underway(m, c, t) /\ e.row.messages < m
        BY <1>3, <4>2 DEF Underway
      <4> QED  BY <2>3, <2>8, <4>3
    <3>2. ASSUME n + 1 < m, m <= conv[c].messages PROVE Underway(m, c, t)'
      <4>1. Underway(m, c, t)
        BY <2>3, <2>5, <3>2
      <4>2. PICK i \in DOMAIN feed : Of(i, "message", c) /\ feed[i].at > t /\ feed[i].row.messages = m
        BY <4>1 DEF Underway
      <4>3. i # 1
        BY <1>1, <2>8, <3>2, <4>2
      <4>4. i - 1 \in DOMAIN feed' /\ feed'[i - 1] = feed[i]
        BY <1>1, <4>3
      <4> QED  BY <4>2, <4>4 DEF Underway, Of
    <3> QED  BY <3>1, <3>2
  <2>10. n + 1 <= conv[c].messages
    BY <1>2, <1>3, <2>5, <2>8
  <2>11. Reaches(c, n + 1, t, 0)'
    BY <2>1, <2>9, <2>10 DEF Reaches
  <2> QED  BY <2>4, <2>11
<1> QED  BY <1>4, <1>5

\* The answer still lacks nothing but what is on its way or was heard.
LEMMA RefreshRest ==
    ASSUME InboxInv, Inbox!Receive, conv' = conv, changes' = changes, NEW e, e = Head(feed),
           refresh' = Inbox!Overtaken(e) \/ (e.type = "conversation" /\ refresh' = refresh),
           \A c \in Conversations :
              Reassigned(c) \/ timer \/ (conv[c].mine /\ entry[c].shown)
                 => Reassigned(c)' \/ timer' \/ (conv[c].mine /\ entry'[c].shown)
    PROVE  RefreshInv'
<1> SUFFICES ASSUME refresh'.pc = "read", refresh'.joined PROVE RefreshInv'
  BY DEF RefreshInv
<1>1. /\ refresh.pc = "read" /\ refresh.joined /\ refresh'.convs = refresh.convs
      /\ refresh'.at = refresh.at /\ refresh.older \subseteq refresh'.older
      /\ e.type # "conversation" /\ e.at > refresh.at => e.c \in refresh'.older
      /\ refresh.at \in 0..changes
      /\ \A c \in Conversations : refresh.convs[c] \in ConvRow
  BY OvertakenFacts
<1>2. link' # "down"
  BY Moved
<1>3. refresh.at \in Nat
  BY <1>1 DEF InboxInv, InboxTypes
<1>4. ASSUME NEW c \in Conversations
      PROVE  (/\ \/ Reassigned(c) \/ timer
                 \/ refresh.convs[c].mine = conv[c].mine
                 \/ conv[c].mine /\ entry[c].shown
              /\ c \in refresh.older \/ Reaches(c, Inbox!Unread(refresh.convs[c]), refresh.at, refresh.at))'
  <2>1. /\ \/ Reassigned(c) \/ timer
           \/ refresh.convs[c].mine = conv[c].mine
           \/ conv[c].mine /\ entry[c].shown
        /\ c \in refresh.older \/ Reaches(c, Inbox!Unread(refresh.convs[c]), refresh.at, refresh.at)
    BY <1>1 DEF InboxInv, RefreshInv
  <2>2. PICK n, t : n = Inbox!Unread(refresh.convs[c]) /\ t = refresh.at
    OBVIOUS
  <2>3. n \in Nat /\ t \in Nat /\ refresh'.at = t /\ refresh'.convs[c] = refresh.convs[c]
    BY <1>1, <1>3, <2>2, ConvRowFacts
  <2>4. Inbox!Unread(refresh'.convs[c]) = n
    BY <2>2, <2>3
  <2>5. c \in refresh'.older \/ Reaches(c, n, t, t)'
    BY <1>1, <2>1, <2>2, <2>3, StillReaches
  <2>6. (c \in refresh.older \/ Reaches(c, n, t, t))'
    BY <2>5
  <2>7. (n = Inbox!Unread(refresh.convs[c]) /\ t = refresh.at)'
    BY <2>3, <2>4 DEF Inbox!Unread
  <2>8. (c \in refresh.older \/ Reaches(c, Inbox!Unread(refresh.convs[c]), refresh.at, refresh.at))'
    BY <2>6, <2>7
  <2>9. (\/ Reassigned(c) \/ timer
         \/ refresh.convs[c].mine = conv[c].mine
         \/ conv[c].mine /\ entry[c].shown)'
    BY <1>1, <2>1
  <2> QED  BY <2>8, <2>9
<1> QED  BY <1>2, <1>4 DEF RefreshInv

LEMMA OnMessageInv ==
    ASSUME InboxInv, Inbox!OnMessage PROVE InboxInv'
<1> USE DEF InboxInv
<1> SUFFICES ASSUME NEW e, e = Head(feed) PROVE InboxInv'
  OBVIOUS
<1>1. /\ Inbox!Receive /\ e.type = "message" /\ e.c \in Conversations /\ e.at \in Nat
      /\ UNCHANGED <<conv, changes, lastRead, due, timer, newest, kept, owed>>
  BY Moved DEF Inbox!OnMessage
<1>2. CASE ~entry[e.c].shown
  <2>1. Inbox!AskRefresh /\ UNCHANGED <<entry, late>>
    BY <1>2 DEF Inbox!OnMessage
  <2>2. entry' \in Listing /\ late' \subseteq Conversations /\ kept' \subseteq Conversations
    BY <1>1, <2>1 DEF InboxTypes
  <2> QED  BY <1>1, <2>1, <2>2, AskedOnReceive
<1>3. CASE entry[e.c].shown
  <2>1. /\ entry' = [entry EXCEPT ![e.c].unread = IF e.row.messages > lastRead[e.c] THEN @ + 1 ELSE @]
        /\ refresh' = Inbox!Overtaken(e)
        /\ late' = IF e.row.messages > lastRead[e.c] /\ e.at <= newest THEN late \union {e.c}
                   ELSE late
    BY <1>3 DEF Inbox!OnMessage
  <2>2. PICK n : n = entry[e.c].unread
    OBVIOUS
  <2>3. PICK k : k = IF e.row.messages > lastRead[e.c] THEN n + 1 ELSE n
    OBVIOUS
  <2>4. entry[e.c] \in ShownEntry /\ n \in Nat /\ k \in Nat
    BY <1>1, <1>3, <2>2, <2>3, EntryFacts DEF InboxTypes, Listing
  <2>5. /\ entry' = [entry EXCEPT ![e.c] = [entry[e.c] EXCEPT !.unread = k]]
        /\ [entry[e.c] EXCEPT !.unread = k] \in ShownEntry
        /\ [entry[e.c] EXCEPT !.unread = k].unread = k
        /\ [entry[e.c] EXCEPT !.unread = k].labelled = entry[e.c].labelled
        /\ [entry[e.c] EXCEPT !.unread = k].shown
    BY <2>1, <2>2, <2>3, <2>4 DEF ShownEntry
  <2>6. /\ entry' \in Listing
        /\ \A c \in Conversations : /\ entry'[c].shown = entry[c].shown
                                    /\ entry[c].shown => entry'[c].labelled = entry[c].labelled
                                    /\ c # e.c => entry'[c] = entry[c]
        /\ entry'[e.c].unread = k
    BY <1>1, <1>3, <2>5 DEF InboxTypes, Listing
  <2>7. InboxTypes'
    <3>1. feed' \in Seq(ConvChange) /\ late' \subseteq Conversations
      BY <1>1, <2>1, Moved DEF InboxTypes
    <3>2. refresh' \in {Inbox!Idle} \union RefreshAsked \union RefreshRead
      BY <1>1, <2>1, OvertakenFacts
    <3> QED  BY <1>1, <2>6, <3>1, <3>2 DEF InboxTypes, ConvChange, RefreshRead, RefreshAsked,
                Listing
  <2>8. ConvFeedInv'
    BY <1>1, FeedRest
  <2>9. UnreadInv'
    BY <1>1, <2>1, OvertakenFacts DEF UnreadInv
  <2>10. RefreshInv'
    <3>1. \A c \in Conversations :
             Reassigned(c) \/ timer \/ (conv[c].mine /\ entry[c].shown)
                => Reassigned(c)' \/ timer' \/ (conv[c].mine /\ entry'[c].shown)
      BY <1>1, <2>6, StillReaches
    <3> QED  BY <1>1, <2>1, <3>1, RefreshRest
  <2>11. InboxListInv'
    <3> SUFFICES ASSUME ~owed', Calm', NEW c \in Conversations PROVE Correct(c)'
      <4>1. ~owed => link' # "down" /\ (refresh'.pc = "read" => refresh'.joined)
        BY <1>1, <2>1, Moved, OvertakenFacts DEF InboxListInv
      <4> QED  BY <1>1, <4>1 DEF InboxListInv
    <3>1. Correct(c)
      BY <1>1, <2>1, OvertakenFacts DEF InboxListInv, Calm
    <3>2. newest \in Nat
      BY DEF InboxTypes
    <3>3. \/ Reassigned(c)'
          \/ IF conv[c].mine THEN entry'[c].shown /\ (c \notin kept => entry'[c].labelled)
             ELSE entry'[c].shown => c \in kept
      BY <1>1, <2>6, <3>1, StillReaches DEF Correct
    <3>4. ASSUME entry'[c].shown, c \notin late', c \notin kept
          PROVE  \E x \in Nat : x = entry'[c].unread /\ Reaches(c, x, newest, 0)'
      <4>1. PICK x : x = entry[c].unread
        OBVIOUS
      <4>2. x \in Nat /\ Reaches(c, x, newest, 0)
        <5>1. entry[c].shown /\ c \notin late
          BY <2>1, <2>6, <3>4
        <5> QED  BY <3>1, <3>4, <4>1, <5>1, EntryFacts DEF Correct, InboxTypes, Listing
      <4>3. CASE c # e.c
        BY <1>1, <2>6, <3>2, <4>1, <4>2, <4>3, StillReaches
      <4>4. CASE c = e.c
        <5>1. e.at > newest \/ k = n
          BY <1>1, <2>1, <2>3, <3>2, <3>4, <4>4
        <5>2. x = n
          BY <2>2, <4>1, <4>4
        <5>3. CASE e.at > newest
          BY <1>1, <2>3, <2>4, <2>6, <3>2, <4>2, <4>4, <5>2, <5>3, Counted
        <5>4. CASE ~(e.at > newest)
          BY <1>1, <2>4, <2>6, <3>2, <4>2, <4>4, <5>1, <5>2, <5>4, StillReaches
        <5> QED  BY <5>3, <5>4
      <4> QED  BY <4>3, <4>4
    <3> QED  BY <1>1, <3>3, <3>4 DEF Correct
  <2> QED  BY <2>7, <2>8, <2>9, <2>10, <2>11
<1> QED  BY <1>2, <1>3

LEMMA OnConversationInv ==
    ASSUME InboxInv, Inbox!OnConversation PROVE InboxInv'
<1> USE DEF InboxInv
<1> SUFFICES ASSUME NEW e, e = Head(feed) PROVE InboxInv'
  OBVIOUS
<1> DEFINE x == IF ~e.row.mine THEN Inbox!NoItem
                ELSE IF entry[e.c].shown THEN entry[e.c] ELSE Inbox!Item(1, FALSE)
<1>1. /\ Inbox!Receive /\ e.type = "conversation" /\ e.c \in Conversations
      /\ entry' = [entry EXCEPT ![e.c] = x]
      /\ kept' = kept \ {e.c}
      /\ late' = late \union (kept \intersect {e.c})
      /\ UNCHANGED <<conv, changes, lastRead, due, newest, owed>>
  BY Moved DEF Inbox!OnConversation
<1>2. x \in {Inbox!NoItem} \union ShownEntry
  <2>1. Inbox!Item(1, FALSE) \in ShownEntry
    BY DEF Inbox!Item, ShownEntry
  <2>2. entry[e.c] \in {Inbox!NoItem} \union ShownEntry
    BY <1>1 DEF InboxTypes, Listing
  <2> QED  BY <2>1, <2>2
<1>3. x.shown => e.row.mine
  BY DEF Inbox!NoItem
<1> HIDE DEF x
<1>4. /\ entry' \in Listing /\ entry'[e.c] = x
      /\ \A c \in Conversations \ {e.c} : entry'[c] = entry[c]
  BY <1>1, <1>2 DEF InboxTypes, Listing
<1>5. late' \subseteq Conversations /\ kept' \subseteq Conversations
  BY <1>1 DEF InboxTypes
<1>6. CASE ~entry[e.c].shown
  <2>1. Inbox!AskRefresh /\ timer' = timer
    BY <1>6 DEF Inbox!OnConversation
  <2> QED  BY <1>1, <1>4, <1>5, <2>1, AskedOnReceive
<1>7. CASE entry[e.c].shown
  <2>1. refresh' = refresh /\ timer' = (timer \/ ~e.row.mine \/ ~entry[e.c].labelled)
    BY <1>7 DEF Inbox!OnConversation
  <2>2. e.row.mine => entry'[e.c] = entry[e.c]
    BY <1>4, <1>7 DEF x
  <2>3. InboxTypes'
    <3>1. feed' \in Seq(ConvChange)
      BY <1>1, Moved DEF InboxTypes
    <3>2. refresh' \in {Inbox!Idle} \union RefreshAsked \union RefreshRead
      BY <1>1, <2>1, OvertakenFacts
    <3>3. timer' \in BOOLEAN
      BY <2>1 DEF InboxTypes
    <3> QED  BY <1>1, <1>4, <1>5, <3>1, <3>2, <3>3
             DEF InboxTypes, ConvChange, RefreshRead, RefreshAsked, Listing
  <2>4. ConvFeedInv'
    BY <1>1, FeedRest
  <2>5. UnreadInv'
    BY <1>1, <2>1, OvertakenFacts DEF UnreadInv
  <2>6. e.row.mine = conv[e.c].mine \/ Reassigned(e.c)'
    <3>1. /\ feed[1] = e /\ 1 \in DOMAIN feed
          /\ \A i \in DOMAIN feed : i = 1 \/ (i > 1 /\ i - 1 \in DOMAIN feed' /\ feed'[i - 1] = feed[i])
      BY <1>1, Moved
    <3>2. \/ e.row.mine = conv[e.c].mine
          \/ \E j \in DOMAIN feed : j > 1 /\ Of(j, "conversation", e.c)
      BY <1>1, <3>1 DEF ConvFeedInv, Of
    <3> QED  BY <3>1, <3>2 DEF Reassigned, Of
  <2>7. RefreshInv'
    <3>1. ASSUME NEW c \in Conversations, Reassigned(c) \/ timer \/ (conv[c].mine /\ entry[c].shown)
          PROVE  Reassigned(c)' \/ timer' \/ (conv[c].mine /\ entry'[c].shown)
      <4>1. CASE c # e.c
        BY <1>1, <1>4, <2>1, <3>1, <4>1, StillReaches
      <4>2. CASE c = e.c
        BY <1>7, <2>1, <2>2, <2>6, <4>2
      <4> QED  BY <4>1, <4>2
    <3> QED  BY <1>1, <2>1, <3>1, RefreshRest
  <2>8. InboxListInv'
    <3> SUFFICES ASSUME ~owed', Calm', NEW c \in Conversations PROVE Correct(c)'
      <4>1. ~owed => link' # "down" /\ (refresh'.pc = "read" => refresh'.joined)
        BY <1>1, <2>1, Moved, OvertakenFacts DEF InboxListInv
      <4> QED  BY <1>1, <4>1 DEF InboxListInv
    <3>1. e.row.mine /\ entry[e.c].labelled /\ entry'[e.c] = entry[e.c]
      BY <2>1, <2>2 DEF Calm
    <3>2. Correct(c) /\ entry'[c] = entry[c]
      BY <1>1, <1>4, <2>1, <3>1, OvertakenFacts DEF InboxListInv, Calm
    <3>3. c \notin kept' => c = e.c \/ c \notin kept
      BY <1>1
    <3>4. newest \in Nat
      BY DEF InboxTypes
    <3>5. \/ Reassigned(c)'
          \/ IF conv[c].mine THEN entry'[c].shown /\ (c \notin kept' => entry'[c].labelled)
             ELSE entry'[c].shown => c \in kept'
      <4>1. CASE c # e.c
        BY <1>1, <3>2, <4>1, StillReaches DEF Correct
      <4>2. CASE c = e.c
        BY <1>7, <2>6, <3>1, <4>2
      <4> QED  BY <4>1, <4>2
    <3>6. ASSUME entry'[c].shown, c \notin late', c \notin kept'
          PROVE  Reaches(c, entry[c].unread, newest, 0)
      BY <1>1, <3>2, <3>6 DEF Correct
    <3>7. ASSUME entry'[c].shown, c \notin late', c \notin kept'
          PROVE  \E n \in Nat : n = entry'[c].unread /\ Reaches(c, n, newest, 0)'
      <4>1. PICK n : n = entry[c].unread
        OBVIOUS
      <4>2. n \in Nat /\ Reaches(c, n, newest, 0)
        BY <3>2, <3>6, <3>7, <4>1, EntryFacts DEF InboxTypes, Listing
      <4> QED  BY <1>1, <3>2, <3>4, <4>1, <4>2, StillReaches
    <3> QED  BY <1>1, <3>5, <3>7 DEF Correct
  <2> QED  BY <2>3, <2>4, <2>5, <2>7, <2>8
<1> QED  BY <1>6, <1>7

LEMMA OnReadInv ==
    ASSUME InboxInv, Inbox!OnRead PROVE InboxInv'
<1> USE DEF InboxInv
<1> SUFFICES ASSUME NEW e, e = Head(feed) PROVE InboxInv'
  OBVIOUS
<1>1. /\ Inbox!Receive /\ e.type = "read" /\ e.c \in Conversations
      /\ e.row \in ConvRow
      /\ lastRead' = [lastRead EXCEPT ![e.c] = IF @ < e.row.read THEN e.row.read ELSE @]
      /\ refresh' = Inbox!Overtaken(e)
      /\ UNCHANGED <<conv, changes, due, timer, newest, kept, owed>>
  BY Moved DEF Inbox!OnRead
<1>2. PICK n \in Nat : n = Inbox!Unread(e.row)
  BY <1>1, ConvRowFacts
<1>3. /\ entry' \in Listing /\ late' \subseteq Conversations
      /\ \A c \in Conversations : /\ entry'[c].shown = entry[c].shown
                                  /\ entry[c].shown => entry'[c].labelled = entry[c].labelled
                                  /\ c # e.c => entry'[c] = entry[c] /\ (c \in late => c \in late')
      /\ entry[e.c].shown => entry'[e.c].unread = n
  <2>1. CASE entry[e.c].shown
    <3>1. entry' = [entry EXCEPT ![e.c] = [entry[e.c] EXCEPT !.unread = n]] /\ late' = late \ {e.c}
      BY <1>2, <2>1 DEF Inbox!OnRead
    <3>2. entry[e.c] \in ShownEntry
      BY <1>1, <2>1, EntryFacts DEF InboxTypes, Listing
    <3>3. /\ [entry[e.c] EXCEPT !.unread = n] \in ShownEntry
          /\ [entry[e.c] EXCEPT !.unread = n].unread = n
          /\ [entry[e.c] EXCEPT !.unread = n].labelled = entry[e.c].labelled
          /\ [entry[e.c] EXCEPT !.unread = n].shown
      BY <3>2 DEF ShownEntry
    <3> QED  BY <1>1, <2>1, <3>1, <3>3 DEF InboxTypes, Listing
  <2>2. CASE ~entry[e.c].shown
    <3>1. entry' = entry /\ late' = late
      BY <2>2 DEF Inbox!OnRead
    <3> QED  BY <2>2, <3>1 DEF InboxTypes
  <2> QED  BY <2>1, <2>2
<1>4. InboxTypes'
  <2>1. feed' \in Seq(ConvChange)
    BY <1>1, Moved
  <2>2. refresh' \in {Inbox!Idle} \union RefreshAsked \union RefreshRead
    BY <1>1, OvertakenFacts
  <2>3. lastRead' \in [Conversations -> Nat \union {-1}]
    BY <1>1, ConvRowFacts DEF InboxTypes
  <2> QED  BY <1>1, <1>3, <2>1, <2>2, <2>3
           DEF InboxTypes, ConvChange, RefreshRead, RefreshAsked, Listing
<1>5. ConvFeedInv'
  BY <1>1, FeedRest
<1>6. /\ conv[e.c].read # -1
      /\ \/ n = Inbox!Unread(conv[e.c])
         \/ \E j \in DOMAIN feed' : Of(j, "read", e.c)' /\ feed'[j].at > 0
  <2>1. /\ feed[1] = e /\ 1 \in DOMAIN feed
        /\ \A i \in DOMAIN feed : /\ i = 1 \/ (i > 1 /\ i - 1 \in DOMAIN feed' /\ feed'[i - 1] = feed[i])
                                  /\ feed[i].at > 0
    BY <1>1, Moved
  <2>2. /\ conv[e.c].read # -1
        /\ \/ Inbox!Unread(e.row) = Inbox!Unread(conv[e.c])
           \/ \E j \in DOMAIN feed : j > 1 /\ Of(j, "read", e.c)
    BY <1>1, <2>1 DEF ConvFeedInv, Of
  <2>3. ASSUME NEW j \in DOMAIN feed, j > 1, Of(j, "read", e.c)
        PROVE  \E i \in DOMAIN feed' : Of(i, "read", e.c)' /\ feed'[i].at > 0
    <3>1. j - 1 \in DOMAIN feed' /\ feed'[j - 1] = feed[j] /\ feed[j].at > 0
      BY <2>1, <2>3
    <3> QED  BY <2>3, <3>1 DEF Of
  <2> QED  BY <1>2, <2>2, <2>3
<1>7. UnreadInv'
  <2>1. ASSUME NEW c \in Conversations, conv[c].read = -1
        PROVE  c # e.c /\ lastRead'[c] = lastRead[c]
    BY <1>1, <1>6, <2>1 DEF InboxTypes
  <2> QED  BY <1>1, <2>1, OvertakenFacts DEF UnreadInv
<1>8. RefreshInv'
  <2>1. \A c \in Conversations :
           Reassigned(c) \/ timer \/ (conv[c].mine /\ entry[c].shown)
              => Reassigned(c)' \/ timer' \/ (conv[c].mine /\ entry'[c].shown)
    BY <1>1, <1>3, StillReaches
  <2> QED  BY <1>1, <2>1, RefreshRest
<1>9. InboxListInv'
  <2> SUFFICES ASSUME ~owed', Calm', NEW c \in Conversations PROVE Correct(c)'
    <3>1. ~owed => link' # "down" /\ (refresh'.pc = "read" => refresh'.joined)
      BY <1>1, Moved, OvertakenFacts DEF InboxListInv
    <3> QED  BY <1>1, <3>1 DEF InboxListInv
  <2>1. Correct(c)
    BY <1>1, OvertakenFacts DEF InboxListInv, Calm
  <2>2. newest \in Nat
    BY DEF InboxTypes
  <2>3. \/ Reassigned(c)'
        \/ IF conv[c].mine THEN entry'[c].shown /\ (c \notin kept => entry'[c].labelled)
           ELSE entry'[c].shown => c \in kept
    BY <1>1, <1>3, <2>1, StillReaches DEF Correct
  <2>4. ASSUME entry'[c].shown, c \notin late', c \notin kept
        PROVE  \E k \in Nat : k = entry'[c].unread /\ Reaches(c, k, newest, 0)'
    <3>1. CASE c # e.c
      <4>1. entry'[c] = entry[c] /\ c \notin late
        BY <1>3, <2>4, <3>1
      <4>2. PICK k : k = entry[c].unread
        OBVIOUS
      <4>3. k \in Nat /\ Reaches(c, k, newest, 0)
        BY <2>1, <2>4, <4>1, <4>2, EntryFacts DEF Correct, InboxTypes, Listing
      <4> QED  BY <1>1, <2>2, <3>1, <4>1, <4>2, <4>3, StillReaches
    <3>2. CASE c = e.c
      <4>1. Reaches(c, n, newest, 0)'
        BY <1>1, <1>2, <1>6, <3>2 DEF Reaches
      <4> QED  BY <1>3, <2>4, <3>2, <4>1
    <3> QED  BY <3>1, <3>2
  <2> QED  BY <1>1, <2>3, <2>4 DEF Correct
<1> QED  BY <1>4, <1>5, <1>7, <1>8, <1>9

LEMMA InboxStep == InboxInv /\ [Inbox!Next]_Inbox!vars => InboxInv'
<1> SUFFICES ASSUME InboxInv, [Inbox!Next]_Inbox!vars PROVE InboxInv'
  OBVIOUS
<1>1. CASE UNCHANGED Inbox!vars
  BY <1>1 DEF Inbox!vars, Inbox!inboxVars, Inbox!channelVars, InboxInv, InboxTypes, ConvChange,
     RefreshRead,
     RefreshAsked, Listing, ConvFeedInv, Of, UnreadInv, RefreshInv, InboxListInv, Calm, Correct, Reaches,
     Underway, Reassigned
<1>2. CASE Inbox!Next
  BY <1>2, ServerChangeInv, AskRefreshInv, ServeRefreshInv, ApplyRefreshInv, InboxLinkInv,
     OnMessageInv, OnConversationInv, OnReadInv
     DEF Inbox!Next
<1> QED  BY <1>1, <1>2

LEMMA InboxProperties == InboxInv => Inbox!TypeOK /\ Inbox!InboxSettles
<1> SUFFICES ASSUME InboxInv PROVE Inbox!TypeOK /\ Inbox!InboxSettles
  OBVIOUS
<1>1. Inbox!TypeOK
  BY DEF InboxInv, InboxTypes, Inbox!TypeOK, ConvRow, Listing
<1>2. ASSUME Inbox!Quiet, ~owed, NEW c \in Conversations
      PROVE  IF conv[c].mine
             THEN /\ entry[c].shown
                  /\ c \notin kept => entry[c].labelled
                  /\ c \notin late \union kept => entry[c].unread = Inbox!Unread(conv[c])
             ELSE entry[c].shown => c \in kept
  <2>1. Correct(c) /\ feed = <<>> /\ DOMAIN feed = {}
    BY <1>2 DEF InboxInv, InboxListInv, Inbox!Quiet, Inbox!Settled, Calm
  <2>2. ~Reassigned(c) /\ \A m \in Nat : ~Underway(m, c, newest)
    BY <2>1 DEF Reassigned, Underway
  <2>3. ASSUME entry[c].shown,
               c \notin late \union kept PROVE entry[c].unread = Inbox!Unread(conv[c])
    <3>1. Reaches(c, entry[c].unread, newest, 0) /\ entry[c].unread \in Nat
      BY <2>1, <2>3, EntryFacts DEF Correct, InboxInv, InboxTypes, Listing
    <3>2. CASE conv[c].read = -1
      <4>1. entry[c].unread <= conv[c].messages /\ conv[c].messages \in Nat
            /\ ~(entry[c].unread < conv[c].messages /\ conv[c].messages <= conv[c].messages)
        BY <2>1, <2>2, <3>1, <3>2, ConvRowFacts DEF Reaches, InboxInv, InboxTypes
      <4> QED  BY <3>1, <3>2, <4>1 DEF Inbox!Unread
    <3>3. CASE conv[c].read # -1
      BY <2>1, <3>1, <3>3 DEF Reaches
    <3> QED  BY <3>2, <3>3
  <2> QED  BY <2>1, <2>2, <2>3 DEF Correct
<1> QED  BY <1>1, <1>2 DEF Inbox!InboxSettles

\* What every step of the dashboard does in the inbox's scene.
LEMMA InboxKinds ==
    ASSUME [Next]_vars
    PROVE  scene' = scene /\ (scene = "inbox" => [Inbox!Next]_Inbox!vars)
  BY DEF Next, vars, Inbox!vars, inboxVars, channelVars, Inbox!inboxVars, Inbox!channelVars

LEMMA InboxScene == Spec => [](scene = "inbox" => InboxInv)
<1>1. Init => (scene = "inbox" => InboxInv)
  BY InboxInit DEF Init
<1>2. (scene = "inbox" => InboxInv) /\ [Next]_vars => (scene = "inbox" => InboxInv)'
  BY InboxStep, InboxKinds
<1> QED  BY <1>1, <1>2, PTL DEF Spec

\* InboxSettles: when nothing is under way, and a refresh has got through since
\* the channel was joined, the list has the member's conversations and their
\* unread counts.  Left out are what the last refresh did not have and the hook
\* kept (kept), and counts that a refresh older than an event already heard has
\* overwritten or whose message was counted twice (late).
THEOREM InboxShowsWhatIsStored == Spec => []InboxSettles
<1>1. (scene = "inbox" => InboxInv) => InboxSettles
  BY InboxProperties DEF InboxSettles
<1> QED  BY <1>1, InboxScene, PTL
-----------------------------------------------------------------------------
(***************************************************************************)
(* The notification bell, for any notifications, calls in flight, page     *)
(* size, and faults of the channel and the calls.                          *)
(*                                                                         *)
(* Rows or a count that were read at some age are Current if they are as   *)
(* stored, or the change that makes them so is younger and on its way.     *)
(* While the channel is joined every answer is, unless its older says that *)
(* it was overtaken; and so are the list and the badge, unless bellLate    *)
(* says so.  When a refresh pays what is owed, the marks that were served  *)
(* after it was read are: all that happened since was published.  Those    *)
(* served before it are overtaken by it.                                   *)
(***************************************************************************)

States == {"absent", "unread", "read"}
Rows == [Bell!Notifications -> States]
Parts == {"list", "badge"}
RowEvent == [type : {"insert", "update"}, n : Bell!Notifications, state : {"unread", "read"}, age : Nat]
CountEvent == [type : {"counter"}, count : Nat, age : Nat]
Event == RowEvent \union CountEvent
AskedRefresh == [kind : {"refresh"}, pc : {"asked"}, latest : BOOLEAN, age : {Bell!NoAge},
                 older : SUBSET Parts]
ListedRefresh == [kind : {"refresh"}, pc : {"listed"}, latest : BOOLEAN, joined : BOOLEAN,
                  rows : Rows, age : [list : Nat], older : SUBSET {"list"}]
DoneRefresh == [kind : {"refresh"}, pc : {"done"}, latest : BOOLEAN, joined : BOOLEAN,
                rows : Rows, count : Nat, age : [list : Nat, badge : Nat], older : SUBSET Parts]
AskedMore == [kind : {"more"}, pc : {"asked"}, latest : BOOLEAN, before : 0..MaxNotification,
              age : {Bell!NoAge}, older : SUBSET Parts]
DoneMore == [kind : {"more"}, pc : {"done"}, latest : BOOLEAN, before : 0..MaxNotification,
             rows : Rows, age : [list : Nat], older : SUBSET {"list"}]
AskedMark == [kind : {"mark"}, pc : {"asked"}, which : SUBSET Bell!Notifications, age : {Bell!NoAge},
              older : SUBSET Parts]
DoneMark == [kind : {"mark"}, pc : {"done"}, which : SUBSET Bell!Notifications, count : Nat,
             age : [list : Nat, badge : Nat], older : SUBSET Parts]
CallTypes == {Bell!NoCall} \union AskedRefresh \union ListedRefresh \union DoneRefresh
                \union AskedMore \union DoneMore \union AskedMark \union DoneMark

BellTypes ==
    /\ row \in Rows /\ item \in Rows /\ badge \in Nat /\ cursor \in 0..MaxNotification
    /\ call \in [Slots -> CallTypes]
    /\ feed \in Seq(Event)
    /\ bellLate \subseteq Parts /\ bellOwed \in BOOLEAN

Count(rows) == Bell!Cardinality(Bell!Unread(rows))

\* The change at place i of the feed is one of the row of n, or of the counter.
OfRow(i, n) == feed[i].type # "counter" /\ feed[i].n = n
OfCounter(i) == feed[i].type = "counter"

\* The last change of a row, and the last of the counter, agree with what is
\* stored; and every new notification is followed by a change of the counter.
EventsInv ==
    /\ link = "down" => feed = <<>> /\ bellOwed
    /\ \A i \in DOMAIN feed :
          /\ feed[i].age <= Bell!Age(row)
          /\ OfCounter(i) => feed[i].count = Count(row) \/ \E j \in DOMAIN feed : j > i /\ OfCounter(j)
          /\ feed[i].type = "insert" => \E j \in DOMAIN feed : j > i /\ OfCounter(j)
          /\ \A n \in Bell!Notifications : OfRow(i, n) =>
                /\ row[n] # "absent"
                /\ feed[i].state = row[n] \/ \E j \in DOMAIN feed : j > i /\ OfRow(j, n)

\* A change that happened after age a is on its way.
RowAfter(n, a) == \E i \in DOMAIN feed : OfRow(i, n) /\ feed[i].age > a
CountAfter(a) == \E i \in DOMAIN feed : OfCounter(i) /\ feed[i].age > a

\* Rows, or a count, that were read at age a are as they are stored, or the
\* change that makes them so is on its way.
Current(rows, a) == \A n \in Bell!Notifications : rows[n] = row[n] \/ RowAfter(n, a)
CountCurrent(k, a) == k = Count(row) \/ CountAfter(a)

Reading(r) == r.kind = "refresh" /\ r.pc # "asked"
Paged(r) == r.kind = "more" /\ r.pc = "done"
Marked(r) == r.kind = "mark" /\ r.pc = "done"
Latest(r) == r.kind \in {"refresh", "more"} /\ r.latest
MarksAll(r) == r.which = Bell!Notifications

\* What an answer that was read while the channel was joined lacks is on its
\* way, or was heard since.
ReadingInv(r) ==
    /\ "list" \in r.older \/ Current(r.rows, r.age.list)
    /\ r.pc = "listed" => "list" \in r.older \/ CountCurrent(Count(r.rows), r.age.list)
    /\ r.pc = "done" => "badge" \in r.older \/ CountCurrent(r.count, r.age.badge)

MoreInv(r) == "list" \in r.older \/ Current(r.rows, r.age.list)

MarkInv(r) ==
    /\ \/ "list" \in r.older
       \/ \A n \in r.which : row[n] # "unread" \/ RowAfter(n, r.age.list)
    /\ "badge" \in r.older \/ CountCurrent(r.count, r.age.list)

\* An answer knows of no notification that does not exist, and is not younger
\* than the rows; a mark has marked what it was asked to.
AnswerInv(r) ==
    /\ Reading(r) \/ Paged(r) =>
          \A n \in Bell!Notifications : r.rows[n] # "absent" => row[n] # "absent"
    /\ Reading(r) \/ Paged(r) \/ Marked(r) => r.age.list <= Bell!Age(row)
    /\ Reading(r) =>
          /\ r.age.list = Bell!Age(r.rows)
          /\ r.pc = "done" => r.age.badge <= Bell!Age(row)
          /\ r.joined => link # "down" /\ ReadingInv(r)
    /\ r.kind = "mark" =>
          MarksAll(r) \/ \E n \in Bell!Notifications : r.which = {n} /\ row[n] # "absent"
    /\ Marked(r) =>
          /\ r.age.badge = r.age.list
          /\ IF MarksAll(r) THEN r.count = 0 ELSE \A n \in r.which : row[n] = "read"
          /\ r.age.list = Bell!Age(row) => (\A n \in r.which : row[n] # "unread") /\ r.count = Count(row)

\* All that has happened since age a was published.
Published(a) ==
    ~bellOwed \/ \E c \in Slots : Reading(call[c]) /\ call[c].joined /\ call[c].age.list <= a

AnswersInv ==
    /\ \A c \in Slots : AnswerInv(call[c])
    /\ \A c, d \in Slots : Latest(call[c]) /\ Latest(call[d]) => c = d
    /\ \A c \in Slots : Marked(call[c]) /\ Published(call[c].age.list) => MarkInv(call[c])
    /\ ~bellOwed => \A c \in Slots : Latest(call[c]) =>
          /\ Reading(call[c]) => call[c].joined
          /\ Paged(call[c]) => MoreInv(call[c])

\* The list and the badge are right or will be.
ItemsInv ==
    /\ \A n \in Bell!Notifications : item[n] # "absent" => row[n] # "absent"
    /\ ~bellOwed =>
          /\ "badge" \notin bellLate => CountCurrent(badge, -1)
          /\ "list" \notin bellLate => \A n \in Bell!Notifications :
                \/ RowAfter(n, -1)
                \/ item[n] = row[n]
                \/ item[n] = "absent" /\ n \notin Bell!Page(row, MaxNotification + 1)

BellInv == BellTypes /\ EventsInv /\ AnswersInv /\ ItemsInv
-----------------------------------------------------------------------------
\* The cardinality the bell counts with is that of the theorems.
LEMMA SameCardinality == \A S : Bell!Cardinality(S) = Cardinality(S)
BY DEF Bell!Cardinality, Cardinality

LEMMA Finite ==
    ASSUME Bell!BellAssumption
    PROVE  /\ MaxNotification \in Nat /\ IsFiniteSet(Bell!Notifications) /\ IsFiniteSet({})
           /\ \A S \in SUBSET Bell!Notifications : IsFiniteSet(S) /\ Bell!Cardinality(S) \in Nat
           /\ \A S, T \in SUBSET Bell!Notifications :
                 S \subseteq T => Bell!Cardinality(S) <= Bell!Cardinality(T) /\ (Bell!Cardinality(S) = Bell!Cardinality(T) => S = T)
<1>1. MaxNotification \in Nat /\ IsFiniteSet(Bell!Notifications) /\ IsFiniteSet({})
  BY FS_Interval, FS_EmptySet, SameCardinality DEF Bell!BellAssumption, Bell!Notifications
<1>2. \A S \in SUBSET Bell!Notifications : IsFiniteSet(S) /\ Bell!Cardinality(S) \in Nat
  BY <1>1, FS_Subset, FS_CardinalityType, SameCardinality
<1>3. ASSUME NEW S \in SUBSET Bell!Notifications, NEW T \in SUBSET Bell!Notifications, S \subseteq T
      PROVE  Bell!Cardinality(S) <= Bell!Cardinality(T) /\ (Bell!Cardinality(S) = Bell!Cardinality(T) => S = T)
  BY <1>2, <1>3, FS_Subset, SameCardinality
<1> QED  BY <1>1, <1>2, <1>3

LEMMA CountType ==
    ASSUME Bell!BellAssumption, NEW rows \in Rows
    PROVE  Count(rows) \in Nat /\ Bell!Age(rows) \in Nat
<1>1. /\ Bell!Unread(rows) \in SUBSET Bell!Notifications
      /\ {n \in Bell!Notifications : rows[n] # "absent"} \in SUBSET Bell!Notifications
      /\ {n \in Bell!Notifications : rows[n] = "read"} \in SUBSET Bell!Notifications
  BY DEF Bell!Unread
<1>2. /\ Bell!Cardinality(Bell!Unread(rows)) \in Nat
      /\ Bell!Cardinality({n \in Bell!Notifications : rows[n] # "absent"}) \in Nat
      /\ Bell!Cardinality({n \in Bell!Notifications : rows[n] = "read"}) \in Nat
  BY <1>1, Finite
<1> QED  BY <1>2 DEF Count, Bell!Age

\* Notifications are created, and then read.
Grows(rows, new) ==
    \A n \in Bell!Notifications : rows[n] = "absent" \/ new[n] = rows[n] \/ new[n] = "read"

LEMMA AgeGrows ==
    ASSUME Bell!BellAssumption, NEW rows \in Rows, NEW new \in Rows, Grows(rows, new)
    PROVE  rows = new \/ Bell!Age(rows) < Bell!Age(new)
<1> DEFINE P(r) == {n \in Bell!Notifications : r[n] # "absent"}
           R(r) == {n \in Bell!Notifications : r[n] = "read"}
<1>1. /\ P(rows) \in SUBSET Bell!Notifications /\ P(new) \in SUBSET Bell!Notifications
      /\ R(rows) \in SUBSET Bell!Notifications /\ R(new) \in SUBSET Bell!Notifications
      /\ P(rows) \subseteq P(new) /\ R(rows) \subseteq R(new)
  BY DEF Grows
<1>2. rows # new => P(rows) # P(new) \/ R(rows) # R(new)
  <2> SUFFICES ASSUME NEW n \in Bell!Notifications, rows[n] # new[n]
               PROVE  P(rows) # P(new) \/ R(rows) # R(new)
    BY DEF Rows
  <2>1. (n \in P(new) /\ n \notin P(rows)) \/ (n \in R(new) /\ n \notin R(rows))
    BY DEF Grows, Rows, States
  <2> QED  BY <2>1
<1>3. Bell!Age(rows) = Bell!Cardinality(P(rows)) + Bell!Cardinality(R(rows))
      /\ Bell!Age(new) = Bell!Cardinality(P(new)) + Bell!Cardinality(R(new))
  BY DEF Bell!Age
<1> HIDE DEF P, R
<1>4. /\ Bell!Cardinality(P(rows)) \in Nat /\ Bell!Cardinality(P(new)) \in Nat
      /\ Bell!Cardinality(R(rows)) \in Nat /\ Bell!Cardinality(R(new)) \in Nat
      /\ Bell!Cardinality(P(rows)) <= Bell!Cardinality(P(new)) /\ Bell!Cardinality(R(rows)) <= Bell!Cardinality(R(new))
      /\ Bell!Cardinality(P(rows)) = Bell!Cardinality(P(new)) => P(rows) = P(new)
      /\ Bell!Cardinality(R(rows)) = Bell!Cardinality(R(new)) => R(rows) = R(new)
  BY <1>1, Finite
<1> QED  BY <1>2, <1>3, <1>4

\* What is there remains.
Remains(rows, new) == \A n \in Bell!Notifications : rows[n] # "absent" => new[n] # "absent"

\* A notification of the newest page was already on it when it existed.
LEMMA PageFacts ==
    ASSUME Bell!BellAssumption, NEW rows \in Rows, NEW new \in Rows, Remains(rows, new),
           NEW before
    PROVE  /\ Bell!Page(rows, before) \subseteq Bell!Notifications
           /\ \A n \in Bell!Page(rows, before) : rows[n] # "absent"
           /\ \A n \in Bell!Page(new, before) : rows[n] # "absent" => n \in Bell!Page(rows, before)
<1> DEFINE old(r) == {n \in Bell!Notifications : r[n] # "absent" /\ n < before}
<1>1. old(rows) \subseteq old(new)
  BY DEF Remains
<1>2. ASSUME NEW n \in Bell!Page(new, before),
             rows[n] # "absent" PROVE n \in Bell!Page(rows, before)
  <2>1. n \in old(new) /\ Bell!Cardinality({m \in old(new) : m > n}) < PageSize
    BY <1>2 DEF Bell!Page
  <2>2. /\ {m \in old(rows) : m > n} \in SUBSET Bell!Notifications
        /\ {m \in old(new) : m > n} \in SUBSET Bell!Notifications
        /\ {m \in old(rows) : m > n} \subseteq {m \in old(new) : m > n}
    BY <1>1
  <2>3. /\ Bell!Cardinality({m \in old(rows) : m > n}) <= Bell!Cardinality({m \in old(new) : m > n})
        /\ Bell!Cardinality({m \in old(rows) : m > n}) \in Nat /\ Bell!Cardinality({m \in old(new) : m > n}) \in Nat
    BY <2>2, Finite
  <2>4. Bell!Cardinality({m \in old(rows) : m > n}) < PageSize
    BY <2>1, <2>3 DEF Bell!BellAssumption
  <2> QED  BY <1>2, <2>1, <2>4 DEF Bell!Page
<1> QED  BY <1>2 DEF Bell!Page

LEMMA LeastExists ==
    ASSUME NEW S \in SUBSET Nat, S # {}
    PROVE  \E x \in S : \A y \in S : x <= y
<1>1. PICK R : IsWellFoundedOn(R, Nat) /\ \A m, n \in Nat : m < n => <<m, n>> \in R
  BY NatWellFounded
<1>2. PICK n \in S : \A m \in S : ~(<<m, n>> \in R)
  <2>1. IsWellFoundedOn(R, Nat)
    BY <1>1
  <2> QED  BY <2>1, WFMin
<1>3. ASSUME NEW m \in S PROVE n <= m
  <2>1. m \in Nat /\ n \in Nat
    OBVIOUS
  <2>2. ~(m < n)
    BY <1>1, <1>2, <2>1
  <2> QED  BY <2>1, <2>2
<1> QED  BY <1>3

\* The cursor is a notification of the page, which is not empty when there is an
\* older one.
LEMMA CursorType ==
    ASSUME Bell!BellAssumption, NEW rows \in Rows, NEW before
    PROVE  Bell!NextCursor(rows, before) \in 0..MaxNotification
<1> DEFINE old == {n \in Bell!Notifications : rows[n] # "absent" /\ n < before}
           page == Bell!Page(rows, before)
<1>1. page \subseteq Bell!Notifications /\ page = {n \in old : Bell!Cardinality({m \in old : m > n}) < PageSize}
  BY DEF Bell!Page
<1>2. MaxNotification \in Nat
  BY Finite
<1>3. CASE \E n \in old : n \notin page
  <2>1. page # {}
    <3> SUFFICES ASSUME page = {} PROVE FALSE
      OBVIOUS
    <3> DEFINE up == {MaxNotification - n : n \in old}
    <3>1. up \in SUBSET Nat /\ up # {}
      BY <1>2, <1>3 DEF Bell!Notifications
    <3>2. PICK k \in up : \A y \in up : k <= y
      BY <3>1, LeastExists
    <3>3. PICK n \in old : k = MaxNotification - n
      OBVIOUS
    <3>4. \A m \in old : ~(m > n)
      <4> SUFFICES ASSUME NEW m \in old, m > n PROVE FALSE
        OBVIOUS
      <4>1. MaxNotification - m \in up
        OBVIOUS
      <4>2. m \in Nat /\ n \in Nat
        BY DEF Bell!Notifications
      <4>3. MaxNotification - n <= MaxNotification - m
        BY <3>2, <3>3, <4>1
      <4> QED  BY <1>2, <4>2, <4>3
    <3>5. {m \in old : m > n} = {}
      BY <3>4
    <3>6. Bell!Cardinality({m \in old : m > n}) = 0
      BY <3>5, FS_EmptySet, SameCardinality
    <3>7. n \in page
      BY <1>1, <3>6 DEF Bell!BellAssumption
    <3> QED  BY <3>7
  <2>2. page \in SUBSET Nat
    BY <1>1 DEF Bell!Notifications
  <2>3. \E x \in page : \A y \in page : x <= y
    BY <2>1, <2>2, LeastExists
  <2>4. Bell!Min(page) \in page
    BY <2>3 DEF Bell!Min
  <2>5. Bell!Min(page) \in 0..MaxNotification
    BY <1>1, <1>2, <2>4 DEF Bell!Notifications
  <2> QED  BY <1>3, <2>5 DEF Bell!NextCursor
<1>4. CASE ~(\E n \in old : n \notin page)
  <2>1. Bell!NextCursor(rows, before) = 0
    BY <1>4 DEF Bell!NextCursor
  <2> QED  BY <1>2, <2>1
<1> QED  BY <1>3, <1>4

\* What a transaction publishes: a change of each row, and then of the counter.
ChangeOf(type, n, rows) == [type |-> type, n |-> n, state |-> rows[n], age |-> Bell!Age(rows)]

LEMMA ChangesFacts ==
    ASSUME Bell!BellAssumption, NEW rows \in Rows, NEW type \in {"insert", "update"},
           NEW changed \in SUBSET Bell!Notifications, \A n \in changed : rows[n] # "absent"
    PROVE  LET s == Bell!Changes(type, changed, rows) IN
           /\ s \in Seq(Event) /\ Len(s) > 0 /\ s[Len(s)] = Bell!Counter(rows)
           /\ \A i \in 1..Len(s) : i < Len(s) => \E n \in changed : s[i] = ChangeOf(type, n, rows)
           /\ \A n \in changed : \E i \in 1..Len(s) : s[i] = ChangeOf(type, n, rows)
<1> DEFINE S == {[type |-> type, n |-> n, state |-> rows[n], age |-> Bell!Age(rows)] : n \in changed}
           f == [n \in changed |-> ChangeOf(type, n, rows)]
           t == Bell!SetToSeq(S)
<1>1. Count(rows) \in Nat /\ Bell!Age(rows) \in Nat
  BY CountType
<1>2. /\ \A n \in changed : ChangeOf(type, n, rows) \in S
      /\ \A x \in S : \E n \in changed : x = ChangeOf(type, n, rows)
      /\ S \subseteq Event
  BY <1>1 DEF ChangeOf, Event, RowEvent, Rows, States
<1>3. IsFiniteSet(S)
  <2>1. IsFiniteSet(changed)
    BY Finite
  <2>2. f \in Surjection(changed, S)
    BY <1>2 DEF Surjection
  <2> QED  BY <2>1, <2>2, FS_Surjection, SameCardinality
<1> HIDE DEF S
<1>4. /\ Bell!Cardinality(S) \in Nat
      /\ t \in [1..Bell!Cardinality(S) -> S]
      /\ \A x \in S : \E i \in 1..Bell!Cardinality(S) : t[i] = x
  <2>1. Bell!Cardinality(S) \in Nat /\ ExistsBijection(1..Bell!Cardinality(S), S)
    BY <1>3, FS_CardinalityType, SameCardinality
  <2>2. PICK g : g \in Bijection(1..Bell!Cardinality(S), S)
    BY <2>1 DEF ExistsBijection
  <2>3. g \in [1..Bell!Cardinality(S) -> S] /\ Bell!IsInjective(g)
    BY <2>2 DEF Bijection, Injection, IsInjective, Bell!IsInjective
  <2>4. t \in [1..Bell!Cardinality(S) -> S] /\ Bell!IsInjective(t)
    BY <2>3 DEF Bell!SetToSeq
  <2>5. t \in Injection(1..Bell!Cardinality(S), S)
    BY <2>4 DEF Injection, IsInjective, Bell!IsInjective
  <2>6. Bell!Cardinality(1..Bell!Cardinality(S)) = Bell!Cardinality(S)
    BY <2>1, FS_Interval, SameCardinality
  <2>7. t \in Surjection(1..Bell!Cardinality(S), S)
    BY <1>3, <2>5, <2>6, FS_Injection, SameCardinality
  <2> QED  BY <2>1, <2>4, <2>7 DEF Surjection
<1> HIDE DEF t
<1>5. t \in Seq(Event) /\ Len(t) = Bell!Cardinality(S)
  BY <1>2, <1>4
<1>6. Bell!Counter(rows) \in Event
  BY <1>1 DEF Bell!Counter, Count, Event, CountEvent
<1> DEFINE s == t \o <<Bell!Counter(rows)>>
<1>7. /\ s \in Seq(Event) /\ Len(s) = Bell!Cardinality(S) + 1 /\ s[Len(s)] = Bell!Counter(rows)
      /\ \A i \in 1..Bell!Cardinality(S) : s[i] = t[i]
  BY <1>4, <1>5, <1>6
<1> HIDE DEF s
<1>8. /\ \A i \in 1..Len(s) : i < Len(s) => \E n \in changed : s[i] = ChangeOf(type, n, rows)
      /\ \A n \in changed : \E i \in 1..Len(s) : s[i] = ChangeOf(type, n, rows)
  <2>1. ASSUME NEW i \in 1..Len(s), i < Len(s)
        PROVE \E n \in changed : s[i] = ChangeOf(type, n, rows)
    <3>1. i \in 1..Bell!Cardinality(S)
      BY <1>4, <1>7, <2>1
    <3>2. s[i] \in S
      BY <1>4, <1>7, <3>1
    <3> QED  BY <1>2, <3>2
  <2>2. ASSUME NEW n \in changed PROVE \E i \in 1..Len(s) : s[i] = ChangeOf(type, n, rows)
    <3>1. PICK i \in 1..Bell!Cardinality(S) : t[i] = ChangeOf(type, n, rows)
      BY <1>2, <1>4
    <3>2. i \in 1..Len(s) /\ s[i] = t[i]
      BY <1>4, <1>7, <3>1
    <3> QED  BY <3>1, <3>2
  <2> QED  BY <2>1, <2>2
<1>9. Bell!Changes(type, changed, rows) = s
  BY DEF Bell!Changes, s, t, S
<1>10. Len(s) > 0
  BY <1>4, <1>7
<1> QED  BY <1>7, <1>8, <1>9, <1>10

\* A call in flight, after something was applied, was heard, or broke: it is the
\* same but for what it has lost, or it has ended.
Same(x, y) == y.kind = x.kind /\ (x.kind # "none" => y.pc = x.pc /\ y.age = x.age /\ x.older \subseteq y.older)

Weaker(x, y) ==
    y = Bell!NoCall \/
    /\ Same(x, y)
    /\ Reading(x) => y.rows = x.rows /\ (y.joined => x.joined) /\ (x.pc = "done" => y.count = x.count)
    /\ Paged(x) => y.rows = x.rows
    /\ x.kind = "mark" => y.which = x.which /\ (x.pc = "done" => y.count = x.count)
    /\ Latest(y) => Latest(x)

LEMMA CallFacts ==
    ASSUME NEW x \in CallTypes
    PROVE  /\ x.kind \in {"none", "refresh", "more", "mark"}
           /\ x.kind = "none" <=> x = Bell!NoCall
           /\ x.kind # "none" => x.older \subseteq Parts /\ DOMAIN x.age \subseteq Parts
           /\ x.kind = "refresh" => x.pc \in {"asked", "listed", "done"}
           /\ x.kind \in {"more", "mark"} => x.pc \in {"asked", "done"}
           /\ x.kind \in {"refresh", "more"} => x.latest \in BOOLEAN
           /\ Reading(x) =>
                 /\ x.joined \in BOOLEAN /\ x.rows \in Rows /\ x.age.list \in Nat
                 /\ "list" \in DOMAIN x.age
                 /\ x.pc = "listed" => x.older \subseteq {"list"}
                 /\ x.pc = "done" => x.count \in Nat /\ x.age.badge \in Nat /\ "badge" \in DOMAIN x.age
           /\ x.kind = "more" => x.before \in 0..MaxNotification
           /\ Paged(x) => x.rows \in Rows /\ x.age.list \in Nat /\ "list" \in DOMAIN x.age
           /\ x.kind = "mark" => x.which \subseteq Bell!Notifications
           /\ Marked(x) => /\ x.count \in Nat /\ x.age.list \in Nat /\ x.age.badge \in Nat
                           /\ "list" \in DOMAIN x.age /\ "badge" \in DOMAIN x.age
<1> USE DEF Reading, Paged, Marked, Parts, Bell!NoAge
<1>1. CASE x = Bell!NoCall
  BY <1>1 DEF Bell!NoCall
<1>2. CASE x \in AskedRefresh
  BY <1>2 DEF AskedRefresh, Bell!NoCall
<1>3. CASE x \in ListedRefresh
  BY <1>3 DEF ListedRefresh, Bell!NoCall
<1>4. CASE x \in DoneRefresh
  BY <1>4 DEF DoneRefresh, Bell!NoCall
<1>5. CASE x \in AskedMore
  BY <1>5 DEF AskedMore, Bell!NoCall
<1>6. CASE x \in DoneMore
  BY <1>6 DEF DoneMore, Bell!NoCall
<1>7. CASE x \in AskedMark
  BY <1>7 DEF AskedMark, Bell!NoCall
<1>8. CASE x \in DoneMark
  BY <1>8 DEF DoneMark, Bell!NoCall
<1> QED  BY <1>1, <1>2, <1>3, <1>4, <1>5, <1>6, <1>7, <1>8 DEF CallTypes

\* What is older than something that was applied or heard.
OvertakenCall(x, a) == [x EXCEPT !.older = @ \union {part \in DOMAIN x.age : x.age[part] < a}]

LEMMA OvertakenCallFacts ==
    ASSUME NEW x \in CallTypes, x.kind # "none", NEW a, NEW y, y = OvertakenCall(x, a)
    PROVE  /\ y \in CallTypes /\ Weaker(x, y)
           /\ \A part \in DOMAIN x.age : x.age[part] < a => part \in y.older
           /\ Reading(x) => y.joined = x.joined
           /\ Latest(x) => Latest(y)
<1> USE DEF Reading, Paged, Marked, Parts, Bell!NoAge, OvertakenCall, Weaker, Same, Latest, Bell!NoCall
<1>1. CASE x \in AskedRefresh
  BY <1>1 DEF AskedRefresh, CallTypes
<1>2. CASE x \in ListedRefresh
  BY <1>2 DEF ListedRefresh, CallTypes
<1>3. CASE x \in DoneRefresh
  BY <1>3 DEF DoneRefresh, CallTypes
<1>4. CASE x \in AskedMore
  BY <1>4 DEF AskedMore, CallTypes
<1>5. CASE x \in DoneMore
  BY <1>5 DEF DoneMore, CallTypes
<1>6. CASE x \in AskedMark
  BY <1>6 DEF AskedMark, CallTypes
<1>7. CASE x \in DoneMark
  BY <1>7 DEF DoneMark, CallTypes
<1> QED  BY <1>1, <1>2, <1>3, <1>4, <1>5, <1>6, <1>7 DEF CallTypes

LEMMA NotLatestFacts ==
    ASSUME NEW x \in CallTypes, x.kind \in {"refresh", "more"}, NEW y,
           y = [x EXCEPT !.latest = FALSE]
    PROVE  y \in CallTypes /\ Weaker(x, y) /\ ~Latest(y) /\ (Reading(x) => y.joined = x.joined)
<1> USE DEF Reading, Paged, Marked, Bell!NoAge, Weaker, Same, Latest, Bell!NoCall
<1>1. CASE x \in AskedRefresh
  BY <1>1 DEF AskedRefresh, CallTypes
<1>2. CASE x \in ListedRefresh
  BY <1>2 DEF ListedRefresh, CallTypes
<1>3. CASE x \in DoneRefresh
  BY <1>3 DEF DoneRefresh, CallTypes
<1>4. CASE x \in AskedMore
  BY <1>4 DEF AskedMore, CallTypes
<1>5. CASE x \in DoneMore
  BY <1>5 DEF DoneMore, CallTypes
<1>6. x \notin AskedMark /\ x \notin DoneMark /\ x # Bell!NoCall
  BY DEF AskedMark, DoneMark
<1> QED  BY <1>1, <1>2, <1>3, <1>4, <1>5, <1>6 DEF CallTypes

LEMMA BrokenFacts ==
    ASSUME NEW x \in CallTypes, Reading(x), NEW y, y = [x EXCEPT !.joined = FALSE]
    PROVE  y \in CallTypes /\ Weaker(x, y) /\ ~y.joined
<1> USE DEF Reading, Paged, Marked, Bell!NoAge, Weaker, Same, Latest, Bell!NoCall
<1>1. CASE x \in ListedRefresh
  BY <1>1 DEF ListedRefresh, CallTypes
<1>2. CASE x \in DoneRefresh
  BY <1>2 DEF DoneRefresh, CallTypes
<1>3. /\ x \notin AskedRefresh /\ x \notin AskedMore /\ x \notin DoneMore
      /\ x \notin AskedMark /\ x \notin DoneMark /\ x # Bell!NoCall
  BY DEF AskedRefresh, AskedMore, DoneMore, AskedMark, DoneMark
<1> QED  BY <1>1, <1>2, <1>3 DEF CallTypes

LEMMA UnchangedFacts ==
    ASSUME NEW x \in CallTypes
    PROVE  Weaker(x, x) /\ Bell!NoCall \in CallTypes /\ Weaker(x, Bell!NoCall) /\ ~Latest(Bell!NoCall)
BY DEF Weaker, Same, CallTypes, Latest, Bell!NoCall

\* What is on its way since age a stays so, and what happens now comes after it.
Kept(a) ==
    /\ \A n \in Bell!Notifications : RowAfter(n, a) \/ row'[n] # row[n] => RowAfter(n, a)'
    /\ CountAfter(a) \/ row' # row => CountAfter(a)'

\* An answer knows that it has been overtaken, or nothing has been taken from
\* what is on its way.
Heard(x, y) ==
    y.kind # "none" => \A part \in DOMAIN x.age, a \in Nat : x.age[part] = a => part \in y.older \/ Kept(a)

Asked(y) ==
    /\ y.kind # "none" /\ y.pc = "asked"
    /\ y.kind = "mark" => MarksAll(y) \/ \E n \in Bell!Notifications : y.which = {n} /\ row[n] # "absent"

Follows(x, y) == Asked(y) \/ (Weaker(x, y) /\ (link = "down" \/ Heard(x, y)))

LEMMA AnswerKept ==
    ASSUME Bell!BellAssumption, BellInv, row' \in Rows, Grows(row, row'),
           link # "down" => link' # "down",
           NEW d \in Slots, call'[d] \in CallTypes, Follows(call[d], call'[d])
    PROVE  /\ AnswerInv(call[d])'
           /\ link # "down" /\ Marked(call'[d]) /\ (MarkInv(call[d]) \/ Parts \subseteq call'[d].older)
                 => MarkInv(call[d])'
           /\ link # "down" /\ Paged(call'[d]) /\ MoreInv(call[d]) => MoreInv(call[d])'
<1> DEFINE x == call[d]
           y == call'[d]
<1>1. /\ x \in CallTypes /\ AnswerInv(x) /\ row \in Rows
      /\ row = row' \/ Bell!Age(row) < Bell!Age(row')
      /\ Bell!Age(row) \in Nat /\ Bell!Age(row') \in Nat
  BY AgeGrows, CountType DEF BellInv, BellTypes, AnswersInv
<1>2. \A n \in Bell!Notifications :
      /\ row[n] # "absent" => row'[n] # "absent"
      /\ row[n] = "read" => row'[n] = "read"
      /\ row[n] # "unread" /\ row[n] # "absent" => row'[n] # "unread"
  BY <1>1 DEF Grows, Rows, States
<1>3. CASE Asked(y)
  <2>1. ~Reading(y) /\ ~Paged(y) /\ ~Marked(y)
    BY <1>3 DEF Asked, Reading, Paged, Marked
  <2>2. AnswerInv(call[d])'
    BY <1>2, <1>3, <2>1 DEF AnswerInv, Asked, Reading, Paged, Marked, MarksAll
  <2> QED  BY <2>1, <2>2
<1>4. CASE y = Bell!NoCall
  BY <1>4 DEF Bell!NoCall, AnswerInv, Reading, Paged, Marked
<1>5. CASE y # Bell!NoCall /\ Weaker(x, y) /\ (link = "down" \/ Heard(x, y))
  <2>1. /\ Same(x, y) /\ y.kind # "none" /\ x.kind = y.kind
        /\ Reading(y) <=> Reading(x)
        /\ Paged(y) <=> Paged(x)
        /\ Marked(y) <=> Marked(x)
    BY <1>1, <1>5, CallFacts DEF Weaker, Same, Reading, Paged, Marked
  <2>2. y.pc = x.pc /\ y.age = x.age /\ x.older \subseteq y.older
    BY <2>1 DEF Same
  <2>3. /\ Reading(x) => y.rows = x.rows /\ (y.joined => x.joined) /\ (x.pc = "done" => y.count = x.count)
        /\ Paged(x) => y.rows = x.rows
        /\ x.kind = "mark" => y.which = x.which /\ (x.pc = "done" => y.count = x.count)
    BY <1>5 DEF Weaker
  <2>4. ASSUME NEW part \in DOMAIN x.age, NEW a \in Nat, a = x.age[part], part \notin y.older,
               link # "down"
        PROVE  Kept(a) /\ part \notin x.older
    BY <1>5, <2>1, <2>2, <2>4 DEF Heard
  <2>5. ASSUME NEW a \in Nat, Kept(a)
        PROVE  /\ \A n \in Bell!Notifications : row[n] # "unread" \/ RowAfter(n, a) => row'[n] # "unread" \/ RowAfter(n, a)'
               /\ \A rows : Current(rows, a) => Current(rows, a)'
               /\ \A k : CountCurrent(k, a) => CountCurrent(k, a)'
    BY <2>5 DEF Kept, Current, CountCurrent
  <2>6. ASSUME Reading(y), y.joined PROVE link' # "down" /\ ReadingInv(call[d])'
    <3>1. /\ link # "down" /\ link' # "down" /\ ReadingInv(x) /\ Reading(x)
      BY <1>1, <2>1, <2>3, <2>6 DEF AnswerInv
    <3>2. "list" \in DOMAIN x.age /\ (x.pc = "done" => "badge" \in DOMAIN x.age)
      BY <1>1, <3>1, CallFacts
    <3>3. ASSUME NEW a \in Nat, a = x.age.list, NEW rows, rows = x.rows
          PROVE  /\ "list" \in y.older \/ Current(rows, a)'
                 /\ y.pc = "listed" => "list" \in y.older \/ CountCurrent(Count(rows), a)'
      BY <2>2, <2>4, <2>5, <3>1, <3>2, <3>3 DEF ReadingInv
    <3>4. ASSUME NEW a \in Nat, a = x.age.badge, NEW k, k = x.count, y.pc = "done"
          PROVE  "badge" \in y.older \/ CountCurrent(k, a)'
      BY <2>2, <2>4, <2>5, <3>1, <3>2, <3>4 DEF ReadingInv
    <3>5. /\ x.age.list \in Nat /\ y.age = x.age /\ y.pc = x.pc /\ y.rows = x.rows
          /\ x.pc = "done" => x.age.badge \in Nat /\ y.count = x.count
      BY <1>1, <2>2, <2>3, <3>1, CallFacts
    <3> QED  BY <3>1, <3>3, <3>4, <3>5 DEF ReadingInv
  <2>7. AnswerInv(call[d])'
    <3>1. /\ Reading(y) \/ Paged(y) => \A n \in Bell!Notifications : y.rows[n] # "absent" => row'[n] # "absent"
          /\ Reading(y) \/ Paged(y) \/ Marked(y) => y.age.list <= Bell!Age(row')
          /\ Reading(y) => y.age.list = Bell!Age(y.rows) /\ (y.pc = "done" => y.age.badge <= Bell!Age(row'))
      BY <1>1, <1>2, <2>1, <2>2, <2>3, CallFacts DEF AnswerInv
    <3>2. y.kind = "mark" => MarksAll(y) \/ \E n \in Bell!Notifications : y.which = {n} /\ row'[n] # "absent"
      BY <1>1, <1>2, <2>1, <2>3 DEF AnswerInv, MarksAll
    <3>3. Marked(y) =>
            /\ y.age.badge = y.age.list
            /\ IF MarksAll(y) THEN y.count = 0 ELSE \A n \in y.which : row'[n] = "read"
            /\ y.age.list = Bell!Age(row') => (\A n \in y.which : row'[n] # "unread") /\ y.count = Count(row')
      <4> SUFFICES ASSUME Marked(y)
                   PROVE /\ y.age.badge = y.age.list
                         /\ IF MarksAll(y) THEN y.count = 0 ELSE \A n \in y.which : row'[n] = "read"
                         /\ y.age.list = Bell!Age(row') => (\A n \in y.which : row'[n] # "unread") /\ y.count = Count(row')
        OBVIOUS
      <4>1. /\ x.kind = "mark" /\ x.pc = "done" /\ Marked(x) /\ x.which \subseteq Bell!Notifications
            /\ y.which = x.which /\ y.count = x.count /\ x.age.list \in Nat
        BY <1>1, <2>1, <2>3, CallFacts DEF Marked
      <4>2. /\ x.age.badge = x.age.list /\ x.age.list <= Bell!Age(row)
            /\ IF MarksAll(x) THEN x.count = 0 ELSE \A n \in x.which : row[n] = "read"
            /\ x.age.list = Bell!Age(row) => (\A n \in x.which : row[n] # "unread") /\ x.count = Count(row)
        BY <1>1, <4>1 DEF AnswerInv
      <4>3. IF MarksAll(y) THEN y.count = 0 ELSE \A n \in y.which : row'[n] = "read"
        BY <1>2, <4>1, <4>2 DEF MarksAll
      <4>4. y.age.list = Bell!Age(row') => row' = row
        BY <1>1, <2>2, <4>1, <4>2
      <4> QED  BY <2>2, <4>1, <4>2, <4>3, <4>4
    <3> QED  BY <2>6, <3>1, <3>2, <3>3 DEF AnswerInv, Reading, Paged, Marked, MarksAll
  <2>8. ASSUME link # "down", Marked(y),
               MarkInv(x) \/ Parts \subseteq y.older PROVE MarkInv(call[d])'
    <3>1. CASE Parts \subseteq y.older
      BY <3>1 DEF MarkInv, Parts
    <3>2. CASE MarkInv(x)
      <4>1. /\ x.which \subseteq Bell!Notifications /\ "list" \in DOMAIN x.age /\ "badge" \in DOMAIN x.age
            /\ y.which = x.which /\ y.count = x.count /\ x.age.badge = x.age.list /\ Marked(x)
        BY <1>1, <2>1, <2>3, <2>8, CallFacts DEF AnswerInv, Marked
      <4>2. ASSUME NEW a \in Nat, a = x.age.list, NEW k, k = x.count
            PROVE  /\ \/ "list" \in y.older
                      \/ \A n \in y.which : row'[n] # "unread" \/ RowAfter(n, a)'
                   /\ "badge" \in y.older \/ CountCurrent(k, a)'
        <5>1. "list" \notin y.older => Kept(a) /\ "list" \notin x.older
          BY <2>4, <2>8, <4>1, <4>2
        <5>2. "badge" \notin y.older => Kept(a) /\ "badge" \notin x.older
          BY <2>4, <2>8, <4>1, <4>2
        <5> QED  BY <2>5, <3>2, <4>1, <4>2, <5>1, <5>2 DEF MarkInv
      <4>3. x.age.list \in Nat /\ y.age = x.age
        BY <1>1, <2>2, <4>1, CallFacts
      <4> QED  BY <4>1, <4>2, <4>3 DEF MarkInv
    <3> QED  BY <2>8, <3>1, <3>2
  <2>9. ASSUME link # "down", Paged(y), MoreInv(x) PROVE MoreInv(call[d])'
    <3>1. "list" \in DOMAIN x.age /\ y.rows = x.rows
      BY <1>1, <2>1, <2>3, <2>9, CallFacts
    <3>2. ASSUME NEW a \in Nat, a = x.age.list, NEW rows, rows = x.rows
          PROVE  "list" \in y.older \/ Current(rows, a)'
      BY <2>2, <2>4, <2>5, <2>9, <3>1, <3>2 DEF MoreInv
    <3>3. x.age.list \in Nat /\ y.age = x.age
      BY <1>1, <2>1, <2>2, <2>9, CallFacts
    <3> QED  BY <3>1, <3>2, <3>3 DEF MoreInv
  <2> QED  BY <2>7, <2>8, <2>9
<1>6. y = Bell!NoCall \/ Asked(y) \/ (y # Bell!NoCall /\ Weaker(x, y) /\ (link = "down" \/ Heard(x, y)))
  BY DEF Follows
<1> QED  BY <1>3, <1>4, <1>5, <1>6

\* What all changes have been published since, unless c has just been read.
LEMMA PublishedKept ==
    ASSUME Bell!BellAssumption, BellInv, bellOwed' = bellOwed, NEW c,
           \A d \in Slots : d = c \/ Follows(call[d], call'[d]),
           c \in Slots /\ Reading(call'[c]) /\ call'[c].joined =>
              \/ Reading(call[c]) /\ call[c].joined /\ call'[c].age.list = call[c].age.list
              \/ link # "down" /\ call'[c].age.list = Bell!Age(row),
           NEW d \in Slots, NEW a \in Nat, Marked(call[d]), call[d].age.list = a, Published(a)'
    PROVE  link # "down" /\ MarkInv(call[d])
<1>1. \A e \in Slots : call[e] \in CallTypes /\ AnswerInv(call[e])
  BY DEF BellInv, BellTypes, AnswersInv
<1>2. CASE ~bellOwed
  BY <1>2 DEF BellInv, EventsInv, AnswersInv, Published
<1>3. CASE bellOwed
  <2>1. PICK e \in Slots : Reading(call'[e]) /\ call'[e].joined /\ call'[e].age.list <= a
    BY <1>3 DEF Published, Reading
  <2>2. CASE Reading(call[e]) /\ call[e].joined /\ call'[e].age.list = call[e].age.list
    <3>1. link # "down"
      BY <1>1, <2>2 DEF AnswerInv
    <3>2. Published(call[d].age.list)
      BY <2>1, <2>2 DEF Published
    <3> QED  BY <3>1, <3>2 DEF BellInv, AnswersInv
  <2>3. CASE link # "down" /\ call'[e].age.list = Bell!Age(row)
    <3>1. a <= Bell!Age(row) /\ Bell!Age(row) \in Nat
      BY <1>1, CountType DEF AnswerInv, BellInv, BellTypes
    <3>2. a = Bell!Age(row)
      BY <2>1, <2>3, <3>1
    <3>3. (\A n \in call[d].which : row[n] # "unread") /\ call[d].count = Count(row)
      BY <1>1, <3>2 DEF AnswerInv
    <3> QED  BY <2>3, <3>3 DEF MarkInv, CountCurrent
  <2>4. CASE e # c
    <3>1. call'[e] # Bell!NoCall /\ ~Asked(call'[e])
      BY <2>1 DEF Bell!NoCall, Reading, Asked
    <3>2. Same(call[e], call'[e]) /\ (Reading(call[e]) => (call'[e].joined => call[e].joined))
      BY <2>4, <3>1 DEF Follows, Weaker
    <3>3. Reading(call[e]) /\ call'[e].age = call[e].age
      BY <1>1, <2>1, <3>2, CallFacts DEF Same, Reading
    <3> QED  BY <2>1, <2>2, <3>2, <3>3
  <2> QED  BY <2>1, <2>2, <2>3, <2>4
<1>4. bellOwed \in BOOLEAN
  BY DEF BellInv, BellTypes
<1> QED  BY <1>2, <1>3, <1>4

\* A step after which every call but c follows what it was.
LEMMA AnswersStep ==
    ASSUME Bell!BellAssumption, BellInv, BellTypes', Grows(row, row'),
           link # "down" => link' # "down",
           NEW c, \A d \in Slots : d = c \/ Follows(call[d], call'[d]),
           c \in Slots => /\ AnswerInv(call[c])'
                          /\ Marked(call'[c]) /\ Published(call[c].age.list)' => MarkInv(call[c])'
                          /\ ~bellOwed' /\ Latest(call'[c]) =>
                                /\ Reading(call'[c]) => call'[c].joined
                                /\ Paged(call'[c]) => MoreInv(call[c])',
           \A d \in Slots, a \in Nat : d # c /\ Marked(call[d]) /\ call[d].age.list = a /\ Published(a)' =>
              link # "down" /\ (MarkInv(call[d]) \/ call'[d].kind # "mark" \/ Parts \subseteq call'[d].older),
           ~bellOwed' => \A d \in Slots : d # c /\ Latest(call'[d]) =>
              ~bellOwed /\ (Reading(call[d]) => call'[d].joined = call[d].joined),
           \A d, e \in Slots : Latest(call'[d]) /\ Latest(call'[e]) => d = e
    PROVE  AnswersInv'
<1>1. /\ row' \in Rows
      /\ \A d \in Slots : call[d] \in CallTypes /\ call'[d] \in CallTypes
  BY DEF BellInv, BellTypes
<1>2. ASSUME NEW d \in Slots, d # c
      PROVE  /\ AnswerInv(call[d])'
             /\ link # "down" /\ Marked(call'[d]) /\ (MarkInv(call[d]) \/ Parts \subseteq call'[d].older)
                   => MarkInv(call[d])'
             /\ link # "down" /\ Paged(call'[d]) /\ MoreInv(call[d]) => MoreInv(call[d])'
  BY <1>1, <1>2, AnswerKept
<1>3. \A d \in Slots : AnswerInv(call[d])'
  BY <1>2
<1>4. ASSUME NEW d \in Slots, d # c, ~Asked(call'[d]), call'[d].kind # "none"
      PROVE  Same(call[d], call'[d]) /\ Weaker(call[d], call'[d]) /\ call'[d] # Bell!NoCall
  BY <1>4 DEF Follows, Weaker, Bell!NoCall
<1>5. ASSUME NEW d \in Slots, Marked(call'[d]), Published(call[d].age.list)' PROVE MarkInv(call[d])'
  <2>1. CASE d = c
    BY <1>5, <2>1
  <2>2. CASE d # c
    <3>1. Same(call[d], call'[d])
      BY <1>4, <1>5, <2>2 DEF Marked, Asked
    <3>2. Marked(call[d]) /\ call'[d].age = call[d].age
      BY <1>5, <3>1 DEF Same, Marked
    <3>3. call[d].age.list \in Nat
      BY <1>1, <3>2, CallFacts
    <3>4. ASSUME NEW a \in Nat, a = call[d].age.list
          PROVE  link # "down" /\ (MarkInv(call[d]) \/ Parts \subseteq call'[d].older)
      <4>1. Published(a)'
        BY <1>5, <3>2, <3>4 DEF Published
      <4> QED  BY <1>5, <2>2, <3>2, <3>4, <4>1 DEF Marked
    <3> QED  BY <1>2, <1>5, <2>2, <3>3, <3>4
  <2> QED  BY <2>1, <2>2
<1>6. ASSUME ~bellOwed', NEW d \in Slots, Latest(call'[d])
      PROVE  /\ Reading(call'[d]) => call'[d].joined
             /\ Paged(call'[d]) => MoreInv(call[d])'
  <2>1. CASE d = c
    BY <1>6, <2>1
  <2>2. CASE d # c
    <3>1. ~bellOwed /\ (Reading(call[d]) => call'[d].joined = call[d].joined) /\ link # "down"
      BY <1>6, <2>2 DEF BellInv, EventsInv
    <3>2. ASSUME ~Asked(call'[d]) PROVE Same(call[d], call'[d]) /\ Latest(call[d])
      BY <1>4, <1>6, <2>2, <3>2 DEF Weaker, Latest
    <3>3. ASSUME Reading(call'[d]) PROVE call'[d].joined
      <4>1. Reading(call[d]) /\ Latest(call[d])
        BY <3>2, <3>3 DEF Same, Reading, Asked
      <4> QED  BY <3>1, <4>1 DEF BellInv, AnswersInv
    <3>4. ASSUME Paged(call'[d]) PROVE MoreInv(call[d])'
      <4>1. Paged(call[d]) /\ Latest(call[d])
        BY <3>2, <3>4 DEF Same, Paged, Asked
      <4> QED  BY <1>2, <2>2, <3>1, <3>4, <4>1 DEF BellInv, AnswersInv
    <3> QED  BY <3>3, <3>4
  <2> QED  BY <2>1, <2>2
<1> QED  BY <1>3, <1>5, <1>6 DEF AnswersInv

LEMMA Followed ==
    ASSUME Bell!BellAssumption, BellInv, BellTypes', Grows(row, row'),
           link # "down" => link' # "down",
           bellOwed' = bellOwed,
           \A d \in Slots : /\ Follows(call[d], call'[d])
                            /\ Reading(call[d]) /\ Latest(call'[d]) => call'[d].joined = call[d].joined,
           \A d, e \in Slots : Latest(call'[d]) /\ Latest(call'[e]) => d = e
    PROVE  AnswersInv'
<1>1. PICK c : c \notin Slots
  <2> DEFINE R == {x \in Slots : x \notin x}
  <2>1. R \notin Slots
    OBVIOUS
  <2> QED  BY <2>1
<1>2. ASSUME NEW d \in Slots, NEW a \in Nat, Marked(call[d]), call[d].age.list = a, Published(a)'
      PROVE  link # "down" /\ MarkInv(call[d])
  BY <1>1, <1>2, PublishedKept
<1> QED  BY <1>1, <1>2, AnswersStep

-----------------------------------------------------------------------------
\* A change is handed to the hook: the others move up.
LEMMA BellMoves ==
    ASSUME BellInv, Bell!Receive, NEW e, e = Head(feed)
    PROVE  /\ e \in Event /\ 1 \in DOMAIN feed /\ feed[1] = e /\ feed' \in Seq(Event)
           /\ link # "down" /\ link' = link
           /\ \A i \in DOMAIN feed' : i \in Nat /\ i + 1 \in DOMAIN feed /\ feed'[i] = feed[i + 1]
           /\ \A i \in DOMAIN feed : /\ i \in Nat /\ i >= 1
                                     /\ i = 1 \/ (i - 1 \in DOMAIN feed' /\ feed'[i - 1] = feed[i])
BY DEF BellInv, BellTypes, Bell!Receive

LEMMA EventFacts ==
    ASSUME NEW e \in Event
    PROVE  /\ e.age \in Nat /\ e.type \in {"insert", "update", "counter"}
           /\ e.type = "counter" => e.count \in Nat
           /\ e.type # "counter" => e.n \in Bell!Notifications /\ e.state \in {"unread", "read"}
BY DEF Event, RowEvent, CountEvent

LEMMA EventsRest ==
    ASSUME BellInv, Bell!Receive, row' = row, bellOwed' = bellOwed
    PROVE  EventsInv'
<1>1. /\ link # "down" /\ link' = link
      /\ \A i \in DOMAIN feed' : i \in Nat /\ i + 1 \in DOMAIN feed /\ feed'[i] = feed[i + 1]
      /\ \A i \in DOMAIN feed : /\ i \in Nat /\ i >= 1
                                /\ i = 1 \/ (i - 1 \in DOMAIN feed' /\ feed'[i - 1] = feed[i])
  BY BellMoves
<1>2. ASSUME NEW i \in DOMAIN feed', NEW j \in DOMAIN feed, j > i + 1
      PROVE  j - 1 \in DOMAIN feed' /\ j - 1 > i /\ feed'[j - 1] = feed[j]
  <2>1. j # 1 /\ j - 1 > i
    BY <1>1, <1>2
  <2> QED  BY <1>1, <2>1
<1>3. ASSUME NEW i \in DOMAIN feed'
      PROVE  /\ feed'[i].age <= Bell!Age(row)
             /\ OfCounter(i)' => feed'[i].count = Count(row) \/ (\E j \in DOMAIN feed' : j > i /\ OfCounter(j)')
             /\ feed'[i].type = "insert" => \E j \in DOMAIN feed' : j > i /\ OfCounter(j)'
  <2>1. /\ feed[i + 1].age <= Bell!Age(row)
        /\ OfCounter(i + 1) => feed[i + 1].count = Count(row) \/ \E j \in DOMAIN feed : j > i + 1 /\ OfCounter(j)
        /\ feed[i + 1].type = "insert" => \E j \in DOMAIN feed : j > i + 1 /\ OfCounter(j)
    BY <1>1 DEF BellInv, EventsInv
  <2>2. (\E j \in DOMAIN feed : j > i + 1 /\ OfCounter(j)) => (\E j \in DOMAIN feed' : j > i /\ OfCounter(j)')
    <3> SUFFICES ASSUME NEW j \in DOMAIN feed, j > i + 1, OfCounter(j)
                 PROVE \E k \in DOMAIN feed' : k > i /\ OfCounter(k)'
      OBVIOUS
    <3>1. OfCounter(j - 1)' /\ j - 1 \in DOMAIN feed' /\ j - 1 > i
      BY <1>2 DEF OfCounter
    <3> QED  BY <3>1
  <2>3. OfCounter(i)' <=> OfCounter(i + 1)
    BY <1>1 DEF OfCounter
  <2> QED  BY <1>1, <2>1, <2>2, <2>3
<1>4. ASSUME NEW i \in DOMAIN feed', NEW n \in Bell!Notifications, OfRow(i, n)'
      PROVE  row[n] # "absent" /\ (feed'[i].state = row[n] \/ \E j \in DOMAIN feed' : j > i /\ OfRow(j, n)')
  <2>1. OfRow(i + 1, n) /\ i + 1 \in DOMAIN feed /\ feed'[i] = feed[i + 1]
    BY <1>1, <1>4 DEF OfRow
  <2>2. /\ row[n] # "absent"
        /\ feed[i + 1].state = row[n] \/ \E j \in DOMAIN feed : j > i + 1 /\ OfRow(j, n)
    BY <2>1 DEF BellInv, EventsInv
  <2>3. ASSUME NEW j \in DOMAIN feed, j > i + 1, OfRow(j, n)
        PROVE  \E k \in DOMAIN feed' : k > i /\ OfRow(k, n)'
    <3>1. OfRow(j - 1, n)' /\ j - 1 \in DOMAIN feed' /\ j - 1 > i
      BY <1>2, <2>3 DEF OfRow
    <3> QED  BY <3>1
  <2> QED  BY <2>1, <2>2, <2>3
<1> QED  BY <1>1, <1>3, <1>4 DEF EventsInv

\* Only a claim on what is younger than age a loses this change.
LEMMA HandedKept ==
    ASSUME BellInv, Bell!Receive, row' = row, NEW e, e = Head(feed), NEW a \in Int
    PROVE  /\ e.age <= a => Kept(a)
           /\ \A n \in Bell!Notifications : RowAfter(n, a) /\ ~OfRow(1, n) => RowAfter(n, a)'
           /\ CountAfter(a) /\ ~OfCounter(1) => CountAfter(a)'
<1>1. /\ e \in Event /\ 1 \in DOMAIN feed /\ feed[1] = e
      /\ \A i \in DOMAIN feed : i = 1 \/ (i - 1 \in DOMAIN feed' /\ feed'[i - 1] = feed[i])
  BY BellMoves
<1>2. e.age \in Nat
  BY <1>1, EventFacts
<1>3. ASSUME NEW n \in Bell!Notifications, RowAfter(n, a),
             ~OfRow(1, n) \/ e.age <= a PROVE RowAfter(n, a)'
  <2>1. PICK i \in DOMAIN feed : OfRow(i, n) /\ feed[i].age > a
    BY <1>3 DEF RowAfter
  <2>2. i # 1
    BY <1>1, <1>2, <1>3, <2>1
  <2>3. i - 1 \in DOMAIN feed' /\ OfRow(i - 1, n)' /\ feed'[i - 1].age > a
    BY <1>1, <2>1, <2>2 DEF OfRow
  <2> QED  BY <2>3 DEF RowAfter
<1>4. ASSUME CountAfter(a), ~OfCounter(1) \/ e.age <= a PROVE CountAfter(a)'
  <2>1. PICK i \in DOMAIN feed : OfCounter(i) /\ feed[i].age > a
    BY <1>4 DEF CountAfter
  <2>2. i # 1
    BY <1>1, <1>2, <1>4, <2>1
  <2>3. i - 1 \in DOMAIN feed' /\ OfCounter(i - 1)' /\ feed'[i - 1].age > a
    BY <1>1, <2>1, <2>2 DEF OfCounter
  <2> QED  BY <2>3 DEF CountAfter
<1> QED  BY <1>3, <1>4 DEF Kept

\* The calls that hear of a change of age a.
LEMMA HearFacts ==
    ASSUME Bell!BellAssumption, BellInv, Bell!Receive, row' = row, NEW e, e = Head(feed),
           Bell!Hear(e)
    PROVE  /\ call' \in [Slots -> CallTypes]
           /\ \A d \in Slots : /\ Follows(call[d], call'[d])
                               /\ Reading(call[d]) => call'[d].joined = call[d].joined
                               /\ Latest(call'[d]) => Latest(call[d])
<1>1. /\ call \in [Slots -> CallTypes] /\ e \in Event /\ e.age \in Nat
      /\ call' = [c \in Slots |-> IF call[c].kind \notin {"refresh", "mark", "more"} THEN call[c]
                                  ELSE OvertakenCall(call[c], e.age)]
  BY BellMoves, EventFacts DEF BellInv, BellTypes, Bell!Hear, Bell!Overtaking, OvertakenCall
<1>2. ASSUME NEW d \in Slots
      PROVE  /\ call'[d] \in CallTypes /\ Follows(call[d], call'[d])
             /\ Reading(call[d]) => call'[d].joined = call[d].joined
             /\ Latest(call'[d]) => Latest(call[d])
  <2>1. CASE call[d].kind = "none"
    <3>1. call'[d] = call[d] /\ call[d] = Bell!NoCall
      BY <1>1, <2>1, CallFacts
    <3> QED  BY <1>1, <2>1, <3>1, UnchangedFacts DEF Follows, Heard, Reading, Latest
  <2>2. CASE call[d].kind # "none"
    <3>1. call'[d] = OvertakenCall(call[d], e.age) /\ call[d] \in CallTypes
      BY <1>1, <2>2, CallFacts
    <3>2. /\ call'[d] \in CallTypes /\ Weaker(call[d], call'[d])
          /\ \A part \in DOMAIN call[d].age : call[d].age[part] < e.age => part \in call'[d].older
          /\ Reading(call[d]) => call'[d].joined = call[d].joined
      BY <2>2, <3>1, OvertakenCallFacts
    <3>3. Heard(call[d], call'[d])
      <4> SUFFICES ASSUME NEW part \in DOMAIN call[d].age, NEW a \in Nat, call[d].age[part] = a
                   PROVE  part \in call'[d].older \/ Kept(a)
        BY DEF Heard
      <4>1. CASE a < e.age
        BY <3>2, <4>1
      <4>2. CASE e.age <= a
        BY <4>2, HandedKept
      <4> QED  BY <1>1, <4>1, <4>2
    <3>4. Latest(call'[d]) => Latest(call[d])
      BY <2>2, <3>2 DEF Weaker, Latest, Bell!NoCall
    <3> QED  BY <3>2, <3>3, <3>4 DEF Follows
  <2> QED  BY <2>1, <2>2
<1> QED  BY <1>1, <1>2

\* The rows and the feed stay as they are.
LEMMA SameEvents ==
    ASSUME BellInv, row' = row, feed' = feed, link' = "down" => link = "down" /\ bellOwed'
    PROVE  EventsInv' /\ \A a : Kept(a)
<1>1. \A a : Kept(a)
  BY DEF Kept, RowAfter, CountAfter, OfRow, OfCounter
<1>2. EventsInv'
  BY DEF BellInv, EventsInv, OfRow, OfCounter
<1> QED  BY <1>1, <1>2

\* A transaction changes rows and publishes it.
LEMMA CommitFacts ==
    ASSUME Bell!BellAssumption, BellInv, row' \in Rows, Grows(row, row'), bellOwed' = bellOwed,
           NEW type \in {"insert", "update"}, NEW changed \in SUBSET Bell!Notifications,
           changed = {n \in Bell!Notifications : row'[n] # row[n]},
           Bell!Publish(Bell!Changes(type, changed, row'))
    PROVE  /\ feed' \in Seq(Event) /\ link' = link /\ EventsInv'
           /\ link # "down" => \A a \in Int : a <= Bell!Age(row) => Kept(a)
<1> DEFINE s == Bell!Changes(type, changed, row')
<1>1. /\ row \in Rows /\ Bell!Age(row) \in Nat /\ Bell!Age(row') \in Nat /\ Count(row') \in Nat
      /\ row = row' \/ Bell!Age(row) < Bell!Age(row')
      /\ feed \in Seq(Event) /\ bellOwed \in BOOLEAN
  BY CountType, AgeGrows DEF BellInv, BellTypes
<1>2. \A n \in Bell!Notifications :
      /\ row[n] # "absent" => row'[n] # "absent"
      /\ row'[n] # row[n] => row'[n] # "absent"
  BY <1>1 DEF Grows, Rows, States
<1>3. /\ s \in Seq(Event) /\ Len(s) > 0 /\ s[Len(s)] = Bell!Counter(row')
      /\ \A i \in 1..Len(s) : i < Len(s) => \E n \in changed : s[i] = ChangeOf(type, n, row')
      /\ \A n \in changed : \E i \in 1..Len(s) : s[i] = ChangeOf(type, n, row')
  BY <1>2, ChangesFacts
<1> HIDE DEF s
<1>4. CASE link = "down"
  <2>1. feed' = feed /\ feed = <<>> /\ link' = link /\ bellOwed
    BY <1>4 DEF Bell!Publish, BellInv, EventsInv
  <2>2. EventsInv'
    BY <2>1 DEF EventsInv
  <2> QED  BY <1>1, <1>4, <2>1, <2>2
<1>5. CASE link # "down"
  <2>1. link' = link /\ feed' = feed \o s
    BY <1>5 DEF Bell!Publish, s
  <2>10. PICK k \in Nat, z \in Nat : k = Len(feed) /\ z = Len(feed) + Len(s)
    BY <1>1, <1>3
  <2>2. /\ feed' \in Seq(Event) /\ DOMAIN feed' = 1..z /\ DOMAIN feed = 1..k
        /\ k \in Nat /\ Len(s) \in Nat /\ z \in Nat /\ z \in DOMAIN feed'
        /\ \A i \in 1..k : i \in DOMAIN feed' /\ feed'[i] = feed[i]
        /\ \A i \in 1..Len(s) : k + i \in DOMAIN feed' /\ feed'[k + i] = s[i]
        /\ \A i \in 1..z : i \in 1..k \/ (i - k \in 1..Len(s) /\ feed'[i] = s[i - k])
    BY <1>1, <1>3, <2>1, <2>10
  <2>3. feed'[z] = Bell!Counter(row') /\ OfCounter(z)'
    <3>1. Len(s) \in 1..Len(s)
      BY <1>3, <2>2
    <3>2. feed'[z] = s[Len(s)]
      BY <2>2, <2>10, <3>1
    <3> QED  BY <1>3, <3>2 DEF OfCounter, Bell!Counter
  <2>4. ASSUME NEW i \in 1..z, i \notin 1..k
        PROVE  \/ i = z
               \/ i < z /\ \E n \in changed : feed'[i] = ChangeOf(type, n, row')
    <3>1. i - k \in 1..Len(s) /\ feed'[i] = s[i - k]
      BY <2>2, <2>4
    <3>2. i - k < Len(s) \/ i = z
      BY <2>2, <2>10, <3>1
    <3>3. i - k < Len(s) => i < z
      BY <2>2, <2>10, <3>1
    <3> QED  BY <1>3, <3>1, <3>2, <3>3
  <2>5. ASSUME NEW n \in changed
        PROVE  \E j \in 1..z : j > k /\ feed'[j] = ChangeOf(type, n, row')
    <3>1. PICK i \in 1..Len(s) : s[i] = ChangeOf(type, n, row')
      BY <1>3
    <3>2. k + i \in 1..z /\ k + i > k /\ feed'[k + i] = s[i]
      BY <2>2, <2>10
    <3> QED  BY <3>1, <3>2
  <2>6. ASSUME NEW i \in DOMAIN feed'
        PROVE  /\ feed'[i].age <= Bell!Age(row')
               /\ OfCounter(i)' => feed'[i].count = Count(row') \/ (\E j \in DOMAIN feed' : j > i /\ OfCounter(j)')
               /\ feed'[i].type = "insert" => \E j \in DOMAIN feed' : j > i /\ OfCounter(j)'
    <3>1. CASE i \in 1..k
      <4>1. feed'[i] = feed[i] /\ z > i /\ z \in DOMAIN feed'
        BY <1>3, <2>2, <2>10, <3>1
      <4>2. feed[i].age <= Bell!Age(row) /\ feed[i] \in Event
        BY <1>1, <2>2, <3>1 DEF BellInv, EventsInv
      <4>3. feed[i].age \in Nat
        BY <4>2, EventFacts
      <4> QED  BY <1>1, <2>3, <4>1, <4>2, <4>3
    <3>2. CASE i = z
      BY <1>1, <2>3, <3>2 DEF Bell!Counter, Count
    <3>3. CASE i \notin 1..k /\ i < z
      <4>1. PICK n \in changed : feed'[i] = ChangeOf(type, n, row')
        BY <2>2, <2>4, <3>3
      <4>2. feed'[i].age = Bell!Age(row') /\ feed'[i].type # "counter"
        BY <4>1 DEF ChangeOf
      <4>3. ~OfCounter(i)' /\ z \in DOMAIN feed' /\ z > i /\ OfCounter(z)'
        BY <2>2, <2>3, <3>3, <4>2 DEF OfCounter
      <4> QED  BY <1>1, <4>2, <4>3
    <3> QED  BY <2>2, <2>4, <3>1, <3>2, <3>3
  <2>7. ASSUME NEW i \in DOMAIN feed', NEW n \in Bell!Notifications, OfRow(i, n)'
        PROVE  row'[n] # "absent" /\ (feed'[i].state = row'[n] \/ \E j \in DOMAIN feed' : j > i /\ OfRow(j, n)')
    <3>1. CASE i \in 1..k
      <4>1. feed'[i] = feed[i] /\ OfRow(i, n)
        BY <2>2, <2>7, <3>1 DEF OfRow
      <4>2. row[n] # "absent" /\ (feed[i].state = row[n] \/ \E j \in DOMAIN feed : j > i /\ OfRow(j, n))
        BY <2>2, <3>1, <4>1 DEF BellInv, EventsInv
      <4>3. CASE \E j \in DOMAIN feed : j > i /\ OfRow(j, n)
        <5>1. PICK j \in DOMAIN feed : j > i /\ OfRow(j, n)
          BY <4>3
        <5>2. j \in DOMAIN feed' /\ OfRow(j, n)'
          BY <2>2, <5>1 DEF OfRow
        <5> QED  BY <1>2, <4>2, <5>1, <5>2
      <4>4. CASE row'[n] # row[n]
        <5>1. PICK j \in 1..z : j > k /\ feed'[j] = ChangeOf(type, n, row')
          BY <2>5, <4>4
        <5>2. OfRow(j, n)' /\ j \in DOMAIN feed' /\ j > i
          BY <2>2, <3>1, <5>1 DEF OfRow, ChangeOf
        <5> QED  BY <1>2, <4>2, <5>2
      <4> QED  BY <1>2, <4>1, <4>2, <4>3, <4>4
    <3>2. CASE i \notin 1..k
      <4>1. i # z
        BY <2>3, <2>7 DEF OfRow, OfCounter
      <4>2. PICK m \in changed : feed'[i] = ChangeOf(type, m, row')
        BY <2>2, <2>4, <3>2, <4>1
      <4>3. m = n
        BY <2>7, <4>2 DEF OfRow, ChangeOf
      <4> QED  BY <1>2, <4>2, <4>3 DEF ChangeOf
    <3> QED  BY <3>1, <3>2
  <2>8. EventsInv'
    BY <1>5, <2>1, <2>6, <2>7 DEF EventsInv
  <2>9. ASSUME NEW a \in Int, a <= Bell!Age(row) PROVE Kept(a)
    <3>1. ASSUME NEW n \in Bell!Notifications, RowAfter(n, a) PROVE RowAfter(n, a)'
      <4>1. PICK i \in DOMAIN feed : OfRow(i, n) /\ feed[i].age > a
        BY <3>1 DEF RowAfter
      <4>2. i \in DOMAIN feed' /\ OfRow(i, n)' /\ feed'[i].age > a
        BY <2>2, <4>1 DEF OfRow
      <4> QED  BY <4>2 DEF RowAfter
    <3>2. ASSUME NEW n \in Bell!Notifications, row'[n] # row[n] PROVE RowAfter(n, a)'
      <4>1. PICK j \in 1..z : j > k /\ feed'[j] = ChangeOf(type, n, row')
        BY <2>5, <3>2
      <4>2. Bell!Age(row') > a
        BY <1>1, <2>9, <3>2
      <4>3. j \in DOMAIN feed' /\ OfRow(j, n)' /\ feed'[j].age > a
        BY <2>2, <4>1, <4>2 DEF OfRow, ChangeOf
      <4> QED  BY <4>3 DEF RowAfter
    <3>3. ASSUME CountAfter(a) PROVE CountAfter(a)'
      <4>1. PICK i \in DOMAIN feed : OfCounter(i) /\ feed[i].age > a
        BY <3>3 DEF CountAfter
      <4>2. i \in DOMAIN feed' /\ OfCounter(i)' /\ feed'[i].age > a
        BY <2>2, <4>1 DEF OfCounter
      <4> QED  BY <4>2 DEF CountAfter
    <3>4. ASSUME row' # row PROVE CountAfter(a)'
      <4>1. Bell!Age(row') > a
        BY <1>1, <2>9, <3>4
      <4>2. feed'[z].age > a
        BY <2>3, <4>1 DEF Bell!Counter
      <4> QED  BY <2>2, <2>3, <4>2 DEF CountAfter
    <3> QED  BY <3>1, <3>2, <3>3, <3>4 DEF Kept
  <2> QED  BY <2>1, <2>2, <2>8, <2>9
<1> QED  BY <1>4, <1>5

\* What is shown stays as right as it was.
LEMMA ItemsKept ==
    ASSUME Bell!BellAssumption, BellInv, row' \in Rows, Remains(row, row'),
           item' = item, badge' = badge, bellLate' = bellLate, ~bellOwed' => ~bellOwed /\ Kept(-1)
    PROVE  ItemsInv'
<1>1. row \in Rows /\ ItemsInv
  BY DEF BellInv, BellTypes
<1>2. \A n \in Bell!Notifications : item'[n] # "absent" => row'[n] # "absent"
  BY <1>1 DEF ItemsInv, Remains
<1>3. ASSUME ~bellOwed', "badge" \notin bellLate' PROVE CountCurrent(badge, -1)'
  BY <1>1, <1>3 DEF ItemsInv, CountCurrent, Kept
<1>4. ASSUME ~bellOwed', "list" \notin bellLate', NEW n \in Bell!Notifications
      PROVE  \/ RowAfter(n, -1)'
             \/ item'[n] = row'[n]
             \/ item'[n] = "absent" /\ n \notin Bell!Page(row', MaxNotification + 1)
  <2>1. CASE row'[n] # row[n] \/ RowAfter(n, -1)
    BY <1>4, <2>1 DEF Kept
  <2>2. CASE row'[n] = row[n] /\ ~RowAfter(n, -1)
    <3>1. item[n] = row[n] \/ (item[n] = "absent" /\ n \notin Bell!Page(row, MaxNotification + 1))
      BY <1>1, <1>4, <2>2 DEF ItemsInv
    <3>2. n \in Bell!Page(row', MaxNotification + 1) /\ row[n] # "absent" => n \in Bell!Page(row, MaxNotification + 1)
      BY <1>1, PageFacts
    <3> QED  BY <2>2, <3>1, <3>2
  <2> QED  BY <2>1, <2>2
<1> QED  BY <1>2, <1>3, <1>4 DEF ItemsInv

-----------------------------------------------------------------------------
(* The steps. *)

LEMMA BellInit == ASSUME Bell!BellAssumption, Bell!Init PROVE BellInv
<1>1. BellTypes
  <2>1. row \in Rows /\ item \in Rows /\ badge \in Nat /\ cursor \in 0..MaxNotification
    BY Finite DEF Bell!Init, Rows, States
  <2>2. call \in [Slots -> CallTypes] /\ feed \in Seq(Event)
    <3>1. Bell!NoCall \in CallTypes
      BY DEF CallTypes
    <3> QED  BY <3>1 DEF Bell!Init, Bell!ChannelInit
  <2> QED  BY <2>1, <2>2 DEF BellTypes, Bell!Init, Parts
<1>2. EventsInv
  BY DEF EventsInv, Bell!Init, Bell!ChannelInit
<1>3. AnswersInv
  <2>1. \A c \in Slots : call[c] = Bell!NoCall
    BY DEF Bell!Init
  <2> QED  BY <2>1 DEF Bell!Init, AnswersInv, AnswerInv, Bell!NoCall, Reading, Paged, Marked, Latest
<1>4. ItemsInv
  BY DEF ItemsInv, Bell!Init
<1> QED  BY <1>1, <1>2, <1>3, <1>4 DEF BellInv

LEMMA Unmoved ==
    ASSUME Bell!BellAssumption, BellInv
    PROVE  /\ row' = row => Grows(row, row') /\ Remains(row, row')
           /\ row \in Rows /\ -1 \in Int /\ -1 <= Bell!Age(row)
<1>1. row \in Rows
  BY DEF BellInv, BellTypes
<1>2. Bell!Age(row) \in Nat
  BY <1>1, CountType
<1> QED  BY <1>1, <1>2 DEF Grows, Remains

LEMMA AgesFacts ==
    ASSUME Bell!BellAssumption, BellInv, NEW x \in CallTypes, AnswerInv(x), x.kind # "none",
           NEW part \in DOMAIN x.age
    PROVE  x.age[part] <= Bell!Age(row)
<1>1. CASE x \in AskedRefresh \/ x \in AskedMore \/ x \in AskedMark
  BY <1>1 DEF AskedRefresh, AskedMore, AskedMark, Bell!NoAge
<1>2. CASE x \in ListedRefresh \/ x \in DoneMore
  <2>1. part = "list" /\ (Reading(x) \/ Paged(x))
    BY <1>2 DEF ListedRefresh, DoneMore, Reading, Paged
  <2> QED  BY <2>1 DEF AnswerInv
<1>3. CASE x \in DoneRefresh
  <2>1. part \in {"list", "badge"} /\ Reading(x) /\ x.pc = "done"
    BY <1>3 DEF DoneRefresh, Reading
  <2> QED  BY <2>1 DEF AnswerInv
<1>4. CASE x \in DoneMark
  <2>1. part \in {"list", "badge"} /\ Marked(x)
    BY <1>4 DEF DoneMark, Marked
  <2> QED  BY <2>1 DEF AnswerInv
<1> QED  BY <1>1, <1>2, <1>3, <1>4 DEF CallTypes, Bell!NoCall

\* A transaction leaves the calls as they are.
LEMMA AfterCommit ==
    ASSUME Bell!BellAssumption, BellInv,
           link # "down" => \A a \in Int : a <= Bell!Age(row) => Kept(a),
           NEW x \in CallTypes, AnswerInv(x)
    PROVE  Follows(x, x)
<1>1. link # "down" => Heard(x, x)
  <2> SUFFICES ASSUME link # "down", x.kind # "none", NEW part \in DOMAIN x.age,
                      NEW a \in Nat, x.age[part] = a
               PROVE  Kept(a)
    BY DEF Heard
  <2>1. a <= Bell!Age(row)
    BY AgesFacts
  <2> QED  BY <2>1
<1> QED  BY <1>1, UnchangedFacts DEF Follows

LEMMA CreateNotificationInv ==
    ASSUME Bell!BellAssumption, BellInv, NEW n \in Bell!Notifications, Bell!CreateNotification(n)
    PROVE  BellInv'
<1>1. row' = [row EXCEPT ![n] = "unread"] /\ row[n] = "absent" /\ row \in Rows
  BY DEF Bell!CreateNotification, BellInv, BellTypes
<1>2. row' \in Rows /\ Grows(row, row') /\ Remains(row, row') /\ row'[n] = "unread"
  BY <1>1 DEF Rows, States, Grows, Remains
<1>3. {n} = {m \in Bell!Notifications : row'[m] # row[m]}
  BY <1>1 DEF Rows
<1>4. /\ feed' \in Seq(Event) /\ link' = link /\ EventsInv'
      /\ link # "down" => \A a \in Int : a <= Bell!Age(row) => Kept(a)
  BY <1>2, <1>3, CommitFacts DEF Bell!CreateNotification
<1>5. BellTypes'
  BY <1>2, <1>4 DEF Bell!CreateNotification, BellInv, BellTypes
<1>6. call' = call /\ bellOwed' = bellOwed /\ Bell!Age(row) \in Nat
  BY <1>1, CountType DEF Bell!CreateNotification
<1>7. ASSUME NEW d \in Slots PROVE Follows(call[d], call'[d])
  <2>1. call[d] \in CallTypes /\ AnswerInv(call[d])
    BY DEF BellInv, BellTypes, AnswersInv
  <2> QED  BY <1>4, <1>6, <2>1, AfterCommit
<1>8. AnswersInv'
  BY <1>2, <1>4, <1>5, <1>6, <1>7, Followed DEF BellInv, AnswersInv
<1>9. ItemsInv'
  <2>1. ~bellOwed' => ~bellOwed /\ Kept(-1)
    BY <1>4, <1>6, Unmoved DEF BellInv, EventsInv
  <2> QED  BY <1>2, <2>1, ItemsKept DEF Bell!CreateNotification
<1> QED  BY <1>4, <1>5, <1>8, <1>9 DEF BellInv

\* A call that is as it was, or has ended, follows.
LEMMA StillFollows ==
    ASSUME BellInv, row' = row, feed' = feed, NEW x \in CallTypes
    PROVE  Follows(x, x) /\ Follows(x, Bell!NoCall)
<1>1. \A a : Kept(a)
  BY DEF Kept, RowAfter, CountAfter, OfRow, OfCounter
<1> QED  BY <1>1, UnchangedFacts DEF Follows, Heard

\* A step that neither changes rows nor moves the feed.
LEMMA StillInv ==
    ASSUME Bell!BellAssumption, BellInv, row' = row, feed' = feed, link' = "down" => link = "down",
           bellOwed' = bellOwed, item' \in Rows, badge' \in Nat, cursor' \in 0..MaxNotification,
           bellLate' \subseteq Parts, call' \in [Slots -> CallTypes], AnswersInv', ItemsInv'
    PROVE  BellInv'
<1>1. link' = "down" => link = "down" /\ bellOwed'
  BY DEF BellInv, EventsInv
<1>2. EventsInv'
  BY <1>1, SameEvents
<1>3. BellTypes'
  BY DEF BellInv, BellTypes
<1> QED  BY <1>2, <1>3 DEF BellInv

LEMMA AskFacts ==
    ASSUME BellInv, row' = row, feed' = feed, NEW c \in Slots, NEW r \in CallTypes,
           r.kind \in {"refresh", "more"}, Asked(r), Bell!Ask(c, r)
    PROVE  /\ call' \in [Slots -> CallTypes]
           /\ \A d \in Slots : /\ Follows(call[d], call'[d])
                               /\ Reading(call[d]) /\ Latest(call'[d]) => call'[d].joined = call[d].joined
                               /\ Latest(call'[d]) => d = c
<1>1. /\ call \in [Slots -> CallTypes] /\ call[c].kind = "none"
      /\ call' = [d \in Slots |-> IF d = c THEN r
                                  ELSE IF call[d].kind \in {"refresh", "more"}
                                       THEN [call[d] EXCEPT !.latest = FALSE] ELSE call[d]]
  BY DEF Bell!Ask, BellInv, BellTypes
<1>2. ASSUME NEW d \in Slots
      PROVE  /\ call'[d] \in CallTypes /\ Follows(call[d], call'[d])
             /\ Reading(call[d]) /\ Latest(call'[d]) => call'[d].joined = call[d].joined
             /\ Latest(call'[d]) => d = c
  <2>1. CASE d = c
    BY <1>1, <2>1 DEF Follows, Reading
  <2>2. CASE d # c /\ call[d].kind \in {"refresh", "more"}
    <3>1. call'[d] = [call[d] EXCEPT !.latest = FALSE] /\ call[d] \in CallTypes
      BY <1>1, <2>2
    <3>2. call'[d] \in CallTypes /\ Weaker(call[d], call'[d]) /\ ~Latest(call'[d])
      BY <2>2, <3>1, NotLatestFacts
    <3>3. \A a : Kept(a)
      BY DEF Kept, RowAfter, CountAfter, OfRow, OfCounter
    <3> QED  BY <3>2, <3>3 DEF Follows, Heard
  <2>3. CASE d # c /\ call[d].kind \notin {"refresh", "more"}
    <3>1. call'[d] = call[d] /\ call[d] \in CallTypes
      BY <1>1, <2>3
    <3>2. Follows(call[d], call'[d])
      BY <3>1, StillFollows
    <3> QED  BY <2>3, <3>1, <3>2 DEF Latest
  <2> QED  BY <2>1, <2>2, <2>3
<1> QED  BY <1>1, <1>2

LEMMA AskedInv ==
    ASSUME Bell!BellAssumption, BellInv, NEW c \in Slots, NEW r \in CallTypes,
           r.kind \in {"refresh", "more"}, r.pc = "asked", Bell!Ask(c, r),
           link' = "down" => link = "down",
           UNCHANGED <<row, item, badge, cursor, bellOwed, bellLate, feed>>
    PROVE  BellInv'
<1>1. Asked(r)
  BY DEF Asked
<1>2. /\ call' \in [Slots -> CallTypes]
      /\ \A d \in Slots : /\ Follows(call[d], call'[d])
                          /\ Reading(call[d]) /\ Latest(call'[d]) => call'[d].joined = call[d].joined
                          /\ Latest(call'[d]) => d = c
  BY <1>1, AskFacts
<1>3. /\ item' \in Rows /\ badge' \in Nat /\ cursor' \in 0..MaxNotification /\ bellLate' \subseteq Parts
      /\ BellTypes'
  BY <1>2 DEF BellInv, BellTypes
<1>4. AnswersInv'
  BY <1>2, <1>3, Unmoved, Followed
<1>5. ItemsInv'
  BY Unmoved, ItemsKept, SameEvents DEF BellInv, EventsInv
<1> QED  BY <1>2, <1>3, <1>4, <1>5, StillInv

LEMMA RefreshAskedInv ==
    ASSUME Bell!BellAssumption, BellInv, NEW c \in Slots, Bell!Refresh(c) \/ Bell!Connected(c)
    PROVE  BellInv'
<1>1. Bell!Request \in CallTypes /\ Bell!Request.kind = "refresh" /\ Bell!Request.pc = "asked"
  BY DEF Bell!Request, CallTypes, AskedRefresh
<1>2. Bell!Ask(c, Bell!Request) /\ UNCHANGED <<row, item, badge, cursor, bellOwed, bellLate, feed>>
  BY DEF Bell!Refresh, Bell!Connected, Bell!Subscribed, Bell!channelVars
<1>3. link' = "down" => link = "down"
  BY DEF Bell!Refresh, Bell!Connected, Bell!Subscribed, Bell!channelVars
<1> QED  BY <1>1, <1>2, <1>3, AskedInv

LEMMA AskMoreInv ==
    ASSUME Bell!BellAssumption, BellInv, NEW c \in Slots, Bell!AskMore(c)
    PROVE  BellInv'
<1> DEFINE r == [kind |-> "more", pc |-> "asked", latest |-> TRUE, before |-> cursor,
                 age |-> Bell!NoAge, older |-> {}]
<1>1. r \in CallTypes /\ r.kind = "more" /\ r.pc = "asked"
  BY DEF CallTypes, AskedMore, BellInv, BellTypes
<1>2. Bell!Ask(c, r) /\ UNCHANGED <<row, item, badge, cursor, bellOwed, bellLate, feed, link>>
  BY DEF Bell!AskMore, Bell!channelVars
<1> HIDE DEF r
<1> QED  BY <1>1, <1>2, AskedInv

LEMMA AskMarkInv ==
    ASSUME Bell!BellAssumption, BellInv, NEW c \in Slots, NEW which, Bell!AskMark(c, which),
           which = Bell!Notifications \/ \E n \in Bell!Notifications : which = {n} /\ item[n] # "absent"
    PROVE  BellInv'
<1> DEFINE r == [kind |-> "mark", pc |-> "asked", which |-> which, age |-> Bell!NoAge, older |-> {}]
<1>1. r \in CallTypes
  BY DEF CallTypes, AskedMark
<1>2. Asked(r) /\ ~Latest(r)
  BY DEF Asked, Latest, MarksAll, BellInv, ItemsInv
<1>3. /\ call' = [call EXCEPT ![c] = r] /\ call \in [Slots -> CallTypes] /\ call[c].kind = "none"
      /\ UNCHANGED <<row, item, badge, cursor, bellOwed, bellLate, feed, link>>
  BY DEF Bell!AskMark, Bell!channelVars, BellInv, BellTypes
<1> HIDE DEF r
<1>4. call' \in [Slots -> CallTypes]
  BY <1>1, <1>3
<1>5. ASSUME NEW d \in Slots
      PROVE  /\ Follows(call[d], call'[d])
             /\ Reading(call[d]) /\ Latest(call'[d]) => call'[d].joined = call[d].joined
             /\ Latest(call'[d]) => Latest(call[d])
  <2>1. CASE d = c
    BY <1>2, <1>3, <2>1 DEF Follows
  <2>2. CASE d # c
    BY <1>3, <2>2, StillFollows
  <2> QED  BY <2>1, <2>2
<1>6. /\ item' \in Rows /\ badge' \in Nat /\ cursor' \in 0..MaxNotification /\ bellLate' \subseteq Parts
      /\ BellTypes'
  BY <1>3, <1>4 DEF BellInv, BellTypes
<1>7. \A d, e \in Slots : Latest(call'[d]) /\ Latest(call'[e]) => d = e
  BY <1>5 DEF BellInv, AnswersInv
<1>8. AnswersInv'
  BY <1>3, <1>5, <1>6, <1>7, Unmoved, Followed
<1>9. ItemsInv'
  BY <1>3, Unmoved, ItemsKept, SameEvents DEF BellInv, EventsInv
<1> QED  BY <1>3, <1>4, <1>6, <1>8, <1>9, StillInv

LEMMA ReturnedInv ==
    ASSUME Bell!BellAssumption, BellInv, NEW c \in Slots, call' = Bell!Returned(c),
           UNCHANGED <<row, item, badge, cursor, bellOwed, bellLate, feed, link>>
    PROVE  BellInv'
<1>1. call' = [call EXCEPT ![c] = Bell!NoCall] /\ call \in [Slots -> CallTypes]
  BY DEF Bell!Returned, BellInv, BellTypes
<1>2. call' \in [Slots -> CallTypes]
  BY <1>1 DEF CallTypes
<1>3. ASSUME NEW d \in Slots
      PROVE  /\ Follows(call[d], call'[d])
             /\ Latest(call'[d]) => call'[d] = call[d]
  <2>1. CASE d = c
    BY <1>1, <2>1, StillFollows, UnchangedFacts
  <2>2. CASE d # c
    BY <1>1, <2>2, StillFollows
  <2> QED  BY <2>1, <2>2
<1>4. /\ item' \in Rows /\ badge' \in Nat /\ cursor' \in 0..MaxNotification /\ bellLate' \subseteq Parts
      /\ BellTypes'
  BY <1>1, <1>2 DEF BellInv, BellTypes
<1>5. \A d, e \in Slots : Latest(call'[d]) /\ Latest(call'[e]) => d = e
  BY <1>3 DEF BellInv, AnswersInv
<1>6. AnswersInv'
  BY <1>1, <1>3, <1>4, <1>5, Unmoved, Followed
<1>7. ItemsInv'
  BY <1>1, Unmoved, ItemsKept, SameEvents DEF BellInv, EventsInv
<1> QED  BY <1>1, <1>2, <1>4, <1>6, <1>7, StillInv

\* The server answers a call that reads.
LEMMA ServedInv ==
    ASSUME Bell!BellAssumption, BellInv, NEW c \in Slots, NEW y \in CallTypes,
           call' = [call EXCEPT ![c] = y], UNCHANGED <<row, item, badge, cursor, bellOwed, bellLate, feed, link>>,
           AnswerInv(y), ~Marked(y), Latest(y) => Latest(call[c]),
           ~bellOwed /\ Latest(y) => (Reading(y) => y.joined) /\ (Paged(y) => MoreInv(y)),
           Reading(y) /\ y.joined =>
              \/ Reading(call[c]) /\ call[c].joined /\ y.age.list = call[c].age.list
              \/ link # "down" /\ y.age.list = Bell!Age(row)
    PROVE  BellInv'
<1>1. call \in [Slots -> CallTypes] /\ call' \in [Slots -> CallTypes] /\ call'[c] = y
  BY DEF BellInv, BellTypes
<1>2. ASSUME NEW d \in Slots, d # c PROVE Follows(call[d], call'[d]) /\ call'[d] = call[d]
  BY <1>1, <1>2, StillFollows
<1>3. AnswerInv(call[c])' /\ (MoreInv(y) => MoreInv(call[c])')
  <2>1. \A rows, a : Current(rows, a) <=> Current(rows, a)'
    BY DEF Current, RowAfter, OfRow
  <2>2. \A k, a : CountCurrent(k, a) <=> CountCurrent(k, a)'
    BY DEF CountCurrent, CountAfter, OfCounter
  <2>3. MoreInv(y) => MoreInv(call[c])'
    BY <1>1, <2>1 DEF MoreInv
  <2>4. ReadingInv(y) => ReadingInv(call[c])'
    BY <1>1, <2>1, <2>2 DEF ReadingInv
  <2>5. AnswerInv(call[c])'
    BY <1>1, <2>4 DEF AnswerInv, Reading, Paged, Marked, MarksAll
  <2> QED  BY <2>3, <2>5
<1>4. ASSUME NEW d \in Slots, NEW a \in Nat, Marked(call[d]), call[d].age.list = a, Published(a)'
      PROVE  link # "down" /\ MarkInv(call[d])
  BY <1>1, <1>2, <1>4, PublishedKept
<1>5. /\ item' \in Rows /\ badge' \in Nat /\ cursor' \in 0..MaxNotification /\ bellLate' \subseteq Parts
      /\ BellTypes'
  BY <1>1 DEF BellInv, BellTypes
<1>6. \A d, e \in Slots : Latest(call'[d]) /\ Latest(call'[e]) => d = e
  BY <1>1, <1>2 DEF BellInv, AnswersInv
<1>7. AnswersInv'
  BY <1>1, <1>2, <1>3, <1>4, <1>5, <1>6, Unmoved, AnswersStep
<1>8. ItemsInv'
  BY Unmoved, ItemsKept, SameEvents DEF BellInv, EventsInv
<1> QED  BY <1>1, <1>5, <1>7, <1>8, StillInv

LEMMA ReadListInv ==
    ASSUME Bell!BellAssumption, BellInv, NEW c \in Slots, Bell!ReadList(c)
    PROVE  BellInv'
<1> DEFINE x == call[c]
           y == [kind |-> "refresh", pc |-> "listed", latest |-> x.latest,
                 joined |-> link # "down", rows |-> row, age |-> [list |-> Bell!Age(row)], older |-> {}]
<1>1. /\ call' = [call EXCEPT ![c] = y] /\ x.kind = "refresh" /\ x.pc = "asked" /\ x \in CallTypes
      /\ UNCHANGED <<row, item, badge, cursor, bellOwed, bellLate, feed, link>> /\ row \in Rows
  BY DEF Bell!ReadList, Bell!channelVars, BellInv, BellTypes
<1>2. Bell!Age(row) \in Nat
  BY <1>1, CountType
<1>3. x.latest \in BOOLEAN
  BY <1>1, CallFacts
<1>4. y \in CallTypes
  BY <1>1, <1>2, <1>3 DEF CallTypes, ListedRefresh
<1>5. ReadingInv(y)
  BY DEF ReadingInv, Current, CountCurrent
<1>6. AnswerInv(y)
  <2>1. /\ y.kind = "refresh" /\ y.pc = "listed" /\ y.rows = row /\ y.age.list = Bell!Age(row)
        /\ y.joined => link # "down"
    OBVIOUS
  <2> HIDE DEF y
  <2> QED  BY <1>2, <1>5, <2>1 DEF AnswerInv, Reading, Paged, Marked
<1>7. ~bellOwed => link # "down"
  BY DEF BellInv, EventsInv
<1>8. /\ ~Marked(y) /\ ~Paged(y) /\ (Latest(y) => Latest(x))
      /\ y.joined = (link # "down") /\ y.age.list = Bell!Age(row)
  BY <1>1 DEF Marked, Paged, Latest
<1> HIDE DEF y
<1> QED  BY <1>1, <1>4, <1>6, <1>7, <1>8, ServedInv

LEMMA ReadCountInv ==
    ASSUME Bell!BellAssumption, BellInv, NEW c \in Slots,
           Bell!ReadCount(c) \/ Bell!ReadCountFails(c)
    PROVE  BellInv'
<1> DEFINE x == call[c]
           y(rows, older) == [kind |-> "refresh", pc |-> "done", latest |-> x.latest, joined |-> x.joined,
                              rows |-> x.rows, count |-> Count(rows),
                              age |-> [list |-> Bell!Age(x.rows), badge |-> Bell!Age(rows)], older |-> older]
<1>1. /\ x.kind = "refresh" /\ x.pc = "listed" /\ x \in CallTypes /\ AnswerInv(x) /\ Reading(x)
      /\ UNCHANGED <<row, item, badge, cursor, bellOwed, bellLate, feed, link>> /\ row \in Rows
  BY DEF Bell!ReadCount, Bell!ReadCountFails, Bell!channelVars, BellInv, BellTypes, AnswersInv,
     Reading
<1>2. /\ x.latest \in BOOLEAN /\ x.joined \in BOOLEAN /\ x.rows \in Rows /\ x.older \subseteq {"list"}
      /\ x.age.list = Bell!Age(x.rows) /\ x.age.list <= Bell!Age(row)
  BY <1>1, CallFacts DEF AnswerInv
<1>3. /\ Count(row) \in Nat /\ Bell!Age(row) \in Nat
      /\ Count(x.rows) \in Nat /\ Bell!Age(x.rows) \in Nat
  BY <1>1, <1>2, CountType
<1>4. ASSUME NEW rows \in {row, x.rows}, NEW older \in SUBSET Parts,
             "list" \in x.older => "list" \in older,
             x.joined => "badge" \in older \/ CountCurrent(Count(rows), Bell!Age(rows)),
             call' = [call EXCEPT ![c] = y(rows, older)]
      PROVE  BellInv'
  <2> DEFINE z == y(rows, older)
  <2>1. z \in CallTypes
    BY <1>1, <1>2, <1>3 DEF CallTypes, DoneRefresh
  <2>2. x.joined => ReadingInv(z) /\ link # "down"
    BY <1>1, <1>2, <1>4 DEF AnswerInv, ReadingInv
  <2>3. AnswerInv(z)
    BY <1>1, <1>2, <1>3, <2>2 DEF AnswerInv, Reading, Paged, Marked
  <2>4. /\ ~Marked(z) /\ ~Paged(z) /\ (Latest(z) => Latest(x)) /\ z.joined = x.joined
        /\ z.age.list = x.age.list
    BY <1>1, <1>2 DEF Marked, Paged, Latest
  <2>5. ~bellOwed /\ Latest(z) => z.joined
    BY <1>1, <2>4 DEF BellInv, AnswersInv
  <2> HIDE DEF z
  <2>6. call' = [call EXCEPT ![c] = z]
    BY <1>4 DEF z
  <2> QED  BY <1>1, <2>1, <2>3, <2>4, <2>5, <2>6, ServedInv
<1>5. CASE Bell!ReadCount(c)
  <2>1. call' = [call EXCEPT ![c] = y(row, x.older)]
    BY <1>5 DEF Bell!ReadCount, Bell!Counted, Count
  <2>2. CountCurrent(Count(row), Bell!Age(row))
    BY DEF CountCurrent
  <2> QED  BY <1>2, <1>4, <2>1, <2>2 DEF Parts
<1>6. CASE Bell!ReadCountFails(c)
  <2> DEFINE older == IF x.older = {} THEN {} ELSE {"list", "badge"}
  <2>1. call' = [call EXCEPT ![c] = y(x.rows, older)]
    BY <1>6 DEF Bell!ReadCountFails, Bell!Counted, Count
  <2>2. x.joined => "badge" \in older \/ CountCurrent(Count(x.rows), Bell!Age(x.rows))
    BY <1>1, <1>2 DEF AnswerInv, ReadingInv
  <2>3. older \in SUBSET Parts /\ ("list" \in x.older => "list" \in older)
    BY DEF Parts
  <2> HIDE DEF older
  <2> QED  BY <1>2, <1>4, <2>1, <2>2, <2>3
<1> QED  BY <1>5, <1>6

LEMMA ReadMoreInv ==
    ASSUME Bell!BellAssumption, BellInv, NEW c \in Slots, Bell!ReadMore(c)
    PROVE  BellInv'
<1> DEFINE x == call[c]
           y == [kind |-> "more", pc |-> "done", latest |-> x.latest, before |-> x.before,
                 rows |-> row, age |-> [list |-> Bell!Age(row)], older |-> {}]
<1>1. /\ call' = [call EXCEPT ![c] = y] /\ x.kind = "more" /\ x.pc = "asked" /\ x \in CallTypes
      /\ UNCHANGED <<row, item, badge, cursor, bellOwed, bellLate, feed, link>> /\ row \in Rows
  BY DEF Bell!ReadMore, Bell!channelVars, BellInv, BellTypes
<1>2. Bell!Age(row) \in Nat
  BY <1>1, CountType
<1>3. x.latest \in BOOLEAN /\ x.before \in 0..MaxNotification
  BY <1>1, CallFacts
<1>4. y \in CallTypes
  BY <1>1, <1>2, <1>3 DEF CallTypes, DoneMore
<1>5. MoreInv(y)
  BY DEF MoreInv, Current
<1>6. AnswerInv(y)
  BY <1>2 DEF AnswerInv, Reading, Paged, Marked
<1>7. ~Marked(y) /\ ~Reading(y) /\ (Latest(y) => Latest(x))
  BY <1>1 DEF Marked, Reading, Latest
<1> HIDE DEF y
<1> QED  BY <1>1, <1>4, <1>5, <1>6, <1>7, ServedInv

LEMMA ServeMarkInv ==
    ASSUME Bell!BellAssumption, BellInv, NEW c \in Slots, Bell!ServeMark(c)
    PROVE  BellInv'
<1> DEFINE x == call[c]
           marked == x.which \intersect Bell!Unread(row)
<1>1. /\ x.kind = "mark" /\ x.pc = "asked" /\ x \in CallTypes /\ AnswerInv(x)
      /\ row \in Rows /\ call \in [Slots -> CallTypes] /\ x.which \subseteq Bell!Notifications
      /\ UNCHANGED <<item, badge, cursor, bellOwed, bellLate>>
  <2>1. x \in CallTypes /\ x.kind = "mark"
    BY DEF Bell!ServeMark, BellInv, BellTypes
  <2>2. x.which \subseteq Bell!Notifications
    BY <2>1, CallFacts
  <2> QED  BY <2>1, <2>2 DEF Bell!ServeMark, BellInv, BellTypes, AnswersInv
<1>2. row' = [n \in Bell!Notifications |-> IF n \in marked THEN "read" ELSE row[n]]
  BY DEF Bell!ServeMark
<1>3. /\ row' \in Rows /\ Grows(row, row') /\ Remains(row, row')
      /\ \A n \in Bell!Notifications : n \in marked <=> row'[n] # row[n]
      /\ \A n \in x.which : row'[n] # "unread" /\ (row[n] # "absent" => row'[n] = "read")
      /\ \A n \in Bell!Notifications : row[n] # "absent" => row'[n] # "absent"
  BY <1>1, <1>2 DEF Rows, States, Grows, Remains, Bell!Unread
<1>4. Count(row') \in Nat /\ Bell!Age(row') \in Nat /\ Bell!Age(row) \in Nat
  BY <1>1, <1>3, CountType
<1>5. /\ feed' \in Seq(Event) /\ link' = link /\ EventsInv'
      /\ link # "down" => \A a \in Int : a <= Bell!Age(row) => Kept(a)
  <2>1. CASE marked = {}
    <3>1. row' = row
      BY <1>1, <1>2, <2>1 DEF Rows
    <3>2. feed' = feed /\ link' = link
      BY <2>1 DEF Bell!ServeMark, Bell!channelVars
    <3>3. EventsInv' /\ \A a : Kept(a)
      <4>1. link' = "down" => link = "down" /\ bellOwed'
        BY <1>1, <3>2 DEF BellInv, EventsInv
      <4> QED  BY <3>1, <3>2, <4>1, SameEvents
    <3> QED  BY <3>2, <3>3 DEF BellInv, BellTypes
  <2>2. CASE marked # {}
    <3>1. Bell!Publish(Bell!Changes("update", marked, row'))
      BY <2>2 DEF Bell!ServeMark
    <3>2. marked \in SUBSET Bell!Notifications /\ marked = {n \in Bell!Notifications : row'[n] # row[n]}
      BY <1>1, <1>3
    <3> HIDE DEF marked
    <3> QED  BY <1>1, <1>3, <3>1, <3>2, CommitFacts
  <2> QED  BY <2>1, <2>2
<1>6. PICK y : y = [kind |-> "mark", pc |-> "done", which |-> x.which, count |-> Count(row'),
                    age |-> [list |-> Bell!Age(row'), badge |-> Bell!Age(row')], older |-> {}]
  OBVIOUS
<1>7. call' = [call EXCEPT ![c] = y]
  BY <1>6 DEF Bell!ServeMark, Count
<1>8. /\ y \in CallTypes /\ y.kind = "mark" /\ y.pc = "done" /\ y.which = x.which /\ y.count = Count(row')
      /\ y.age.list = Bell!Age(row') /\ y.age.badge = Bell!Age(row')
  BY <1>1, <1>4, <1>6 DEF CallTypes, DoneMark
<1>9. call' \in [Slots -> CallTypes] /\ call'[c] = y
  BY <1>1, <1>7, <1>8
<1>10. AnswerInv(call[c])' /\ MarkInv(call[c])'
  <2>1. MarksAll(x) \/ \E n \in Bell!Notifications : x.which = {n} /\ row[n] # "absent"
    BY <1>1 DEF AnswerInv
  <2>2. IF MarksAll(y) THEN y.count = 0 ELSE \A n \in y.which : row'[n] = "read"
    <3>1. CASE MarksAll(y)
      <4>1. Bell!Unread(row') = {}
        BY <1>3, <1>8, <3>1 DEF MarksAll, Bell!Unread
      <4> QED  BY <1>8, <3>1, <4>1, FS_EmptySet, SameCardinality DEF Count
    <3>2. CASE ~MarksAll(y)
      BY <1>3, <1>8, <2>1, <3>2 DEF MarksAll
    <3> QED  BY <3>1, <3>2
  <2>3. MarksAll(y) \/ \E n \in Bell!Notifications : y.which = {n} /\ row'[n] # "absent"
    BY <1>3, <1>8, <2>1 DEF MarksAll
  <2>4. AnswerInv(call[c])'
    BY <1>3, <1>4, <1>8, <1>9, <2>2, <2>3 DEF AnswerInv, Reading, Paged, Marked, MarksAll
  <2>5. MarkInv(call[c])'
    BY <1>3, <1>8, <1>9 DEF MarkInv, CountCurrent
  <2> QED  BY <2>4, <2>5
<1>11. ASSUME NEW d \in Slots, d # c PROVE Follows(call[d], call'[d]) /\ call'[d] = call[d]
  <2>1. call[d] \in CallTypes /\ AnswerInv(call[d]) /\ call'[d] = call[d]
    BY <1>1, <1>7, <1>11 DEF BellInv, AnswersInv
  <2> QED  BY <1>5, <2>1, AfterCommit
<1>12. ~Reading(call'[c]) /\ ~Latest(call'[c])
  BY <1>8, <1>9 DEF Reading, Latest
<1>13. ASSUME NEW d \in Slots, NEW a \in Nat, Marked(call[d]), call[d].age.list = a, Published(a)'
       PROVE  link # "down" /\ MarkInv(call[d])
  BY <1>1, <1>11, <1>12, <1>13, PublishedKept
<1>14. BellTypes'
  BY <1>1, <1>3, <1>5, <1>9 DEF BellInv, BellTypes
<1>15. \A d, e \in Slots : Latest(call'[d]) /\ Latest(call'[e]) => d = e
  BY <1>11, <1>12 DEF BellInv, AnswersInv
<1>16. AnswersInv'
  BY <1>1, <1>3, <1>5, <1>10, <1>11, <1>12, <1>13, <1>14, <1>15, AnswersStep
<1>17. ItemsInv'
  <2>1. ~bellOwed' => ~bellOwed /\ Kept(-1)
    BY <1>1, <1>5, Unmoved DEF BellInv, EventsInv
  <2> QED  BY <1>1, <1>3, <2>1, ItemsKept
<1> QED  BY <1>5, <1>14, <1>16, <1>17 DEF BellInv

\* Calls are overtaken when the answer of c is applied.
LEMMA OvertakingFacts ==
    ASSUME BellInv, row' = row, feed' = feed, NEW c \in Slots, NEW a,
           NEW kinds \in SUBSET {"refresh", "mark", "more"}, call' = Bell!Overtaking(a, kinds, Bell!Returned(c))
    PROVE  /\ call' \in [Slots -> CallTypes] /\ call'[c] = Bell!NoCall
           /\ \A d \in Slots :
                 /\ Follows(call[d], call'[d])
                 /\ Latest(call'[d]) => d # c /\ Latest(call[d])
                 /\ d # c /\ Reading(call[d]) => call'[d].joined = call[d].joined
                 /\ d # c /\ call[d].kind \in kinds =>
                       \A part \in DOMAIN call[d].age : call[d].age[part] < a => part \in call'[d].older
<1> DEFINE old == Bell!Returned(c)
<1>1. /\ call \in [Slots -> CallTypes] /\ old[c] = Bell!NoCall /\ \A d \in Slots : d # c => old[d] = call[d]
      /\ call' = [d \in Slots |-> IF old[d].kind \notin kinds THEN old[d] ELSE OvertakenCall(old[d], a)]
  BY DEF Bell!Returned, Bell!Overtaking, OvertakenCall, BellInv, BellTypes
<1>2. call'[c] = Bell!NoCall
  BY <1>1 DEF Bell!NoCall
<1>3. ASSUME NEW d \in Slots
      PROVE  /\ call'[d] \in CallTypes
             /\ Follows(call[d], call'[d])
             /\ Latest(call'[d]) => d # c /\ Latest(call[d])
             /\ d # c /\ Reading(call[d]) => call'[d].joined = call[d].joined
             /\ d # c /\ call[d].kind \in kinds =>
                   \A part \in DOMAIN call[d].age : call[d].age[part] < a => part \in call'[d].older
  <2>1. CASE d = c
    BY <1>1, <1>2, <2>1, StillFollows, UnchangedFacts
  <2>2. CASE d # c /\ call[d].kind \notin kinds
    <3>1. call'[d] = call[d] /\ call[d] \in CallTypes
      BY <1>1, <2>2
    <3>2. Follows(call[d], call'[d])
      BY <3>1, StillFollows
    <3> QED  BY <2>2, <3>1, <3>2
  <2>3. CASE d # c /\ call[d].kind \in kinds
    <3>1. call'[d] = OvertakenCall(call[d], a) /\ call[d] \in CallTypes /\ call[d].kind # "none"
      BY <1>1, <2>3
    <3>2. /\ call'[d] \in CallTypes /\ Weaker(call[d], call'[d])
          /\ \A part \in DOMAIN call[d].age : call[d].age[part] < a => part \in call'[d].older
          /\ Reading(call[d]) => call'[d].joined = call[d].joined
      BY <3>1, OvertakenCallFacts
    <3>3. \A b : Kept(b)
      BY DEF Kept, RowAfter, CountAfter, OfRow, OfCounter
    <3>4. Latest(call'[d]) => Latest(call[d])
      BY <3>2 DEF Weaker, Latest, Bell!NoCall
    <3> QED  BY <2>3, <3>2, <3>3, <3>4 DEF Follows, Heard
  <2> QED  BY <2>1, <2>2, <2>3
<1> QED  BY <1>1, <1>2, <1>3

\* What is on its way since some age is on its way.
LEMMA AfterAnything ==
    ASSUME BellInv, NEW a \in Nat
    PROVE  /\ \A n \in Bell!Notifications : RowAfter(n, a) => RowAfter(n, -1)
           /\ CountAfter(a) => CountAfter(-1)
<1>1. \A i \in DOMAIN feed : feed[i].age \in Nat
  <2>1. \A i \in DOMAIN feed : feed[i] \in Event
    BY DEF BellInv, BellTypes
  <2> QED  BY <2>1, EventFacts
<1>2. \A i \in DOMAIN feed : feed[i].age > -1
  BY <1>1
<1> QED  BY <1>2 DEF RowAfter, CountAfter

LEMMA ApplyBellRefreshInv ==
    ASSUME Bell!BellAssumption, BellInv, NEW c \in Slots, Bell!ApplyRefresh(c)
    PROVE  BellInv'
<1> DEFINE r == call[c]
           page == Bell!Page(r.rows, MaxNotification + 1)
<1>1. /\ r.kind = "refresh" /\ r.pc = "done" /\ r \in CallTypes /\ AnswerInv(r) /\ Reading(r)
      /\ row' = row /\ feed' = feed /\ link' = link /\ row \in Rows
  BY DEF Bell!ApplyRefresh, Bell!channelVars, BellInv, BellTypes, AnswersInv, Reading
<1>2. /\ r.joined \in BOOLEAN /\ r.rows \in Rows /\ r.count \in Nat /\ r.older \subseteq Parts
      /\ r.age.list \in Nat
      /\ \A n \in Bell!Notifications : r.rows[n] # "absent" => row[n] # "absent"
      /\ r.joined => link # "down" /\ ReadingInv(r)
  BY <1>1, CallFacts DEF AnswerInv
<1>3. CASE ~r.latest
  <2>1. call' = Bell!Returned(c) /\ UNCHANGED <<item, badge, cursor, bellOwed, bellLate>>
    BY <1>3 DEF Bell!ApplyRefresh, Bell!Applies
  <2> QED  BY <1>1, <2>1, ReturnedInv
<1>4. CASE r.latest
  <2>1. /\ item' = [n \in Bell!Notifications |-> IF n \in page THEN r.rows[n] ELSE "absent"]
        /\ cursor' = Bell!NextCursor(r.rows, MaxNotification + 1)
        /\ badge' = r.count
        /\ bellLate' = r.older
        /\ bellOwed' = (bellOwed /\ ~r.joined)
    BY <1>4 DEF Bell!ApplyRefresh, Bell!Applies
  <2>2. call' = Bell!Overtaking(r.age.list, {"mark", "more"}, Bell!Returned(c))
    BY <1>4 DEF Bell!ApplyRefresh, Bell!Applies
  <2>3. PICK a : a = r.age.list
    OBVIOUS
  <2>4. /\ call' \in [Slots -> CallTypes] /\ call'[c] = Bell!NoCall
        /\ \A d \in Slots :
              /\ Follows(call[d], call'[d])
              /\ Latest(call'[d]) => d # c /\ Latest(call[d])
              /\ d # c /\ Reading(call[d]) => call'[d].joined = call[d].joined
              /\ d # c /\ call[d].kind \in {"mark", "more"} =>
                    \A part \in DOMAIN call[d].age : call[d].age[part] < a => part \in call'[d].older
    BY <1>1, <2>2, <2>3, OvertakingFacts
  <2>5. bellOwed \in BOOLEAN /\ (~bellOwed' => r.joined /\ link # "down") /\ bellOwed' \in BOOLEAN /\ (bellOwed' => bellOwed)
    <3>1. bellOwed \in BOOLEAN /\ Latest(r)
      BY <1>1, <1>4 DEF BellInv, BellTypes, Latest
    <3>2. ~bellOwed => r.joined
      BY <1>1, <3>1 DEF BellInv, AnswersInv
    <3>3. (~bellOwed' => r.joined) /\ bellOwed' \in BOOLEAN /\ (bellOwed' => bellOwed)
      BY <1>2, <2>1, <3>1, <3>2
    <3> QED  BY <1>2, <3>1, <3>3
  <2>6. /\ item' \in Rows /\ badge' \in Nat /\ cursor' \in 0..MaxNotification /\ bellLate' \subseteq Parts
    BY <1>2, <2>1, CursorType DEF Rows, States
  <2>7. BellTypes'
    BY <1>1, <2>4, <2>5, <2>6 DEF BellInv, BellTypes
  <2>8. EventsInv'
    <3>1. link' = "down" => link = "down" /\ bellOwed'
      BY <1>1, <2>5
    <3> QED  BY <1>1, <3>1, SameEvents
  <2>9. ASSUME NEW d \in Slots, d # c, NEW b \in Nat, Marked(call[d]), call[d].age.list = b,
               Published(b)'
        PROVE  link # "down" /\ (MarkInv(call[d]) \/ call'[d].kind # "mark" \/ Parts \subseteq call'[d].older)
    <3>1. /\ call[d] \in CallTypes /\ AnswerInv(call[d]) /\ call[d].kind = "mark"
          /\ "list" \in DOMAIN call[d].age /\ "badge" \in DOMAIN call[d].age
      BY <2>9, CallFacts DEF BellInv, BellTypes, AnswersInv, Marked
    <3>2. call[d].age.badge = b
      BY <2>9, <3>1 DEF AnswerInv
    <3>3. CASE ~bellOwed'
      <4>1. CASE b < a
        BY <2>4, <2>5, <2>9, <3>1, <3>2, <3>3, <4>1 DEF Parts
      <4>2. CASE a <= b
        <5>1. Published(call[d].age.list)
          BY <1>1, <2>3, <2>5, <2>9, <3>3, <4>2 DEF Published
        <5>2. MarkInv(call[d])
          BY <2>9, <5>1 DEF BellInv, AnswersInv
        <5> QED  BY <2>5, <3>3, <5>2
      <4>3. a \in Nat
        BY <1>2, <2>3
      <4> QED  BY <4>1, <4>2, <4>3
    <3>4. CASE bellOwed'
      <4>1. PICK e \in Slots : Reading(call'[e]) /\ call'[e].joined /\ call'[e].age.list <= b
        BY <2>9, <3>4 DEF Published, Reading
      <4>2. e # c /\ call'[e] # Bell!NoCall /\ ~Asked(call'[e])
        BY <2>4, <4>1 DEF Bell!NoCall, Reading, Asked
      <4>3. Same(call[e], call'[e]) /\ call[e] \in CallTypes /\ AnswerInv(call[e])
        BY <2>4, <4>2 DEF Follows, Weaker, BellInv, BellTypes, AnswersInv
      <4>4. Reading(call[e]) /\ call'[e].age = call[e].age
        BY <4>1, <4>3, CallFacts DEF Same, Reading
      <4>5. call[e].joined /\ call[e].age.list <= b
        BY <2>4, <4>1, <4>2, <4>4
      <4>6. Published(call[d].age.list)
        BY <2>9, <4>4, <4>5 DEF Published
      <4>7. link # "down"
        BY <4>3, <4>4, <4>5 DEF AnswerInv
      <4> QED  BY <2>9, <4>6, <4>7 DEF BellInv, AnswersInv
    <3> QED  BY <3>3, <3>4
  <2>10. \A d \in Slots : ~Latest(call'[d])
    BY <1>1, <1>4, <2>4 DEF BellInv, AnswersInv, Latest
  <2>11. /\ AnswerInv(call[c])' /\ ~Marked(call'[c]) /\ link' = link
    BY <1>1, <2>4 DEF AnswerInv, Bell!NoCall, Reading, Paged, Marked
  <2>12. AnswersInv'
    BY <1>1, <2>4, <2>7, <2>9, <2>10, <2>11, Unmoved, AnswersStep
  <2>13. ItemsInv'
    <3>1. page \subseteq Bell!Notifications
      BY <1>1, <1>2, PageFacts DEF Remains
    <3>2. \A n \in Bell!Notifications : item'[n] # "absent" => row'[n] # "absent"
      BY <1>1, <1>2, <2>1
    <3>3. ASSUME ~bellOwed', "badge" \notin bellLate' PROVE CountCurrent(badge, -1)'
      <4>1. CountCurrent(r.count, r.age.badge) /\ r.age.badge \in Nat
        BY <1>1, <1>2, <2>1, <2>5, <3>3, CallFacts DEF ReadingInv
      <4>2. CountAfter(r.age.badge) => CountAfter(-1)
        BY <4>1, AfterAnything
      <4>3. CountAfter(-1) => CountAfter(-1)'
        BY <1>1 DEF CountAfter, OfCounter
      <4> QED  BY <1>1, <2>1, <4>1, <4>2, <4>3 DEF CountCurrent
    <3>4. ASSUME ~bellOwed', "list" \notin bellLate', NEW n \in Bell!Notifications
          PROVE  \/ RowAfter(n, -1)'
                 \/ item'[n] = row'[n]
                 \/ item'[n] = "absent" /\ n \notin Bell!Page(row', MaxNotification + 1)
      <4>1. r.rows[n] = row[n] \/ RowAfter(n, r.age.list)
        BY <1>2, <2>1, <2>5, <3>4 DEF ReadingInv, Current
      <4>2. RowAfter(n, r.age.list) => RowAfter(n, -1)
        BY <1>2, AfterAnything
      <4>3. RowAfter(n, -1) => RowAfter(n, -1)'
        BY <1>1 DEF RowAfter, OfRow
      <4>4. /\ n \in Bell!Page(row, MaxNotification + 1) => row[n] # "absent"
            /\ n \in Bell!Page(row, MaxNotification + 1) /\ r.rows[n] # "absent" => n \in page
        <5>1. Remains(r.rows, row) /\ Remains(row, row)
          BY <1>2 DEF Remains
        <5> QED  BY <1>1, <1>2, <5>1, PageFacts
      <4>5. CASE r.rows[n] = row[n]
        BY <1>1, <2>1, <4>4, <4>5
      <4> QED  BY <4>1, <4>2, <4>3, <4>5
    <3> QED  BY <3>2, <3>3, <3>4 DEF ItemsInv
  <2> QED  BY <2>7, <2>8, <2>12, <2>13 DEF BellInv
<1> QED  BY <1>3, <1>4

LEMMA ApplyMoreInv ==
    ASSUME Bell!BellAssumption, BellInv, NEW c \in Slots, Bell!ApplyMore(c)
    PROVE  BellInv'
<1> DEFINE r == call[c]
           page == Bell!Page(r.rows, r.before)
<1>1. /\ r.kind = "more" /\ r.pc = "done" /\ r \in CallTypes /\ AnswerInv(r) /\ Paged(r)
      /\ row' = row /\ feed' = feed /\ link' = link /\ badge' = badge /\ bellOwed' = bellOwed
      /\ row \in Rows /\ item \in Rows /\ bellLate \subseteq Parts /\ badge \in Nat /\ ItemsInv
      /\ call' = Bell!Returned(c)
  BY DEF Bell!ApplyMore, Bell!channelVars, BellInv, BellTypes, AnswersInv, Paged
<1>2. /\ r.rows \in Rows /\ r.older \subseteq Parts /\ r.age.list \in Nat
      /\ \A n \in Bell!Notifications : r.rows[n] # "absent" => row[n] # "absent"
  BY <1>1, CallFacts DEF AnswerInv
<1>3. CASE ~r.latest
  <2>1. UNCHANGED <<item, cursor, bellLate>>
    BY <1>3 DEF Bell!ApplyMore, Bell!Applies
  <2> QED  BY <1>1, <2>1, ReturnedInv
<1>4. CASE r.latest
  <2>1. /\ item' = [n \in Bell!Notifications |-> IF n \in page THEN r.rows[n] ELSE item[n]]
        /\ cursor' = Bell!NextCursor(r.rows, r.before)
        /\ bellLate' = bellLate \union r.older
    BY <1>4 DEF Bell!ApplyMore, Bell!Applies
  <2>2. item' \in Rows /\ cursor' \in 0..MaxNotification /\ bellLate' \subseteq Parts
    BY <1>1, <1>2, <2>1, CursorType DEF Rows, States
  <2>3. call' \in [Slots -> CallTypes] /\ AnswersInv'
    <3>1. /\ call' = [call EXCEPT ![c] = Bell!NoCall] /\ call \in [Slots -> CallTypes]
      BY <1>1 DEF Bell!Returned, BellInv, BellTypes
    <3>2. call' \in [Slots -> CallTypes]
      BY <3>1 DEF CallTypes
    <3>3. ASSUME NEW d \in Slots
          PROVE  Follows(call[d], call'[d]) /\ (Latest(call'[d]) => call'[d] = call[d])
      <4>1. CASE d = c
        BY <1>1, <3>1, <4>1, StillFollows, UnchangedFacts
      <4>2. CASE d # c
        BY <1>1, <3>1, <4>2, StillFollows
      <4> QED  BY <4>1, <4>2
    <3>4. \A d, e \in Slots : Latest(call'[d]) /\ Latest(call'[e]) => d = e
      BY <3>3 DEF BellInv, AnswersInv
    <3>5. BellTypes'
      BY <1>1, <2>2, <3>2 DEF BellInv, BellTypes
    <3> QED  BY <1>1, <3>2, <3>3, <3>4, <3>5, Unmoved, Followed
  <2>4. ItemsInv'
    <3>1. \A n \in Bell!Notifications : item'[n] # "absent" => row'[n] # "absent"
      BY <1>1, <1>2, <2>1 DEF ItemsInv
    <3>2. ASSUME ~bellOwed', "badge" \notin bellLate' PROVE CountCurrent(badge, -1)'
      BY <1>1, <2>1, <3>2 DEF ItemsInv, CountCurrent, CountAfter, OfCounter
    <3>3. ASSUME ~bellOwed', "list" \notin bellLate', NEW n \in Bell!Notifications
          PROVE  \/ RowAfter(n, -1)'
                 \/ item'[n] = row'[n]
                 \/ item'[n] = "absent" /\ n \notin Bell!Page(row', MaxNotification + 1)
      <4>1. RowAfter(n, -1) => RowAfter(n, -1)'
        BY <1>1 DEF RowAfter, OfRow
      <4>2. CASE n \in page
        <5>1. MoreInv(r) /\ "list" \notin r.older
          BY <1>1, <1>4, <2>1, <3>3 DEF BellInv, AnswersInv, Latest
        <5>2. r.rows[n] = row[n] \/ RowAfter(n, r.age.list)
          BY <5>1 DEF MoreInv, Current
        <5>3. RowAfter(n, r.age.list) => RowAfter(n, -1)
          BY <1>2, AfterAnything
        <5> QED  BY <1>1, <2>1, <4>1, <4>2, <5>2, <5>3
      <4>3. CASE n \notin page
        BY <1>1, <2>1, <3>3, <4>1, <4>3 DEF ItemsInv
      <4> QED  BY <4>2, <4>3
    <3> QED  BY <3>1, <3>2, <3>3 DEF ItemsInv
  <2> QED  BY <1>1, <2>2, <2>3, <2>4, StillInv
<1> QED  BY <1>1, <1>2, <1>3, <1>4, CallFacts

LEMMA ApplyMarkInv ==
    ASSUME Bell!BellAssumption, BellInv, NEW c \in Slots, Bell!ApplyMark(c)
    PROVE  BellInv'
<1> DEFINE r == call[c]
<1>1. /\ r.kind = "mark" /\ r.pc = "done" /\ r \in CallTypes /\ AnswerInv(r) /\ Marked(r)
      /\ row' = row /\ feed' = feed /\ link' = link /\ bellOwed' = bellOwed /\ cursor' = cursor
      /\ row \in Rows /\ item \in Rows /\ bellLate \subseteq Parts /\ ItemsInv
      /\ item' = [n \in Bell!Notifications |->
                    IF n \in r.which /\ item[n] # "absent" THEN "read" ELSE item[n]]
      /\ badge' = IF MarksAll(r) THEN 0 ELSE r.count
      /\ call' = Bell!Overtaking(r.age.list, {"refresh", "mark", "more"}, Bell!Returned(c))
      /\ bellLate' = (bellLate \ {"badge"}) \union IF MarksAll(r) THEN r.older ELSE r.older \ {"list"}
  BY DEF Bell!ApplyMark, Bell!channelVars, BellInv, BellTypes, AnswersInv, Marked, MarksAll
<1>2. /\ r.which \subseteq Bell!Notifications /\ r.older \subseteq Parts /\ r.age.list \in Nat /\ r.count \in Nat
      /\ IF MarksAll(r) THEN r.count = 0 ELSE \A n \in r.which : row[n] = "read"
  BY <1>1, CallFacts DEF AnswerInv
<1>3. badge' = r.count
  BY <1>1, <1>2
<1>4. ~bellOwed => MarkInv(r)
  BY <1>1 DEF BellInv, AnswersInv, Published
<1>5. PICK a : a = r.age.list
  OBVIOUS
<1>6. /\ call' \in [Slots -> CallTypes] /\ call'[c] = Bell!NoCall
      /\ \A d \in Slots :
            /\ Follows(call[d], call'[d])
            /\ Latest(call'[d]) => d # c /\ Latest(call[d])
            /\ d # c /\ Reading(call[d]) => call'[d].joined = call[d].joined
  BY <1>1, <1>5, OvertakingFacts
<1>7. item' \in Rows /\ badge' \in Nat /\ cursor' \in 0..MaxNotification /\ bellLate' \subseteq Parts
  BY <1>1, <1>2, <1>3 DEF Rows, States, BellInv, BellTypes
<1>8. BellTypes'
  BY <1>1, <1>6, <1>7 DEF BellInv, BellTypes
<1>9. AnswersInv'
  <2>1. \A d, e \in Slots : Latest(call'[d]) /\ Latest(call'[e]) => d = e
    BY <1>6 DEF BellInv, AnswersInv
  <2>2. \A d \in Slots : Reading(call[d]) /\ Latest(call'[d]) => call'[d].joined = call[d].joined
    BY <1>6
  <2> QED  BY <1>1, <1>6, <1>8, <2>1, <2>2, Unmoved, Followed
<1>10. ItemsInv'
  <2>1. \A n \in Bell!Notifications : item'[n] # "absent" => row'[n] # "absent"
    BY <1>1 DEF ItemsInv
  <2>2. ASSUME ~bellOwed', "badge" \notin bellLate' PROVE CountCurrent(badge, -1)'
    <3>1. "badge" \notin r.older
      BY <1>1, <2>2
    <3>2. CountCurrent(r.count, r.age.list)
      BY <1>1, <1>4, <2>2, <3>1 DEF MarkInv
    <3>3. CountAfter(r.age.list) => CountAfter(-1)
      BY <1>2, AfterAnything
    <3>4. CountAfter(-1) => CountAfter(-1)'
      BY <1>1 DEF CountAfter, OfCounter
    <3> QED  BY <1>1, <1>3, <3>2, <3>3, <3>4 DEF CountCurrent
  <2>3. ASSUME ~bellOwed', "list" \notin bellLate', NEW n \in Bell!Notifications
        PROVE  \/ RowAfter(n, -1)'
               \/ item'[n] = row'[n]
               \/ item'[n] = "absent" /\ n \notin Bell!Page(row', MaxNotification + 1)
    <3>1. RowAfter(n, -1) => RowAfter(n, -1)'
      BY <1>1 DEF RowAfter, OfRow
    <3>2. CASE n \in r.which /\ item[n] # "absent"
      <4>1. item'[n] = "read" /\ row[n] # "absent"
        BY <1>1, <3>2 DEF ItemsInv
      <4>2. CASE ~MarksAll(r)
        BY <1>1, <1>2, <3>2, <4>1, <4>2
      <4>3. CASE MarksAll(r)
        <5>1. "list" \notin r.older
          BY <1>1, <2>3, <4>3
        <5>2. row[n] # "unread" \/ RowAfter(n, r.age.list)
          BY <1>1, <1>4, <2>3, <3>2, <5>1 DEF MarkInv
        <5>3. RowAfter(n, r.age.list) => RowAfter(n, -1)
          BY <1>2, AfterAnything
        <5>4. row[n] \in States
          BY <1>1 DEF Rows
        <5> QED  BY <1>1, <3>1, <4>1, <5>2, <5>3, <5>4 DEF States
      <4> QED  BY <4>2, <4>3
    <3>3. CASE ~(n \in r.which /\ item[n] # "absent")
      <4>1. item'[n] = item[n] /\ "list" \notin bellLate
        BY <1>1, <2>3, <3>3
      <4> QED  BY <1>1, <2>3, <3>1, <4>1 DEF ItemsInv
    <3> QED  BY <3>2, <3>3
  <2> QED  BY <2>1, <2>2, <2>3 DEF ItemsInv
<1> QED  BY <1>1, <1>6, <1>7, <1>9, <1>10, StillInv

\* What a change that is handed to the hook leaves to show.
LEMMA HeardInv ==
    ASSUME Bell!BellAssumption, BellInv, Bell!Receive, Bell!Hear(Head(feed)), row' = row,
           bellOwed' = bellOwed,
           cursor' = cursor, item' \in Rows, badge' \in Nat, bellLate' \subseteq Parts, ItemsInv'
    PROVE  BellInv'
<1>1. feed' \in Seq(Event) /\ link' = link /\ EventsInv'
  BY BellMoves, EventsRest
<1>2. /\ call' \in [Slots -> CallTypes]
      /\ \A d \in Slots : /\ Follows(call[d], call'[d])
                          /\ Reading(call[d]) => call'[d].joined = call[d].joined
                          /\ Latest(call'[d]) => Latest(call[d])
  BY HearFacts
<1>3. BellTypes'
  BY <1>1, <1>2 DEF BellInv, BellTypes
<1>4. \A d, e \in Slots : Latest(call'[d]) /\ Latest(call'[e]) => d = e
  BY <1>2 DEF BellInv, AnswersInv
<1>5. AnswersInv'
  BY <1>1, <1>2, <1>3, <1>4, Unmoved, Followed
<1> QED  BY <1>1, <1>3, <1>5 DEF BellInv

LEMMA OnRowInv ==
    ASSUME Bell!BellAssumption, BellInv, Bell!OnInsert \/ Bell!OnUpdate
    PROVE  BellInv'
<1>0. PICK e : e = Head(feed)
  OBVIOUS
<1>1. /\ Bell!Receive /\ Bell!Hear(e) /\ row' = row /\ bellOwed' = bellOwed /\ cursor' = cursor /\ bellLate' = bellLate
      /\ e.type \in {"insert", "update"} /\ item' = [item EXCEPT ![e.n] = e.state]
      /\ badge' = badge \/ (e.type = "insert" /\ badge' = badge + 1)
  BY <1>0 DEF Bell!OnInsert, Bell!OnUpdate
<1>2. /\ e \in Event /\ 1 \in DOMAIN feed /\ feed[1] = e
      /\ item \in Rows /\ badge \in Nat /\ bellLate \subseteq Parts /\ ItemsInv
  BY <1>0, <1>1, BellMoves DEF BellInv, BellTypes
<1>3. e.n \in Bell!Notifications /\ e.state \in {"unread", "read"} /\ e.age \in Nat
  BY <1>1, <1>2, EventFacts
<1>4. OfRow(1, e.n) /\ ~OfCounter(1) /\ \A n \in Bell!Notifications : OfRow(1, n) => n = e.n
  BY <1>1, <1>2 DEF OfRow, OfCounter
<1>5. item' \in Rows /\ badge' \in Nat
  BY <1>1, <1>2, <1>3 DEF Rows, States
<1>6. /\ row[e.n] # "absent"
      /\ e.state = row[e.n] \/ \E j \in DOMAIN feed : j > 1 /\ OfRow(j, e.n)
      /\ e.type = "insert" => \E j \in DOMAIN feed : j > 1 /\ OfCounter(j)
  BY <1>2, <1>3, <1>4 DEF BellInv, EventsInv
<1>7. ASSUME NEW j \in DOMAIN feed, j > 1
      PROVE  j - 1 \in DOMAIN feed' /\ feed'[j - 1] = feed[j] /\ feed[j].age > -1
  <2>1. j - 1 \in DOMAIN feed' /\ feed'[j - 1] = feed[j] /\ feed[j] \in Event
    BY <1>1, <1>7, BellMoves DEF BellInv, BellTypes
  <2> QED  BY <2>1, EventFacts
<1>8. /\ (\E j \in DOMAIN feed : j > 1 /\ OfRow(j, e.n)) => RowAfter(e.n, -1)'
      /\ (\E j \in DOMAIN feed : j > 1 /\ OfCounter(j)) => CountAfter(-1)'
  <2>1. ASSUME NEW j \in DOMAIN feed, j > 1, OfRow(j, e.n) PROVE RowAfter(e.n, -1)'
    <3>1. OfRow(j - 1, e.n)' /\ j - 1 \in DOMAIN feed' /\ feed'[j - 1].age > -1
      BY <1>7, <2>1 DEF OfRow
    <3> QED  BY <3>1 DEF RowAfter
  <2>2. ASSUME NEW j \in DOMAIN feed, j > 1, OfCounter(j) PROVE CountAfter(-1)'
    <3>1. OfCounter(j - 1)' /\ j - 1 \in DOMAIN feed' /\ feed'[j - 1].age > -1
      BY <1>7, <2>2 DEF OfCounter
    <3> QED  BY <3>1 DEF CountAfter
  <2> QED  BY <2>1, <2>2
<1>9. /\ \A n \in Bell!Notifications : RowAfter(n, -1) /\ ~OfRow(1, n) => RowAfter(n, -1)'
      /\ CountAfter(-1) => CountAfter(-1)'
  <2>1. PICK k \in Int : k = -1
    OBVIOUS
  <2>2. /\ \A n \in Bell!Notifications : RowAfter(n, k) /\ ~OfRow(1, n) => RowAfter(n, k)'
        /\ CountAfter(k) => CountAfter(k)'
    BY <1>0, <1>1, <1>4, HandedKept
  <2> QED  BY <2>1, <2>2
<1>10. ItemsInv'
  <2>1. \A n \in Bell!Notifications : item'[n] # "absent" => row'[n] # "absent"
    BY <1>1, <1>2, <1>3, <1>6 DEF ItemsInv, Rows
  <2>2. ASSUME ~bellOwed', "badge" \notin bellLate' PROVE CountCurrent(badge, -1)'
    BY <1>1, <1>2, <1>6, <1>8, <1>9, <2>2 DEF ItemsInv, CountCurrent
  <2>3. ASSUME ~bellOwed', "list" \notin bellLate', NEW n \in Bell!Notifications
        PROVE  \/ RowAfter(n, -1)'
               \/ item'[n] = row'[n]
               \/ item'[n] = "absent" /\ n \notin Bell!Page(row', MaxNotification + 1)
    <3>1. CASE n = e.n
      BY <1>1, <1>2, <1>3, <1>6, <1>8, <3>1 DEF Rows
    <3>2. CASE n # e.n
      <4>1. item'[n] = item[n] /\ ~OfRow(1, n)
        BY <1>1, <1>2, <1>4, <3>2 DEF Rows
      <4> QED  BY <1>1, <1>2, <1>9, <2>3, <4>1 DEF ItemsInv
    <3> QED  BY <3>1, <3>2
  <2> QED  BY <2>1, <2>2, <2>3 DEF ItemsInv
<1> QED  BY <1>0, <1>1, <1>2, <1>5, <1>10, HeardInv

LEMMA OnCounterInv ==
    ASSUME Bell!BellAssumption, BellInv, Bell!OnUnreadCountChange
    PROVE  BellInv'
<1> DEFINE e == Head(feed)
<1>1. /\ Bell!Receive /\ Bell!Hear(e) /\ row' = row /\ bellOwed' = bellOwed /\ cursor' = cursor /\ item' = item
      /\ e.type = "counter" /\ badge' = e.count /\ bellLate' = bellLate \ {"badge"}
  BY DEF Bell!OnUnreadCountChange
<1>2. /\ e \in Event /\ 1 \in DOMAIN feed /\ feed[1] = e
      /\ item \in Rows /\ bellLate \subseteq Parts /\ ItemsInv
  BY <1>1, BellMoves DEF BellInv, BellTypes
<1>3. e.count \in Nat /\ e.age \in Nat
  BY <1>1, <1>2, EventFacts
<1>4. OfCounter(1) /\ \A n : ~OfRow(1, n)
  BY <1>1, <1>2 DEF OfRow, OfCounter
<1>5. e.count = Count(row) \/ \E j \in DOMAIN feed : j > 1 /\ OfCounter(j)
  BY <1>2, <1>4 DEF BellInv, EventsInv
<1>6. (\E j \in DOMAIN feed : j > 1 /\ OfCounter(j)) => CountAfter(-1)'
  <2> SUFFICES ASSUME NEW j \in DOMAIN feed, j > 1, OfCounter(j) PROVE CountAfter(-1)'
    OBVIOUS
  <2>1. j - 1 \in DOMAIN feed' /\ feed'[j - 1] = feed[j] /\ feed[j] \in Event
    BY <1>1, BellMoves DEF BellInv, BellTypes
  <2>2. feed'[j - 1].age > -1 /\ OfCounter(j - 1)'
    BY <2>1, EventFacts DEF OfCounter
  <2> QED  BY <2>1, <2>2 DEF CountAfter
<1>7. \A n \in Bell!Notifications : RowAfter(n, -1) => RowAfter(n, -1)'
  <2>1. PICK k \in Int : k = -1
    OBVIOUS
  <2>2. \A n \in Bell!Notifications : RowAfter(n, k) => RowAfter(n, k)'
    BY <1>1, <1>4, HandedKept
  <2> QED  BY <2>1, <2>2
<1>8. ItemsInv'
  BY <1>1, <1>2, <1>5, <1>6, <1>7 DEF ItemsInv, CountCurrent
<1> QED  BY <1>1, <1>2, <1>3, <1>8, HeardInv

LEMMA BellLinkInv ==
    ASSUME Bell!BellAssumption, BellInv, Bell!Join \/ Bell!Break
    PROVE  BellInv'
<1>1. CASE Bell!Join
  <2>1. UNCHANGED <<row, item, badge, cursor, call, bellOwed, bellLate, feed>> /\ link' # "down"
    BY <1>1 DEF Bell!Join, Bell!ServerJoins, Bell!bellVars
  <2>2. \A d \in Slots : Follows(call[d], call'[d])
    BY <2>1, StillFollows DEF BellInv, BellTypes
  <2>3. BellTypes'
    BY <2>1 DEF BellInv, BellTypes
  <2>4. AnswersInv'
    BY <2>1, <2>2, <2>3, Unmoved, Followed DEF BellInv, AnswersInv
  <2>5. ItemsInv'
    BY <2>1, Unmoved, ItemsKept, SameEvents DEF BellInv, EventsInv
  <2> QED  BY <2>1, <2>3, <2>4, <2>5, StillInv DEF BellTypes
<1>2. CASE Bell!Break
  <2>1. /\ link # "down" /\ link' = "down" /\ feed' = <<>> /\ bellOwed' = TRUE
        /\ UNCHANGED <<row, item, badge, cursor, bellLate>>
        /\ call \in [Slots -> CallTypes]
        /\ call' = [c \in Slots |->
                      IF call[c].kind = "refresh" /\ call[c].pc # "asked"
                      THEN [call[c] EXCEPT !.joined = FALSE] ELSE call[c]]
    BY <1>2 DEF Bell!Break, Bell!ChannelBreaks, BellInv, BellTypes
  <2>2. ASSUME NEW d \in Slots
        PROVE  /\ call'[d] \in CallTypes
               /\ call'[d] = call[d] \/ Weaker(call[d], call'[d])
               /\ Reading(call'[d]) => ~call'[d].joined
               /\ Latest(call'[d]) => Latest(call[d])
    <3>1. CASE Reading(call[d])
      <4>1. call'[d] = [call[d] EXCEPT !.joined = FALSE] /\ call[d] \in CallTypes
        BY <2>1, <3>1 DEF Reading
      <4>2. call'[d] \in CallTypes /\ Weaker(call[d], call'[d]) /\ ~call'[d].joined
        BY <3>1, <4>1, BrokenFacts
      <4> QED  BY <4>2 DEF Weaker, Latest, Bell!NoCall
    <3>2. CASE ~Reading(call[d])
      BY <2>1, <3>2 DEF Reading
    <3> QED  BY <3>1, <3>2
  <2>3. BellTypes'
    <3>1. call' \in [Slots -> CallTypes]
      BY <2>1, <2>2
    <3> QED  BY <2>1, <3>1 DEF BellInv, BellTypes
  <2>4. EventsInv'
    BY <2>1 DEF EventsInv
  <2>5. AnswersInv'
    <3>1. ASSUME NEW d \in Slots PROVE AnswerInv(call[d])'
      <4>1. call[d] \in CallTypes /\ AnswerInv(call[d])
        BY DEF BellInv, BellTypes, AnswersInv
      <4>2. CASE call'[d] = call[d]
        BY <2>1, <2>2, <4>1, <4>2 DEF AnswerInv, Reading, Paged, Marked, MarksAll
      <4>3. CASE Weaker(call[d], call'[d]) /\ call'[d] # Bell!NoCall
        <5>1. /\ Same(call[d], call'[d])
              /\ Reading(call[d]) => call'[d].rows = call[d].rows
              /\ Paged(call[d]) => call'[d].rows = call[d].rows
              /\ call[d].kind = "mark" =>
                    /\ call'[d].which = call[d].which
                    /\ call[d].pc = "done" => call'[d].count = call[d].count
          BY <4>3 DEF Weaker
        <5> QED  BY <2>1, <2>2, <4>1, <5>1, CallFacts
                 DEF AnswerInv, Reading, Paged, Marked, MarksAll, Same
      <4>4. CASE call'[d] = Bell!NoCall
        BY <4>4 DEF AnswerInv, Reading, Paged, Marked, Bell!NoCall
      <4> QED  BY <2>2, <4>2, <4>3, <4>4
    <3>2. \A d, e \in Slots : Latest(call'[d]) /\ Latest(call'[e]) => d = e
      BY <2>2 DEF BellInv, AnswersInv
    <3>3. ASSUME NEW d \in Slots PROVE ~Published(call[d].age.list)'
      BY <2>1, <2>2 DEF Published, Reading
    <3> QED  BY <2>1, <3>1, <3>2, <3>3 DEF AnswersInv
  <2>6. ItemsInv'
    BY <2>1 DEF BellInv, ItemsInv
  <2> QED  BY <2>3, <2>4, <2>5, <2>6 DEF BellInv
<1> QED  BY <1>1, <1>2

LEMMA BellStep == ASSUME Bell!BellAssumption, BellInv, [Bell!Next]_Bell!vars PROVE BellInv'
<1>1. CASE UNCHANGED Bell!vars
  <2>1. UNCHANGED <<row, item, badge, cursor, call, bellOwed, bellLate, feed, link>>
    BY <1>1 DEF Bell!vars, Bell!bellVars, Bell!channelVars
  <2>2. \A d \in Slots : Follows(call[d], call'[d])
    BY <2>1, StillFollows DEF BellInv, BellTypes
  <2>3. BellTypes'
    BY <2>1 DEF BellInv, BellTypes
  <2>4. AnswersInv'
    BY <2>1, <2>2, <2>3, Unmoved, Followed DEF BellInv, AnswersInv
  <2>5. ItemsInv'
    BY <2>1, Unmoved, ItemsKept, SameEvents DEF BellInv, EventsInv
  <2> QED  BY <2>1, <2>3, <2>4, <2>5, StillInv DEF BellTypes
<1>2. ASSUME NEW c \in Slots, NEW n \in Bell!Notifications,
             Bell!OpenNotification(c, n) PROVE BellInv'
  BY <1>2, AskMarkInv DEF Bell!OpenNotification
<1>3. ASSUME NEW c \in Slots, Bell!MarkAllRead(c) PROVE BellInv'
  BY <1>3, AskMarkInv DEF Bell!MarkAllRead
<1>4. ASSUME NEW c \in Slots, Bell!CallFails(c) PROVE BellInv'
  BY <1>4, ReturnedInv DEF Bell!CallFails, Bell!channelVars
<1> QED  BY <1>1, <1>2, <1>3, <1>4, CreateNotificationInv, RefreshAskedInv, ReadListInv,
            ReadCountInv,
             ApplyBellRefreshInv, AskMoreInv, ReadMoreInv, ApplyMoreInv, ServeMarkInv, ApplyMarkInv,
             OnRowInv, OnCounterInv, BellLinkInv DEF Bell!Next

LEMMA BellProperties == ASSUME Bell!BellAssumption, BellInv PROVE Bell!TypeOK /\ Bell!BellSettles
<1>1. Bell!TypeOK
  BY DEF BellInv, BellTypes, Bell!TypeOK, Rows, States, Parts
<1>2. ASSUME Bell!Quiet, ~bellOwed
      PROVE  /\ "badge" \notin bellLate => badge = Count(row)
             /\ "list" \notin bellLate =>
                   /\ \A n \in Bell!Page(row, MaxNotification + 1) : item[n] = row[n]
                   /\ \A n \in Bell!Notifications : item[n] \in {"absent", row[n]}
  <2>1. feed = <<>>
    BY <1>2 DEF Bell!Quiet, Bell!Settled
  <2>2. ~CountAfter(-1) /\ \A n : ~RowAfter(n, -1)
    BY <2>1 DEF CountAfter, RowAfter
  <2>3. Bell!Page(row, MaxNotification + 1) \subseteq Bell!Notifications
    BY DEF Bell!Page
  <2> QED  BY <1>2, <2>2, <2>3 DEF BellInv, ItemsInv, CountCurrent
<1> QED  BY <1>1, <1>2 DEF Bell!BellSettles, Count

\* What every step of the dashboard does in the bell's scene.
LEMMA BellKinds ==
    ASSUME [Next]_vars
    PROVE  scene' = scene /\ (scene = "bell" => [Bell!Next]_Bell!vars)
  BY DEF Next, vars, Bell!vars, bellVars, channelVars, Bell!bellVars, Bell!channelVars

LEMMA BellScene == Spec => [](scene = "bell" => BellInv)
<1>1. Init => (scene = "bell" => BellInv)
  BY BellInit, BellConstants DEF Init
<1>2. (scene = "bell" => BellInv) /\ [Next]_vars => (scene = "bell" => BellInv)'
  BY BellStep, BellKinds, BellConstants
<1> QED  BY <1>1, <1>2, PTL DEF Spec

\* BellSettles: when nothing is under way, and a refresh read since the channel
\* was joined has been applied, the badge is the number of unread notifications,
\* the newest page is in the list, and whatever is in the list has its read
\* state; but for what an answer overwrote that had been overtaken.
THEOREM BellShowsWhatIsStored == Spec => []BellSettles
<1>1. (scene = "bell" => BellInv) => BellSettles
  BY BellProperties, BellConstants DEF BellSettles
<1> QED  BY <1>1, BellScene, PTL
-----------------------------------------------------------------------------
(***************************************************************************)
(* The open conversation, for any numbers of messages, pages, attempts and *)
(* catch-ups in flight, and faults of the channel and the calls.           *)
(*                                                                         *)
(* A message that is Present stays so: it is in the list, above the loaded *)
(* page, or one that a catch-up left out.  All that a catch-up asks after  *)
(* is Present, and when it reaches the end of the log while the channel is *)
(* joined, so is the rest or it is on its way.                             *)
(***************************************************************************)

Bubble == [attempt : 1..MaxAttempts, cid : 1..MaxAttempts, failed : BOOLEAN, seq : Nat]
PageAsked == [pc : {"asked"}, after : Nat, page : Nat, joined : {FALSE}]
PageRead == [pc : {"read"}, after : Nat, page : Nat, joined : BOOLEAN,
             items : SUBSET Thread!Messages]

LogTypes == log \in Seq(0..MaxAttempts) /\ Len(log) <= MaxMessage

ListTypes ==
    /\ shown \subseteq 1..Len(log) /\ flagged \subseteq shown /\ top \in 0..Len(log)
    /\ marks \subseteq shown \union 1..top /\ passed \subseteq Thread!Messages
    /\ bubbles \subseteq Bubble /\ \E k \in Nat : \A b \in bubbles : b.seq <= k
    /\ maxRef \in Nat /\ lastMarked \in 0..Len(log) /\ readCursor \in Nat /\ unmarked \in Nat

AwaitedTypes ==
    /\ fetch \in [Fetches -> {Thread!NoFetch} \union PageAsked \union PageRead]
    /\ send \in {Thread!NoSend, [pc |-> "asked"], [pc |-> "stored"]}
    /\ attempts \in 0..MaxAttempts /\ cid \in 0..MaxAttempts
    /\ props \in {-1} \union 0..Len(log)
    /\ threadDue \in BOOLEAN /\ threadOwed \in BOOLEAN
    /\ feed \in Seq(Thread!Messages) /\ \A i \in DOMAIN feed : feed[i] <= Len(log)

ThreadTypes == LogTypes /\ ListTypes /\ AwaitedTypes

Present(m) == m <= top \/ m \in shown \union passed
MessageComing(m) == \E i \in DOMAIN feed : feed[i] = m

\* A client message id is stored once; while no attempt with it goes on it is
\* stored and in the list, or above it.  The loaded page is not empty.
SendsInv ==
    /\ \A m, n \in 1..Len(log) : log[m] # 0 /\ log[m] = log[n] => m = n
    /\ send.pc # "none" => cid # 0
    /\ send.pc = "stored" => \E m \in 1..Len(log) : log[m] = cid
    /\ \A m \in 1..Len(log) : log[m] \notin {0, cid} => m \in shown \/ m <= top
    /\ \A b \in bubbles : ~b.failed => send.pc # "none" /\ b.attempt = attempts /\ b.cid = cid
    /\ top # 0 => top + PropsWindow \in shown

\* What is shown has been marked, and the last mark was served, failed, or is
\* under way.
MarksInv ==
    /\ \A m \in shown : log[m] = 0 => m <= lastMarked
    /\ \E m \in marks \union {readCursor, unmarked} : lastMarked <= m

CatchUpPageInv(c) ==
    /\ c.pc # "none" => \A m \in Thread!Messages : m <= c.after => Present(m)
    /\ c.pc = "read" =>
          /\ \A n \in c.items :
                /\ c.after < n /\ n <= Len(log)
                /\ \A m \in Thread!Messages : c.after < m /\ m < n => m \in c.items
          /\ c.joined =>
                /\ link # "down"
                /\ Thread!EndOfLog(c) => \A m \in 1..Len(log) :
                      c.after < m => m \in c.items \/ Present(m) \/ MessageComing(m)

PagesInv ==
    /\ link = "down" => feed = <<>> /\ threadOwed
    /\ \A f \in Fetches : CatchUpPageInv(fetch[f])
    /\ ~threadOwed => \A m \in 1..Len(log) : Present(m) \/ MessageComing(m)

ThreadInv == ThreadTypes /\ SendsInv /\ MarksInv /\ PagesInv
-----------------------------------------------------------------------------
LEMMA Elements ==
    ASSUME NEW S, NEW s \in Seq(S)
    PROVE  /\ Len(s) \in Nat /\ DOMAIN s = 1..Len(s) /\ \A i \in 1..Len(s) : s[i] \in S
           /\ s \in [1..Len(s) -> S]
OBVIOUS

LEMMA ThreadNumbers ==
    ASSUME ThreadTypes
    PROVE  /\ Len(log) \in Nat /\ MaxMessage \in Nat /\ DOMAIN log = 1..Len(log)
           /\ \A m \in 1..Len(log) : m \in Thread!Messages /\ log[m] \in 0..MaxAttempts
           /\ \A m \in Thread!Messages : m \in Nat /\ m >= 1
<1>1. Len(log) \in Nat /\ MaxMessage \in Nat /\ Len(log) <= MaxMessage
  BY ThreadConstants DEF ThreadTypes, LogTypes, Thread!ThreadAssumption
<1>2. DOMAIN log = 1..Len(log) /\ \A m \in 1..Len(log) : log[m] \in 0..MaxAttempts
  BY Elements, Zenon DEF ThreadTypes, LogTypes
<1> QED  BY <1>1, <1>2 DEF Thread!Messages

LEMMA FeedNumbers ==
    ASSUME ThreadTypes
    PROVE  \A i \in DOMAIN feed : feed[i] \in 1..Len(log)
<1>1. \A i \in DOMAIN feed : feed[i] \in Thread!Messages
  BY Elements, Zenon DEF ThreadTypes, AwaitedTypes
<1>2. \A i \in DOMAIN feed : feed[i] <= Len(log)
  BY DEF ThreadTypes, AwaitedTypes
<1> QED  BY <1>1, <1>2, ThreadNumbers

LEMMA GreatestFact ==
    ASSUME NEW N \in Nat, NEW S \in SUBSET (0..N)
    PROVE  /\ Thread!Greatest(S) \in S \union {0} /\ Thread!Greatest(S) \in 0..N
           /\ \A y \in S : y <= Thread!Greatest(S)
<1>1. S \union {0} \in SUBSET (0..N) /\ S \union {0} # {}
  OBVIOUS
<1>2. PICK x \in S \union {0} : \A y \in S \union {0} : x >= y
  BY <1>1, GreatestExists
<1>3. /\ Thread!Max(S \union {0}) \in S \union {0}
      /\ \A y \in S \union {0} : Thread!Max(S \union {0}) >= y
  BY <1>2 DEF Thread!Max
<1> QED  BY <1>1, <1>3 DEF Thread!Greatest

\* The numbers of the list, and of what it may be merged with, are bounded.
LEMMA SequenceFact ==
    ASSUME NEW N \in Nat, NEW S \in SUBSET (1..N), NEW B \in SUBSET Bubble,
           \E k \in Nat : \A b \in B : b.seq <= k
    PROVE  Thread!MaxSequence(S, B) \in Nat /\ \A y \in S : y <= Thread!MaxSequence(S, B)
<1>1. PICK k \in Nat : \A b \in B : b.seq <= k
  OBVIOUS
<1>2. PICK K \in Nat : K >= N /\ K >= k
  <2>1. N + k \in Nat /\ N + k >= N /\ N + k >= k
    OBVIOUS
  <2> QED  BY <2>1
<1>3. \A b \in B : b.seq \in 0..K
  BY <1>1, <1>2 DEF Bubble
<1>4. S \union Thread!Seqs(B) \in SUBSET (0..K)
  <2>1. \A y \in Thread!Seqs(B) : \E b \in B : y = b.seq
    BY DEF Thread!Seqs
  <2>2. \A y \in S : y \in 0..K
    BY <1>2
  <2> QED  BY <1>3, <2>1, <2>2
<1>5. /\ Thread!Greatest(S \union Thread!Seqs(B)) \in 0..K
      /\ \A y \in S \union Thread!Seqs(B) : y <= Thread!Greatest(S \union Thread!Seqs(B))
  BY <1>2, <1>4, GreatestFact
<1>6. Thread!MaxSequence(S, B) = Thread!Greatest(S \union Thread!Seqs(B))
  BY DEF Thread!MaxSequence
<1> QED  BY <1>5, <1>6

\* A merge only takes optimistic entries away.
LEMMA MergedFact == ASSUME NEW page, NEW B PROVE Thread!Merged(page, B) \subseteq B
BY DEF Thread!Merged

\* A page that is not full reaches the end of the log.
LEMMA EndFact ==
    ASSUME Thread!ThreadAssumption, NEW a \in Nat, NEW n \in Nat,
           NEW items, items = {m \in a + 1..n : m <= a + PageSize}
    PROVE  Thread!Cardinality(items) < PageSize => items = a + 1..n
<1>0. PageSize \in Nat /\ PageSize # 0
  BY DEF Thread!ThreadAssumption
<1>1. CASE n < a + PageSize
  BY <1>0, <1>1
<1>2. CASE a + PageSize <= n
  <2>1. items = a + 1..a + PageSize
    BY <1>0, <1>2
  <2>2. Cardinality(a + 1..a + PageSize) = PageSize
    BY <1>0, FS_Interval
  <2>3. Thread!Cardinality(items) = Cardinality(items)
    BY DEF Thread!Cardinality, Cardinality
  <2>4. Thread!Cardinality(items) = PageSize
    BY <2>1, <2>2, <2>3
  <2> QED  BY <1>0, <2>4
<1> QED  BY <1>0, <1>1, <1>2
-----------------------------------------------------------------------------
\* Nothing that is present or on its way is lost, and new messages are published.
ThreadKept ==
    /\ Len(log') >= Len(log)
    /\ link # "down" => link' # "down"
    /\ \A m \in Thread!Messages : Present(m) => Present(m)'
    /\ \A m \in Thread!Messages : MessageComing(m) => MessageComing(m)' \/ Present(m)'
    /\ link # "down" => \A m \in 1..Len(log') : m > Len(log) => MessageComing(m)'

LEMMA KeptPages ==
    ASSUME ThreadTypes, ThreadTypes', ThreadKept,
           NEW c \in {Thread!NoFetch} \union PageAsked \union PageRead,
           CatchUpPageInv(c)
    PROVE  CatchUpPageInv(c)'
<1>1. \A m \in 1..Len(log) : m \in Thread!Messages /\ Len(log) \in Nat
  BY ThreadNumbers
<1>0. Len(log) \in Nat /\ Len(log') \in Nat /\ \A m \in 1..Len(log') : m \in Nat
  BY DEF ThreadTypes, LogTypes
<1>2. c.pc # "none" => \A m \in Thread!Messages : m <= c.after => Present(m)'
  BY DEF CatchUpPageInv, ThreadKept
<1>3. ASSUME c.pc = "read"
      PROVE  /\ \A n \in c.items : n <= Len(log')
             /\ c.joined => link' # "down"
             /\ c.joined => (Thread!EndOfLog(c) => \A m \in 1..Len(log') :
                               c.after < m => m \in c.items \/ Present(m)' \/ MessageComing(m)')
  <2>1. c \in PageRead
    <3>1. c # Thread!NoFetch
      BY <1>3 DEF Thread!NoFetch
    <3>2. c \notin PageAsked
      BY <1>3 DEF PageAsked
    <3> QED  BY <3>1, <3>2
  <2>2. \A n \in c.items : n <= Len(log')
    BY <1>0, <1>3, <2>1, ThreadNumbers DEF CatchUpPageInv, PageRead, ThreadKept
  <2>3. c.joined => link' # "down"
    BY <1>3 DEF CatchUpPageInv, ThreadKept
  <2>4. ASSUME c.joined, Thread!EndOfLog(c), NEW m \in 1..Len(log'), c.after < m
        PROVE  m \in c.items \/ Present(m)' \/ MessageComing(m)'
    <3>1. CASE m <= Len(log)
      <4>1. m \in 1..Len(log)
        BY <1>0, <3>1
      <4>2. m \in c.items \/ Present(m) \/ MessageComing(m)
        BY <1>3, <2>4, <4>1 DEF CatchUpPageInv
      <4> QED  BY <1>1, <4>1, <4>2 DEF ThreadKept
    <3>2. CASE m > Len(log)
      BY <1>3, <2>4, <3>2 DEF CatchUpPageInv, ThreadKept
    <3> QED  BY <1>0, <3>1, <3>2
  <2> QED  BY <2>2, <2>3, <2>4
<1>4. Thread!EndOfLog(c)' = Thread!EndOfLog(c)
  BY DEF Thread!EndOfLog
<1> QED  BY <1>2, <1>3, <1>4 DEF CatchUpPageInv

\* What is owed is left as it is.
LEMMA KeptOwed ==
    ASSUME ThreadTypes, ThreadTypes', PagesInv, ThreadKept, threadOwed' = threadOwed
    PROVE  ~threadOwed' => \A m \in 1..Len(log') : Present(m)' \/ MessageComing(m)'
<1> SUFFICES ASSUME ~threadOwed', NEW m \in 1..Len(log') PROVE Present(m)' \/ MessageComing(m)'
  OBVIOUS
<1>1. link # "down" /\ m \in Nat /\ m >= 1 /\ Len(log) \in Nat
  BY DEF ThreadTypes, LogTypes, PagesInv
<1>2. CASE m <= Len(log)
  <2>1. m \in 1..Len(log)
    BY <1>1, <1>2
  <2> QED  BY <2>1, ThreadNumbers DEF PagesInv, ThreadKept
<1>3. CASE m > Len(log)
  BY <1>1, <1>3 DEF ThreadKept
<1> QED  BY <1>1, <1>2, <1>3

\* What a changed list marks.
LEMMA DisplayFacts ==
    ASSUME ThreadTypes, MarksInv, NEW now \in SUBSET (1..Len(log)), Thread!Display(now)
    PROVE  /\ shown' = now /\ lastMarked' \in 0..Len(log)
           /\ marks' \subseteq marks \union now
           /\ \A m \in now : log[m] = 0 => m <= lastMarked'
           /\ \E m \in marks' \union {readCursor, unmarked} : lastMarked' <= m
<1> DEFINE new == {m \in now : log[m] = 0 /\ m > lastMarked}
<1>1. shown' = now /\ lastMarked' = Thread!Greatest(new \union {lastMarked})
      /\ marks' = marks \union {m \in new : m > readCursor}
  BY DEF Thread!Display
<1>2. Len(log) \in Nat /\ lastMarked \in 0..Len(log) /\ readCursor \in Nat /\ unmarked \in Nat
  BY DEF ThreadTypes, LogTypes, ListTypes
<1>3. new \union {lastMarked} \in SUBSET (0..Len(log))
  <2>1. \A m \in now : m \in 0..Len(log)
    BY <1>2
  <2> QED  BY <1>2, <2>1
<1>4. /\ Thread!Greatest(new \union {lastMarked}) \in new \union {lastMarked, 0}
      /\ Thread!Greatest(new \union {lastMarked}) \in 0..Len(log)
      /\ \A y \in new \union {lastMarked} : y <= Thread!Greatest(new \union {lastMarked})
  BY <1>2, <1>3, GreatestFact
<1>5. lastMarked' \in new \union {lastMarked} \/ lastMarked' = 0
  BY <1>1, <1>4
<1>6. \A m \in now : log[m] = 0 => m <= lastMarked'
  BY <1>1, <1>2, <1>4
<1>7. \E m \in marks' \union {readCursor, unmarked} : lastMarked' <= m
  <2>0. lastMarked' \in Nat
    BY <1>1, <1>2, <1>4
  <2>1. CASE lastMarked' \in new /\ lastMarked' > readCursor
    <3>1. lastMarked' \in marks' /\ lastMarked' <= lastMarked'
      BY <1>1, <2>0, <2>1
    <3> QED  BY <3>1
  <2>2. CASE lastMarked' \in new /\ ~(lastMarked' > readCursor)
    <3>1. lastMarked' <= readCursor
      BY <1>2, <2>0, <2>2
    <3> QED  BY <3>1
  <2>3. CASE lastMarked' = lastMarked
    BY <1>1, <2>3 DEF MarksInv
  <2>4. CASE lastMarked' = 0
    BY <1>2, <2>4
  <2> QED  BY <1>5, <2>1, <2>2, <2>3, <2>4
<1>8. lastMarked' \in 0..Len(log) /\ marks' \subseteq marks \union now
  BY <1>1, <1>4
<1> QED  BY <1>1, <1>6, <1>7, <1>8

LEMMA KeptPagesInv ==
    ASSUME ThreadTypes, ThreadTypes', PagesInv, ThreadKept, threadOwed' = threadOwed,
           link' = "down" => feed' = <<>>,
           \A f \in Fetches : fetch'[f] = fetch[f] \/ CatchUpPageInv(fetch[f])'
    PROVE  PagesInv'
<1>1. \A f \in Fetches : fetch[f] \in {Thread!NoFetch} \union PageAsked \union PageRead
  BY DEF ThreadTypes, AwaitedTypes
<1>2. ASSUME NEW f \in Fetches PROVE CatchUpPageInv(fetch[f])'
  <2>1. CASE fetch'[f] = fetch[f]
    <3>1. PICK c : c = fetch[f]
      OBVIOUS
    <3>2. CatchUpPageInv(c)'
      BY <1>1, <3>1, KeptPages DEF PagesInv
    <3> QED  BY <2>1, <3>1, <3>2
  <2> QED  BY <2>1
<1>3. link' = "down" => threadOwed'
  BY DEF ThreadKept, PagesInv
<1> QED  BY <1>2, <1>3, KeptOwed DEF PagesInv

\* A step that leaves messages, list and channel alone.
LEMMA StillKept ==
    ASSUME ThreadTypes, UNCHANGED <<log, link, feed, top, shown, passed>>
    PROVE  ThreadKept
<1>1. Len(log) \in Nat
  BY ThreadNumbers
<1> QED  BY <1>1 DEF ThreadKept, Present, MessageComing

\* The list has grown, or the same messages are in it.
ListChanged(now) ==
    /\ ListTypes' /\ MarksInv' /\ shown' = now /\ bubbles' \subseteq bubbles

LEMMA MergedList ==
    ASSUME ThreadTypes, MarksInv, NEW now \in SUBSET (1..Len(log)), shown \subseteq now,
           Thread!Display(now), bubbles' \subseteq bubbles,
           maxRef' = Thread!MaxSequence(shown', bubbles') \/ maxRef' = maxRef,
           UNCHANGED <<log, flagged, readCursor, top, passed, unmarked>>
    PROVE  ListChanged(now)
<1>1. /\ shown' = now /\ lastMarked' \in 0..Len(log)
      /\ marks' \subseteq marks \union now
      /\ \A m \in now : log[m] = 0 => m <= lastMarked'
      /\ \E m \in marks' \union {readCursor, unmarked} : lastMarked' <= m
  BY DisplayFacts
<1>2. bubbles' \subseteq Bubble /\ \E k \in Nat : \A b \in bubbles' : b.seq <= k
  BY DEF ThreadTypes, ListTypes
<1>3. maxRef' \in Nat
  <2>1. CASE maxRef' = maxRef
    BY <2>1 DEF ThreadTypes, ListTypes
  <2>2. CASE maxRef' = Thread!MaxSequence(shown', bubbles')
    <3>1. Len(log) \in Nat
      BY ThreadNumbers
    <3> QED  BY <1>1, <1>2, <2>2, <3>1, SequenceFact
  <2> QED  BY <2>1, <2>2
<1>4. ListTypes'
  BY <1>1, <1>2, <1>3 DEF ThreadTypes, ListTypes
<1>5. MarksInv'
  BY <1>1 DEF MarksInv
<1> QED  BY <1>1, <1>4, <1>5 DEF ListChanged

LEMMA ThreadInit == Thread!Init => ThreadInv
<1> SUFFICES ASSUME Thread!Init PROVE ThreadInv
  OBVIOUS
<1>1. /\ MaxMessage \in Nat /\ InitMessages \in 0..MaxMessage
      /\ PropsWindow \in Nat /\ PropsWindow # 0
      /\ MaxAttempts \in Nat /\ MaxAttempts # 0
  BY ThreadConstants DEF Thread!ThreadAssumption
<1>2. /\ log = [m \in 1..InitMessages |-> 0] /\ Len(log) = InitMessages
      /\ log \in Seq(0..MaxAttempts)
      /\ \A m \in 1..InitMessages : log[m] = 0
  <2>1. log = [m \in 1..InitMessages |-> 0]
    BY DEF Thread!Init
  <2>2. log \in Seq(0..MaxAttempts)
    BY <1>1, <2>1
  <2> QED  BY <1>1, <2>1, <2>2
<1>3. /\ link = "down" /\ feed = <<>> /\ flagged = {} /\ bubbles = {} /\ maxRef = InitMessages
      /\ threadDue = FALSE /\ fetch = [f \in Fetches |-> Thread!NoFetch]
      /\ send = Thread!NoSend /\ attempts = 0 /\ cid = 0 /\ props = -1
      /\ marks = shown /\ lastMarked = InitMessages /\ readCursor = 0
      /\ passed = {} /\ unmarked = 0 /\ threadOwed = TRUE
      /\ shown = top + 1..InitMessages
      /\ top = Thread!Greatest({InitMessages - PropsWindow} \intersect Nat)
  BY DEF Thread!Init, Thread!ChannelInit
<1>4. top \in 0..InitMessages /\ (top # 0 => top + PropsWindow = InitMessages)
  <2>1. {InitMessages - PropsWindow} \intersect Nat \in SUBSET (0..InitMessages)
    BY <1>1
  <2>2. /\ Thread!Greatest({InitMessages - PropsWindow} \intersect Nat)
              \in ({InitMessages - PropsWindow} \intersect Nat) \union {0}
        /\ Thread!Greatest({InitMessages - PropsWindow} \intersect Nat) \in 0..InitMessages
    BY <1>1, <2>1, GreatestFact
  <2> QED  BY <1>1, <1>3, <2>2
<1>5. shown \subseteq 1..InitMessages /\ (InitMessages # 0 => InitMessages \in shown)
  <2>1. InitMessages # 0 => top < InitMessages
    BY <1>1, <1>4
  <2> QED  BY <1>1, <1>3, <1>4, <2>1
<1>6. LogTypes
  BY <1>1, <1>2 DEF LogTypes
<1>7. ListTypes
  BY <1>1, <1>2, <1>3, <1>4, <1>5 DEF ListTypes
<1>8. AwaitedTypes
  <2>1. feed \in Seq(Thread!Messages) /\ DOMAIN feed = {}
    BY <1>3
  <2>2. fetch \in [Fetches -> {Thread!NoFetch} \union PageAsked \union PageRead]
    BY <1>3
  <2>3. attempts \in 0..MaxAttempts /\ cid \in 0..MaxAttempts /\ props \in {-1} \union 0..Len(log)
    BY <1>1, <1>3
  <2> QED  BY <1>3, <2>1, <2>2, <2>3 DEF AwaitedTypes
<1>9. SendsInv
  BY <1>1, <1>2, <1>3, <1>4, <1>5 DEF SendsInv, Thread!NoSend
<1>10. MarksInv
  <2>1. \A m \in shown : m <= lastMarked
    BY <1>1, <1>3, <1>5
  <2>2. \E m \in marks \union {readCursor, unmarked} : lastMarked <= m
    BY <1>1, <1>3, <1>5
  <2> QED  BY <2>1, <2>2 DEF MarksInv
<1>11. PagesInv
  BY <1>3 DEF PagesInv, CatchUpPageInv, Thread!NoFetch
<1> QED  BY <1>6, <1>7, <1>8, <1>9, <1>10, <1>11 DEF ThreadInv, ThreadTypes

\* The database commits a message of the visitor, or of the send under way.
LEMMA CommitMessage ==
    ASSUME ThreadInv, NEW c \in 0..MaxAttempts, Len(log) < MaxMessage,
           log' = Append(log, c), Thread!Publish(<<Len(log) + 1>>),
           \/ c = 0 /\ send' = send
           \/ /\ c = cid /\ c # 0 /\ send' = [pc |-> "stored"]
              /\ send.pc # "none"
              /\ \A m \in 1..Len(log) : log[m] # cid,
           UNCHANGED <<shown, flagged, bubbles, maxRef, threadDue, fetch, attempts, cid, props,
                       marks, lastMarked, readCursor, top, passed, unmarked, threadOwed>>
    PROVE  ThreadInv'
<1>1. /\ Len(log) \in Nat /\ Len(log') = Len(log) + 1 /\ log' \in Seq(0..MaxAttempts)
      /\ \A m \in 1..Len(log) : log'[m] = log[m]
      /\ log'[Len(log) + 1] = c
      /\ 1..Len(log) \subseteq 1..Len(log') /\ 0..Len(log) \subseteq 0..Len(log')
      /\ 1..Len(log') = 1..Len(log) \union {Len(log) + 1}
  <2>1. log \in Seq(0..MaxAttempts)
    BY DEF ThreadInv, ThreadTypes, LogTypes
  <2>2. /\ Len(log) \in Nat /\ Len(log') = Len(log) + 1 /\ log' \in Seq(0..MaxAttempts)
        /\ \A m \in 1..Len(log) : log'[m] = log[m]
        /\ log'[Len(log) + 1] = c
    BY <2>1
  <2> QED  BY <2>2
<1>2. /\ feed \in Seq(Thread!Messages) /\ \A i \in DOMAIN feed : feed[i] <= Len(log)
      /\ Len(log) + 1 \in Thread!Messages
      /\ feed' = IF link = "down" THEN feed ELSE feed \o <<Len(log) + 1>>
      /\ link' = link
  BY <1>1, ThreadNumbers DEF ThreadInv, ThreadTypes, AwaitedTypes, Thread!Messages, Thread!Publish
<1>3. /\ feed' \in Seq(Thread!Messages)
      /\ \A i \in DOMAIN feed : i \in DOMAIN feed' /\ feed'[i] = feed[i]
      /\ \A i \in DOMAIN feed' : i \in DOMAIN feed \/ feed'[i] = Len(log) + 1
      /\ link # "down" => \E i \in DOMAIN feed' : feed'[i] = Len(log) + 1
      /\ link = "down" => feed' = feed
  <2>1. CASE link = "down"
    BY <1>2, <2>1
  <2>2. CASE link # "down"
    <3>1. /\ feed' \in Seq(Thread!Messages) /\ Len(feed) \in Nat
          /\ DOMAIN feed = 1..Len(feed) /\ DOMAIN feed' = 1..(Len(feed) + 1)
          /\ \A i \in 1..Len(feed) : feed'[i] = feed[i]
          /\ feed'[Len(feed) + 1] = Len(log) + 1
      BY <1>2, <2>2, Longer
    <3> QED  BY <2>2, <3>1
  <2> QED  BY <2>1, <2>2
<1>4. ThreadTypes'
  <2>1. LogTypes'
    BY <1>1, ThreadNumbers DEF ThreadInv, ThreadTypes, LogTypes
  <2>2. ListTypes'
    BY <1>1 DEF ThreadInv, ThreadTypes, ListTypes
  <2>3. \A i \in DOMAIN feed' : feed'[i] <= Len(log')
    <3>1. \A i \in DOMAIN feed : feed[i] \in Nat
      BY FeedNumbers DEF ThreadInv
    <3> QED  BY <1>1, <1>2, <1>3, <3>1
  <2>4. AwaitedTypes'
    BY <1>1, <1>3, <2>3 DEF ThreadInv, ThreadTypes, AwaitedTypes
  <2> QED  BY <2>1, <2>2, <2>4 DEF ThreadTypes
<1>5. SendsInv'
  <2>1. ASSUME NEW m \in 1..Len(log'), NEW n \in 1..Len(log'), log'[m] # 0, log'[m] = log'[n]
        PROVE  m = n
    <3>1. CASE m \in 1..Len(log) /\ n \in 1..Len(log)
      BY <1>1, <2>1, <3>1 DEF ThreadInv, SendsInv
    <3>2. CASE m = Len(log) + 1 /\ n \in 1..Len(log)
      BY <1>1, <2>1, <3>2
    <3>3. CASE m \in 1..Len(log) /\ n = Len(log) + 1
      BY <1>1, <2>1, <3>3
    <3> QED  BY <1>1, <3>1, <3>2, <3>3
  <2>2. send'.pc = "stored" => \E m \in 1..Len(log') : log'[m] = cid
    BY <1>1 DEF ThreadInv, SendsInv
  <2>3. \A m \in 1..Len(log') : log'[m] \notin {0, cid} => m \in shown \/ m <= top
    BY <1>1 DEF ThreadInv, SendsInv
  <2>4. (send.pc # "none" => send'.pc # "none") /\ (send'.pc # "none" => cid # 0)
    BY DEF ThreadInv, SendsInv
  <2> QED  BY <2>1, <2>2, <2>3, <2>4 DEF ThreadInv, SendsInv
<1>6. MarksInv'
  <2>1. \A m \in shown : log'[m] = log[m]
    BY <1>1 DEF ThreadInv, ThreadTypes, ListTypes
  <2> QED  BY <2>1 DEF ThreadInv, MarksInv
<1>7. ThreadKept
  <2>1. \A m \in 1..Len(log') : m > Len(log) => m = Len(log) + 1
    BY <1>1
  <2> QED  BY <1>1, <1>2, <1>3, <2>1 DEF ThreadKept, Present, MessageComing
<1>8. PagesInv'
  <2>1. link' = "down" => feed' = <<>>
    BY <1>2, <1>3 DEF ThreadInv, PagesInv
  <2> QED  BY <1>4, <1>7, <2>1, KeptPagesInv DEF ThreadInv
<1> QED  BY <1>4, <1>5, <1>6, <1>8 DEF ThreadInv

\* The next message of the channel is merged into the list.
LEMMA OnMessageInsertInv == ASSUME ThreadInv, Thread!OnMessageInsert PROVE ThreadInv'
<1> DEFINE m == Head(feed)
<1>1. /\ link = "up" /\ link' = link /\ feed # <<>> /\ feed' = Tail(feed)
      /\ Thread!Display(shown \union {m})
      /\ bubbles' = Thread!Merged({m}, bubbles)
      /\ maxRef' = Thread!MaxSequence(shown', bubbles')
      /\ UNCHANGED <<log, flagged, threadDue, fetch, send, attempts, cid, props, readCursor, top,
                     passed, unmarked, threadOwed>>
  BY DEF Thread!OnMessageInsert, Thread!Receive, Thread!Merge
<1>2. /\ feed \in Seq(Thread!Messages) /\ feed' \in Seq(Thread!Messages)
      /\ Len(feed) \in Nat /\ Len(feed) >= 1 /\ DOMAIN feed = 1..Len(feed)
      /\ DOMAIN feed' = 1..(Len(feed) - 1)
      /\ \A i \in 1..(Len(feed) - 1) : feed'[i] = feed[i + 1]
      /\ m = feed[1] /\ m \in 1..Len(log)
  <2>1. feed \in Seq(Thread!Messages)
    BY DEF ThreadInv, ThreadTypes, AwaitedTypes
  <2>2. /\ feed' \in Seq(Thread!Messages)
        /\ Len(feed) \in Nat /\ Len(feed) >= 1 /\ DOMAIN feed = 1..Len(feed)
        /\ DOMAIN feed' = 1..(Len(feed) - 1)
        /\ \A i \in 1..(Len(feed) - 1) : feed'[i] = feed[i + 1]
        /\ m = feed[1]
    BY <1>1, <2>1, Shorter
  <2>3. m \in 1..Len(log)
    BY <2>2, FeedNumbers DEF ThreadInv
  <2> QED  BY <2>1, <2>2, <2>3
<1> HIDE DEF m
<1>3. PICK now : now = shown \union {m}
  OBVIOUS
<1>4. now \in SUBSET (1..Len(log)) /\ shown \subseteq now
  BY <1>2, <1>3 DEF ThreadInv, ThreadTypes, ListTypes
<1>5. ListChanged(now)
  BY <1>1, <1>3, <1>4, MergedFact, MergedList DEF ThreadInv
<1>6. ThreadTypes'
  <2>1. \A i \in DOMAIN feed' : feed'[i] <= Len(log)
    BY <1>2, FeedNumbers DEF ThreadInv
  <2>2. AwaitedTypes'
    BY <1>1, <1>2, <2>1 DEF ThreadInv, ThreadTypes, AwaitedTypes
  <2> QED  BY <1>1, <1>5, <2>2 DEF ThreadInv, ThreadTypes, LogTypes, ListChanged
<1>7. SendsInv'
  BY <1>1, <1>4, <1>5 DEF ThreadInv, SendsInv, ListChanged
<1>8. ThreadKept
  <2>1. ASSUME NEW n \in Thread!Messages, MessageComing(n) PROVE MessageComing(n)' \/ n = m
    <3>1. PICK i \in DOMAIN feed : feed[i] = n
      BY <2>1 DEF MessageComing
    <3>2. CASE i = 1
      BY <1>2, <3>1, <3>2
    <3>3. CASE i # 1
      <4>1. i - 1 \in 1..(Len(feed) - 1) /\ feed'[i - 1] = n
        BY <1>2, <3>1, <3>3
      <4> QED  BY <1>2, <4>1 DEF MessageComing
    <3> QED  BY <3>2, <3>3
  <2>2. Len(log) \in Nat
    BY ThreadNumbers DEF ThreadInv
  <2> QED  BY <1>1, <1>3, <1>5, <2>1, <2>2 DEF ThreadKept, Present, ListChanged
<1>9. PagesInv'
  BY <1>1, <1>6, <1>8, KeptPagesInv DEF ThreadInv
<1> QED  BY <1>1, <1>5, <1>6, <1>7, <1>9 DEF ThreadInv, ListChanged

LEMMA ThreadLinkInv ==
    ASSUME ThreadInv, Thread!Join \/ Thread!Connected \/ Thread!Break PROVE ThreadInv'
<1>1. CASE Thread!Join \/ Thread!Connected
  <2>1. /\ link' # "down" /\ feed' = feed
        /\ threadDue' \in BOOLEAN
        /\ UNCHANGED <<log, shown, flagged, bubbles, maxRef, fetch, send, attempts, cid, props,
                       marks, lastMarked, readCursor, top, passed, unmarked, threadOwed>>
    BY <1>1 DEF Thread!Join, Thread!Connected, Thread!ServerJoins, Thread!Subscribed,
       Thread!threadVars, ThreadInv, ThreadTypes, AwaitedTypes
  <2>2. ThreadTypes'
    BY <2>1 DEF ThreadInv, ThreadTypes, LogTypes, ListTypes, AwaitedTypes
  <2>3. SendsInv' /\ MarksInv'
    BY <2>1 DEF ThreadInv, SendsInv, MarksInv
  <2>4. ThreadKept
    <3>1. Len(log) \in Nat
      BY ThreadNumbers DEF ThreadInv
    <3> QED  BY <2>1, <3>1 DEF ThreadKept, Present, MessageComing
  <2> QED  BY <2>1, <2>2, <2>3, <2>4, KeptPagesInv DEF ThreadInv
<1>2. CASE Thread!Break
  <2>1. /\ link' = "down" /\ feed' = <<>> /\ threadOwed' = TRUE /\ threadDue' = FALSE
        /\ fetch' = [f \in Fetches |-> IF fetch[f].pc = "none" THEN Thread!NoFetch
                                       ELSE [fetch[f] EXCEPT !.joined = FALSE]]
        /\ UNCHANGED <<log, shown, flagged, bubbles, maxRef, send, attempts, cid, props,
                       marks, lastMarked, readCursor, top, passed, unmarked>>
    BY <1>2 DEF Thread!Break, Thread!ChannelBreaks
  <2>2. ASSUME NEW f \in Fetches
        PROVE  /\ fetch'[f] \in {Thread!NoFetch} \union PageAsked \union PageRead
               /\ fetch'[f].pc = "none" \/ fetch'[f] = [fetch[f] EXCEPT !.joined = FALSE]
               /\ CatchUpPageInv(fetch[f])'
    <3>1. fetch[f] \in {Thread!NoFetch} \union PageAsked \union PageRead /\ CatchUpPageInv(fetch[f])
      BY DEF ThreadInv, ThreadTypes, AwaitedTypes, PagesInv
    <3>2. CASE fetch[f].pc = "none"
      BY <2>1, <3>2 DEF Thread!NoFetch, CatchUpPageInv
    <3>3. CASE fetch[f] \in PageAsked
      <4>1. fetch'[f] = fetch[f]
        BY <2>1, <3>3 DEF PageAsked
      <4> QED  BY <2>1, <3>1, <3>3, <4>1 DEF PageAsked, CatchUpPageInv, Present
    <3>4. CASE fetch[f] \in PageRead
      <4>1. /\ fetch'[f] \in PageRead /\ fetch'[f].joined = FALSE
            /\ fetch'[f].after = fetch[f].after /\ fetch'[f].items = fetch[f].items
            /\ fetch'[f] = [fetch[f] EXCEPT !.joined = FALSE] /\ fetch[f].pc = "read"
        BY <2>1, <3>4 DEF PageRead
      <4> QED  BY <2>1, <3>1, <4>1 DEF CatchUpPageInv, Present
    <3> QED  BY <3>1, <3>2, <3>3, <3>4 DEF Thread!NoFetch
  <2>3. ThreadTypes'
    <3>1. feed' \in Seq(Thread!Messages) /\ DOMAIN feed' = {}
      BY <2>1
    <3>2. fetch' \in [Fetches -> {Thread!NoFetch} \union PageAsked \union PageRead]
      BY <2>1, <2>2
    <3>3. AwaitedTypes'
      BY <2>1, <3>1, <3>2 DEF ThreadInv, ThreadTypes, AwaitedTypes
    <3> QED  BY <2>1, <3>3 DEF ThreadInv, ThreadTypes, LogTypes, ListTypes
  <2>4. SendsInv' /\ MarksInv'
    BY <2>1 DEF ThreadInv, SendsInv, MarksInv
  <2>5. PagesInv'
    BY <2>1, <2>2 DEF PagesInv
  <2> QED  BY <2>3, <2>4, <2>5 DEF ThreadInv
<1> QED  BY <1>1, <1>2

\* A catch-up is begun, or given up.
LEMMA BeginCatchUpInv ==
    ASSUME ThreadInv, NEW f \in Fetches,
           Thread!CatchUpConnected(f) \/ Thread!CatchUpAgain(f) \/ Thread!FetchFails(f)
    PROVE  ThreadInv'
<1>1. /\ threadDue' \in BOOLEAN
      /\ UNCHANGED <<log, shown, flagged, bubbles, maxRef, send, attempts, cid, props, marks,
                     lastMarked, readCursor, top, unmarked, threadOwed, link, feed>>
      /\ \/ /\ fetch' = [fetch EXCEPT ![f] = Thread!NoFetch] /\ passed' = passed
         \/ /\ fetch' = [fetch EXCEPT ![f] =
                   [pc |-> "asked", after |-> maxRef, page |-> 1, joined |-> FALSE]]
            /\ passed' = passed
                      \union {m \in Thread!Messages : m <= maxRef /\ m > top /\ m \notin shown}
  BY DEF Thread!CatchUpConnected, Thread!CatchUpAgain, Thread!FetchFails, Thread!BeginCatchUp,
     Thread!Ask, Thread!channelVars, ThreadInv, ThreadTypes, AwaitedTypes
<1>2. fetch \in [Fetches -> {Thread!NoFetch} \union PageAsked \union PageRead] /\ maxRef \in Nat
  BY DEF ThreadInv, ThreadTypes, AwaitedTypes, ListTypes
<1>3. /\ \/ fetch'[f] = Thread!NoFetch
         \/ fetch'[f] = [pc |-> "asked", after |-> maxRef, page |-> 1, joined |-> FALSE]
      /\ \A g \in Fetches \ {f} : fetch'[g] = fetch[g]
      /\ fetch'[f] \in {Thread!NoFetch} \union PageAsked
  <2>1. [pc |-> "asked", after |-> maxRef, page |-> 1, joined |-> FALSE] \in PageAsked
    BY <1>2 DEF PageAsked
  <2> QED  BY <1>1, <1>2, <2>1
<1>4. ThreadTypes'
  <2>1. passed' \subseteq Thread!Messages /\ passed \subseteq passed'
    BY <1>1 DEF ThreadInv, ThreadTypes, ListTypes
  <2>2. fetch' \in [Fetches -> {Thread!NoFetch} \union PageAsked \union PageRead]
    BY <1>1, <1>2, <1>3
  <2>3. AwaitedTypes'
    BY <1>1, <2>2 DEF ThreadInv, ThreadTypes, AwaitedTypes
  <2> QED  BY <1>1, <2>1, <2>3 DEF ThreadInv, ThreadTypes, LogTypes, ListTypes
<1>5. SendsInv' /\ MarksInv'
  BY <1>1 DEF ThreadInv, SendsInv, MarksInv
<1>6. ThreadKept
  <2>1. Len(log) \in Nat
    BY ThreadNumbers DEF ThreadInv
  <2> QED  BY <1>1, <2>1 DEF ThreadKept, Present, MessageComing
<1>7. CatchUpPageInv(fetch[f])'
  <2>1. CASE fetch'[f] = Thread!NoFetch
    BY <2>1 DEF CatchUpPageInv, Thread!NoFetch
  <2>2. CASE fetch'[f] # Thread!NoFetch
    <3>1. fetch'[f].pc = "asked" /\ fetch'[f].after = maxRef
      BY <1>3, <2>2
    <3>2. passed' = passed
                      \union {m \in Thread!Messages : m <= maxRef /\ m > top /\ m \notin shown}
      BY <1>1, <1>2, <2>2
    <3>3. top \in Nat /\ \A m \in Thread!Messages : m \in Nat
      BY ThreadNumbers DEF ThreadInv, ThreadTypes, ListTypes
    <3>4. ASSUME NEW m \in Thread!Messages, m <= maxRef PROVE Present(m)'
      BY <1>1, <3>2, <3>3, <3>4 DEF Present
    <3> QED  BY <3>1, <3>4 DEF CatchUpPageInv
  <2> QED  BY <2>1, <2>2
<1>8. PagesInv'
  BY <1>1, <1>3, <1>4, <1>6, <1>7, KeptPagesInv DEF ThreadInv, PagesInv
<1> QED  BY <1>4, <1>5, <1>8 DEF ThreadInv

\* The server reads a page for a catch-up.
LEMMA ReadPageInv ==
    ASSUME ThreadInv, NEW f \in Fetches, Thread!ReadPage(f) PROVE ThreadInv'
<1> DEFINE c == fetch[f]
           items == {m \in c.after + 1..Len(log) : m <= c.after + PageSize}
           read == [pc |-> "read", after |-> c.after, page |-> c.page, joined |-> link # "down",
                    items |-> items]
<1>1. /\ c.pc = "asked" /\ fetch' = [fetch EXCEPT ![f] = read]
      /\ UNCHANGED <<log, shown, flagged, bubbles, maxRef, threadDue, send, attempts, cid, props,
                     marks, lastMarked, readCursor, top, passed, unmarked, threadOwed, link, feed>>
  BY DEF Thread!ReadPage, Thread!channelVars
<1>2. fetch \in [Fetches -> {Thread!NoFetch} \union PageAsked \union PageRead]
  BY DEF ThreadInv, ThreadTypes, AwaitedTypes
<1>3. c \in PageAsked /\ CatchUpPageInv(c)
  BY <1>1, <1>2 DEF PageRead, Thread!NoFetch, ThreadInv, PagesInv
<1>4. c.after \in Nat /\ c.page \in Nat
  BY <1>3 DEF PageAsked
<1>5. /\ Len(log) \in Nat /\ 1..Len(log) \subseteq Thread!Messages
      /\ \A m \in Thread!Messages : m \in Nat
  BY ThreadNumbers DEF ThreadInv
<1>6. items \subseteq 1..Len(log)
  BY <1>4, <1>5
<1>7. read \in PageRead
  BY <1>4, <1>5, <1>6 DEF PageRead
<1>8. Thread!EndOfLog(read) => items = c.after + 1..Len(log)
  BY <1>4, <1>5, EndFact, ThreadConstants DEF Thread!EndOfLog
<1>9. /\ fetch'[f] = read /\ \A g \in Fetches \ {f} : fetch'[g] = fetch[g]
      /\ fetch' \in [Fetches -> {Thread!NoFetch} \union PageAsked \union PageRead]
  BY <1>1, <1>2, <1>7
<1>10. /\ read.pc = "read" /\ read.after = c.after /\ read.items = items
       /\ read.joined = (link # "down")
  OBVIOUS
<1>11. \A n \in items : c.after < n /\ n <= Len(log)
                        /\ \A m \in Thread!Messages : c.after < m /\ m < n => m \in items
  <2>1. PageSize \in Nat
    BY ThreadConstants DEF Thread!ThreadAssumption
  <2> QED  BY <1>4, <1>5, <2>1
<1>12. Thread!EndOfLog(read) => \A m \in 1..Len(log) : c.after < m => m \in items
  BY <1>4, <1>5, <1>8
<1> HIDE DEF items, read
<1>13. CatchUpPageInv(read)
  BY <1>1, <1>3, <1>10, <1>11, <1>12 DEF CatchUpPageInv
<1>14. CatchUpPageInv(fetch[f])'
  <2>1. Thread!EndOfLog(fetch[f])' = Thread!EndOfLog(read)
    BY <1>9 DEF Thread!EndOfLog
  <2> QED  BY <1>1, <1>9, <1>13, <2>1 DEF CatchUpPageInv, Present, MessageComing
<1>15. ThreadTypes'
  <2>1. AwaitedTypes'
    BY <1>1, <1>9 DEF ThreadInv, ThreadTypes, AwaitedTypes
  <2> QED  BY <1>1, <2>1 DEF ThreadInv, ThreadTypes, LogTypes, ListTypes
<1>16. SendsInv' /\ MarksInv'
  BY <1>1 DEF ThreadInv, SendsInv, MarksInv
<1>17. PagesInv'
  <2>1. ThreadKept
    BY <1>1, StillKept DEF ThreadInv
  <2>2. ASSUME NEW g \in Fetches PROVE fetch'[g] = fetch[g] \/ CatchUpPageInv(fetch[g])'
    BY <1>9, <1>14
  <2> QED  BY <1>1, <1>15, <2>1, <2>2, KeptPagesInv DEF ThreadInv, PagesInv
<1> QED  BY <1>15, <1>16, <1>17 DEF ThreadInv

\* A page is merged; a catch-up asks for the next one unless this was the last.
LEMMA ApplyPageInv ==
    ASSUME ThreadInv, NEW f \in Fetches, Thread!ApplyPage(f) PROVE ThreadInv'
<1>1. PICK c : c = fetch[f]
  OBVIOUS
<1>2. /\ c.pc = "read"
      /\ IF c.items = {} THEN UNCHANGED <<shown, bubbles, maxRef, marks, lastMarked>>
         ELSE /\ Thread!Display(shown \union c.items)
              /\ bubbles' = Thread!Merged(c.items, bubbles)
              /\ maxRef' = Thread!MaxSequence(shown', bubbles')
      /\ IF Thread!EndOfLog(c) \/ c.page = MaxPages
         THEN fetch' = [fetch EXCEPT ![f] = Thread!NoFetch]
         ELSE fetch' = [fetch EXCEPT ![f] = [pc |-> "asked", after |-> Thread!Greatest(c.items),
                                             page |-> c.page + 1, joined |-> FALSE]]
      /\ threadOwed' = (threadOwed /\ ~(Thread!EndOfLog(c) /\ c.joined))
      /\ UNCHANGED <<log, flagged, threadDue, send, attempts, cid, props, readCursor, top, passed,
                     unmarked, link, feed>>
  BY <1>1 DEF Thread!ApplyPage, Thread!Merge, Thread!Ask, Thread!channelVars
<1>3. fetch \in [Fetches -> {Thread!NoFetch} \union PageAsked \union PageRead]
  BY DEF ThreadInv, ThreadTypes, AwaitedTypes
<1>4. c \in PageRead /\ CatchUpPageInv(c)
  <2>1. c.pc = "read"
    BY <1>2
  <2>2. c # Thread!NoFetch
    BY <2>1 DEF Thread!NoFetch
  <2>3. c \notin PageAsked
    BY <2>1 DEF PageAsked
  <2> QED  BY <1>1, <1>3, <2>2, <2>3 DEF ThreadInv, PagesInv
<1>5. c.after \in Nat /\ c.page \in Nat /\ c.items \subseteq Thread!Messages
  BY <1>4 DEF PageRead
<1>6. /\ Len(log) \in Nat /\ 1..Len(log) \subseteq Thread!Messages
      /\ \A m \in Thread!Messages : m \in Nat /\ m >= 1
  BY ThreadNumbers DEF ThreadInv
<1>7. c.items \subseteq 1..Len(log)
  BY <1>2, <1>4, <1>5, <1>6 DEF CatchUpPageInv
<1>8. PICK now : now = shown \union c.items
  OBVIOUS
<1>9. now \in SUBSET (1..Len(log)) /\ shown \subseteq now
  BY <1>7, <1>8 DEF ThreadInv, ThreadTypes, ListTypes
<1>10. ListChanged(now)
  <2>1. CASE c.items = {}
    <3>1. now = shown /\ UNCHANGED <<shown, bubbles, maxRef, marks, lastMarked>>
      BY <1>2, <1>8, <2>1
    <3> QED  BY <1>2, <3>1 DEF ListChanged, ThreadInv, ThreadTypes, ListTypes, MarksInv
  <2>2. CASE c.items # {}
    BY <1>2, <1>8, <1>9, <2>2, MergedFact, MergedList DEF ThreadInv
  <2> QED  BY <2>1, <2>2
<1>11. \/ fetch'[f] = Thread!NoFetch
       \/ /\ fetch'[f] = [pc |-> "asked", after |-> Thread!Greatest(c.items),
                          page |-> c.page + 1, joined |-> FALSE]
          /\ ~Thread!EndOfLog(c)
  BY <1>2, <1>3
<1>12. \A g \in Fetches \ {f} : fetch'[g] = fetch[g]
  BY <1>2, <1>3
<1>13. Thread!Greatest(c.items) \in c.items \union {0} /\ Thread!Greatest(c.items) \in Nat
  <2>1. c.items \in SUBSET (0..Len(log))
    BY <1>6, <1>7
  <2> QED  BY <1>6, <2>1, GreatestFact
<1>14. ~Thread!EndOfLog(c) => c.items # {}
  <2>1. Thread!Cardinality({}) = 0
    BY FS_EmptySet DEF Thread!Cardinality, Cardinality
  <2>2. PageSize \in Nat /\ PageSize # 0
    BY ThreadConstants DEF Thread!ThreadAssumption
  <2> QED  BY <2>1, <2>2 DEF Thread!EndOfLog
<1>15. ThreadTypes'
  <2>1. [pc |-> "asked", after |-> Thread!Greatest(c.items), page |-> c.page + 1, joined |-> FALSE]
           \in PageAsked
    BY <1>5, <1>13 DEF PageAsked
  <2>2. fetch' \in [Fetches -> {Thread!NoFetch} \union PageAsked \union PageRead]
    BY <1>2, <1>3, <2>1
  <2>3. threadOwed' \in BOOLEAN
    BY <1>2
  <2>4. AwaitedTypes'
    BY <1>2, <2>2, <2>3 DEF ThreadInv, ThreadTypes, AwaitedTypes
  <2> QED  BY <1>2, <1>10, <2>4 DEF ThreadInv, ThreadTypes, LogTypes, ListChanged
<1>16. SendsInv'
  BY <1>2, <1>9, <1>10 DEF ThreadInv, SendsInv, ListChanged
<1>17. \A m \in Thread!Messages : Present(m) => Present(m)'
  BY <1>2, <1>9, <1>10 DEF Present, ListChanged
<1>18. \A m \in c.items : Present(m)'
  BY <1>8, <1>10 DEF Present, ListChanged
<1>19. ThreadKept
  BY <1>2, <1>6, <1>17 DEF ThreadKept, MessageComing
<1>20. CatchUpPageInv(fetch[f])'
  <2>1. CASE fetch'[f] = Thread!NoFetch
    BY <2>1 DEF CatchUpPageInv, Thread!NoFetch
  <2>2. CASE fetch'[f] # Thread!NoFetch
    <3>1. fetch'[f].pc = "asked" /\ fetch'[f].after = Thread!Greatest(c.items)
      BY <1>11, <2>2
    <3>2. Thread!Greatest(c.items) \in c.items
      <4>1. \A y \in c.items : y <= Thread!Greatest(c.items)
        <5>1. c.items \in SUBSET (0..Len(log))
          BY <1>6, <1>7
        <5> QED  BY <1>6, <5>1, GreatestFact
      <4>2. c.items # {} /\ \A y \in c.items : y \in Nat /\ y >= 1
        BY <1>5, <1>6, <1>11, <1>14, <2>2
      <4> QED  BY <1>13, <4>1, <4>2
    <3>3. ASSUME NEW m \in Thread!Messages, m <= Thread!Greatest(c.items) PROVE Present(m)'
      <4>1. CASE m <= c.after
        BY <1>2, <1>4, <1>17, <4>1 DEF CatchUpPageInv
      <4>2. CASE c.after < m /\ m < Thread!Greatest(c.items)
        BY <1>2, <1>4, <1>18, <3>2, <4>2 DEF CatchUpPageInv
      <4>3. CASE m = Thread!Greatest(c.items)
        BY <1>18, <3>2, <4>3
      <4> QED  BY <1>5, <1>6, <1>13, <3>3, <4>1, <4>2, <4>3
    <3> QED  BY <3>1, <3>3 DEF CatchUpPageInv
  <2> QED  BY <2>1, <2>2
<1>21. PagesInv'
  <2>1. ASSUME NEW g \in Fetches, g # f PROVE CatchUpPageInv(fetch[g])'
    <3>1. PICK d : d = fetch[g]
      OBVIOUS
    <3>2. CatchUpPageInv(d)'
      BY <1>3, <1>15, <1>19, <3>1, KeptPages DEF ThreadInv, PagesInv
    <3> QED  BY <1>12, <2>1, <3>1, <3>2
  <2>2. ASSUME ~threadOwed' PROVE \A m \in 1..Len(log') : Present(m)' \/ MessageComing(m)'
    <3>1. CASE threadOwed' = threadOwed
      BY <1>15, <1>19, <2>2, <3>1, KeptOwed DEF ThreadInv
    <3>2. CASE Thread!EndOfLog(c) /\ c.joined
      <4> SUFFICES ASSUME NEW m \in 1..Len(log) PROVE Present(m)' \/ MessageComing(m)'
        BY <1>2
      <4>1. CASE m <= c.after
        BY <1>2, <1>4, <1>6, <1>17, <4>1 DEF CatchUpPageInv
      <4>2. CASE c.after < m
        <5>1. m \in c.items \/ Present(m) \/ MessageComing(m)
          BY <1>2, <1>4, <3>2, <4>2 DEF CatchUpPageInv
        <5>2. MessageComing(m) => MessageComing(m)'
          BY <1>2 DEF MessageComing
        <5> QED  BY <1>6, <1>17, <1>18, <5>1, <5>2
      <4> QED  BY <1>5, <1>6, <4>1, <4>2
    <3>3. threadOwed' = (threadOwed /\ ~(Thread!EndOfLog(c) /\ c.joined))
      BY <1>2
    <3>4. threadOwed \in BOOLEAN
      BY DEF ThreadInv, ThreadTypes, AwaitedTypes
    <3>5. threadOwed' = threadOwed \/ (Thread!EndOfLog(c) /\ c.joined)
      BY <2>2, <3>3, <3>4
    <3> QED  BY <3>1, <3>2, <3>5
  <2>3. link' = "down" => feed' = <<>> /\ threadOwed'
    <3>1. link = "down" => ~c.joined
      BY <1>2, <1>4 DEF CatchUpPageInv
    <3> QED  BY <1>2, <3>1 DEF ThreadInv, PagesInv
  <2> QED  BY <1>20, <2>1, <2>2, <2>3 DEF PagesInv
<1> QED  BY <1>10, <1>15, <1>16, <1>21 DEF ThreadInv, ListChanged

LEMMA SubmitInv == ASSUME ThreadInv, Thread!Submit PROVE ThreadInv'
<1> DEFINE new == [attempt |-> attempts + 1, cid |-> cid', failed |-> FALSE,
                   seq |-> Thread!MaxSequence(shown, bubbles) + 1]
<1>1. /\ send.pc = "none" /\ attempts < MaxAttempts /\ attempts' = attempts + 1
      /\ cid' = IF cid = 0 THEN attempts + 1 ELSE cid
      /\ send' = [pc |-> "asked"]
      /\ bubbles' = Thread!Merged({}, bubbles) \union {new}
      /\ UNCHANGED <<log, shown, flagged, maxRef, threadDue, fetch, props, marks, lastMarked,
                     readCursor, top, passed, unmarked, threadOwed, link, feed>>
  BY DEF Thread!Submit, Thread!channelVars
<1>2. /\ Len(log) \in Nat /\ shown \subseteq 1..Len(log) /\ bubbles \subseteq Bubble
      /\ \E k \in Nat : \A b \in bubbles : b.seq <= k
      /\ attempts \in 0..MaxAttempts /\ cid \in 0..MaxAttempts
  BY ThreadNumbers DEF ThreadInv, ThreadTypes, ListTypes, AwaitedTypes
<1>3. MaxAttempts \in Nat
  BY ThreadConstants DEF Thread!ThreadAssumption
<1>4. attempts' \in 1..MaxAttempts /\ cid' \in 1..MaxAttempts
  BY <1>1, <1>2, <1>3
<1>5. Thread!MaxSequence(shown, bubbles) \in Nat
  BY <1>2, SequenceFact
<1>6. /\ new \in Bubble /\ new.attempt = attempts' /\ new.cid = cid'
      /\ new.seq = Thread!MaxSequence(shown, bubbles) + 1
  BY <1>1, <1>2, <1>4, <1>5 DEF Bubble
<1>7. \A b \in bubbles' : b \in bubbles \/ b = new
  BY <1>1, MergedFact
<1> HIDE DEF new
<1>8. \E k \in Nat : \A b \in bubbles' : b.seq <= k
  <2>1. PICK k \in Nat : \A b \in bubbles : b.seq <= k
    BY <1>2
  <2>2. PICK k2 \in Nat : k <= k2 /\ new.seq <= k2
    <3>1. k + new.seq \in Nat /\ k <= k + new.seq /\ new.seq <= k + new.seq
      BY <1>5, <1>6
    <3> QED  BY <3>1
  <2>3. \A b \in bubbles' : b.seq <= k2
    <3>1. \A b \in bubbles : b.seq \in Nat
      BY <1>2 DEF Bubble
    <3> QED  BY <1>7, <2>1, <2>2, <3>1
  <2> QED  BY <2>3
<1>9. ThreadTypes'
  <2>1. bubbles' \subseteq Bubble
    BY <1>2, <1>6, <1>7
  <2>2. ListTypes'
    BY <1>1, <1>8, <2>1 DEF ThreadInv, ThreadTypes, ListTypes
  <2>3. attempts' \in 0..MaxAttempts /\ cid' \in 0..MaxAttempts
    BY <1>3, <1>4
  <2>4. AwaitedTypes'
    BY <1>1, <2>3 DEF ThreadInv, ThreadTypes, AwaitedTypes
  <2> QED  BY <1>1, <2>2, <2>4 DEF ThreadInv, ThreadTypes, LogTypes
<1>10. SendsInv'
  <2>1. cid' # 0 /\ (cid # 0 => cid' = cid) /\ send'.pc = "asked"
    BY <1>1, <1>3, <1>4
  <2>2. ASSUME NEW b \in bubbles', ~b.failed PROVE b = new
    BY <1>1, <1>7, <2>2 DEF ThreadInv, SendsInv
  <2>3. \A m \in 1..Len(log') : log'[m] \notin {0, cid'} => m \in shown' \/ m <= top'
    BY <1>1, <2>1 DEF ThreadInv, SendsInv
  <2>4. \A b \in bubbles' : ~b.failed => b.attempt = attempts' /\ b.cid = cid'
    BY <1>6, <2>2
  <2> QED  BY <1>1, <2>1, <2>3, <2>4 DEF ThreadInv, SendsInv
<1>11. MarksInv'
  BY <1>1 DEF ThreadInv, MarksInv
<1>12. PagesInv'
  <2>1. ThreadKept
    BY <1>1, StillKept DEF ThreadInv
  <2> QED  BY <1>1, <1>9, <2>1, KeptPagesInv DEF ThreadInv, PagesInv
<1> QED  BY <1>9, <1>10, <1>11, <1>12 DEF ThreadInv

LEMMA ServeSendInv == ASSUME ThreadInv, Thread!ServeSend PROVE ThreadInv'
<1>1. /\ send.pc = "asked" /\ send' = [pc |-> "stored"]
      /\ UNCHANGED <<shown, flagged, bubbles, maxRef, threadDue, fetch, attempts, cid, props,
                     marks, lastMarked, readCursor, top, passed, unmarked, threadOwed>>
      /\ IF \E m \in 1..Len(log) : log[m] = cid THEN UNCHANGED <<log, link, feed>>
         ELSE /\ Len(log) < MaxMessage /\ log' = Append(log, cid)
              /\ Thread!Publish(<<Len(log) + 1>>)
  BY DEF Thread!ServeSend, Thread!Append1, Thread!channelVars
<1>2. cid # 0 /\ cid \in 0..MaxAttempts
  BY <1>1 DEF ThreadInv, SendsInv, ThreadTypes, AwaitedTypes
<1>3. CASE \E m \in 1..Len(log) : log[m] = cid
  <2>1. UNCHANGED <<log, link, feed>>
    BY <1>1, <1>3
  <2>2. ThreadTypes'
    BY <1>1, <2>1 DEF ThreadInv, ThreadTypes, LogTypes, ListTypes, AwaitedTypes
  <2>3. SendsInv'
    BY <1>1, <1>2, <1>3, <2>1 DEF ThreadInv, SendsInv
  <2>4. MarksInv'
    BY <1>1, <2>1 DEF ThreadInv, MarksInv
  <2>5. PagesInv'
    <3>1. ThreadKept
      BY <1>1, <2>1, StillKept DEF ThreadInv
    <3> QED  BY <1>1, <2>1, <2>2, <3>1, KeptPagesInv DEF ThreadInv, PagesInv
  <2> QED  BY <2>2, <2>3, <2>4, <2>5 DEF ThreadInv
<1>4. CASE ~\E m \in 1..Len(log) : log[m] = cid
  BY <1>1, <1>2, <1>4, CommitMessage
<1> QED  BY <1>3, <1>4

\* The answer's message takes the place of the send's own entry.
LEMMA SendAnsweredInv == ASSUME ThreadInv, Thread!SendAnswered PROVE ThreadInv'
<1> DEFINE m == CHOOSE n \in 1..Len(log) : log[n] = cid
<1>1. /\ send.pc = "stored" /\ send' = Thread!NoSend /\ cid' = 0
      /\ Thread!Display(shown \union {m})
      /\ bubbles' = Thread!Merged({m}, Thread!WithoutOwn)
      /\ UNCHANGED <<log, flagged, maxRef, threadDue, fetch, attempts, props, readCursor, top,
                     passed, unmarked, threadOwed, link, feed>>
  BY DEF Thread!SendAnswered, Thread!channelVars
<1>2. m \in 1..Len(log) /\ log[m] = cid
  <2>1. \E n \in 1..Len(log) : log[n] = cid
    BY <1>1 DEF ThreadInv, SendsInv
  <2> QED  BY <2>1
<1> HIDE DEF m
<1>3. \A b \in bubbles' : b \in bubbles /\ b.attempt # attempts
  BY <1>1, MergedFact DEF Thread!WithoutOwn
<1>4. PICK now : now = shown \union {m}
  OBVIOUS
<1>5. now \in SUBSET (1..Len(log)) /\ shown \subseteq now
  BY <1>2, <1>4 DEF ThreadInv, ThreadTypes, ListTypes
<1>6. ListChanged(now)
  <2>1. bubbles' \subseteq bubbles
    BY <1>3
  <2> QED  BY <1>1, <1>4, <1>5, <2>1, MergedList DEF ThreadInv
<1>7. ThreadTypes'
  <2>1. cid' \in 0..MaxAttempts
    BY <1>1, ThreadConstants DEF Thread!ThreadAssumption
  <2>2. AwaitedTypes'
    BY <1>1, <2>1 DEF ThreadInv, ThreadTypes, AwaitedTypes
  <2> QED  BY <1>1, <1>6, <2>2 DEF ThreadInv, ThreadTypes, LogTypes, ListChanged
<1>8. SendsInv'
  <2>1. \A b \in bubbles' : b.failed
    BY <1>3 DEF ThreadInv, SendsInv
  <2>2. ASSUME NEW n \in 1..Len(log'), log'[n] \notin {0, cid'} PROVE n \in shown' \/ n <= top'
    <3>1. CASE log[n] = cid
      <4>1. n = m
        BY <1>1, <1>2, <2>2, <3>1 DEF ThreadInv, SendsInv
      <4> QED  BY <1>4, <1>6, <4>1 DEF ListChanged
    <3>2. CASE log[n] # cid
      <4>1. n \in shown \/ n <= top
        BY <1>1, <2>2, <3>2 DEF ThreadInv, SendsInv
      <4> QED  BY <1>1, <1>5, <1>6, <4>1 DEF ListChanged
    <3> QED  BY <3>1, <3>2
  <2>3. top' # 0 => top' + PropsWindow \in shown'
    BY <1>1, <1>5, <1>6 DEF ThreadInv, SendsInv, ListChanged
  <2> QED  BY <1>1, <2>1, <2>2, <2>3 DEF ThreadInv, SendsInv, Thread!NoSend
<1>9. ThreadKept
  <2>1. Len(log) \in Nat
    BY ThreadNumbers DEF ThreadInv
  <2>2. \A n \in Thread!Messages : Present(n) => Present(n)'
    BY <1>1, <1>5, <1>6 DEF Present, ListChanged
  <2>3. UNCHANGED <<log, link, feed>>
    BY <1>1
  <2> QED  BY <2>1, <2>2, <2>3 DEF ThreadKept, MessageComing
<1>10. PagesInv'
  BY <1>1, <1>7, <1>9, KeptPagesInv DEF ThreadInv, PagesInv
<1> QED  BY <1>6, <1>7, <1>8, <1>10 DEF ThreadInv, ListChanged

LEMMA SendFailsInv == ASSUME ThreadInv, Thread!SendFails PROVE ThreadInv'
<1>1. /\ send' = Thread!NoSend
      /\ bubbles' = {IF b.cid = cid THEN [b EXCEPT !.failed = TRUE] ELSE b : b \in bubbles}
      /\ flagged' = flagged \union {m \in shown : log[m] = cid}
      /\ UNCHANGED <<log, shown, maxRef, threadDue, fetch, attempts, cid, props, marks, lastMarked,
                     readCursor, top, passed, unmarked, threadOwed, link, feed>>
  BY DEF Thread!SendFails, Thread!channelVars
<1>2. bubbles \subseteq Bubble
  BY DEF ThreadInv, ThreadTypes, ListTypes
<1>3. ASSUME NEW d \in bubbles' PROVE d \in Bubble /\ d.failed /\ \E b \in bubbles : d.seq = b.seq
  <2>1. PICK b \in bubbles : d = IF b.cid = cid THEN [b EXCEPT !.failed = TRUE] ELSE b
    BY <1>1
  <2>2. b \in Bubble /\ (b.cid # cid => b.failed = TRUE)
    BY <1>2 DEF ThreadInv, SendsInv, Bubble
  <2>3. CASE b.cid = cid
    BY <2>1, <2>2, <2>3 DEF Bubble
  <2>4. CASE b.cid # cid
    BY <2>1, <2>2, <2>4
  <2> QED  BY <2>3, <2>4
<1>4. ThreadTypes'
  <2>1. bubbles' \subseteq Bubble /\ \E k \in Nat : \A d \in bubbles' : d.seq <= k
    <3>1. PICK k \in Nat : \A b \in bubbles : b.seq <= k
      BY DEF ThreadInv, ThreadTypes, ListTypes
    <3> QED  BY <1>3, <3>1
  <2>2. ListTypes'
    BY <1>1, <2>1 DEF ThreadInv, ThreadTypes, ListTypes
  <2>3. AwaitedTypes'
    BY <1>1 DEF ThreadInv, ThreadTypes, AwaitedTypes
  <2> QED  BY <1>1, <2>2, <2>3 DEF ThreadInv, ThreadTypes, LogTypes
<1>5. SendsInv'
  BY <1>1, <1>3 DEF ThreadInv, SendsInv, Thread!NoSend
<1>6. MarksInv'
  BY <1>1 DEF ThreadInv, MarksInv
<1>7. PagesInv'
  <2>1. ThreadKept
    BY <1>1, StillKept DEF ThreadInv
  <2> QED  BY <1>1, <1>4, <2>1, KeptPagesInv DEF ThreadInv, PagesInv
<1> QED  BY <1>4, <1>5, <1>6, <1>7 DEF ThreadInv

\* Nothing but what is read of the server, and what has been marked.
LEMMA PropsReadInv == ASSUME ThreadInv, Thread!ReadProps PROVE ThreadInv'
<1>1. /\ props' = Len(log)
      /\ UNCHANGED <<log, shown, flagged, bubbles, maxRef, threadDue, fetch, send, attempts, cid,
                     marks, lastMarked, readCursor, top, passed, unmarked, threadOwed, link, feed>>
  BY DEF Thread!ReadProps, Thread!channelVars
<1>2. ThreadTypes'
  <2>1. props' \in 0..Len(log)
    BY <1>1, ThreadNumbers DEF ThreadInv
  <2>2. AwaitedTypes'
    BY <1>1, <2>1 DEF ThreadInv, ThreadTypes, AwaitedTypes
  <2> QED  BY <1>1, <2>2 DEF ThreadInv, ThreadTypes, LogTypes, ListTypes
<1>3. SendsInv' /\ MarksInv'
  BY <1>1 DEF ThreadInv, SendsInv, MarksInv
<1>4. PagesInv'
  <2>1. ThreadKept
    BY <1>1, StillKept DEF ThreadInv
  <2> QED  BY <1>1, <1>2, <2>1, KeptPagesInv DEF ThreadInv, PagesInv
<1> QED  BY <1>2, <1>3, <1>4 DEF ThreadInv

\* A mark is served, or fails.
LEMMA MarkedInv ==
    ASSUME ThreadInv, NEW m, Thread!ServeMark(m) \/ Thread!MarkFails(m) PROVE ThreadInv'
<1>1. /\ m \in marks /\ marks' = marks \ {m}
      /\ \/ readCursor' = Thread!Greatest({m, readCursor}) /\ unmarked' = unmarked
         \/ unmarked' = Thread!Greatest({m, unmarked}) /\ readCursor' = readCursor
      /\ UNCHANGED <<log, shown, flagged, bubbles, maxRef, threadDue, fetch, send, attempts, cid,
                     props, lastMarked, top, passed, threadOwed, link, feed>>
  BY DEF Thread!ServeMark, Thread!MarkFails, Thread!channelVars
<1>2. m \in Nat /\ readCursor \in Nat /\ unmarked \in Nat /\ lastMarked \in Nat
  <2>1. /\ Len(log) \in Nat /\ marks \subseteq shown \union 1..top /\ shown \subseteq 1..Len(log)
        /\ top \in 0..Len(log) /\ readCursor \in Nat /\ unmarked \in Nat
        /\ lastMarked \in 0..Len(log)
    BY ThreadNumbers DEF ThreadInv, ThreadTypes, ListTypes
  <2> QED  BY <1>1, <2>1
<1>3. ASSUME NEW k \in Nat
      PROVE  Thread!Greatest({m, k}) \in Nat /\ m <= Thread!Greatest({m, k}) /\ k <= Thread!Greatest({m, k})
  <2>1. m + k \in Nat /\ {m, k} \in SUBSET (0..(m + k))
    BY <1>2
  <2> QED  BY <2>1, GreatestFact
<1>4. /\ readCursor' \in Nat /\ unmarked' \in Nat /\ readCursor <= readCursor'
      /\ unmarked <= unmarked'
      /\ m <= readCursor' \/ m <= unmarked'
  BY <1>1, <1>2, <1>3
<1>5. ThreadTypes'
  <2>1. ListTypes'
    BY <1>1, <1>4 DEF ThreadInv, ThreadTypes, ListTypes
  <2> QED  BY <1>1, <2>1 DEF ThreadInv, ThreadTypes, LogTypes, AwaitedTypes
<1>6. SendsInv'
  BY <1>1 DEF ThreadInv, SendsInv
<1>7. MarksInv'
  <2>1. PICK k \in marks \union {readCursor, unmarked} : lastMarked <= k
    BY DEF ThreadInv, MarksInv
  <2>2. \E i \in marks' \union {readCursor', unmarked'} : lastMarked <= i
    <3>1. CASE k \in marks \ {m}
      BY <1>1, <2>1, <3>1
    <3>2. CASE k = m
      BY <1>2, <1>4, <2>1, <3>2
    <3>3. CASE k = readCursor
      BY <1>2, <1>4, <2>1, <3>3
    <3>4. CASE k = unmarked
      BY <1>2, <1>4, <2>1, <3>4
    <3> QED  BY <2>1, <3>1, <3>2, <3>3, <3>4
  <2> QED  BY <1>1, <2>2 DEF ThreadInv, MarksInv
<1>8. PagesInv'
  <2>1. ThreadKept
    BY <1>1, StillKept DEF ThreadInv
  <2> QED  BY <1>1, <1>5, <2>1, KeptPagesInv DEF ThreadInv, PagesInv
<1> QED  BY <1>5, <1>6, <1>7, <1>8 DEF ThreadInv

\* The newest page of the server takes the place of the list, or is dropped.
LEMMA ApplyPropsInv == ASSUME ThreadInv, Thread!ApplyProps PROVE ThreadInv'
<1>1. /\ props # -1 /\ props' = -1
      /\ UNCHANGED <<log, bubbles, threadDue, fetch, send, attempts, cid, readCursor, unmarked,
                     threadOwed, link, feed>>
      /\ IF bubbles = {} /\ Thread!MaxSequence(shown, bubbles) <= props
         THEN /\ top' = Thread!Greatest({props - PropsWindow} \intersect Nat)
              /\ Thread!Display(top' + 1..props)
              /\ flagged' = {} /\ passed' = passed \ shown'
              /\ maxRef' \in {Thread!MaxSequence(shown', bubbles), maxRef}
         ELSE UNCHANGED <<top, shown, marks, lastMarked, flagged, maxRef, passed>>
  BY DEF Thread!ApplyProps, Thread!Reconciles, Thread!channelVars
<1>2. /\ Len(log) \in Nat /\ shown \subseteq 1..Len(log) /\ bubbles \subseteq Bubble
      /\ \E k \in Nat : \A b \in bubbles : b.seq <= k
      /\ props \in 0..Len(log) /\ top \in 0..Len(log)
      /\ marks \subseteq shown \union 1..top /\ passed \subseteq Thread!Messages
  BY <1>1, ThreadNumbers DEF ThreadInv, ThreadTypes, ListTypes, AwaitedTypes
<1>3. PropsWindow \in Nat /\ PropsWindow # 0
  BY ThreadConstants DEF Thread!ThreadAssumption
<1>6. Len(log) \in Nat /\ props \in Nat /\ props <= Len(log) /\ top \in Nat
  BY <1>2
<1>4. CASE bubbles = {} /\ Thread!MaxSequence(shown, bubbles) <= props
  <2>0. PICK t : t = top'
    OBVIOUS
  <2>1. /\ t = Thread!Greatest({props - PropsWindow} \intersect Nat)
        /\ Thread!Display(t + 1..props)
        /\ flagged' = {} /\ passed' = passed \ shown'
        /\ maxRef' \in {Thread!MaxSequence(shown', bubbles), maxRef}
    BY <1>1, <1>4, <2>0
  <2>2. \A m \in shown : m <= props
    <3>1. /\ Thread!MaxSequence(shown, bubbles) \in Nat
          /\ \A m \in shown : m <= Thread!MaxSequence(shown, bubbles)
      BY <1>2, SequenceFact
    <3> QED  BY <1>2, <1>4, <3>1
  <2>3. /\ t \in Nat /\ t <= props /\ (t = 0 \/ t + PropsWindow = props)
        /\ \A k \in Nat : k + PropsWindow = props => k <= t
    <3>1. {props - PropsWindow} \intersect Nat \in SUBSET (0..props)
      BY <1>3, <1>6
    <3>2. /\ t \in ({props - PropsWindow} \intersect Nat) \union {0} /\ t \in 0..props
          /\ \A y \in {props - PropsWindow} \intersect Nat : y <= t
      BY <1>6, <2>1, <3>1, GreatestFact
    <3>3. t \in Nat /\ t <= props /\ (t = 0 \/ t + PropsWindow = props)
      BY <1>3, <1>6, <3>2
    <3>4. ASSUME NEW k \in Nat, k + PropsWindow = props PROVE k <= t
      <4>1. k = props - PropsWindow
        BY <1>3, <1>6, <3>4
      <4> QED  BY <3>2, <4>1
    <3> QED  BY <3>3, <3>4
  <2>4. top <= t
    <3>1. CASE top = 0
      BY <1>6, <2>3, <3>1
    <3>2. CASE top # 0
      <4>1. top + PropsWindow \in shown
        BY <3>2 DEF ThreadInv, SendsInv
      <4>2. top + PropsWindow <= props
        BY <2>2, <4>1
      <4>3. PICK k \in Nat : k + PropsWindow = props /\ top <= k
        <5>1. /\ props - PropsWindow \in Nat /\ (props - PropsWindow) + PropsWindow = props
              /\ top <= props - PropsWindow
          BY <1>3, <1>6, <4>2
        <5> QED  BY <5>1
      <4> QED  BY <1>6, <2>3, <4>3
    <3> QED  BY <3>1, <3>2
  <2>5. PICK now : now = t + 1..props
    OBVIOUS
  <2>6. now \in SUBSET (1..Len(log)) /\ \A m \in shown \union 1..top : m \in now \/ m \in 1..t
    <3>1. now \in SUBSET (1..Len(log))
      BY <1>6, <2>3, <2>5
    <3>2. ASSUME NEW m \in shown PROVE m \in now \/ m \in 1..t
      <4>1. m \in Nat /\ m >= 1 /\ m <= props
        BY <1>2, <2>2
      <4> QED  BY <1>6, <2>3, <2>5, <4>1
    <3>3. \A m \in 1..top : m \in 1..t
      BY <1>6, <2>3, <2>4
    <3> QED  BY <3>1, <3>2, <3>3
  <2>7. /\ shown' = now /\ lastMarked' \in 0..Len(log)
        /\ marks' \subseteq marks \union now
        /\ \A m \in now : log[m] = 0 => m <= lastMarked'
        /\ \E m \in marks' \union {readCursor, unmarked} : lastMarked' <= m
    BY <2>1, <2>5, <2>6, DisplayFacts DEF ThreadInv
  <2>8. maxRef' \in Nat
    <3>1. Thread!MaxSequence(shown', bubbles) \in Nat
      BY <1>2, <2>6, <2>7, SequenceFact
    <3>2. maxRef \in Nat
      BY DEF ThreadInv, ThreadTypes, ListTypes
    <3> QED  BY <2>1, <3>1, <3>2
  <2>9. ThreadTypes'
    <3>1. marks' \subseteq now \union 1..t /\ passed' \subseteq Thread!Messages /\ t \in 0..Len(log)
      <4>1. marks' \subseteq now \union 1..t
        BY <1>2, <2>6, <2>7
      <4>2. passed' \subseteq Thread!Messages
        BY <1>2, <2>1
      <4> QED  BY <1>6, <2>3, <4>1, <4>2
    <3>2. ListTypes'
      BY <1>1, <2>0, <2>1, <2>6, <2>7, <2>8, <3>1 DEF ThreadInv, ThreadTypes, ListTypes
    <3>3. AwaitedTypes'
      BY <1>1 DEF ThreadInv, ThreadTypes, AwaitedTypes
    <3> QED  BY <1>1, <3>2, <3>3 DEF ThreadInv, ThreadTypes, LogTypes
  <2>10. SendsInv'
    <3>1. \A m \in 1..Len(log') : log'[m] \notin {0, cid'} => m \in shown' \/ m <= top'
      <4>1. ASSUME NEW m \in 1..Len(log), log[m] \notin {0, cid} PROVE m \in now \/ m <= t
        <5>1. m \in shown \/ m \in 1..top
          BY <1>2, <4>1 DEF ThreadInv, SendsInv
        <5>2. m \in now \/ m \in 1..t
          BY <2>6, <5>1
        <5> QED  BY <2>3, <5>2
      <4> QED  BY <1>1, <2>0, <2>7, <4>1
    <3>2. t # 0 => t + PropsWindow \in now
      <4>1. t # 0 => props \in now
        BY <1>3, <1>6, <2>3, <2>5
      <4> QED  BY <2>3, <4>1
    <3> QED  BY <1>1, <2>0, <2>7, <3>1, <3>2 DEF ThreadInv, SendsInv
  <2>11. MarksInv'
    BY <1>1, <2>7 DEF MarksInv
  <2>12. ASSUME NEW m \in Thread!Messages, Present(m) PROVE Present(m)'
    <3>1. m \in Nat /\ m >= 1
      BY ThreadNumbers DEF ThreadInv
    <3>2. CASE m \in shown
      <4>1. m \in now \/ m <= t
        BY <2>3, <2>6, <3>2
      <4> QED  BY <2>0, <2>7, <4>1 DEF Present
    <3>3. CASE m <= top
      <4>1. m <= t
        BY <1>6, <2>3, <2>4, <3>1, <3>3
      <4> QED  BY <2>0, <4>1 DEF Present
    <3>4. CASE m \in passed
      BY <2>1, <3>4 DEF Present
    <3> QED  BY <2>12, <3>2, <3>3, <3>4 DEF Present
  <2>13. PagesInv'
    <3>1. ThreadKept
      BY <1>1, <1>6, <2>12 DEF ThreadKept, MessageComing
    <3> QED  BY <1>1, <2>9, <3>1, KeptPagesInv DEF ThreadInv, PagesInv
  <2> QED  BY <2>9, <2>10, <2>11, <2>13 DEF ThreadInv
<1>5. CASE ~(bubbles = {} /\ Thread!MaxSequence(shown, bubbles) <= props)
  <2>1. UNCHANGED <<top, shown, marks, lastMarked, flagged, maxRef, passed>>
    BY <1>1, <1>5
  <2>2. ThreadTypes'
    BY <1>1, <2>1 DEF ThreadInv, ThreadTypes, LogTypes, ListTypes, AwaitedTypes
  <2>3. SendsInv' /\ MarksInv'
    BY <1>1, <2>1 DEF ThreadInv, SendsInv, MarksInv
  <2>4. PagesInv'
    <3>1. ThreadKept
      BY <1>1, <2>1, StillKept DEF ThreadInv
    <3> QED  BY <1>1, <2>2, <3>1, KeptPagesInv DEF ThreadInv, PagesInv
  <2> QED  BY <2>2, <2>3, <2>4 DEF ThreadInv
<1> QED  BY <1>4, <1>5

LEMMA ThreadStep == ASSUME ThreadInv, [Thread!Next]_Thread!vars PROVE ThreadInv'
<1>1. CASE UNCHANGED Thread!vars
  <2>1. UNCHANGED <<log, shown, flagged, bubbles, maxRef, threadDue, fetch, send, attempts, cid,
                    props, marks, lastMarked, readCursor, top, passed, unmarked, threadOwed, link,
                    feed>>
    BY <1>1 DEF Thread!vars, Thread!threadVars, Thread!channelVars
  <2>2. ThreadTypes'
    BY <2>1 DEF ThreadInv, ThreadTypes, LogTypes, ListTypes, AwaitedTypes
  <2>3. SendsInv' /\ MarksInv'
    BY <2>1 DEF ThreadInv, SendsInv, MarksInv
  <2>4. PagesInv'
    <3>1. ThreadKept
      BY <2>1, StillKept DEF ThreadInv
    <3> QED  BY <2>1, <2>2, <3>1, KeptPagesInv DEF ThreadInv, PagesInv
  <2> QED  BY <2>2, <2>3, <2>4 DEF ThreadInv
<1>2. CASE Thread!VisitorSends
  <2>1. 0 \in 0..MaxAttempts
    BY ThreadConstants DEF Thread!ThreadAssumption
  <2> QED  BY <1>2, <2>1, CommitMessage DEF Thread!VisitorSends, Thread!Append1
<1> QED  BY <1>1, <1>2, OnMessageInsertInv, ThreadLinkInv, BeginCatchUpInv, ReadPageInv, ApplyPageInv,
            SubmitInv, ServeSendInv, SendAnsweredInv, SendFailsInv, PropsReadInv, ApplyPropsInv,
            MarkedInv DEF Thread!Next

LEMMA ThreadProperties == ASSUME ThreadInv PROVE Thread!TypeOK /\ Thread!ThreadSettles
<1>1. Thread!TypeOK
  <2>1. /\ Len(log) \in Nat /\ Len(log) <= MaxMessage /\ DOMAIN log = 1..Len(log)
        /\ \A m \in 1..Len(log) : log[m] \in 0..MaxAttempts
    BY ThreadNumbers DEF ThreadInv, ThreadTypes, LogTypes
  <2>2. log \in Seq(0..MaxAttempts)
    BY DEF ThreadInv, ThreadTypes, LogTypes
  <2>3. log \in [1..Len(log) -> 0..MaxAttempts]
    BY <2>2, Elements, Zenon
  <2>4. Len(log) \in 0..MaxMessage
    BY <2>1, ThreadConstants DEF Thread!ThreadAssumption
  <2>5. log \in UNION {[1..n -> 0..MaxAttempts] : n \in 0..MaxMessage}
    BY <2>3, <2>4
  <2> QED  BY <2>5 DEF Thread!TypeOK, ThreadInv, ThreadTypes, ListTypes
<1>2. ASSUME Thread!Quiet, ~threadOwed
      PROVE  /\ top + 1..Len(log) \subseteq shown \union passed
             /\ \A m \in shown : Thread!FromVisitor(m) => m <= Thread!Greatest({readCursor, unmarked})
  <2>1. feed = <<>> /\ marks = {} /\ DOMAIN feed = {}
    BY <1>2 DEF Thread!Quiet, Thread!Settled
  <2>2. /\ Len(log) \in Nat /\ top \in 0..Len(log) /\ readCursor \in Nat /\ unmarked \in Nat
        /\ lastMarked \in 0..Len(log) /\ shown \subseteq 1..Len(log)
    BY ThreadNumbers DEF ThreadInv, ThreadTypes, ListTypes
  <2>3. \A m \in 1..Len(log) : Present(m)
    BY <1>2, <2>1 DEF ThreadInv, PagesInv, MessageComing
  <2>4. top + 1..Len(log) \subseteq shown \union passed
    BY <2>2, <2>3 DEF Present
  <2>5. lastMarked <= readCursor \/ lastMarked <= unmarked
    BY <2>1 DEF ThreadInv, MarksInv
  <2>6. /\ Thread!Greatest({readCursor, unmarked}) \in Nat
        /\ readCursor <= Thread!Greatest({readCursor, unmarked})
        /\ unmarked <= Thread!Greatest({readCursor, unmarked})
    <3>1. readCursor + unmarked \in Nat /\ {readCursor, unmarked} \in SUBSET (0..(readCursor + unmarked))
      BY <2>2
    <3> QED  BY <3>1, GreatestFact
  <2>7. ASSUME NEW m \in shown, log[m] = 0 PROVE m <= Thread!Greatest({readCursor, unmarked})
    <3>1. m <= lastMarked /\ m \in Nat /\ lastMarked \in Nat
      BY <2>2, <2>7 DEF ThreadInv, MarksInv
    <3> QED  BY <2>2, <2>5, <2>6, <3>1
  <2> QED  BY <2>4, <2>7 DEF Thread!FromVisitor
<1>3. \A b \in bubbles : ~b.failed => send.pc # "none" /\ b.attempt = attempts
  BY DEF ThreadInv, SendsInv
<1>4. \A m \in 1..Len(log) : log[m] \notin {0, cid} => m \in shown \/ m <= top
  BY DEF ThreadInv, SendsInv
<1> QED  BY <1>1, <1>2, <1>3, <1>4 DEF Thread!ThreadSettles

\* What every step of the dashboard does in the thread's scene.
LEMMA ThreadKinds ==
    ASSUME [Next]_vars
    PROVE  scene' = scene /\ (scene = "thread" => [Thread!Next]_Thread!vars)
  BY DEF Next, vars, Thread!vars, threadVars, channelVars, Thread!threadVars, Thread!channelVars

LEMMA ThreadScene == Spec => [](scene = "thread" => ThreadInv)
<1>1. Init => (scene = "thread" => ThreadInv)
  BY ThreadInit DEF Init
<1>2. (scene = "thread" => ThreadInv) /\ [Next]_vars => (scene = "thread" => ThreadInv)'
  BY ThreadStep, ThreadKinds
<1> QED  BY <1>1, <1>2, PTL DEF Spec

\* ThreadSettles: when nothing is under way, and a catch-up has got through since
\* the channel was joined, the list has every message of the loaded page that no
\* catch-up began after, the visitor's messages in it count as read unless a mark
\* failed, and no optimistic entry outlives its send; always, a send that was
\* answered is in the list.
THEOREM ThreadShowsWhatIsStored == Spec => []ThreadSettles
<1>1. (scene = "thread" => ThreadInv) => ThreadSettles
  BY ThreadProperties DEF ThreadSettles
<1> QED  BY <1>1, ThreadScene, PTL
-----------------------------------------------------------------------------
(***************************************************************************)
(* The dashboard as a whole.                                               *)
(***************************************************************************)

LEMMA EditorsTypeCorrect == Studio!StudioAssumption /\ EditorsInv => Editors!TypeOK
<1> SUFFICES ASSUME Studio!StudioAssumption, EditorsInv PROVE Editors!TypeOK
  OBVIOUS
<1>1. Editors!TabType = PageTypes(MaxVersion + 1) /\ Editors!Appearances = Studio!Appearances
  BY DEF Editors!TabType, PageTypes, Editors!Closed, Studio!Closed, Editors!Appearances,
     Studio!Appearances
<1>2. config \in [draft : Editors!Appearances, published : Editors!Appearances,
                  version : 1..(MaxVersion + 1)]
  BY <1>1 DEF EditorsInv, EditorTypes, RowType
<1> QED  BY <1>1, <1>2 DEF EditorsInv, EditorTypes, Editors!TypeOK

\* TypeOK: whichever list or page moves, its state has the type of its component.
THEOREM DashboardTypeCorrect == Spec => []TypeOK
<1> DEFINE Held == /\ scene \in {"bell", "thread", "inbox", "panel", "studio", "editors"}
                   /\ StudioScenes
<1>1. Spec => []Held
  <2>1. Init => Held
    BY ScenesInit DEF Init
  <2>2. Held /\ [Next]_vars => Held'
    BY ScenesStep, StudioKinds
  <2> QED  BY <2>1, <2>2, PTL DEF Spec
<1>2. /\ Held /\ (scene = "bell" => BellInv) /\ (scene = "thread" => ThreadInv)
      /\ (scene = "inbox" => InboxInv) /\ (scene = "panel" => NotesInv)
      => TypeOK
  <2> SUFFICES ASSUME Held, scene = "bell" => BellInv, scene = "thread" => ThreadInv,
                      scene = "inbox" => InboxInv, scene = "panel" => NotesInv
               PROVE  TypeOK
    OBVIOUS
  <2>1. CASE scene = "bell"
    BY <2>1, BellProperties, BellConstants DEF TypeOK
  <2>2. CASE scene = "thread"
    BY <2>2, ThreadProperties DEF TypeOK
  <2>3. CASE scene = "inbox"
    BY <2>3, InboxProperties DEF TypeOK
  <2>4. CASE scene = "panel"
    BY <2>4, NotesProperties DEF TypeOK
  <2>5. CASE scene = "studio"
    BY <2>5, StudioInvImplies, StudioConstants DEF StudioScenes, TypeOK
  <2>6. CASE scene = "editors"
    BY <2>6, EditorsTypeCorrect, StudioConstants DEF StudioScenes, TypeOK
  <2> QED  BY <2>1, <2>2, <2>3, <2>4, <2>5, <2>6
<1> QED  BY <1>1, <1>2, BellScene, ThreadScene, InboxScene, PanelScene, PTL
=============================================================================
