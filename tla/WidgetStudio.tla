---------------------------- MODULE WidgetStudio ----------------------------
(***************************************************************************)
(* The widget's appearance: administrators edit one shared draft in their  *)
(* own tabs and publish it, and visitors' browsers cache what is           *)
(* published, by version.                                                  *)
(*                                                                         *)
(* A tab is disabled while its request is under way, so a request and its  *)
(* answer are one step of the tab; the answer may be lost.  A publication  *)
(* is two requests.  The public configuration is put together from several *)
(* reads.                                                                  *)
(***************************************************************************)
EXTENDS Naturals, Sequences

CONSTANTS
    Tabs,           \* open Widget Studio pages
    Browsers,       \* HTTP caches of visitors
    UrlBuckets,     \* life of a signed URL, in signing buckets (4)
    MaxEdit,        \* bound: edits
    MaxVersion,     \* bound: publications
    MaxBucket       \* bound: time, in signing buckets

StudioAssumption ==
    /\ {UrlBuckets, MaxEdit, MaxBucket} \subseteq Nat /\ MaxVersion \in Nat \ {0}
    /\ UrlBuckets >= 2

VARIABLES
    config,         \* the widget_configs row
    published,      \* published[v]: what publication v showed (history)
    edits,          \* number of edits so far; an edit makes a text of its own
    tab,            \* tab[t]: what a page shows, and the publication it is in
    bucket,         \* the signing bucket the clock is in
    fetch,          \* fetch[b]: the request for the public configuration
    cache           \* cache[b]: the cached response, or NoResponse

editorVars  == <<config, published, edits, tab>>
visitorVars == <<bucket, fetch, cache>>
vars        == <<config, published, edits, tab, bucket, fetch, cache>>
-----------------------------------------------------------------------------
\* What the properties tell apart of an appearance: its text, and whether it
\* refers to a (verified) logo.
Defaults == [text |-> 0, logo |-> FALSE]
Appearances == [text : 0..MaxEdit, logo : BOOLEAN]

Closed     == [pc |-> "closed"]
NoFetch    == [pc |-> "idle"]
NoResponse == [version |-> 0]

Page(form, known) == [pc |-> "idle", form |-> form, known |-> known]

Init ==
    /\ config = [draft |-> Defaults, published |-> Defaults, version |-> 1]
    /\ published = <<Defaults>>
    /\ edits = 0
    /\ tab = [t \in Tabs |-> Closed]
    /\ bucket = 0
    /\ fetch = [b \in Browsers |-> NoFetch]
    /\ cache = [b \in Browsers |-> NoResponse]

Idle(t) == tab[t].pc = "idle"
-----------------------------------------------------------------------------
(* The editor. *)

\* get_widget_studio_state, when the page is loaded (again).
Load(t) ==
    /\ tab[t].pc \in {"closed", "idle"}
    /\ tab' = [tab EXCEPT ![t] = Page(config.draft, config.version)]
    /\ UNCHANGED <<config, published, edits, visitorVars>>

Edit(t) ==
    /\ Idle(t)
    /\ edits < MaxEdit
    /\ edits' = edits + 1
    /\ tab' = [tab EXCEPT ![t].form.text = edits + 1]
    /\ UNCHANGED <<config, published, visitorVars>>

\* The tab is disabled until the uploaded image is verified.
UploadLogo(t) ==
    /\ Idle(t)
    /\ ~tab[t].form.logo
    /\ tab' = [tab EXCEPT ![t].form.logo = TRUE]
    /\ UNCHANGED <<config, published, edits, visitorVars>>

\* adoptState of the row as a request left it, unless the answer is lost.
Adopt(t) ==
    \/ tab' = [tab EXCEPT ![t] = Page(config'.draft, config'.version)]
    \/ UNCHANGED tab

Save(t) ==
    /\ Idle(t)
    /\ config' = [config EXCEPT !.draft = tab[t].form]
    /\ Adopt(t)
    /\ UNCHANGED <<published, edits, visitorVars>>

\* A preset changes the form, and what is saved, at once.
ApplyPreset(t) ==
    LET form == [tab[t].form EXCEPT !.text = edits + 1] IN
    /\ Idle(t)
    /\ edits < MaxEdit
    /\ edits' = edits + 1
    /\ config' = [config EXCEPT !.draft = form]
    /\ \/ tab' = [tab EXCEPT ![t] = Page(form, config.version)]
       \/ tab' = [tab EXCEPT ![t].form = form]
    /\ UNCHANGED <<published, visitorVars>>

Discard(t) ==
    /\ Idle(t)
    /\ config' = [config EXCEPT !.draft = config.published]
    /\ Adopt(t)
    /\ UNCHANGED <<published, edits, visitorVars>>

Reset(t) ==
    /\ Idle(t)
    /\ config' = [config EXCEPT !.draft = Defaults]
    /\ Adopt(t)
    /\ UNCHANGED <<published, edits, visitorVars>>

\* Fault: the version to expect is the one the save has answered.
ExpectSaved(t) == config.version

\* The version to expect is the one the page showed when it was pressed.
Expected(t) == tab[t].known

\* runPublish saves first; if that answer is lost it goes no further.
SaveToPublish(t) ==
    /\ Idle(t)
    /\ config' = [config EXCEPT !.draft = tab[t].form]
    /\ \/ tab' = [tab EXCEPT ![t] = [pc |-> "publish", form |-> tab[t].form,
                                     known |-> tab[t].known, expected |-> Expected(t),
                                     saved |-> config.version]]
       \/ UNCHANGED tab
    /\ UNCHANGED <<published, edits, visitorVars>>

\* The compare-and-swap of publish_widget_studio.
VersionMatches(t) == config.version = tab[t].expected

\* Whatever the draft is by now, published in one row update.
Publish(t) ==
    /\ tab[t].pc = "publish"
    /\ VersionMatches(t)
    /\ config.version < MaxVersion
    /\ config' = [config EXCEPT !.published = config.draft, !.version = @ + 1]
    /\ published' = Append(published, config.draft)
    /\ \/ tab' = [tab EXCEPT ![t] = Page(config.draft, config.version + 1)]
       \/ tab' = [tab EXCEPT ![t] = Page(tab[t].form, tab[t].saved)]
    /\ UNCHANGED <<edits, visitorVars>>

\* A conflict, or a request that fails: the page adopts what the save answered.
PublishFails(t) ==
    /\ tab[t].pc = "publish"
    /\ tab' = [tab EXCEPT ![t] = Page(tab[t].form, tab[t].saved)]
    /\ UNCHANGED <<config, published, edits, visitorVars>>
-----------------------------------------------------------------------------
(* GET /api/v1/widget/config and the browser's cache. *)

\* No request lasts a whole bucket (15 minutes).
Tick ==
    /\ bucket < MaxBucket
    /\ \A b \in Browsers : fetch[b].pc = "answer" => fetch[b].signed = bucket
    /\ bucket' = bucket + 1
    /\ UNCHANGED <<editorVars, fetch, cache>>

\* widget_resolve_public_key: the published appearance, as it is now.
Resolve(b) ==
    /\ fetch[b] = NoFetch
    /\ fetch' = [fetch EXCEPT ![b] = [pc |-> "enrich", version |-> config.version,
                                      appearance |-> config.published]]
    /\ UNCHANGED <<editorVars, bucket, cache>>

\* Fault: the version stays that of the first read.
EnrichOlder(b) ==
    /\ fetch[b].pc = "enrich"
    /\ fetch' = [fetch EXCEPT ![b] = [pc |-> "answer", version |-> fetch[b].version,
                                      appearance |-> config.published, signed |-> bucket]]
    /\ UNCHANGED <<editorVars, bucket, cache>>

\* enrichWidgetPublicAppearance reads the row again and signs a URL for the
\* logo.  If the row cannot be read, the first answer stands without a logo; if
\* the assets cannot, the second does.
Enrich(b) ==
    LET answer(v, appearance) ==
            [pc |-> "answer", version |-> v, appearance |-> appearance, signed |-> bucket]
    IN /\ fetch[b].pc = "enrich"
       /\ fetch' \in {[fetch EXCEPT ![b] = answer(config.version, config.published)],
                      [fetch EXCEPT ![b] = answer(config.version,
                                                  [config.published EXCEPT !.logo = FALSE])],
                      [fetch EXCEPT ![b] = answer(fetch[b].version,
                                                  [fetch[b].appearance EXCEPT !.logo = FALSE])]}
       /\ UNCHANGED <<editorVars, bucket, cache>>

\* Fault: the tag does not tell signing buckets apart.
VersionTag(version) == <<version, 0>>

\* widgetPublicConfigEtag.
Etag(version) == <<version, bucket>>

\* 304 when the browser's tag is the one computed now: it keeps its response.
Answer(b) ==
    LET f == fetch[b] IN
    /\ f.pc = "answer"
    /\ cache' = IF cache[b] # NoResponse /\ cache[b].tag = Etag(f.version) THEN cache
                ELSE [cache EXCEPT ![b] = [tag |-> Etag(f.version), version |-> f.version,
                                           appearance |-> f.appearance, signed |-> f.signed]]
    /\ fetch' = [fetch EXCEPT ![b] = NoFetch]
    /\ UNCHANGED <<editorVars, bucket>>

AnswerLost(b) ==
    /\ fetch[b].pc = "answer"
    /\ fetch' = [fetch EXCEPT ![b] = NoFetch]
    /\ UNCHANGED <<editorVars, bucket, cache>>
-----------------------------------------------------------------------------
Editor(t) ==
    \/ Load(t) \/ Edit(t) \/ UploadLogo(t)
    \/ Save(t) \/ ApplyPreset(t) \/ Discard(t) \/ Reset(t)
    \/ SaveToPublish(t) \/ Publish(t) \/ PublishFails(t)

Visitor(b) == Resolve(b) \/ Enrich(b) \/ Answer(b) \/ AnswerLost(b)

Next ==
    \/ \E t \in Tabs : Editor(t)
    \/ \E b \in Browsers : Visitor(b)
    \/ Tick

Spec == Init /\ [][Next]_vars
-----------------------------------------------------------------------------
(* Properties. *)

TabType ==
    {Closed}
    \union [pc : {"idle"}, form : Appearances, known : 1..MaxVersion]
    \union [pc : {"publish"}, form : Appearances, known : 1..MaxVersion,
            expected : 1..MaxVersion, saved : 1..MaxVersion]

\* Every variable has the type of the row, the pages and the responses.
TypeOK ==
    /\ config \in [draft : Appearances, published : Appearances, version : 1..MaxVersion]
    /\ published \in Seq(Appearances) /\ Len(published) = config.version
    /\ edits \in 0..MaxEdit
    /\ tab \in [Tabs -> TabType]
    /\ bucket \in 0..MaxBucket
    /\ \A b \in Browsers :
          /\ fetch[b].pc \in {"idle", "enrich", "answer"}
          /\ fetch[b] # NoFetch => fetch[b].version \in 1..MaxVersion
          /\ cache[b].version \in 0..MaxVersion

\* A publication replaces the version its page showed when it was pressed, also
\* when another page publishes between its two requests.
ReplacesWhatWasShown ==
    [][\A t \in Tabs :
          config'.version # config.version /\ tab[t].pc = "publish" /\ tab'[t].pc # "publish"
              => config.version = tab[t].known]_vars

\* A cached response shows what its version published (perhaps without the
\* logo), whatever was published while it was put together.
CacheIsItsVersion ==
    \A b \in Browsers :
        cache[b] # NoResponse =>
            LET shown == cache[b].appearance
                its == published[cache[b].version] IN
            shown.text = its.text /\ (shown.logo => its.logo)

\* A response the browser has just stored, or had confirmed by its tag, has a
\* logo whose signed URL still works, in whichever bucket the answer was made.
RevalidatedUrlsWork ==
    [][\A b \in Browsers :
          fetch[b].pc = "answer" /\ fetch'[b] = NoFetch /\ cache'[b] # NoResponse
              /\ cache'[b].tag = Etag(fetch[b].version)
              => bucket < cache'[b].signed + UrlBuckets]_vars
=============================================================================
