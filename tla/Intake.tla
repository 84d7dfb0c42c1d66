-------------------------------- MODULE Intake --------------------------------
(***************************************************************************)
(* From an envelope to the context the prompts are written from: the first *)
(* part of _run_and_callback, which asks the USP Memory Gateway and the    *)
(* gallery API at once and goes on with whatever comes back, the split of  *)
(* the sub-jobs, normalize, and the gates of reason() before its first     *)
(* call to Gemini.                                                         *)
(*                                                                         *)
(* A behaviour is one task.  What it is given, the envelope, the replies   *)
(* the services will make and the settings, is fixed at the start (InitFrom).  *)
(***************************************************************************)
EXTENDS Prompt, EnvelopeImages, GalleryPool, SubscriptionJobs

CONSTANTS
  Pending, Odd,
  Diverging    \* the texts a live request has little in common with

VARIABLES
  given,       \* [envelope, usp, gallery, vision]; a reply is Pending if not configured
  stage,       \* received, fetching, splitting, normalizing, or how it ended
  profile, pool,   \* usp_result and gallery_result
  batches,     \* [llm, pass], the split of the sub-jobs
  context,     \* InternalContext, with the warnings
  prompt       \* what Gemini is told

vars == <<given, stage, profile, pool, batches, context, prompt>>
envelope == given.envelope

\* The data of the brief gate are NoBrief (null), Odd (not an object) or a document.
IsDocument(data) == data \notin {NoBrief, Odd}
Document(data) == IF IsDocument(data) THEN data ELSE [slot \in {} |-> Absent]

\* The types that the schemas and the json of the services give.
WellFormed(g) ==
  LET e == g.envelope
      material == At(Document(e.brief.data), BrandMaterial)
  IN  /\ IsList(e.gates) /\ IsList(e.attachments) /\ IsList(e.images) /\ IsList(e.jobs)
      /\ IsList(e.previous) /\ (material # Absent => IsList(material))
      /\ \A i \in DOMAIN e.jobs :
           e.jobs[i].quantity \in {NoNumber, Infinite} \/ e.jobs[i].quantity \in Int
      /\ \A i \in DOMAIN e.previous : e.previous[i].output \in BOOLEAN
      /\ e.posts.request.empty => e.posts.request.prior_post = NoPost
      /\ g.usp # Pending => IsProfileReply(g.usp)
      /\ g.gallery # Pending => IsGalleryReply(g.gallery)
      /\ g.vision \in Int

IntakeInit ==
  /\ WellFormed(given)
  /\ stage = "received"
  /\ profile = Pending /\ pool = Pending /\ batches = Pending
  /\ context = Pending /\ prompt = Pending

InitFrom(g) == given = g /\ IntakeInit

-----------------------------------------------------------------------------
(* The brief as the gallery task sees it, which does not ask whether the   *)
(* gate has passed.                                                        *)

Ungated == Document(envelope.brief.data)

\* _build_gallery_task_context
TaskContext ==
  [user_request |-> envelope.description.words,
   brief_keywords |-> Listed(Ungated, FormKeywords),
   brief_tone |-> {At(Ungated, Style)} \ {Absent},
   brief_design_style |-> {At(Ungated, <<"form", "FIELD_DESIGN_STYLE">>)} \ {Absent}]

-----------------------------------------------------------------------------
(* The two requests.                                                       *)

\* The account is looked up before any try.
Begin ==
  /\ stage = "received"
  /\ stage' = IF envelope.context = "null" THEN "crashed" ELSE "fetching"
  /\ UNCHANGED <<given, profile, pool, batches, context, prompt>>

Asked(reply) == reply # Pending /\ envelope.context = "account"

UspResult ==
  IF Asked(given.usp) THEN FetchUserProfile(given.usp) ELSE [kind |-> "skipped"]

FetchProfile ==
  /\ stage = "fetching" /\ profile = Pending
  /\ profile' = UspResult
  /\ UNCHANGED <<given, stage, pool, batches, context, prompt>>

GalleryResult ==
  IF ~Asked(given.gallery) THEN [kind |-> "none", warning |-> {"gallery_api_skipped"}]
  ELSE IF envelope.brief.data = Odd
  THEN [kind |-> "raised", warning |-> {"gallery_api_unavailable"}]
  ELSE FetchGalleryPool(given.gallery, TaskContext, given.vision)

FetchGallery ==
  /\ stage = "fetching" /\ pool = Pending
  /\ pool' = GalleryResult
  /\ UNCHANGED <<given, stage, profile, batches, context, prompt>>

\* asyncio.gather has both, exceptions among them.
Resolve ==
  /\ stage = "fetching" /\ profile # Pending /\ pool # Pending
  /\ stage' = IF envelope.action = "subscription_strategy" THEN "splitting" ELSE "normalizing"
  /\ UNCHANGED <<given, profile, pool, batches, context, prompt>>

\* The split of _run_multi_and_callback; a task without LLM jobs is not normalised.
Split ==
  /\ stage = "splitting"
  /\ IF Overflows(envelope.jobs)
     THEN stage' = "crashed" /\ UNCHANGED batches
     ELSE LET llm == FirstLlmJobs(envelope.jobs)
          IN  /\ batches' = [llm |-> llm, pass |-> PassthroughJobs(envelope.jobs)]
              /\ stage' = IF llm = <<>> THEN "passed through" ELSE "normalizing"
  /\ UNCHANGED <<given, profile, pool, context, prompt>>

-----------------------------------------------------------------------------
(* normalize.                                                              *)

KnownActions == {"create_post", "edit_post", "create_web", "edit_web",
                 "subscription_strategy", "create_prod_line"}

BriefData == IF envelope.brief.passed THEN envelope.brief.data ELSE NoBrief

\* The context as the envelope alone makes it.
FromBrief ==
  LET doc == BriefData
      flat == Flatten(doc)
      channels == AvailableChannels(doc, flat)
  IN  IF ~IsDocument(doc)
      THEN [brief |-> NoBrief, tokens |-> NoTokens, channels |-> NoChannels, facts |-> NoFacts]
      ELSE [brief |-> flat, tokens |-> BrandTokens(doc, flat), channels |-> channels,
            facts |-> BriefFacts(flat, channels, doc)]

\* Mutant: the facts stay those of the brief.
FactsKept(base, merged) == base.facts

\* The facts are taken again, from what the merge has left.
FactsOf(base, merged) == BriefFacts(merged.brief, merged.channels, Document(BriefData))

\* _apply_user_profile.
ApplyUserProfile(base) ==
  LET identity == profile.identity
      flat == IF IsDocument(BriefData) THEN base.brief ELSE EmptyFlat
      merged == IF identity = NoIdentity THEN [base EXCEPT !.brief = flat]
                ELSE [brief |-> MergedFlat(flat, identity),
                      tokens |-> MergedTokens(base.tokens, identity),
                      channels |-> MergedChannels(base.channels, identity),
                      facts |-> base.facts]
  IN  [merged EXCEPT !.facts = FactsOf(base, merged)]

\* Missing ids of an edit.
IdWarnings ==
  {w \in {"context_missing_id"} :
     \/ envelope.action = "edit_post" /\ ~envelope.post_id
     \/ envelope.action = "edit_web" /\ ~envelope.website_id}

\* Blank or short texts diverge from nothing.
ReconcileRequest(background) == background \in Diverging

BriefWarnings(base) ==
  (IF BriefData = NoBrief THEN {"brief_missing"} ELSE {})
  \union (IF base.brief = NoBrief THEN {} ELSE
            FlattenWarnings(base.brief)
            \union (IF ReconcileRequest(base.brief.texts.brief_background)
                    THEN {"brief_request_mismatch"} ELSE {}))
  \union (IF envelope.description.vague THEN {"request_vague"} ELSE {})

PoolWarnings ==
  pool.warning
  \union (IF pool.kind # "pool" THEN {} ELSE
            (IF pool.truncated THEN {"gallery_pool_truncated"} ELSE {})
            \union (IF pool.shortlist = <<>> /\ pool.warning = {}
                    THEN {"gallery_vision_shortlist_empty"} ELSE {}))

\* The sub-jobs normalize finds in the envelope it is given, extracted a second time.
SecondPass == IF batches = Pending THEN <<>> ELSE Extract(LlmEnvelope(batches.llm))

RawImages ==
  LET material == At(Ungated, BrandMaterial)
  IN  Collected(envelope.gates, envelope.attachments,
                IF material = Absent THEN <<>> ELSE material, envelope.images)

\* ValueError: no text, an action nobody knows, one url that cannot be parsed.  A
\* subscription without a sub-job does not come this far.
Refused ==
  \/ envelope.description.words = {} \/ envelope.action \notin KnownActions
  \/ \E i \in DOMAIN RawImages : RawImages[i].raw.url \in Malformed

Normalized ==
  LET base == FromBrief
      images == SanitizeGallery(RawImages)
      merged == IF profile.kind = "profile" THEN ApplyUserProfile(base) ELSE base
      outputs == PriorStepOutputs(envelope.previous)
  IN  [base |-> base, brief |-> merged.brief, tokens |-> merged.tokens,
       channels |-> merged.channels, facts |-> merged.facts, images |-> images,
       insights |-> IF profile.kind = "profile" THEN profile.insights ELSE <<>>,
       shortlist |-> IF pool.kind = "pool" THEN pool.shortlist ELSE <<>>,
       jobs |-> SecondPass, outputs |-> outputs,
       prior_post |-> IF envelope.action = "edit_post" THEN PriorPost(envelope.posts, outputs)
                      ELSE NoPost,
       warnings |-> BriefWarnings(base) \union GalleryWarnings(images) \union IdWarnings
                    \union UspWarning(profile) \union PoolWarnings]

Normalize ==
  /\ stage = "normalizing"
  /\ IF Refused THEN stage' = "rejected" /\ UNCHANGED context
                ELSE stage' = "ready" /\ context' = Normalized
  /\ UNCHANGED <<given, profile, pool, batches, prompt>>

-----------------------------------------------------------------------------
(* reason(), up to its first call; reason_multi has none of these gates.   *)

Unsupported == envelope.action = "create_web"
PriorPostMissing == envelope.action = "edit_post" /\ context.prior_post = NoPost

Compose ==
  /\ stage = "ready"
  /\ IF Unsupported \/ PriorPostMissing
     THEN /\ stage' = IF Unsupported THEN "create_web_not_supported" ELSE "prior_post_missing"
          /\ UNCHANGED prompt
     ELSE stage' = "asked" /\ prompt' = PromptContext(context)
  /\ UNCHANGED <<given, profile, pool, batches, context>>

Next == Begin \/ FetchProfile \/ FetchGallery \/ Resolve \/ Split \/ Normalize \/ Compose

IntakeSpec == IntakeInit /\ [][Next]_vars

-----------------------------------------------------------------------------
(* Properties.                                                             *)

Values(f) == {f[k] : k \in DOMAIN f} \ {Absent}

\* The context says things several times, and the validator compares one place with
\* another: after every merge the website of the brief is the one that is offered, the
\* palette is among the known colours, a url, phone or email that is offered is a known
\* fact, and no fact is left of a value that was replaced.
CopiesAgree ==
  LET c == context
  IN  stage = "ready" /\ c.brief # NoBrief =>
        /\ "website" \in DOMAIN c.channels <=> c.brief.texts.website_url # Absent
        /\ "website" \in DOMAIN c.channels => c.channels.website = c.brief.texts.website_url
        /\ c.tokens.palette \subseteq c.facts.hex_colors
        /\ c.facts.hex_colors = c.brief.colors
        /\ Values(c.channels) \intersect Http \subseteq c.facts.urls
        /\ \A url \in c.facts.urls :
             \/ url \in Values(c.channels)
             \/ \E t \in Searched(c.brief, Document(BriefData)) \intersect DOMAIN Mentions :
                  url \in Mentions[t].urls
        /\ \A k \in {"phone", "email"} \intersect DOMAIN c.channels :
             c.channels[k] \in c.facts.phones \union c.facts.emails

\* Nothing is lost in a merge: every text the gateway has for the account reaches the
\* context, whatever slot it is in, and nothing of the brief gives way to a blank.
MergeKeepsAll ==
  LET c == context
      texts == Values(c.brief.texts) \union Values(c.tokens.texts) \union Values(c.channels)
               \union Values(c.brief.extras)
      lists == {<<"brand", "colors">>, <<"brand", "keywords">>, <<"brand", "hasMaterial">>}
  IN  stage = "ready" /\ profile.kind = "profile" =>
        /\ profile.identity # NoIdentity =>
             \A slot \in DOMAIN profile.identity \ lists :
               Clean(profile.identity[slot]) \in texts \union {Absent}
        /\ DOMAIN c.base.channels \subseteq DOMAIN c.channels
        /\ \A t \in DOMAIN NoTokens.texts :
             c.base.tokens.texts[t] # Absent => c.tokens.texts[t] # Absent
        /\ c.base.brief # NoBrief =>
             /\ \A f \in DOMAIN Sources : c.base.brief.texts[f] # Absent => c.brief.texts[f] # Absent
             /\ c.base.brief.colors # {} => c.brief.colors # {}
             /\ DOMAIN c.base.brief.extras \subseteq DOMAIN c.brief.extras

\* Each url is in the gallery once, at most MaxGalleryItems of them, and unless the
\* gallery is truncated every url of which some mention is acceptable is there, whatever
\* else is said of it elsewhere in the envelope; the counts add up.
GalleryAccounted ==
  LET s == context.images
      urls == {s.gallery[i].url : i \in DOMAIN s.gallery}
      raws == Range(envelope.gates) \union Range(envelope.images)
              \union {Attachment(u) : u \in Range(envelope.attachments)}
              \union (IF At(Ungated, BrandMaterial) = Absent THEN {}
                      ELSE Range(Ungated[BrandMaterial]))
      acceptable == {raw.url : raw \in {r \in raws : Acceptable(r)}}
  IN  stage = "ready" =>
        /\ Cardinality(urls) = Len(s.gallery) /\ Len(s.gallery) <= MaxGalleryItems
        /\ urls \subseteq acceptable
        /\ IF s.truncated THEN Len(s.gallery) = MaxGalleryItems ELSE urls = acceptable
        /\ Len(s.gallery) + s.rejected <= s.raw_count

\* The model sees the best of the pool: as many of the images that may be used as the
\* setting allows, the best first, and none left out that scores higher than one that is
\* shown.
ShortlistBest ==
  pool # Pending /\ pool.kind = "pool" =>
    LET fit == Eligible(given.gallery.items)
        shown == Range(pool.shortlist)
    IN  /\ shown \subseteq Range(fit)
        /\ given.vision >= 0 => Len(pool.shortlist) = Min({given.vision, Len(fit)})
        /\ \A a \in shown, b \in Range(fit) \ shown : Score(a, TaskContext) >= Score(b, TaskContext)
        /\ \A p, q \in DOMAIN pool.shortlist :
             p < q => Score(pool.shortlist[p], TaskContext) >= Score(pool.shortlist[q], TaskContext)

\* What the two services and the brief did not give is named in the warnings of the task,
\* each failure by its own code and by no other, whatever else failed beside it.  Two
\* losses have no code of their own: brief data that are no object are dropped in silence,
\* and a page that does not show the whole gallery is called truncated, also when nothing
\* on it can be used.
LossesNamed ==
  LET Says(code) == code \in context.warnings
      answered == Asked(given.usp) /\ given.usp.kind = "answer"
      truncated == pool.kind = "pool" /\ pool.truncated
  IN  stage = "ready" =>
        /\ Says("user_profile_skipped") <=> ~Asked(given.usp)
        /\ Says("user_profile_unavailable") <=> Asked(given.usp) /\ ~answered
        /\ Says("user_profile_not_found") <=> answered /\ given.usp.identity = NoIdentity
        /\ Says("gallery_api_skipped") <=> ~Asked(given.gallery)
        /\ Says("gallery_pool_truncated") <=> truncated
        /\ context.shortlist = <<>> /\ ~truncated =>
             \E code \in {"gallery_api_skipped", "gallery_api_unavailable", "gallery_api_not_found",
                          "gallery_pool_empty", "gallery_vision_shortlist_empty"} : Says(code)
        /\ Says("brief_missing") <=> ~envelope.brief.passed \/ envelope.brief.data = NoBrief
        /\ context.base.brief = IF Says("brief_missing") \/ envelope.brief.data = Odd
                                THEN NoBrief ELSE Flatten(envelope.brief.data)

\* Of the places of a prior post only the context of the request hides another one, that
\* of the task.  An edit is refused only if no other place names a post; an edit that goes
\* to Gemini tells it one of the posts that are named, that of the context if there is
\* one, before that of the extras, before any an earlier step left behind.  A post named by
\* a blank caption counts, and is told as a post without one.
EditKnowsItsPost ==
  LET posts == envelope.posts
      ofContext == IF posts.request.empty THEN posts.context ELSE posts.request.prior_post
      left == UNION {{s.prior_post, s.post} : s \in {t \in Range(envelope.previous) : t.output}}
      named == {c \in {ofContext, posts.extras} \union left : IsPost(c)}
  IN  /\ stage = "prior_post_missing" => envelope.action = "edit_post" /\ named = {}
      /\ stage = "asked" /\ envelope.action = "edit_post" =>
           /\ \E c \in named : prompt.prior_post = Told(c)
           /\ ofContext \in named => prompt.prior_post = Told(ofContext)
           /\ ofContext \notin named /\ posts.extras \in named =>
                prompt.prior_post = Told(posts.extras)

\* docs/OpenSpec/08-integration-guide.md:201: "For edit_post, ROUTER must include prior post
\* context", as payload.context.prior_post, and :217: "If prior_post is missing or empty:
\* returns FAILED with prior_post_missing".  So an edit with a post in no other place is
\* asked for just in case that one has a caption or an image.
EditFollowsContract ==
  LET posts == envelope.posts
      elsewhere == posts.request.prior_post # NoPost \/ posts.extras # NoPost \/ envelope.previous # <<>>
      there == posts.context # NoPost /\ Cleaned({posts.context.caption, posts.context.image_url}) # {}
  IN  envelope.action = "edit_post" /\ ~elsewhere =>
        /\ stage = "asked" => there
        /\ stage = "prior_post_missing" => ~there

\* The second expansion gives back the LLM jobs, none lost, doubled or displaced, so that
\* each result of the LLM is paired with the job it was asked for; and the indices, by
\* which rows are found again, tell the jobs of a batch apart.
SecondPassFaithful ==
  stage = "ready" /\ batches # Pending =>
    /\ Len(context.jobs) = Len(batches.llm)
    /\ \A p \in DOMAIN batches.llm :
         context.jobs[p].from = batches.llm[p].from /\ context.jobs[p].key = batches.llm[p].key
    /\ \A batch \in {context.jobs, batches.pass} : \A p, q \in DOMAIN batch :
         batch[p].index = batch[q].index => p = q

\* No sub-job is dropped by the split, or handled in both ways: together the batches hold
\* as many sub-jobs of each item as the expansion made, which is none for junk and between
\* 1 and MaxQuantity for an object, whatever its quantity.
SplitComplete ==
  batches # Pending =>
    \A i \in DOMAIN envelope.jobs :
      LET Of(jobs) == Cardinality({p \in DOMAIN jobs : jobs[p].from = i})
      IN  /\ Of(batches.llm) + Of(batches.pass) = Of(AllJobs(envelope.jobs))
          /\ Of(AllJobs(envelope.jobs)) \in
               IF envelope.jobs[i].key = "junk" THEN {0} ELSE 1..MaxQuantity

=============================================================================
