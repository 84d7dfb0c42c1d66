--------------------------- MODULE EnrichmentProofs ---------------------------
(***************************************************************************)
(* One enrichment before and after the calls to Gemini: what Intake makes  *)
(* of an envelope and of the replies of the two services, and what         *)
(* PostEnrichment makes of the answer, for lists of any length.            *)
(***************************************************************************)
EXTENDS Intake, PostEnrichment, RankingProofs

LEMMA ToSetEmpty ==
  ASSUME NEW X, NEW s \in Seq(X)
  PROVE  s = <<>> <=> ToSet(s) = {}
<1>1. Len(s) \in Nat /\ DOMAIN s = 1..Len(s) /\ (s = <<>> <=> Len(s) = 0)
  OBVIOUS
<1>2. s # <<>> => 1 \in DOMAIN s
  BY <1>1
<1>3. s = <<>> => DOMAIN s = {}
  BY <1>1
<1> QED
  BY <1>2, <1>3 DEF ToSet

LEMMA ConcatFacts ==
  ASSUME NEW X, NEW s \in Seq(X), NEW t \in Seq(X)
  PROVE  /\ s \o t \in Seq(X) /\ Len(s \o t) = Len(s) + Len(t)
         /\ \A i \in 1..Len(s) : (s \o t)[i] = s[i]
         /\ \A i \in 1..Len(t) : (s \o t)[Len(s) + i] = t[i]
  OBVIOUS

LEMMA TwoFirst ==
  ASSUME NEW X, NEW x \in X, NEW y \in X, NEW t \in Seq(X), NEW c, c = <<x, y>> \o t
  PROVE  /\ c \in Seq(X) /\ Len(c) = 2 + Len(t) /\ c[1] = x /\ c[2] = y
         /\ \A n \in 1..Len(t) : c[2 + n] = t[n]
  BY ConcatFacts

LEMMA ConcatElements ==
  ASSUME NEW X, NEW s \in Seq(X), NEW t \in Seq(X)
  PROVE  s \o t \in Seq(X) /\ ToSet(s \o t) = ToSet(s) \union ToSet(t)
<1> DEFINE c == s \o t
<1>1. /\ Len(s) \in Nat /\ Len(t) \in Nat /\ Len(c) = Len(s) + Len(t) /\ c \in Seq(X)
      /\ \A i \in 1..Len(s) : c[i] = s[i]
      /\ \A i \in 1..Len(t) : c[Len(s) + i] = t[i]
      /\ \A i \in Len(s) + 1 .. Len(c) : c[i] = t[i - Len(s)]
  OBVIOUS
<1>2. DOMAIN c = 1..Len(c) /\ DOMAIN s = 1..Len(s) /\ DOMAIN t = 1..Len(t)
  BY <1>1
<1> HIDE DEF c
<1>3. ASSUME NEW x \in ToSet(c) PROVE x \in ToSet(s) \union ToSet(t)
  <2>1. PICK i \in 1..Len(c) : x = c[i]
    BY <1>2 DEF ToSet
  <2>2. CASE i <= Len(s)
    <3>1. i \in 1..Len(s)
      BY <1>1, <2>2
    <3> QED
      BY <1>1, <1>2, <2>1, <3>1 DEF ToSet
  <2>3. CASE ~(i <= Len(s))
    <3>1. i \in Len(s) + 1 .. Len(c) /\ i - Len(s) \in 1..Len(t)
      BY <1>1, <2>3
    <3> QED
      BY <1>1, <1>2, <2>1, <3>1 DEF ToSet
  <2> QED
    BY <2>2, <2>3
<1>4. ASSUME NEW x \in ToSet(s) PROVE x \in ToSet(c)
  <2>1. PICK i \in 1..Len(s) : x = s[i]
    BY <1>2 DEF ToSet
  <2>2. i \in 1..Len(c) /\ c[i] = x
    BY <1>1, <2>1
  <2> QED
    BY <1>2, <2>2 DEF ToSet
<1>5. ASSUME NEW x \in ToSet(t) PROVE x \in ToSet(c)
  <2>1. PICK i \in 1..Len(t) : x = t[i]
    BY <1>2 DEF ToSet
  <2>2. Len(s) + i \in 1..Len(c) /\ c[Len(s) + i] = x
    BY <1>1, <2>1
  <2> QED
    BY <1>2, <2>2 DEF ToSet
<1> QED
  BY <1>1, <1>3, <1>4, <1>5 DEF c

-----------------------------------------------------------------------------
(* After the calls: the lists of images.                                   *)

LEMMA KeepFacts ==
  ASSUME NEW urls \in Seq(Url), NEW wanted
  PROVE  Keep(urls, wanted) \in Seq(Url) /\ ToSet(Keep(urls, wanted)) = ToSet(urls) \intersect wanted
  BY KeptElements DEF Keep

LEMMA FirstSeenFacts ==
  ASSUME NEW urls \in Seq(Url)
  PROVE  /\ FirstSeen(urls) \in Seq(Url) /\ ToSet(FirstSeen(urls)) = ToSet(urls)
         /\ Len(FirstSeen(urls)) = Cardinality(ToSet(urls))
  BY FirstMentions DEF FirstSeen

\* The corrections of the image lists.
LEMMA ImagesFacts ==
  ASSUME NEW e \in Answer, NEW assets, NEW references,
         assets = Images(e).assets, references = Images(e).references,
         e.assets \in Seq(Url), e.references \in Seq(Url)
  PROVE  /\ assets \in Seq(Url) /\ references \in Seq(Url)
         /\ ToSet(assets) \subseteq Known \ References
         /\ ToSet(references) \subseteq Known
         /\ ToSet(assets) \intersect ToSet(references) = {}
         /\ ToSet(assets) \union ToSet(references)
              = (ToSet(e.assets) \union ToSet(e.references)) \intersect Known
<1> DEFINE a == Keep(e.assets, Known)
           r == Keep(e.references, Known)
           m == Misplaced(a, r)
<1>1. assets = Unshared(a, r \o m) /\ references = r \o m
  BY DEF Images, Answer
<1>2. a \in Seq(Url) /\ ToSet(a) = ToSet(e.assets) \intersect Known
  BY KeepFacts
<1>3. r \in Seq(Url) /\ ToSet(r) = ToSet(e.references) \intersect Known
  BY KeepFacts
<1> HIDE DEF a, r
<1>4. m \in Seq(Url) /\ ToSet(m) = ToSet(a) \intersect (References \ ToSet(r))
  <2>1. FirstSeen(a) \in Seq(Url) /\ ToSet(FirstSeen(a)) = ToSet(a)
    BY <1>2, FirstSeenFacts
  <2> QED
    BY <2>1, KeepFacts DEF Misplaced
<1> HIDE DEF m
<1>5. references \in Seq(Url) /\ ToSet(references) = ToSet(r) \union ToSet(m)
  BY <1>1, <1>3, <1>4, ConcatElements
<1>6. /\ assets \in Seq(Url)
      /\ ToSet(assets) = ToSet(a) \intersect ((Known \ References) \ ToSet(references))
  BY <1>1, <1>2, <1>5, KeepFacts DEF Unshared
<1>7. References \subseteq Known
  BY DEF References, Known
<1> QED
  BY <1>2, <1>3, <1>4, <1>5, <1>6, <1>7

LEMMA SeqOfFacts ==
  ASSUME NEW X, NEW n, NEW s \in SeqOf(X, n)
  PROVE  s \in Seq(X)
  BY DEF SeqOf

\* A model answer has lists of urls, and the corrections change these fields only.
LEMMA CorrectedFacts ==
  ASSUME ctx \in Context, answer \in Answer
  PROVE  /\ answer.assets \in Seq(Url) /\ answer.references \in Seq(Url)
         /\ answer.picks \in Seq(Url) /\ ctx.attachments \in Seq(Url)
         /\ Corrected(answer).assets = Images(answer).assets
         /\ Corrected(answer).references = Images(answer).references
         /\ Corrected(answer).picks = answer.picks
         /\ Corrected(answer).said = answer.said
         /\ Corrected(answer).cta = ValidCta(answer.cta)
         /\ Corrected(answer).format \in Format
         /\ DOMAIN Corrected(answer) = DOMAIN answer
<1>1. /\ answer.assets \in Seq(Url) /\ answer.references \in Seq(Url)
      /\ answer.picks \in Seq(Url) /\ ctx.attachments \in Seq(Url)
  BY SeqOfFacts DEF Answer, Context, Picks
<1>2. answer.format \in Format /\ (ctx.requested = "any" \/ ctx.requested \in Format)
  BY DEF Answer, Context, Format, Requested
<1> QED
  BY <1>1, <1>2 DEF Corrected, Images, Answer

\* What the corrections give is settled by the context and the answer.
LEMMA CorrectedStable ==
  ASSUME UNCHANGED <<ctx, answer>>
  PROVE  /\ Corrected(answer)' = Corrected(answer)
         /\ ValidCta(answer.cta)' = ValidCta(answer.cta)
<1>1. ctx' = ctx /\ answer' = answer
  OBVIOUS
<1> QED
  BY <1>1 DEF Corrected, Images, Keep, Known, References, Misplaced, Unshared, ValidCta, Stands

\* From the answer on everything is determined.
PostInv ==
  /\ step \in {"answered", "validated", "assembled"}
  /\ ctx \in Context /\ answer \in Answer
  /\ step = "answered" => enrichment = answer
  /\ step # "answered" =>
       /\ enrichment.assets = Corrected(answer).assets
       /\ enrichment.references = Corrected(answer).references
       /\ enrichment.picks = answer.picks /\ enrichment.said = answer.said
       /\ enrichment.cta = ValidCta(answer.cta)
       /\ enrichment.format = Corrected(answer).format
       /\ DOMAIN enrichment = DOMAIN answer
       /\ mismatch = (Foreign(enrichment) # {})
  /\ step = "assembled" =>
       payload.resources = Resources /\ payload.total_items = TotalItems(Resources)

THEOREM PostInvariant == PostSpec => []PostInv
<1>1. PostInit => PostInv
  BY DEF PostInit, PostInitFrom, PostInv
<1>2. PostInv /\ [PostNext]_postVars => PostInv'
  <2> SUFFICES ASSUME PostInv, [PostNext]_postVars PROVE PostInv'
    OBVIOUS
  <2>1. CASE ValidateAndCorrect
    <3>1. /\ step' = "validated" /\ UNCHANGED <<ctx, answer>>
          /\ enrichment' = Corrected(answer)
          /\ mismatch' = (Foreign(Corrected(answer)) # {})
      BY <2>1 DEF ValidateAndCorrect, PostInv
    <3>2. Corrected(answer)' = Corrected(answer) /\ ValidCta(answer.cta)' = ValidCta(answer.cta)
      BY <3>1, CorrectedStable
    <3> QED
      BY <3>1, <3>2, CorrectedFacts DEF PostInv, Foreign
  <2>2. CASE Assemble
    <3>1. PICK dna :
            /\ step = "validated" /\ step' = "assembled" /\ UNCHANGED <<ctx, answer, mismatch>>
            /\ enrichment' = [enrichment EXCEPT !.brand_dna = dna]
            /\ payload' = CFPayload(dna)
      BY <2>2 DEF Assemble
    <3>2. Corrected(answer)' = Corrected(answer) /\ ValidCta(answer.cta)' = ValidCta(answer.cta)
      BY <3>1, CorrectedStable
    <3>3. /\ enrichment'.assets = enrichment.assets
          /\ enrichment'.references = enrichment.references
          /\ enrichment'.picks = enrichment.picks /\ enrichment'.said = enrichment.said
          /\ enrichment'.cta = enrichment.cta /\ enrichment'.format = enrichment.format
          /\ DOMAIN enrichment' = DOMAIN enrichment
      BY <3>1
    <3>4. payload'.resources = Resources /\ payload'.total_items = TotalItems(Resources)
      BY <3>1 DEF CFPayload
    <3>5. Resources' = Resources /\ TotalItems(Resources)' = TotalItems(Resources)
      BY <3>1, <3>3 DEF Resources, TotalItems
    <3> QED
      BY <3>1, <3>2, <3>3, <3>4, <3>5 DEF PostInv, Foreign
  <2>3. CASE UNCHANGED postVars
    <3>1. UNCHANGED <<step, ctx, answer, enrichment, mismatch, payload>>
      BY <2>3 DEF postVars
    <3>2. Corrected(answer)' = Corrected(answer) /\ ValidCta(answer.cta)' = ValidCta(answer.cta)
      BY <3>1, CorrectedStable
    <3>3. Resources' = Resources /\ TotalItems(Resources)' = TotalItems(Resources)
      BY <3>1 DEF Resources, TotalItems
    <3>4. Foreign(enrichment)' = Foreign(enrichment)
      BY <3>1 DEF Foreign
    <3> QED
      BY <3>1, <3>2, <3>3, <3>4 DEF PostInv
  <2> QED
    BY <2>1, <2>2, <2>3 DEF PostNext
<1> QED
  BY <1>1, <1>2, PTL DEF PostSpec

LEMMA ListsAfter ==
  ASSUME PostInv, Validated
  PROVE  /\ enrichment.assets \in Seq(Url) /\ enrichment.references \in Seq(Url)
         /\ ToSet(enrichment.assets) \subseteq Known \ References
         /\ ToSet(enrichment.references) \subseteq Known
         /\ ToSet(enrichment.assets) \intersect ToSet(enrichment.references) = {}
         /\ ToSet(enrichment.assets) \union ToSet(enrichment.references)
              = (ToSet(answer.assets) \union ToSet(answer.references)) \intersect Known
<1>1. /\ enrichment.assets = Images(answer).assets
      /\ enrichment.references = Images(answer).references
  BY CorrectedFacts DEF PostInv, Validated
<1>2. ctx \in Context /\ answer \in Answer
  BY DEF PostInv
<1>3. answer.assets \in Seq(Url) /\ answer.references \in Seq(Url)
  BY <1>2, CorrectedFacts
<1> QED
  BY <1>1, <1>2, <1>3, ImagesFacts

\* Whatever Gemini named, what is left are images of the gallery, no reference of the
\* brand among the assets, and no image in both lists.
THEOREM ImagesAreContained == PostSpec => []ImagesContained
<1>1. PostInv => ImagesContained
  BY ListsAfter DEF ImagesContained
<1> QED
  BY <1>1, PostInvariant, PTL

\* The corrections move images between the lists and lose none of the gallery.
THEOREM NoImageIsLost == PostSpec => []NoImageLost
<1>1. PostInv => NoImageLost
  <2> SUFFICES ASSUME PostInv, Validated
               PROVE  ToSet(enrichment.assets \o enrichment.references)
                        = ToSet(answer.assets \o answer.references) \intersect Known
    BY DEF NoImageLost
  <2>1. /\ answer.assets \in Seq(Url) /\ answer.references \in Seq(Url)
        /\ enrichment.assets \in Seq(Url) /\ enrichment.references \in Seq(Url)
    BY CorrectedFacts, ListsAfter DEF PostInv
  <2>2. ToSet(answer.assets \o answer.references)
          = ToSet(answer.assets) \union ToSet(answer.references)
    BY <2>1, ConcatElements
  <2>3. ToSet(enrichment.assets \o enrichment.references)
          = ToSet(enrichment.assets) \union ToSet(enrichment.references)
    BY <2>1, ConcatElements
  <2> QED
    BY <2>2, <2>3, ListsAfter
<1> QED
  BY <1>1, PostInvariant, PTL

\* The call to action is one the account offers, with a handle that works, and the
\* warnings say so if the caption speaks of another channel.
THEOREM CallsCanBeFollowed == PostSpec => []CallCanBeFollowed
<1>1. PostInv => CallCanBeFollowed
  <2> SUFFICES ASSUME PostInv, Validated
               PROVE  /\ \/ enrichment.cta = NoCta
                         \/ enrichment.cta \in ctx.offered
                         \/ enrichment.cta.channel = "dm"
                      /\ enrichment.cta # [channel |-> "website", handle |-> "malformed"]
                      /\ (\E c \in enrichment.said : c # enrichment.cta.channel) <=> mismatch
    BY DEF CallCanBeFollowed
  <2> DEFINE cta == answer.cta
  <2>1. /\ enrichment.cta = ValidCta(cta) /\ cta \in Cta \union {NoCta}
        /\ mismatch = (Foreign(enrichment) # {})
        /\ ctx.offered \in SUBSET Cta
    BY DEF PostInv, Validated, Answer, Context, Picks
  <2>2. cta = [channel |-> cta.channel, handle |-> cta.handle]
    BY <2>1 DEF Cta, NoCta
  <2>3. mismatch <=> \E c \in enrichment.said : c # enrichment.cta.channel
    BY <2>1 DEF Foreign
  <2> HIDE DEF cta
  <2>4. CASE ~Stands(cta)
    BY <2>1, <2>3, <2>4 DEF ValidCta, NoCta
  <2>5. CASE Stands(cta) /\ cta.channel = "dm"
    <3>1. enrichment.cta = [cta EXCEPT !.handle = "null"]
      BY <2>1, <2>5 DEF ValidCta
    <3>2. enrichment.cta.channel = "dm"
      BY <2>2, <2>5, <3>1
    <3> QED
      BY <2>3, <3>2
  <2>6. CASE Stands(cta) /\ cta.channel # "dm"
    <3>1. enrichment.cta = cta
      BY <2>1, <2>6 DEF ValidCta
    <3>2. PICK o \in ctx.offered : /\ o.channel = cta.channel /\ cta.handle = o.handle
                                   /\ cta.channel = "website" => cta.handle # "malformed"
      BY <2>6 DEF Stands
    <3>3. o \in Cta
      BY <2>1, <3>2
    <3>4. o = [channel |-> o.channel, handle |-> o.handle]
      BY <3>3 DEF Cta
    <3>5. o = cta
      BY <2>2, <3>2, <3>4
    <3> QED
      BY <2>3, <3>1, <3>2, <3>5
  <2> QED
    BY <2>4, <2>5, <2>6
<1> QED
  BY <1>1, PostInvariant, PTL

\* The place where a url is first mentioned; the list keeps the order of these places.
LEMMA FirstSeenOrder ==
  ASSUME NEW urls \in Seq(Url),
         NEW i \in DOMAIN FirstSeen(urls), NEW k \in DOMAIN FirstSeen(urls), i < k,
         NEW a, a = (CHOOSE p \in DOMAIN urls :
                       urls[p] = FirstSeen(urls)[i] /\ \A q \in 1..(p - 1) : urls[q] # FirstSeen(urls)[i]),
         NEW b, b = (CHOOSE p \in DOMAIN urls :
                       urls[p] = FirstSeen(urls)[k] /\ \A q \in 1..(p - 1) : urls[q] # FirstSeen(urls)[k])
  PROVE  a < b
<1> DEFINE I == {p \in DOMAIN urls : \A q \in 1..(p - 1) : urls[q] # urls[p]}
           seen == FirstSeen(urls)
<1>1. I \in SUBSET DOMAIN urls /\ DOMAIN urls = 1..Len(urls) /\ Len(urls) \in Nat
  OBVIOUS
<1>2. seen = Picked(urls, I)
  BY DEF FirstSeen
<1>3. ASSUME NEW p \in I, NEW q \in DOMAIN urls, urls[q] = urls[p],
             \A r \in 1..(q - 1) : urls[r] # urls[p]
      PROVE  q = p
  <2>1. ~(q \in 1..(p - 1)) /\ ~(p \in 1..(q - 1)) /\ p \in 1..Len(urls) /\ q \in 1..Len(urls)
    BY <1>1, <1>3
  <2> QED
    BY <1>1, <2>1
<1>4. \A p \in I : p \in DOMAIN urls /\ \A q \in 1..(p - 1) : urls[q] # urls[p]
  OBVIOUS
<1> HIDE DEF I
<1>5. ASSUME NEW p \in I, NEW x, x = urls[p], NEW c,
             c = (CHOOSE r \in DOMAIN urls : urls[r] = x /\ \A q \in 1..(r - 1) : urls[q] # x)
      PROVE  c = p
  <2>1. \E r \in DOMAIN urls : urls[r] = x /\ \A q \in 1..(r - 1) : urls[q] # x
    BY <1>4, <1>5
  <2>2. c \in DOMAIN urls /\ urls[c] = x /\ \A q \in 1..(c - 1) : urls[q] # x
    BY <1>5, <2>1
  <2> QED
    BY <1>3, <1>5, <2>2
<1>6. DOMAIN Picked(urls, I) = 1..Cardinality(I)
  BY <1>1, PickedFacts
<1>7. i \in 1..Cardinality(I) /\ k \in 1..Cardinality(I)
  BY <1>2, <1>6
<1>8. PICK p \in I, q \in I : seen[i] = urls[p] /\ seen[k] = urls[q] /\ p < q
  BY <1>1, <1>2, <1>7, PickedOrder
<1>9. a = p /\ b = q
  BY <1>5, <1>8
<1> QED
  BY <1>8, <1>9

\* Content Factory gets each image once, in the order of the mentions, and counts them.
THEOREM ResourcesAreInOrder == PostSpec => []ResourcesInOrder
<1>1. PostInv => ResourcesInOrder
  <2> DEFINE all == ctx.attachments \o enrichment.picks \o enrichment.assets
             urls == payload.resources
             First(u) == CHOOSE i \in DOMAIN all : all[i] = u /\ \A k \in 1..(i - 1) : all[k] # u
  <2> SUFFICES ASSUME PostInv, step = "assembled"
               PROVE  /\ ToSet(urls) = ToSet(all)
                      /\ \A i, k \in DOMAIN urls : i < k => First(urls[i]) < First(urls[k])
                      /\ payload.total_items =
                           IF enrichment.format = "carousel" /\ all # <<>>
                           THEN Cardinality(ToSet(all)) ELSE 1
    BY DEF ResourcesInOrder
  <2>1. all \in Seq(Url)
    <3>1. /\ ctx.attachments \in Seq(Url) /\ enrichment.picks \in Seq(Url)
          /\ enrichment.assets \in Seq(Url)
      BY CorrectedFacts, ListsAfter DEF PostInv, Validated
    <3> QED
      BY <3>1
  <2>2. urls = FirstSeen(all) /\ payload.total_items = TotalItems(urls)
    BY DEF PostInv, Resources
  <2> HIDE DEF all, urls
  <2>3. /\ urls \in Seq(Url) /\ ToSet(urls) = ToSet(all)
        /\ Len(urls) = Cardinality(ToSet(all))
    BY <2>1, <2>2, FirstSeenFacts
  <2>4. ASSUME NEW i \in DOMAIN urls, NEW k \in DOMAIN urls, i < k
        PROVE  First(urls[i]) < First(urls[k])
    <3> DEFINE a == First(urls[i])  b == First(urls[k])
    <3>1. /\ a = CHOOSE p \in DOMAIN all :
                   all[p] = FirstSeen(all)[i] /\ \A q \in 1..(p - 1) : all[q] # FirstSeen(all)[i]
          /\ b = CHOOSE p \in DOMAIN all :
                   all[p] = FirstSeen(all)[k] /\ \A q \in 1..(p - 1) : all[q] # FirstSeen(all)[k]
      BY <2>2
    <3>2. i \in DOMAIN FirstSeen(all) /\ k \in DOMAIN FirstSeen(all)
      BY <2>2
    <3> HIDE DEF a, b
    <3>3. a < b
      BY <2>1, <2>4, <3>1, <3>2, FirstSeenOrder
    <3> QED
      BY <3>3 DEF a, b
  <2>5. urls = <<>> <=> all = <<>>
    <3>1. (urls = <<>> <=> ToSet(urls) = {}) /\ (all = <<>> <=> ToSet(all) = {})
      BY <2>1, <2>3, ToSetEmpty
    <3> QED
      BY <2>3, <3>1
  <2>6. payload.total_items = IF enrichment.format = "carousel" /\ all # <<>>
                              THEN Cardinality(ToSet(all)) ELSE 1
    BY <2>2, <2>3, <2>5 DEF TotalItems
  <2> QED
    BY <2>3, <2>4, <2>6
<1> QED
  BY <1>1, PostInvariant, PTL

-----------------------------------------------------------------------------
(* Before the calls: what is fixed by the request, by the results of the   *)
(* two services, and by the split.                                         *)

Normal == {"ready", "asked", "prior_post_missing", "create_web_not_supported"}

IntakeInv ==
  /\ WellFormed(given)
  /\ profile = Pending \/ profile = UspResult
  /\ pool = Pending \/ pool = GalleryResult
  /\ stage \in {"received", "fetching", "crashed"} \/ (profile = UspResult /\ pool = GalleryResult)
  /\ \/ batches = Pending
     \/ /\ ~Overflows(envelope.jobs)
        /\ batches = [llm |-> FirstLlmJobs(envelope.jobs), pass |-> PassthroughJobs(envelope.jobs)]
  /\ stage \in Normal => context = Normalized
  /\ stage = "prior_post_missing" => PriorPostMissing
  /\ stage = "asked" => ~PriorPostMissing /\ prompt = PromptContext(context)

LEMMA ResultsStable ==
  ASSUME UNCHANGED given
  PROVE  UspResult' = UspResult /\ GalleryResult' = GalleryResult /\ envelope' = envelope
<1>1. given' = given
  OBVIOUS
<1> QED
  BY <1>1 DEF UspResult, GalleryResult, Asked, TaskContext, Ungated, envelope

LEMMA NormalizedStable ==
  ASSUME UNCHANGED <<given, profile, pool, batches>>
  PROVE  Normalized' = Normalized
<1>1. given' = given /\ profile' = profile /\ pool' = pool /\ batches' = batches
  OBVIOUS
<1>2. /\ envelope' = envelope /\ Ungated' = Ungated /\ BriefData' = BriefData
      /\ IdWarnings' = IdWarnings /\ PoolWarnings' = PoolWarnings /\ SecondPass' = SecondPass
  BY <1>1 DEF envelope, Ungated, BriefData, IdWarnings, PoolWarnings, SecondPass
<1>3. FromBrief' = FromBrief
  BY <1>2 DEF FromBrief
<1>4. ApplyUserProfile(FromBrief)' = ApplyUserProfile(FromBrief)
  BY <1>1, <1>2, <1>3 DEF ApplyUserProfile, FactsOf
<1>5. BriefWarnings(FromBrief)' = BriefWarnings(FromBrief)
  BY <1>1, <1>2, <1>3 DEF BriefWarnings
<1>6. RawImages' = RawImages
  BY <1>2 DEF RawImages
<1> QED
  BY <1>1, <1>2, <1>3, <1>4, <1>5, <1>6 DEF Normalized

THEOREM IntakeInvariant == IntakeSpec => []IntakeInv
<1>1. IntakeInit => IntakeInv
  BY DEF IntakeInit, IntakeInv, Normal
<1>2. IntakeInv /\ [Next]_vars => IntakeInv'
  <2> SUFFICES ASSUME IntakeInv, [Next]_vars PROVE IntakeInv'
    OBVIOUS
  <2>1. given' = given
    BY DEF Next, vars, Begin, FetchProfile, FetchGallery, Resolve, Split, Normalize, Compose
  <2>2. UspResult' = UspResult /\ GalleryResult' = GalleryResult /\ envelope' = envelope
    BY <2>1, ResultsStable
  <2>3. CASE Begin
    BY <2>1, <2>2, <2>3 DEF Begin, IntakeInv, Normal
  <2>4. CASE FetchProfile
    BY <2>1, <2>2, <2>4 DEF FetchProfile, IntakeInv, Normal
  <2>5. CASE FetchGallery
    BY <2>1, <2>2, <2>5 DEF FetchGallery, IntakeInv, Normal
  <2>6. CASE Resolve
    BY <2>1, <2>2, <2>6 DEF Resolve, IntakeInv, Normal
  <2>7. CASE Split
    BY <2>1, <2>2, <2>7 DEF Split, IntakeInv, Normal
  <2>8. CASE Normalize
    <3>1. Normalized' = Normalized
      BY <2>1, <2>8, NormalizedStable DEF Normalize
    <3> QED
      BY <2>1, <2>2, <2>8, <3>1 DEF Normalize, IntakeInv, Normal
  <2>9. CASE Compose
    <3>1. Normalized' = Normalized
      BY <2>1, <2>9, NormalizedStable DEF Compose
    <3>2. PriorPostMissing' = PriorPostMissing
      BY <2>2, <2>9 DEF Compose, PriorPostMissing
    <3>3. stage' = "asked" => ~PriorPostMissing /\ prompt' = PromptContext(context)
      BY <2>9 DEF Compose
    <3>4. stage' = "prior_post_missing" => PriorPostMissing
      BY <2>9 DEF Compose
    <3> QED
      BY <2>1, <2>2, <2>9, <3>1, <3>2, <3>3, <3>4 DEF Compose, IntakeInv, Normal
  <2>10. CASE UNCHANGED vars
    <3>1. UNCHANGED <<given, stage, profile, pool, batches, context, prompt>>
      BY <2>10 DEF vars
    <3>2. Normalized' = Normalized
      BY <3>1, NormalizedStable
    <3>3. PriorPostMissing' = PriorPostMissing
      BY <2>2, <3>1 DEF PriorPostMissing
    <3> QED
      BY <2>2, <3>1, <3>2, <3>3 DEF IntakeInv, Normal
  <2> QED
    BY <2>3, <2>4, <2>5, <2>6, <2>7, <2>8, <2>9, <2>10 DEF Next
<1> QED
  BY <1>1, <1>2, PTL DEF IntakeSpec

\* The warnings a source may give, by their codes.
LEMMA WarningCodes ==
  ASSUME IntakeInv, stage = "ready"
  PROVE  /\ UspWarning(profile) =
              IF ~Asked(given.usp) THEN {"user_profile_skipped"}
              ELSE IF given.usp.kind # "answer" THEN {"user_profile_unavailable"}
              ELSE IF given.usp.identity = NoIdentity THEN {"user_profile_not_found"} ELSE {}
         /\ profile.kind = "profile" => profile.identity = given.usp.identity
         /\ ~Asked(given.gallery) => pool.kind = "none" /\ pool.warning = {"gallery_api_skipped"}
         /\ Asked(given.gallery) =>
              \/ /\ pool.kind \in {"none", "raised"}
                 /\ pool.warning \in {{"gallery_api_unavailable"}, {"gallery_api_not_found"}}
              \/ /\ pool.kind = "pool" /\ pool.truncated
                 /\ pool.warning = {"gallery_pool_truncated"}
              \/ /\ pool.kind = "pool" /\ ~pool.truncated
                 /\ pool.warning \in {{}, {"gallery_pool_empty"}}
<1>1. profile = UspResult /\ pool = GalleryResult /\ WellFormed(given)
  BY DEF IntakeInv
<1>2. ASSUME Asked(given.usp)
      PROVE  /\ given.usp.kind \in {"unreachable", "odd", "answer"}
             /\ profile = FetchUserProfile(given.usp)
  BY <1>1, <1>2 DEF UspResult, WellFormed, IsProfileReply, Asked
<1>3. /\ UspWarning(profile) =
           IF ~Asked(given.usp) THEN {"user_profile_skipped"}
           ELSE IF given.usp.kind # "answer" THEN {"user_profile_unavailable"}
           ELSE IF given.usp.identity = NoIdentity THEN {"user_profile_not_found"} ELSE {}
      /\ profile.kind = "profile" => profile.identity = given.usp.identity
  <2>1. CASE ~Asked(given.usp)
    BY <1>1, <2>1 DEF UspResult, UspWarning
  <2>2. CASE Asked(given.usp)
    BY <1>2, <2>2 DEF FetchUserProfile, UspWarning
  <2> QED
    BY <2>1, <2>2
<1>4. ~Asked(given.gallery) => pool.kind = "none" /\ pool.warning = {"gallery_api_skipped"}
  BY <1>1 DEF GalleryResult
<1>5. ASSUME Asked(given.gallery)
      PROVE  \/ /\ pool.kind \in {"none", "raised"}
                /\ pool.warning \in {{"gallery_api_unavailable"}, {"gallery_api_not_found"}}
             \/ /\ pool.kind = "pool" /\ pool.truncated
                /\ pool.warning = {"gallery_pool_truncated"}
             \/ /\ pool.kind = "pool" /\ ~pool.truncated
                /\ pool.warning \in {{}, {"gallery_pool_empty"}}
  BY <1>1, <1>5 DEF GalleryResult, FetchGalleryPool, WellFormed, IsGalleryReply, Asked
<1> QED
  BY <1>3, <1>4, <1>5

\* What the services and the brief did not give is named by its own code, but for the two
\* losses that have none.
THEOREM LossesAreNamed == IntakeSpec => []LossesNamed
<1>1. ASSUME IntakeInv, stage = "ready" PROVE LossesNamed
  <2> DEFINE Others == BriefWarnings(context.base) \union GalleryWarnings(context.images)
                         \union IdWarnings
  <2>1. context = Normalized
    BY <1>1 DEF IntakeInv, Normal
  <2>2. /\ context.warnings = Others \union UspWarning(profile) \union PoolWarnings
        /\ context.base = FromBrief
        /\ context.shortlist = IF pool.kind = "pool" THEN pool.shortlist ELSE <<>>
    BY <2>1 DEF Normalized
  <2>3. /\ BriefWarnings(context.base) \ {"brief_missing"} \subseteq
             {"value_proposition_empty", "tone_unclear", "brief_request_mismatch", "request_vague"}
        /\ "brief_missing" \in BriefWarnings(context.base) <=> BriefData = NoBrief
    BY DEF BriefWarnings, FlattenWarnings
  <2>4. /\ GalleryWarnings(context.images) \subseteq
             {"gallery_empty", "gallery_all_filtered", "gallery_partially_filtered",
              "gallery_truncated"}
        /\ IdWarnings \subseteq {"context_missing_id"}
    BY DEF GalleryWarnings, IdWarnings
  <2>5. Others \ {"brief_missing"} \subseteq
          {"value_proposition_empty", "tone_unclear", "brief_request_mismatch", "request_vague",
           "gallery_empty", "gallery_all_filtered", "gallery_partially_filtered",
           "gallery_truncated", "context_missing_id"}
    BY <2>3, <2>4
  <2>6. "brief_missing" \in Others <=> BriefData = NoBrief
    BY <2>3, <2>4
  <2> HIDE DEF Others
  <2>7. /\ PoolWarnings \subseteq
             {"gallery_api_skipped", "gallery_api_unavailable", "gallery_api_not_found",
              "gallery_pool_truncated", "gallery_pool_empty", "gallery_vision_shortlist_empty"}
        /\ "gallery_api_skipped" \in PoolWarnings <=> ~Asked(given.gallery)
        /\ "gallery_pool_truncated" \in PoolWarnings <=> pool.kind = "pool" /\ pool.truncated
        /\ context.shortlist = <<>> /\ ~(pool.kind = "pool" /\ pool.truncated) =>
             PoolWarnings # {}
    BY <1>1, <2>2, WarningCodes DEF PoolWarnings
  <2>8. UspWarning(profile) =
          IF ~Asked(given.usp) THEN {"user_profile_skipped"}
          ELSE IF given.usp.kind # "answer" THEN {"user_profile_unavailable"}
          ELSE IF given.usp.identity = NoIdentity THEN {"user_profile_not_found"} ELSE {}
    BY <1>1, WarningCodes
  <2>9. /\ BriefData = NoBrief <=> ~envelope.brief.passed \/ envelope.brief.data = NoBrief
        /\ context.base.brief = IF BriefData = NoBrief \/ envelope.brief.data = Odd
                                THEN NoBrief ELSE Flatten(envelope.brief.data)
    <3>1. BriefData = IF envelope.brief.passed THEN envelope.brief.data ELSE NoBrief
      BY DEF BriefData
    <3>2. context.base.brief = IF BriefData \in {NoBrief, Odd} THEN NoBrief ELSE Flatten(BriefData)
      BY <2>2 DEF FromBrief, IsDocument
    <3> QED
      BY <3>1, <3>2
  <2>10. /\ "user_profile_skipped" \in context.warnings <=> ~Asked(given.usp)
         /\ "user_profile_unavailable" \in context.warnings <=>
              Asked(given.usp) /\ given.usp.kind # "answer"
         /\ "user_profile_not_found" \in context.warnings <=>
              /\ Asked(given.usp) /\ given.usp.kind = "answer"
              /\ given.usp.identity = NoIdentity
    BY <2>2, <2>5, <2>7, <2>8
  <2>11. /\ "gallery_api_skipped" \in context.warnings <=> ~Asked(given.gallery)
         /\ "gallery_pool_truncated" \in context.warnings <=> pool.kind = "pool" /\ pool.truncated
         /\ "brief_missing" \in context.warnings <=> BriefData = NoBrief
    BY <2>2, <2>5, <2>6, <2>7, <2>8
  <2>12. context.shortlist = <<>> /\ ~(pool.kind = "pool" /\ pool.truncated) =>
           \E code \in {"gallery_api_skipped", "gallery_api_unavailable", "gallery_api_not_found",
                        "gallery_pool_empty", "gallery_vision_shortlist_empty"} :
             code \in context.warnings
    BY <2>2, <2>7
  <2>13. /\ "brief_missing" \in context.warnings <=>
              ~envelope.brief.passed \/ envelope.brief.data = NoBrief
         /\ context.base.brief =
              IF "brief_missing" \in context.warnings \/ envelope.brief.data = Odd
              THEN NoBrief ELSE Flatten(envelope.brief.data)
    BY <2>9, <2>11
  <2> QED
    BY <1>1, <2>10, <2>11, <2>12, <2>13 DEF LossesNamed
<1>2. IntakeInv => LossesNamed
  BY <1>1 DEF LossesNamed
<1> QED
  BY <1>2, IntakeInvariant, PTL

-----------------------------------------------------------------------------
(* The prior post of an edit.                                              *)

\* The places in the order in which they are searched, by their positions.
LEMMA CandidatesFacts ==
  ASSUME NEW posts, NEW previous, IsList(previous),
         \A i \in DOMAIN previous : previous[i].output \in BOOLEAN,
         NEW all, all = Candidates(posts, PriorStepOutputs(previous))
  PROVE  /\ all \in Seq(ToSet(all))
         /\ Len(all) >= 2 /\ all[1] = OfContext(posts) /\ all[2] = posts.extras
         /\ \A i \in DOMAIN previous : previous[i].output =>
              previous[i].prior_post \in ToSet(all) /\ previous[i].post \in ToSet(all)
         /\ \A c \in ToSet(all) :
              \/ c \in {OfContext(posts), posts.extras}
              \/ \E i \in DOMAIN previous :
                   previous[i].output /\ c \in {previous[i].prior_post, previous[i].post}
<1> DEFINE I == {i \in DOMAIN previous : previous[i].output}
           outputs == Picked(previous, I)
           found == [n \in 1..2 * Len(outputs) |->
                       LET earlier == outputs[(n + 1) \div 2]
                       IN  IF n % 2 = 1 THEN earlier.prior_post ELSE earlier.post]
           two == <<OfContext(posts), posts.extras>>
<1>1. previous \in Seq(Range(previous)) /\ I \in SUBSET DOMAIN previous
  BY DEF IsList
<1>2. all = two \o found
  BY DEF Candidates, PriorStepOutputs
<1>3. /\ outputs \in Seq(Range(previous)) /\ ToSet(outputs) = {previous[i] : i \in I}
  <2> HIDE DEF I
  <2>1. I \in SUBSET DOMAIN previous
    BY <1>1
  <2>2. Picked(previous, I) \in Seq(Range(previous))
    BY <1>1, <2>1, PickedFacts
  <2>3. ToSet(Picked(previous, I)) = {previous[i] : i \in I}
    BY <1>1, <2>1, PickedElements
  <2> QED
    BY <2>2, <2>3
<1>4. Len(outputs) \in Nat /\ DOMAIN outputs = 1..Len(outputs)
  BY <1>3
<1> HIDE DEF outputs
<1>5. /\ found \in Seq(Range(found)) /\ Len(found) = 2 * Len(outputs)
      /\ DOMAIN found = 1..2 * Len(outputs)
  BY <1>4 DEF Range
<1>6. /\ \A k \in 1..Len(outputs) : /\ 2 * k - 1 \in DOMAIN found /\ 2 * k \in DOMAIN found
                                    /\ found[2 * k - 1] = outputs[k].prior_post
                                    /\ found[2 * k] = outputs[k].post
  <2> SUFFICES ASSUME NEW k \in 1..Len(outputs)
               PROVE  /\ 2 * k - 1 \in DOMAIN found /\ 2 * k \in DOMAIN found
                      /\ found[2 * k - 1] = outputs[k].prior_post
                      /\ found[2 * k] = outputs[k].post
    OBVIOUS
  <2>1. 2 * k - 1 \in 1..2 * Len(outputs) /\ 2 * k \in 1..2 * Len(outputs)
    BY <1>4
  <2>2. /\ ((2 * k - 1) + 1) \div 2 = k /\ (2 * k - 1) % 2 = 1
        /\ (2 * k + 1) \div 2 = k /\ (2 * k) % 2 = 0
    BY <1>4
  <2> QED
    BY <2>1, <2>2
<1> HIDE DEF found
<1>7. /\ all \in Seq(ToSet(all)) /\ Len(all) = 2 + Len(found)
      /\ all[1] = OfContext(posts) /\ all[2] = posts.extras
      /\ \A n \in 1..Len(found) : all[2 + n] = found[n]
  <2> DEFINE P == Range(found) \union {OfContext(posts), posts.extras}
  <2>1. found \in Seq(P) /\ OfContext(posts) \in P /\ posts.extras \in P
    BY <1>5
  <2>2. /\ all \in Seq(P) /\ Len(all) = 2 + Len(found)
        /\ all[1] = OfContext(posts) /\ all[2] = posts.extras
        /\ \A n \in 1..Len(found) : all[2 + n] = found[n]
    BY <1>2, <2>1, TwoFirst
  <2>3. all \in Seq(ToSet(all))
    BY <2>2 DEF ToSet
  <2> QED
    BY <2>2, <2>3
<1>8. \A n \in DOMAIN found : found[n] \in ToSet(all)
  <2> SUFFICES ASSUME NEW n \in DOMAIN found PROVE found[n] \in ToSet(all)
    OBVIOUS
  <2>1. n \in 1..Len(found) /\ 2 + n \in 1..Len(all) /\ DOMAIN all = 1..Len(all)
    BY <1>4, <1>5, <1>7
  <2> QED
    BY <1>7, <2>1 DEF ToSet
<1>9. ASSUME NEW i \in DOMAIN previous, previous[i].output
      PROVE  previous[i].prior_post \in ToSet(all) /\ previous[i].post \in ToSet(all)
  <2>1. previous[i] \in ToSet(outputs)
    BY <1>3, <1>9
  <2>2. PICK k \in 1..Len(outputs) : outputs[k] = previous[i]
    BY <1>4, <2>1 DEF ToSet
  <2> QED
    BY <1>6, <1>8, <2>2
<1>10. Len(all) >= 2
  BY <1>4, <1>5, <1>7
<1>11. ASSUME NEW c \in ToSet(all), c \notin {OfContext(posts), posts.extras}
       PROVE  \E i \in DOMAIN previous :
                previous[i].output /\ c \in {previous[i].prior_post, previous[i].post}
  <2>1. PICK m \in 1..Len(all) : c = all[m]
    BY <1>7 DEF ToSet
  <2>2. m # 1 /\ m # 2
    BY <1>7, <1>11, <2>1
  <2>3. PICK n \in 1..Len(found) : c = found[n]
    <3>1. Len(found) \in Nat
      BY <1>4, <1>5
    <3>2. m - 2 \in 1..Len(found) /\ 2 + (m - 2) = m
      BY <1>7, <2>1, <2>2, <3>1
    <3> QED
      BY <1>7, <2>1, <3>2
  <2>4. n \in 1..2 * Len(outputs)
    BY <1>5
  <2>5. PICK k \in 1..Len(outputs) : n = 2 * k - 1 \/ n = 2 * k
    <3>1. (n + 1) \div 2 \in 1..Len(outputs)
      BY <1>4, <2>4
    <3>2. n = 2 * ((n + 1) \div 2) - 1 \/ n = 2 * ((n + 1) \div 2)
      BY <1>4, <2>4
    <3> QED
      BY <3>1, <3>2
  <2>6. c = outputs[k].prior_post \/ c = outputs[k].post
    BY <1>6, <2>3, <2>5
  <2>7. outputs[k] \in ToSet(outputs)
    BY <1>4 DEF ToSet
  <2>8. PICK i \in I : outputs[k] = previous[i]
    BY <1>3, <2>7
  <2> QED
    BY <2>6, <2>8
<1> QED
  BY <1>7, <1>9, <1>10, <1>11

\* The posts a request names in the places that are searched.
Named(posts, previous) ==
  {c \in {OfContext(posts), posts.extras}
         \union UNION {{s.prior_post, s.post} : s \in {t \in Range(previous) : t.output}} : IsPost(c)}

LEMMA PriorPostFacts ==
  ASSUME NEW posts, NEW previous, IsList(previous),
         \A i \in DOMAIN previous : previous[i].output \in BOOLEAN,
         NEW post, post = PriorPost(posts, PriorStepOutputs(previous))
  PROVE  /\ post = NoPost => Named(posts, previous) = {}
         /\ post # NoPost => \E c \in Named(posts, previous) : post = Told(c)
         /\ IsPost(OfContext(posts)) => post = Told(OfContext(posts))
         /\ ~IsPost(OfContext(posts)) /\ IsPost(posts.extras) => post = Told(posts.extras)
<1> DEFINE all == Candidates(posts, PriorStepOutputs(previous))
           I == {i \in DOMAIN all : IsPost(all[i])}
           found == Picked(all, I)
<1>1. /\ all \in Seq(ToSet(all))
      /\ Len(all) >= 2 /\ all[1] = OfContext(posts) /\ all[2] = posts.extras
      /\ \A i \in DOMAIN previous : previous[i].output =>
           previous[i].prior_post \in ToSet(all) /\ previous[i].post \in ToSet(all)
      /\ \A c \in ToSet(all) :
           \/ c \in {OfContext(posts), posts.extras}
           \/ \E i \in DOMAIN previous :
                previous[i].output /\ c \in {previous[i].prior_post, previous[i].post}
  BY CandidatesFacts
<1>2. post = IF found = <<>> THEN NoPost ELSE Told(found[1])
  BY DEF PriorPost
<1> HIDE DEF all
<1>3. I \in SUBSET DOMAIN all /\ DOMAIN all = 1..Len(all) /\ Len(all) \in Nat
  BY <1>1
<1>4. \A i \in DOMAIN all : i \in I <=> IsPost(all[i])
  OBVIOUS
<1> HIDE DEF I
<1>5. /\ found = <<>> <=> I = {}
      /\ \A i \in I : (\A j \in I : i <= j) => found[1] = all[i]
  BY <1>1, <1>3, PickedFirst
<1>6. I # {} => \E i \in I : found[1] = all[i]
  <2> SUFFICES ASSUME I # {} PROVE \E i \in I : found[1] = all[i]
    OBVIOUS
  <2>1. found \in Seq(ToSet(all)) /\ ToSet(found) = {all[i] : i \in I}
    <3>1. I \in SUBSET DOMAIN all
      BY <1>3
    <3>2. Picked(all, I) \in Seq(ToSet(all))
      BY <1>1, <3>1, PickedFacts
    <3>3. ToSet(Picked(all, I)) = {all[i] : i \in I}
      BY <1>1, <3>1, PickedElements
    <3> QED
      BY <3>2, <3>3
  <2>2. found # <<>>
    BY <1>5
  <2> HIDE DEF found
  <2>3. 1 \in DOMAIN found
    BY <2>1, <2>2
  <2> QED
    BY <2>1, <2>3 DEF ToSet
<1> HIDE DEF found
<1>7. post = NoPost <=> I = {}
  <2>1. \A x, y : [caption |-> x, image_url |-> y] # [none |-> TRUE]
    <3> SUFFICES ASSUME NEW x, NEW y PROVE [caption |-> x, image_url |-> y] # [none |-> TRUE]
      OBVIOUS
    <3>1. DOMAIN [caption |-> x, image_url |-> y] # DOMAIN [none |-> TRUE]
      OBVIOUS
    <3> QED
      BY <3>1
  <2> QED
    BY <1>2, <1>5, <2>1 DEF NoPost, Told
<1>8. /\ 1 \in DOMAIN all /\ 2 \in DOMAIN all
      /\ OfContext(posts) \in ToSet(all) /\ posts.extras \in ToSet(all)
  BY <1>1, <1>3 DEF ToSet
<1>9. Named(posts, previous) = {c \in ToSet(all) : IsPost(c)}
  <2>1. previous \in Seq(Range(previous))
    BY DEF IsList
  <2>2. {t \in Range(previous) : t.output}
          = {previous[i] : i \in {j \in DOMAIN previous : previous[j].output}}
    BY DEF Range
  <2>3. UNION {{s.prior_post, s.post} : s \in {t \in Range(previous) : t.output}}
          = {c \in ToSet(all) : \E i \in DOMAIN previous :
               previous[i].output /\ c \in {previous[i].prior_post, previous[i].post}}
    BY <1>1, <2>2
  <2> QED
    BY <1>1, <1>8, <2>3 DEF Named
<1>10. Named(posts, previous) = {all[i] : i \in I}
  BY <1>3, <1>4, <1>9 DEF ToSet
<1>11. ASSUME IsPost(OfContext(posts)) PROVE post = Told(OfContext(posts))
  <2>1. 1 \in I /\ \A j \in I : 1 <= j
    BY <1>1, <1>3, <1>4, <1>8, <1>11
  <2> QED
    BY <1>1, <1>2, <1>5, <2>1
<1>12. ASSUME ~IsPost(OfContext(posts)), IsPost(posts.extras)
       PROVE  post = Told(posts.extras)
  <2>1. 2 \in I /\ 1 \notin I
    BY <1>1, <1>4, <1>8, <1>12
  <2>2. \A j \in I : 2 <= j
    BY <1>3, <2>1
  <2> QED
    BY <1>1, <1>2, <1>5, <2>1, <2>2
<1>13. I # {} => \E c \in Named(posts, previous) : post = Told(c)
  BY <1>2, <1>5, <1>6, <1>10
<1> QED
  BY <1>7, <1>10, <1>11, <1>12, <1>13

\* An edit is refused only if no place that is searched names a post, and Gemini is told of
\* the first that does, as it is named.
THEOREM EditsKnowTheirPost == IntakeSpec => []EditKnowsItsPost
<1>1. IntakeInv => EditKnowsItsPost
  <2> SUFFICES ASSUME IntakeInv PROVE EditKnowsItsPost
    OBVIOUS
  <2> DEFINE posts == envelope.posts
             previous == envelope.previous
             post == PriorPost(posts, PriorStepOutputs(previous))
             ofContext == IF posts.request.empty THEN posts.context
                          ELSE posts.request.prior_post
             named == {c \in {ofContext, posts.extras}
                            \union UNION {{s.prior_post, s.post} :
                                           s \in {t \in Range(previous) : t.output}} : IsPost(c)}
  <2>1. IsList(previous) /\ \A i \in DOMAIN previous : previous[i].output \in BOOLEAN
    BY DEF IntakeInv, WellFormed, envelope
  <2>2. /\ post = NoPost => Named(posts, previous) = {}
        /\ post # NoPost => \E c \in Named(posts, previous) : post = Told(c)
        /\ IsPost(OfContext(posts)) => post = Told(OfContext(posts))
        /\ ~IsPost(OfContext(posts)) /\ IsPost(posts.extras) => post = Told(posts.extras)
    BY <2>1, PriorPostFacts
  <2>3. stage \in Normal =>
          context.prior_post = IF envelope.action = "edit_post" THEN post ELSE NoPost
    BY DEF IntakeInv, Normalized
  <2>4. ofContext = OfContext(posts) /\ named = Named(posts, previous)
    BY DEF OfContext, Named
  <2>5. posts.extras \in named <=> IsPost(posts.extras)
    OBVIOUS
  <2>6. ofContext \in named <=> IsPost(ofContext)
    OBVIOUS
  <2>7. EditKnowsItsPost <=>
          /\ stage = "prior_post_missing" => envelope.action = "edit_post" /\ named = {}
          /\ stage = "asked" /\ envelope.action = "edit_post" =>
               /\ \E c \in named : prompt.prior_post = Told(c)
               /\ ofContext \in named => prompt.prior_post = Told(ofContext)
               /\ ofContext \notin named /\ posts.extras \in named =>
                    prompt.prior_post = Told(posts.extras)
    BY DEF EditKnowsItsPost
  <2> HIDE DEF posts, previous, post, ofContext, named
  <2>8. ASSUME stage = "prior_post_missing"
        PROVE  envelope.action = "edit_post" /\ named = {}
    <3>1. envelope.action = "edit_post" /\ context.prior_post = NoPost
      BY <2>8 DEF IntakeInv, PriorPostMissing
    <3>2. post = NoPost
      BY <2>3, <2>8, <3>1 DEF Normal
    <3> QED
      BY <2>2, <2>4, <3>1, <3>2
  <2>9. ASSUME stage = "asked", envelope.action = "edit_post"
        PROVE  prompt.prior_post = post /\ post # NoPost
    <3>1. context.prior_post = post /\ post # NoPost
      BY <2>3, <2>9 DEF Normal, IntakeInv, PriorPostMissing
    <3>2. prompt.prior_post = context.prior_post
      BY <2>9 DEF IntakeInv, PromptContext
    <3> QED
      BY <3>1, <3>2
  <2> QED
    BY <2>2, <2>4, <2>5, <2>6, <2>7, <2>8, <2>9
<1> QED
  BY <1>1, IntakeInvariant, PTL

-----------------------------------------------------------------------------
(* The images that are shown to the model.                                 *)

LEMMA ScoreIsInt ==
  ASSUME NEW item, NEW c,
         \A words \in {item.tags, item.description, item.subject, item.mood} : IsFiniteSet(words)
  PROVE  Score(item, c) \in Int
<1>1. ASSUME NEW A, NEW B, IsFiniteSet(A) PROVE Hits(A, B) \in Nat
  <2>1. IsFiniteSet(A \intersect B)
    BY <1>1, FS_Subset
  <2> QED
    BY <2>1, FS_CardinalityType DEF Hits
<1> DEFINE tokens == c.user_request \union c.brief_keywords
           h1 == Hits(item.tags, tokens)
           h2 == Hits(item.description, c.user_request)
           h3 == Hits(item.subject, c.user_request)
           h4 == Hits(item.mood, c.brief_tone)
           o1 == One(item.people /\ tokens \intersect PersonSignals # {})
           o2 == One(item.category \intersect tokens # {})
           o3 == One(item.style \intersect c.brief_design_style # {})
<1>2. h1 \in Nat /\ h2 \in Nat /\ h3 \in Nat /\ h4 \in Nat
  BY <1>1
<1>3. o1 \in Nat /\ o2 \in Nat /\ o3 \in Nat
  BY DEF One
<1>4. Score(item, c) = IF ~item.metadata THEN 0 ELSE 3 * (h1 + h2) + 2 * (h3 + h4) + 2 * o1 + o2 + o3
  BY DEF Score
<1> HIDE DEF h1, h2, h3, h4, o1, o2, o3
<1> QED
  BY <1>2, <1>3, <1>4

LEMMA ShortlistFacts ==
  ASSUME NEW items, IsList(items), NEW c, NEW n \in Int,
         \A i \in DOMAIN items :
           \A words \in {items[i].tags, items[i].description, items[i].subject, items[i].mood} :
             IsFiniteSet(words),
         NEW fit, fit = Eligible(items),
         NEW shown, shown = BuildShortlist(items, c, n)
  PROVE  /\ fit \in Seq(Range(items)) /\ shown \in Seq(Range(items))
         /\ Range(shown) \subseteq Range(fit)
         /\ n >= 0 => Len(shown) = IF n <= Len(fit) THEN n ELSE Len(fit)
         /\ \A a \in Range(shown), b \in Range(fit) \ Range(shown) : Score(a, c) >= Score(b, c)
         /\ \A p, q \in DOMAIN shown : p < q => Score(shown[p], c) >= Score(shown[q], c)
<1> DEFINE keys == [i \in DOMAIN fit |-> Score(fit[i], c)]
           scored == Descending(fit, keys)
           N == Len(fit)
<1>1. fit \in Seq(Range(items))
  <2> DEFINE I == {i \in DOMAIN items : IsEligible(items[i])}
  <2>1. items \in Seq(Range(items)) /\ I \in SUBSET DOMAIN items
    BY DEF IsList
  <2>2. fit = Picked(items, I)
    BY DEF Eligible
  <2> HIDE DEF I
  <2> QED
    BY <2>1, <2>2, PickedFacts
<1>2. N \in Nat /\ DOMAIN fit = 1..N /\ \A i \in 1..N : fit[i] \in Range(items)
  BY <1>1
<1>3. \A i \in DOMAIN fit : keys[i] = Score(fit[i], c) /\ keys[i] \in Int
  <2> SUFFICES ASSUME NEW i \in DOMAIN fit PROVE Score(fit[i], c) \in Int
    OBVIOUS
  <2>1. PICK j \in DOMAIN items : fit[i] = items[j]
    BY <1>2 DEF Range
  <2> QED
    BY <2>1, ScoreIsInt
<1>4. shown = FirstOf(scored, n)
  BY DEF BuildShortlist
<1> HIDE DEF keys
<1>5. /\ scored \in Seq(Range(items)) /\ Len(scored) = Len(fit)
      /\ \E at \in [1..Len(fit) -> 1..Len(fit)] : Sorts(at, fit, scored, keys)
  BY <1>1, <1>3, DescendingFacts
<1> HIDE DEF scored, N
<1>6. PICK at \in [1..N -> 1..N] :
        /\ \A i \in 1..N : scored[i] = fit[at[i]]
        /\ \A i \in 1..N : \E k \in 1..N : at[k] = i
        /\ \A m, k \in 1..N : m < k => keys[at[m]] >= keys[at[k]]
  BY <1>5 DEF N, Sorts
<1>7. /\ shown \in Seq(Range(items)) /\ Len(shown) \in 0..N
      /\ n >= 0 => Len(shown) = IF n <= N THEN n ELSE N
      /\ \A i \in 1..Len(shown) : shown[i] = scored[i]
  BY <1>4, <1>5, FirstOfFacts DEF N
<1> DEFINE M == Len(shown)
<1>8. M \in 0..N /\ DOMAIN shown = 1..M /\ \A i \in 1..M : i \in 1..N
  BY <1>2, <1>7
<1> HIDE DEF M
<1>9. \A i \in 1..N : at[i] \in DOMAIN fit /\ Score(scored[i], c) = keys[at[i]]
  <2> SUFFICES ASSUME NEW i \in 1..N
               PROVE at[i] \in DOMAIN fit /\ Score(scored[i], c) = keys[at[i]]
    OBVIOUS
  <2>1. at[i] \in DOMAIN fit
    BY <1>2, <1>6
  <2>2. scored[i] = fit[at[i]]
    BY <1>6
  <2> QED
    BY <1>3, <2>1, <2>2
<1>10. \A p, q \in 1..N : p < q => Score(scored[p], c) >= Score(scored[q], c)
  BY <1>6, <1>9
<1>11. Range(shown) \subseteq Range(fit)
  <2>1. \A i \in DOMAIN shown : shown[i] = fit[at[i]] /\ at[i] \in DOMAIN fit
    BY <1>6, <1>7, <1>8, <1>9 DEF M
  <2> QED
    BY <2>1 DEF Range
<1>12. ASSUME NEW a \in Range(shown), NEW b \in Range(fit) \ Range(shown)
       PROVE  Score(a, c) >= Score(b, c)
  <2>1. PICK p \in 1..M : a = scored[p]
    BY <1>7, <1>8 DEF Range, M
  <2>2. PICK j \in 1..N : b = fit[j]
    BY <1>2 DEF Range
  <2>3. PICK q \in 1..N : b = scored[q]
    BY <1>6, <2>2
  <2>4. q \notin 1..M
    BY <1>7, <1>8, <2>3 DEF Range, M
  <2>5. p < q
    BY <1>2, <1>8, <2>4
  <2> QED
    BY <1>8, <1>10, <2>1, <2>3, <2>5
<1>13. \A p, q \in DOMAIN shown : p < q => Score(shown[p], c) >= Score(shown[q], c)
  BY <1>7, <1>8, <1>10 DEF M
<1> QED
  BY <1>1, <1>7, <1>11, <1>12, <1>13 DEF N

\* The best images that may be used are shown, as many as the setting allows.
THEOREM ShortlistsAreBest == IntakeSpec => []ShortlistBest
<1>1. IntakeInv => ShortlistBest
  <2> SUFFICES ASSUME IntakeInv, pool # Pending, pool.kind = "pool" PROVE ShortlistBest
    BY DEF ShortlistBest
  <2> DEFINE items == given.gallery.items
             n == given.vision
             c == TaskContext
             fit == Eligible(items)
             shown == BuildShortlist(items, c, n)
  <2>1. /\ given.gallery.kind = "page" /\ pool.shortlist = shown /\ given.gallery # Pending
    BY DEF IntakeInv, GalleryResult, FetchGalleryPool, WellFormed, IsGalleryReply, Asked
  <2>2. /\ IsList(items) /\ n \in Int
        /\ \A i \in DOMAIN items :
             \A words \in {items[i].tags, items[i].description, items[i].subject, items[i].mood} :
               IsFiniteSet(words)
    BY <2>1 DEF IntakeInv, WellFormed, IsGalleryReply
  <2> HIDE DEF items, n, c
  <2>3. /\ fit \in Seq(Range(items)) /\ shown \in Seq(Range(items))
        /\ Range(shown) \subseteq Range(fit)
        /\ n >= 0 => Len(shown) = IF n <= Len(fit) THEN n ELSE Len(fit)
        /\ \A a \in Range(shown), b \in Range(fit) \ Range(shown) : Score(a, c) >= Score(b, c)
        /\ \A p, q \in DOMAIN shown : p < q => Score(shown[p], c) >= Score(shown[q], c)
    BY <2>2, ShortlistFacts
  <2> HIDE DEF fit, shown
  <2>4. n >= 0 => Min({n, Len(fit)}) = IF n <= Len(fit) THEN n ELSE Len(fit)
    BY <2>2, <2>3 DEF Min
  <2> QED
    BY <2>1, <2>3, <2>4 DEF ShortlistBest, items, n, c, fit
<1> QED
  BY <1>1, IntakeInvariant, PTL

-----------------------------------------------------------------------------
(* Sub-jobs: what an expansion makes of a list of items.                   *)

LEMMA CopiesFacts ==
  ASSUME NEW item
  PROVE  /\ item.key = "junk" => Copies(item) = 0
         /\ item.key # "junk" /\ (item.quantity = NoNumber \/ item.quantity \in Int) =>
              Copies(item) \in 1..MaxQuantity
         /\ item.key # "junk" /\ item.quantity = 2 => Copies(item) = 1
<1>1. ASSUME NEW q \in Int PROVE Truncate(q) \in Int
  BY <1>1 DEF Truncate
<1>2. ASSUME NEW t \in Int
      PROVE  /\ Min({MaxQuantity, Max({1, t})}) \in 1..MaxQuantity
             /\ t = 1 => Min({MaxQuantity, Max({1, t})}) = 1
  <2>1. MaxQuantity \in Nat \ {0}
    BY JobsAssumption
  <2>2. Max({1, t}) = IF t >= 1 THEN t ELSE 1
    BY DEF Max
  <2>3. \A m \in Int : Min({MaxQuantity, m}) = IF MaxQuantity <= m THEN MaxQuantity ELSE m
    BY <2>1 DEF Min
  <2>4. Max({1, t}) \in Int
    BY <2>2
  <2>5. Min({MaxQuantity, Max({1, t})})
          = IF MaxQuantity <= Max({1, t}) THEN MaxQuantity ELSE Max({1, t})
    BY <2>3, <2>4
  <2> QED
    BY <2>1, <2>2, <2>5
<1>3. Truncate(2) = 1
  BY DEF Truncate
<1>4. item.quantity = NoNumber => Quantity(item.quantity) = 1
  BY DEF Quantity
<1>5. item.quantity \in Int => Quantity(item.quantity) \in 1..MaxQuantity
  <2>1. MaxQuantity \in Nat \ {0}
    BY JobsAssumption
  <2> QED
    BY <1>1, <1>2, <2>1 DEF Quantity
<1>6. item.quantity = 2 => Quantity(item.quantity) = 1
  <2>1. Min({MaxQuantity, Max({1, Truncate(2)})}) = 1
    BY <1>2, <1>3
  <2> QED
    BY <2>1 DEF Quantity
<1>7. 1 \in 1..MaxQuantity
  BY JobsAssumption
<1> QED
  BY <1>4, <1>5, <1>6, <1>7 DEF Copies

LEMMA ExpandedFacts ==
  ASSUME NEW items, NEW n \in Nat, DOMAIN items = 1..n,
         \A i \in 1..n : Copies(items[i]) \in 0..MaxQuantity,
         NEW pairs, pairs = Expanded(items)
  PROVE  /\ IsFiniteSet(pairs) /\ Orders(ItemByItem(pairs), pairs)
         /\ \A p \in pairs : p = <<p[1], p[2]>> /\ p[1] \in 1..n /\ p[2] \in 1..Copies(items[p[1]])
         /\ \A i \in 1..n : \A k \in 1..Copies(items[i]) : <<i, k>> \in pairs
         /\ \A p, q \in pairs : <<p, q>> \in ItemByItem(pairs) <=>
              p[1] < q[1] \/ (p[1] = q[1] /\ p[2] < q[2])
<1>1. /\ \A p \in pairs : p = <<p[1], p[2]>> /\ p[1] \in 1..n /\ p[2] \in 1..Copies(items[p[1]])
      /\ \A i \in 1..n : \A k \in 1..Copies(items[i]) : <<i, k>> \in pairs
  BY DEF Expanded
<1>2. IsFiniteSet(pairs)
  <2>1. IsFiniteSet(1..n) /\ IsFiniteSet(1..MaxQuantity)
    BY JobsAssumption, IntervalFacts
  <2>2. IsFiniteSet((1..n) \X (1..MaxQuantity))
    BY <2>1, FS_Product
  <2>3. pairs \in SUBSET ((1..n) \X (1..MaxQuantity))
    <3> SUFFICES ASSUME NEW p \in pairs PROVE p \in (1..n) \X (1..MaxQuantity)
      OBVIOUS
    <3>1. Copies(items[p[1]]) \in 0..MaxQuantity /\ p[2] \in 1..Copies(items[p[1]])
      BY <1>1
    <3>2. p[2] \in 1..MaxQuantity
      BY <3>1, JobsAssumption
    <3> QED
      BY <1>1, <3>2
  <2> QED
    BY <2>2, <2>3, FS_Subset
<1>3. \A p, q \in pairs : <<p, q>> \in ItemByItem(pairs) <=>
         p[1] < q[1] \/ (p[1] = q[1] /\ p[2] < q[2])
  BY DEF ItemByItem
<1>4. \A p \in pairs : p[1] \in Int /\ p[2] \in Int
  BY <1>1
<1>5. Orders(ItemByItem(pairs), pairs)
  <2>1. \A p \in pairs : <<p, p>> \notin ItemByItem(pairs)
    BY <1>3, <1>4
  <2>2. \A p, q \in pairs : p # q => <<p, q>> \in ItemByItem(pairs) \/ <<q, p>> \in ItemByItem(pairs)
    <3> SUFFICES ASSUME NEW p \in pairs, NEW q \in pairs, p # q
                 PROVE  <<p, q>> \in ItemByItem(pairs) \/ <<q, p>> \in ItemByItem(pairs)
      OBVIOUS
    <3>1. p[1] # q[1] \/ p[2] # q[2]
      BY <1>1
    <3> QED
      BY <1>3, <1>4, <3>1
  <2>3. \A p, q, r \in pairs : <<p, q>> \in ItemByItem(pairs) /\ <<q, r>> \in ItemByItem(pairs)
                                 => <<p, r>> \in ItemByItem(pairs)
    BY <1>3, <1>4
  <2> QED
    BY <2>1, <2>2, <2>3 DEF Orders
<1> QED
  BY <1>1, <1>2, <1>3, <1>5

\* The sub-jobs are numbered from 0, and each copy of each item is one of them.
LEMMA ExtractFacts ==
  ASSUME NEW items, NEW n \in Nat, DOMAIN items = 1..n,
         \A i \in 1..n : Copies(items[i]) \in 0..MaxQuantity
  PROVE  \E N \in Nat :
         \E at \in [1..N -> Expanded(items)] :
           /\ Extract(items) \in Seq(Range(Extract(items))) /\ DOMAIN Extract(items) = 1..N
           /\ \A p \in 1..N : Extract(items)[p] = [key |-> ActionKey(items[at[p][1]].key),
                                                   from |-> items[at[p][1]].from, index |-> p - 1]
           /\ \A x \in Expanded(items) : \E p \in 1..N : at[p] = x
           /\ \A p, q \in 1..N : at[p] = at[q] => p = q
           /\ \A p \in 1..N :
                Cardinality(Before(Expanded(items), ItemByItem(Expanded(items)), at[p])) = p - 1
<1> DEFINE pairs == Expanded(items)
           at == InOrder(pairs, ItemByItem(pairs))
           N == Cardinality(pairs)
           jobs == [p \in DOMAIN at |-> [key |-> ActionKey(items[at[p][1]].key),
                                         from |-> items[at[p][1]].from, index |-> p - 1]]
<1>1. Extract(items) = jobs
  BY DEF Extract
<1>2. IsFiniteSet(pairs) /\ Orders(ItemByItem(pairs), pairs)
  BY ExpandedFacts
<1> HIDE DEF pairs
<1>3. N \in Nat
  BY <1>2, FS_CardinalityType
<1>4. /\ at \in [1..N -> pairs]
      /\ \A p \in 1..N : Cardinality(Before(pairs, ItemByItem(pairs), at[p])) = p - 1
      /\ \A x \in pairs : \E p \in 1..N : at[p] = x
      /\ \A p, q \in 1..N : p < q <=> <<at[p], at[q]>> \in ItemByItem(pairs)
      /\ \A p, q \in 1..N : at[p] = at[q] => p = q
  BY <1>2, InOrderFacts
<1> HIDE DEF at, N
<1>5. /\ DOMAIN jobs = 1..N
      /\ \A p \in 1..N : jobs[p] = [key |-> ActionKey(items[at[p][1]].key),
                                    from |-> items[at[p][1]].from, index |-> p - 1]
  BY <1>4
<1> HIDE DEF jobs
<1>6. jobs \in Seq(Range(jobs))
  <2>1. jobs = [p \in 1..N |-> jobs[p]] /\ \A p \in 1..N : jobs[p] \in Range(jobs)
    BY <1>5 DEF jobs, Range
  <2> QED
    BY <1>3, <2>1
<1>7. /\ Extract(items) \in Seq(Range(Extract(items))) /\ DOMAIN Extract(items) = 1..N
      /\ \A p \in 1..N : Extract(items)[p] = [key |-> ActionKey(items[at[p][1]].key),
                                              from |-> items[at[p][1]].from, index |-> p - 1]
  BY <1>1, <1>5, <1>6
<1>8. /\ \A x \in pairs : \E p \in 1..N : at[p] = x
      /\ \A p, q \in 1..N : at[p] = at[q] => p = q
      /\ \A p \in 1..N : Cardinality(Before(pairs, ItemByItem(pairs), at[p])) = p - 1
  BY <1>4
<1>9. at \in [1..N -> pairs]
  BY <1>4
<1> QED
  BY <1>3, <1>7, <1>8, <1>9, Zenon DEF pairs

\* The items of a request that does not overflow.
LEMMA ItemsFacts ==
  ASSUME NEW request, IsList(request), ~Overflows(request),
         \A i \in DOMAIN request :
           request[i].quantity \in {NoNumber, Infinite} \/ request[i].quantity \in Int
  PROVE  /\ DOMAIN Items(request) = 1..Len(request) /\ Len(request) \in Nat
         /\ DOMAIN request = 1..Len(request)
         /\ \A i \in 1..Len(request) :
              /\ Items(request)[i].from = i /\ Items(request)[i].key = request[i].key
              /\ Copies(Items(request)[i]) \in
                   IF request[i].key = "junk" THEN {0} ELSE 1..MaxQuantity
              /\ Copies(Items(request)[i]) \in 0..MaxQuantity
<1>1. DOMAIN request = 1..Len(request) /\ Len(request) \in Nat
  BY DEF IsList
<1>2. ASSUME NEW i \in 1..Len(request), NEW item, item = Items(request)[i]
      PROVE  /\ item.from = i /\ item.key = request[i].key
             /\ Copies(item) \in IF request[i].key = "junk" THEN {0} ELSE 1..MaxQuantity
             /\ Copies(item) \in 0..MaxQuantity
  <2>1. item.from = i /\ item.key = request[i].key /\ item.quantity = request[i].quantity
    BY <1>1, <1>2 DEF Items
  <2>2. item.key # "junk" => item.quantity = NoNumber \/ item.quantity \in Int
    BY <1>1, <2>1 DEF Overflows
  <2>3. /\ item.key = "junk" => Copies(item) = 0
        /\ item.key # "junk" => Copies(item) \in 1..MaxQuantity
    BY <2>2, CopiesFacts
  <2> QED
    BY <2>1, <2>3, JobsAssumption
<1> QED
  BY <1>1, <1>2 DEF Items

\* Each item has as many sub-jobs as copies.
LEMMA CopiesMade ==
  ASSUME NEW request, IsList(request), ~Overflows(request),
         \A i \in DOMAIN request :
           request[i].quantity \in {NoNumber, Infinite} \/ request[i].quantity \in Int,
         NEW i \in DOMAIN request, NEW all, all = AllJobs(request)
  PROVE  /\ Cardinality({p \in DOMAIN all : all[p].from = i}) = Copies(Items(request)[i])
         /\ IsFiniteSet(DOMAIN all) /\ all \in Seq(Range(all))
<1> DEFINE items == Items(request)
           n == Len(request)
           P == {p \in DOMAIN all : all[p].from = i}
           K == 1..Copies(items[i])
<1>1. /\ n \in Nat /\ DOMAIN items = 1..n /\ i \in 1..n
      /\ \A j \in 1..n : items[j].from = j /\ Copies(items[j]) \in 0..MaxQuantity
  BY ItemsFacts
<1> HIDE DEF items, n
<1>2. all = Extract(items)
  BY DEF AllJobs, items
<1>3. \A j \in 1..n : Copies(items[j]) \in 0..MaxQuantity
  BY <1>1
<1>4. PICK N \in Nat :
        \E at \in [1..N -> Expanded(items)] :
          /\ Extract(items) \in Seq(Range(Extract(items))) /\ DOMAIN Extract(items) = 1..N
          /\ \A p \in 1..N : Extract(items)[p] = [key |-> ActionKey(items[at[p][1]].key),
                                       from |-> items[at[p][1]].from, index |-> p - 1]
          /\ \A x \in Expanded(items) : \E p \in 1..N : at[p] = x
          /\ \A p, q \in 1..N : at[p] = at[q] => p = q
          /\ \A p \in 1..N :
                Cardinality(Before(Expanded(items), ItemByItem(Expanded(items)), at[p])) = p - 1
  BY <1>1, <1>3, ExtractFacts
<1>5. PICK at \in [1..N -> Expanded(items)] :
        /\ Extract(items) \in Seq(Range(Extract(items))) /\ DOMAIN Extract(items) = 1..N
        /\ \A p \in 1..N : Extract(items)[p] = [key |-> ActionKey(items[at[p][1]].key),
                                                from |-> items[at[p][1]].from, index |-> p - 1]
        /\ \A x \in Expanded(items) : \E p \in 1..N : at[p] = x
        /\ \A p, q \in 1..N : at[p] = at[q] => p = q
  BY <1>4
<1>6. /\ all \in Seq(Range(all)) /\ DOMAIN all = 1..N
      /\ \A p \in 1..N : all[p] = [key |-> ActionKey(items[at[p][1]].key),
                                   from |-> items[at[p][1]].from, index |-> p - 1]
      /\ \A x \in Expanded(items) : \E p \in 1..N : at[p] = x
      /\ \A p, q \in 1..N : at[p] = at[q] => p = q
  BY <1>2, <1>5
<1>7. /\ \A x \in Expanded(items) : x = <<x[1], x[2]>> /\ x[1] \in 1..n /\ x[2] \in 1..Copies(items[x[1]])
      /\ \A j \in 1..n : \A k \in 1..Copies(items[j]) : <<j, k>> \in Expanded(items)
  BY <1>1, ExpandedFacts
<1>8. \A p \in 1..N : all[p].from = at[p][1]
  <2> SUFFICES ASSUME NEW p \in 1..N PROVE all[p].from = at[p][1]
    OBVIOUS
  <2>1. at[p][1] \in 1..n
    BY <1>7
  <2>2. all[p].from = items[at[p][1]].from
    BY <1>6
  <2> QED
    BY <1>1, <2>1, <2>2
<1>9. IsFiniteSet(1..N)
  BY IntervalFacts
<1>10. P \in SUBSET (1..N) /\ IsFiniteSet(P)
  <2>1. P \in SUBSET (1..N)
    BY <1>6
  <2> QED
    BY <1>9, <2>1, FS_Subset
<1> DEFINE f == [p \in P |-> at[p][2]]
<1>11. \A p \in 1..N : p \in P <=> at[p][1] = i
  BY <1>6, <1>8
<1> HIDE DEF P
<1>12. f \in [P -> K]
  <2> SUFFICES ASSUME NEW p \in P PROVE at[p][2] \in K
    OBVIOUS
  <2>1. at[p] \in Expanded(items) /\ at[p][1] = i
    BY <1>6, <1>10, <1>11
  <2> QED
    BY <1>7, <2>1
<1>13. \A p, q \in P : f[p] = f[q] => p = q
  <2> SUFFICES ASSUME NEW p \in P, NEW q \in P, at[p][2] = at[q][2] PROVE p = q
    OBVIOUS
  <2>1. at[p] = at[q]
    <3>1. /\ p \in 1..N /\ q \in 1..N /\ at[p] \in Expanded(items) /\ at[q] \in Expanded(items)
          /\ at[p][1] = i /\ at[q][1] = i
      BY <1>6, <1>10, <1>11
    <3>2. at[p] = <<at[p][1], at[p][2]>> /\ at[q] = <<at[q][1], at[q][2]>>
      BY <1>7, <3>1
    <3> QED
      BY <3>1, <3>2
  <2> QED
    BY <1>6, <1>10, <2>1
<1>14. \A k \in K : \E p \in P : f[p] = k
  <2> SUFFICES ASSUME NEW k \in K PROVE \E p \in P : at[p][2] = k
    OBVIOUS
  <2>1. PICK p \in 1..N : at[p] = <<i, k>>
    BY <1>1, <1>6, <1>7
  <2> QED
    BY <1>11, <2>1
<1> HIDE DEF f, K
<1>15. Cardinality(K) = Cardinality(P)
  BY <1>10, <1>12, <1>13, <1>14, SameSize
<1>16. Cardinality(K) = Copies(items[i])
  <2> DEFINE count == Copies(items[i])
  <2>1. count \in Nat
    BY <1>1
  <2> HIDE DEF count
  <2>2. Cardinality(1..count) = count
    BY <2>1, IntervalFacts
  <2> QED
    BY <2>2 DEF K, count
<1> QED
  BY <1>6, <1>9, <1>15, <1>16 DEF P, items

\* The places of the sub-jobs of an item; a choice of sub-jobs keeps their number.
From(jobs, i) == {p \in DOMAIN jobs : jobs[p].from = i}

LEMMA ChosenCount ==
  ASSUME NEW all, all \in Seq(Range(all)), NEW I \in SUBSET DOMAIN all, NEW i
  PROVE  /\ IsFiniteSet(From(all, i) \intersect I)
         /\ Cardinality(From(Picked(all, I), i)) = Cardinality(From(all, i) \intersect I)
<1> DEFINE W == {job \in Range(all) : job.from = i}
<1>1. Having(all, I, W) = From(all, i) \intersect I
  BY DEF Having, From, Range
<1>2. Having(Picked(all, I), DOMAIN Picked(all, I), W) = From(Picked(all, I), i)
  <2>1. Picked(all, I) \in Seq(Range(all))
    BY PickedFacts
  <2> QED
    BY <2>1 DEF Having, From
<1> HIDE DEF W
<1>3. /\ IsFiniteSet(Having(all, I, W))
      /\ Cardinality(Having(Picked(all, I), DOMAIN Picked(all, I), W)) = Cardinality(Having(all, I, W))
  BY PickedCount
<1> QED
  BY <1>1, <1>2, <1>3

\* The two batches hold every copy of every item, once.
THEOREM SplitsAreComplete == IntakeSpec => []SplitComplete
<1>1. IntakeInv => SplitComplete
  <2> DEFINE request == envelope.jobs
             all == AllJobs(request)
  <2> SUFFICES ASSUME IntakeInv, batches # Pending, NEW i \in DOMAIN request
               PROVE  /\ Cardinality(From(batches.llm, i)) + Cardinality(From(batches.pass, i))
                           = Cardinality(From(all, i))
                      /\ Cardinality(From(all, i))
                           \in IF request[i].key = "junk" THEN {0} ELSE 1..MaxQuantity
    BY DEF SplitComplete, From
  <2> DEFINE L == {p \in DOMAIN all : IsLlm(all[p])}
             P == {p \in DOMAIN all : IsPassthrough(all[p])}
             C == From(all, i)
  <2>1. /\ IsList(request) /\ ~Overflows(request)
        /\ \A k \in DOMAIN request :
             request[k].quantity \in {NoNumber, Infinite} \/ request[k].quantity \in Int
    BY DEF IntakeInv, WellFormed, envelope
  <2>2. batches.llm = Picked(all, L) /\ batches.pass = Picked(all, P)
    BY DEF IntakeInv, FirstLlmJobs, PassthroughJobs
  <2>3. L \in SUBSET DOMAIN all /\ P \in SUBSET DOMAIN all /\ L \intersect P = {}
        /\ L \union P = DOMAIN all
    BY DEF IsLlm, IsPassthrough
  <2> HIDE DEF L, P
  <2>4. C \subseteq DOMAIN all
    BY DEF From
  <2>5. Cardinality(C) = Copies(Items(request)[i]) /\ all \in Seq(Range(all))
    <3> HIDE DEF request
    <3> QED
      BY <2>1, CopiesMade DEF From
  <2>6. Copies(Items(request)[i]) \in IF request[i].key = "junk" THEN {0} ELSE 1..MaxQuantity
    <3> HIDE DEF request
    <3>1. i \in 1..Len(request)
      BY <2>1, ItemsFacts
    <3> QED
      BY <2>1, <3>1, ItemsFacts
  <2> HIDE DEF all, request
  <2>7. IsFiniteSet(C \intersect L) /\ Cardinality(From(batches.llm, i)) = Cardinality(C \intersect L)
    BY <2>2, <2>3, <2>5, ChosenCount
  <2>8. IsFiniteSet(C \intersect P) /\ Cardinality(From(batches.pass, i)) = Cardinality(C \intersect P)
    BY <2>2, <2>3, <2>5, ChosenCount
  <2> HIDE DEF C
  <2>9. Cardinality(C) = Cardinality(C \intersect L) + Cardinality(C \intersect P)
    <3> DEFINE A == C \intersect L  B == C \intersect P
    <3>1. A \union B = C /\ A \intersect B = {}
      BY <2>3, <2>4
    <3> HIDE DEF A, B
    <3>2. Cardinality(A \union B) = Cardinality(A) + Cardinality(B) - Cardinality(A \intersect B)
      BY <2>7, <2>8, FS_Union DEF A, B
    <3>3. Cardinality({}) = 0 /\ Cardinality(A) \in Nat /\ Cardinality(B) \in Nat
      BY <2>7, <2>8, FS_EmptySet, FS_CardinalityType DEF A, B
    <3>4. Cardinality(A \union B) = Cardinality(C) /\ Cardinality(A \intersect B) = 0
      BY <3>1, <3>3, Zenon
    <3>5. Cardinality(C) = Cardinality(A) + Cardinality(B)
      BY <3>2, <3>3, <3>4
    <3> QED
      BY <3>5 DEF A, B
  <2> QED
    BY <2>5, <2>6, <2>7, <2>8, <2>9 DEF C
<1> QED
  BY <1>1, IntakeInvariant, PTL

\* The index of a sub-job is its place in the first expansion, whatever batch it goes to.
LEMMA IndexFacts ==
  ASSUME NEW request, IsList(request), ~Overflows(request),
         \A i \in DOMAIN request :
           request[i].quantity \in {NoNumber, Infinite} \/ request[i].quantity \in Int,
         NEW all, all = AllJobs(request)
  PROVE  all \in Seq(Range(all)) /\ \A p \in DOMAIN all : all[p].index = p - 1
<1> DEFINE items == Items(request)
           n == Len(request)
<1>1. /\ n \in Nat /\ DOMAIN items = 1..n
      /\ \A j \in 1..n : items[j].from = j /\ Copies(items[j]) \in 0..MaxQuantity
  BY ItemsFacts
<1> HIDE DEF items, n
<1>2. all = Extract(items)
  BY DEF AllJobs, items
<1>3. \A j \in 1..n : Copies(items[j]) \in 0..MaxQuantity
  BY <1>1
<1>4. \E N \in Nat :
        \E at \in [1..N -> Expanded(items)] :
          /\ Extract(items) \in Seq(Range(Extract(items))) /\ DOMAIN Extract(items) = 1..N
          /\ \A p \in 1..N : Extract(items)[p] = [key |-> ActionKey(items[at[p][1]].key),
                                                  from |-> items[at[p][1]].from, index |-> p - 1]
          /\ \A x \in Expanded(items) : \E p \in 1..N : at[p] = x
          /\ \A p, q \in 1..N : at[p] = at[q] => p = q
          /\ \A p \in 1..N :
               Cardinality(Before(Expanded(items), ItemByItem(Expanded(items)), at[p])) = p - 1
  BY <1>1, <1>3, ExtractFacts
<1>5. /\ Extract(items) \in Seq(Range(Extract(items)))
      /\ \A p \in DOMAIN Extract(items) : Extract(items)[p].index = p - 1
  BY <1>4
<1> QED
  BY <1>2, <1>5

LEMMA DistinctIndices ==
  ASSUME NEW all, all \in Seq(Range(all)), \A p \in DOMAIN all : all[p].index = p - 1,
         NEW I \in SUBSET DOMAIN all
  PROVE  \A p, q \in DOMAIN Picked(all, I) :
           Picked(all, I)[p].index = Picked(all, I)[q].index => p = q
<1> DEFINE N == Cardinality(I)  part == Picked(all, I)
<1>1. N \in Nat /\ DOMAIN part = 1..N
  BY PickedFacts
<1>2. \A p, q \in 1..N : p < q => \E i, k \in I : part[p] = all[i] /\ part[q] = all[k] /\ i < k
  BY PickedOrder
<1>3. DOMAIN all \subseteq Int
  OBVIOUS
<1> HIDE DEF N, part
<1>4. ASSUME NEW p \in 1..N, NEW q \in 1..N, p < q PROVE part[p].index # part[q].index
  <2>1. PICK i \in I, k \in I : part[p] = all[i] /\ part[q] = all[k] /\ i < k
    BY <1>2, <1>4
  <2>2. i \in Int /\ k \in Int /\ all[i].index = i - 1 /\ all[k].index = k - 1
    BY <1>3
  <2> QED
    BY <2>1, <2>2
<1>5. \A p, q \in 1..N : part[p].index = part[q].index => p = q
  <2> SUFFICES ASSUME NEW p \in 1..N, NEW q \in 1..N, part[p].index = part[q].index PROVE p = q
    OBVIOUS
  <2>1. ~(p < q) /\ ~(q < p)
    BY <1>4
  <2> QED
    BY <1>1, <2>1
<1> QED
  BY <1>1, <1>5 DEF part

\* Expanded a second time, each LLM job is in the same place again.
LEMMA SecondPassFacts ==
  ASSUME NEW llm, IsList(llm), \A p \in DOMAIN llm : llm[p].key \in LlmKeys,
         NEW jobs, jobs = Extract(LlmEnvelope(llm))
  PROVE  /\ DOMAIN jobs = DOMAIN llm /\ Len(jobs) = Len(llm)
         /\ \A p \in DOMAIN llm :
              jobs[p] = [key |-> llm[p].key, from |-> llm[p].from, index |-> p - 1]
<1> DEFINE items == LlmEnvelope(llm)
           n == Len(llm)
           pairs == Expanded(items)
<1>1. n \in Nat /\ DOMAIN llm = 1..n /\ DOMAIN items = 1..n
  BY DEF IsList, LlmEnvelope
<1>2. \A i \in 1..n : /\ items[i].key = llm[i].key /\ items[i].from = llm[i].from
                      /\ items[i].quantity = 2 /\ items[i].key # "junk"
                      /\ ActionKey(items[i].key) = llm[i].key
  BY <1>1 DEF LlmEnvelope, LlmKeys, ActionKey
<1> HIDE DEF items, n
<1>3. \A i \in 1..n : Copies(items[i]) = 1 /\ Copies(items[i]) \in 0..MaxQuantity
  <2>1. \A i \in 1..n : Copies(items[i]) = 1
    BY <1>2, CopiesFacts
  <2> QED
    BY <2>1, JobsAssumption
<1>4. /\ \A x \in pairs : x = <<x[1], x[2]>> /\ x[1] \in 1..n /\ x[2] \in 1..Copies(items[x[1]])
      /\ \A i \in 1..n : \A k \in 1..Copies(items[i]) : <<i, k>> \in pairs
      /\ \A x, y \in pairs : <<x, y>> \in ItemByItem(pairs) <=>
           x[1] < y[1] \/ (x[1] = y[1] /\ x[2] < y[2])
  BY <1>1, <1>3, ExpandedFacts
<1>5. /\ \A x \in pairs : x = <<x[1], 1>> /\ x[1] \in 1..n
      /\ \A i \in 1..n : <<i, 1>> \in pairs
  <2>1. \A x \in pairs : x[2] = 1
    BY <1>3, <1>4
  <2> QED
    BY <1>3, <1>4, <2>1
<1>6. PICK N \in Nat :
        \E at \in [1..N -> Expanded(items)] :
          /\ Extract(items) \in Seq(Range(Extract(items))) /\ DOMAIN Extract(items) = 1..N
          /\ \A p \in 1..N : Extract(items)[p] = [key |-> ActionKey(items[at[p][1]].key),
                                                  from |-> items[at[p][1]].from, index |-> p - 1]
          /\ \A x \in Expanded(items) : \E p \in 1..N : at[p] = x
          /\ \A p, q \in 1..N : at[p] = at[q] => p = q
          /\ \A p \in 1..N :
               Cardinality(Before(Expanded(items), ItemByItem(Expanded(items)), at[p])) = p - 1
  <2>1. \A i \in 1..n : Copies(items[i]) \in 0..MaxQuantity
    BY <1>3
  <2> QED
    BY <1>1, <2>1, ExtractFacts
<1>7. PICK at \in [1..N -> Expanded(items)] :
        /\ Extract(items) \in Seq(Range(Extract(items))) /\ DOMAIN Extract(items) = 1..N
        /\ \A p \in 1..N : Extract(items)[p] = [key |-> ActionKey(items[at[p][1]].key),
                                                from |-> items[at[p][1]].from, index |-> p - 1]
        /\ \A x \in Expanded(items) : \E p \in 1..N : at[p] = x
        /\ \A p \in 1..N :
             Cardinality(Before(Expanded(items), ItemByItem(Expanded(items)), at[p])) = p - 1
  BY <1>6
<1> HIDE DEF pairs
<1>8. ASSUME NEW k \in 1..n PROVE Cardinality(Before(pairs, ItemByItem(pairs), <<k, 1>>)) = k - 1
  <2> DEFINE B == Before(pairs, ItemByItem(pairs), <<k, 1>>)
             f == [m \in 1..(k - 1) |-> <<m, 1>>]
  <2>1. \A x : x \in B <=> x \in pairs /\ x[1] < k
    <3>1. <<k, 1>> \in pairs /\ <<k, 1>>[1] = k /\ <<k, 1>>[2] = 1
      BY <1>5
    <3>2. \A x \in pairs : x[2] = 1
      BY <1>5
    <3>3. \A x \in pairs : <<x, <<k, 1>>>> \in ItemByItem(pairs) <=> x[1] < k
      BY <1>4, <3>1, <3>2
    <3> QED
      BY <3>3 DEF Before
  <2> HIDE DEF B
  <2>2. f \in [1..(k - 1) -> B]
    <3> SUFFICES ASSUME NEW m \in 1..(k - 1) PROVE <<m, 1>> \in B
      OBVIOUS
    <3>1. m \in 1..n /\ m < k /\ <<m, 1>>[1] = m
      BY <1>1
    <3> QED
      BY <1>5, <2>1, <3>1
  <2>3. \A x, y \in 1..(k - 1) : f[x] = f[y] => x = y
    OBVIOUS
  <2>4. \A z \in B : \E m \in 1..(k - 1) : f[m] = z
    <3> SUFFICES ASSUME NEW z \in B PROVE \E m \in 1..(k - 1) : f[m] = z
      OBVIOUS
    <3>1. z = <<z[1], 1>> /\ z[1] \in 1..n /\ z[1] < k
      BY <1>5, <2>1
    <3>2. z[1] \in 1..(k - 1)
      BY <1>1, <3>1
    <3> QED
      BY <3>1, <3>2
  <2>5. IsFiniteSet(1..(k - 1)) /\ Cardinality(1..(k - 1)) = k - 1
    BY FS_Interval
  <2> HIDE DEF f
  <2>6. Cardinality(B) = Cardinality(1..(k - 1))
    BY <2>2, <2>3, <2>4, <2>5, SameSize
  <2> QED
    BY <2>5, <2>6 DEF B
<1>9. ASSUME NEW p \in 1..N PROVE at[p] = <<p, 1>> /\ p \in 1..n
  <2>1. PICK k \in 1..n : at[p] = <<k, 1>>
    BY <1>5, <1>7 DEF pairs
  <2>2. k - 1 = p - 1
    BY <1>7, <1>8, <2>1 DEF pairs
  <2> QED
    BY <2>1, <2>2
<1>10. ASSUME NEW k \in 1..n PROVE k \in 1..N
  <2>1. PICK p \in 1..N : at[p] = <<k, 1>>
    BY <1>5, <1>7 DEF pairs
  <2>2. <<p, 1>> = <<k, 1>>
    BY <1>9, <2>1
  <2> QED
    BY <2>2
<1>11. 1..N = 1..n
  BY <1>9, <1>10
<1>12. jobs = Extract(items)
  BY DEF items
<1>13. DOMAIN jobs = 1..n /\ Len(jobs) = n
  <2>1. jobs \in Seq(Range(jobs)) /\ DOMAIN jobs = 1..n
    BY <1>7, <1>11, <1>12
  <2>2. DOMAIN jobs = 1..Len(jobs) /\ Len(jobs) \in Nat
    BY <2>1
  <2> QED
    BY <1>1, <2>1, <2>2
<1>14. \A p \in 1..n : jobs[p] = [key |-> llm[p].key, from |-> llm[p].from, index |-> p - 1]
  <2> SUFFICES ASSUME NEW p \in 1..n
               PROVE  jobs[p] = [key |-> llm[p].key, from |-> llm[p].from, index |-> p - 1]
    OBVIOUS
  <2>1. p \in 1..N /\ at[p] = <<p, 1>> /\ at[p][1] = p
    <3>1. p \in 1..N
      BY <1>10
    <3>2. at[p] = <<p, 1>>
      BY <1>9, <3>1
    <3> QED
      BY <3>1, <3>2
  <2>2. jobs[p] = [key |-> ActionKey(items[p].key), from |-> items[p].from, index |-> p - 1]
    BY <1>7, <1>12, <2>1
  <2> QED
    BY <1>2, <2>2
<1> QED
  BY <1>1, <1>13, <1>14 DEF n

\* What normalize finds in the second envelope are the LLM jobs, in their places, and a
\* batch has no index twice.
THEOREM SecondPassesAreFaithful == IntakeSpec => []SecondPassFaithful
<1>1. IntakeInv => SecondPassFaithful
  <2> DEFINE request == envelope.jobs
             all == AllJobs(request)
             llm == FirstLlmJobs(request)
             pass == PassthroughJobs(request)
             jobs == Extract(LlmEnvelope(llm))
             L == {p \in DOMAIN all : IsLlm(all[p])}
             P == {p \in DOMAIN all : IsPassthrough(all[p])}
  <2> SUFFICES ASSUME IntakeInv, stage = "ready", batches # Pending PROVE SecondPassFaithful
    BY DEF SecondPassFaithful
  <2>1. /\ IsList(request) /\ ~Overflows(request)
        /\ \A k \in DOMAIN request :
             request[k].quantity \in {NoNumber, Infinite} \/ request[k].quantity \in Int
    BY DEF IntakeInv, WellFormed, envelope
  <2>2. batches.llm = llm /\ batches.pass = pass /\ context.jobs = jobs
    BY DEF IntakeInv, Normal, Normalized, SecondPass
  <2>3. llm = Picked(all, L) /\ pass = Picked(all, P)
    BY DEF FirstLlmJobs, PassthroughJobs
  <2>4. L \in SUBSET DOMAIN all /\ P \in SUBSET DOMAIN all /\ \A p \in L : all[p].key \in LlmKeys
    BY DEF IsLlm
  <2> HIDE DEF request, all, llm, pass, L, P
  <2>5. all \in Seq(Range(all)) /\ \A p \in DOMAIN all : all[p].index = p - 1
    BY <2>1, IndexFacts DEF all
  <2>6. IsList(llm) /\ \A p \in DOMAIN llm : llm[p].key \in LlmKeys
    <3>1. llm \in Seq(Range(all)) /\ ToSet(llm) = {all[p] : p \in L}
      <4>1. Picked(all, L) \in Seq(Range(all))
        BY <2>4, <2>5, PickedFacts
      <4>2. ToSet(Picked(all, L)) = {all[p] : p \in L}
        BY <2>4, <2>5, PickedElements
      <4> QED
        BY <2>3, <4>1, <4>2
    <3>2. IsList(llm)
      BY <3>1 DEF IsList, Range
    <3>3. \A p \in DOMAIN llm : llm[p] \in ToSet(llm)
      BY DEF ToSet
    <3> QED
      BY <2>4, <3>1, <3>2, <3>3
  <2>7. /\ DOMAIN jobs = DOMAIN llm /\ Len(jobs) = Len(llm)
        /\ \A p \in DOMAIN llm :
             jobs[p] = [key |-> llm[p].key, from |-> llm[p].from, index |-> p - 1]
    BY <2>6, SecondPassFacts
  <2> HIDE DEF jobs
  <2>8. DOMAIN llm \subseteq Int
    BY <2>6 DEF IsList
  <2>9. ASSUME NEW p \in DOMAIN jobs, NEW q \in DOMAIN jobs, jobs[p].index = jobs[q].index
        PROVE  p = q
    BY <2>7, <2>8, <2>9
  <2>10. ASSUME NEW p \in DOMAIN pass, NEW q \in DOMAIN pass, pass[p].index = pass[q].index
         PROVE  p = q
    BY <2>3, <2>4, <2>5, <2>10, DistinctIndices
  <2> QED
    BY <2>2, <2>7, <2>9, <2>10 DEF SecondPassFaithful
<1> QED
  BY <1>1, IntakeInvariant, PTL

-----------------------------------------------------------------------------
(* The images of the envelope.                                             *)

UrlsOf(gallery) == {gallery[i].url : i \in DOMAIN gallery}
AcceptableUrls(raws) == {raw.url : raw \in {r \in raws : Acceptable(r)}}
AttachmentsOf(urls) == {Attachment(u) : u \in urls}
Mentioned(gates, attachments, material, images) ==
  Range(gates) \union AttachmentsOf(Range(attachments)) \union Range(material) \union Range(images)
Untagged(raws) == {t.raw : t \in ToSet(raws)}
Labelled(raws, role) == {[raw |-> raw, role |-> role] : raw \in raws}

\* Each acceptable url has one representative.
LEMMA RepresentativeFacts ==
  ASSUME NEW X, NEW raws \in Seq(X)
  PROVE  /\ \A i, j \in DOMAIN raws :
              Representative(raws, i) /\ Representative(raws, j)
                /\ raws[i].raw.url = raws[j].raw.url => i = j
         /\ \A i \in DOMAIN raws : Acceptable(raws[i].raw) =>
              \E j \in DOMAIN raws : Representative(raws, j) /\ raws[j].raw.url = raws[i].raw.url
<1>1. DOMAIN raws = 1..Len(raws) /\ Len(raws) \in Nat
  OBVIOUS
<1>2. ASSUME NEW i \in DOMAIN raws, NEW j \in DOMAIN raws,
             Representative(raws, i), Representative(raws, j), raws[i].raw.url = raws[j].raw.url
      PROVE  i = j
  <2>1. ~(i \in 1..(j - 1)) /\ ~(j \in 1..(i - 1))
    BY <1>2 DEF Representative
  <2>2. i \in Nat /\ j \in Nat /\ i >= 1 /\ j >= 1
    BY <1>1
  <2> QED
    BY <2>1, <2>2
<1>3. ASSUME NEW i \in DOMAIN raws, Acceptable(raws[i].raw)
      PROVE  \E j \in DOMAIN raws : Representative(raws, j) /\ raws[j].raw.url = raws[i].raw.url
  <2> DEFINE J == {j \in DOMAIN raws : Acceptable(raws[j].raw) /\ raws[j].raw.url = raws[i].raw.url}
  <2>1. J \in SUBSET (1..Len(raws)) /\ J # {}
    BY <1>1, <1>3
  <2>2. PICK j \in J : \A k \in J : j <= k
    <3> HIDE DEF J
    <3> QED
      BY <1>1, <2>1, FirstPosition
  <2>3. \A k \in 1..(j - 1) : k \in DOMAIN raws /\ k \notin J
    BY <1>1, <2>2
  <2>4. Representative(raws, j)
    BY <2>2, <2>3 DEF Representative
  <2> QED
    BY <2>2, <2>4
<1> QED
  BY <1>2, <1>3

LEMMA SanitizedFacts ==
  ASSUME NEW X, NEW raws \in Seq(X), NEW s, s = SanitizeGallery(raws)
  PROVE  /\ Cardinality(UrlsOf(s.gallery)) = Len(s.gallery)
         /\ Len(s.gallery) <= MaxGalleryItems
         /\ UrlsOf(s.gallery) \subseteq AcceptableUrls(Untagged(raws))
         /\ s.truncated => Len(s.gallery) = MaxGalleryItems
         /\ ~s.truncated => UrlsOf(s.gallery) = AcceptableUrls(Untagged(raws))
         /\ Len(s.gallery) + s.rejected <= s.raw_count
<1> DEFINE I == {i \in DOMAIN raws : Representative(raws, i)}
           R == {i \in DOMAIN raws : ~Acceptable(raws[i].raw)}
           items == [i \in DOMAIN raws |-> GalleryItem(raws[i])]
           Y == Range(items)
           accepted == Picked(items, I)
           gallery == FirstOf(accepted, MaxGalleryItems)
           N == Cardinality(I)
           all == AcceptableUrls(Untagged(raws))
<1>1. /\ s.gallery = gallery /\ s.raw_count = Len(raws) /\ s.rejected = Cardinality(R)
      /\ s.truncated <=> Len(accepted) > MaxGalleryItems
  BY DEF SanitizeGallery
<1>2. DOMAIN raws = 1..Len(raws) /\ Len(raws) \in Nat
  OBVIOUS
<1>3. /\ items \in Seq(Y) /\ I \in SUBSET DOMAIN items /\ R \in SUBSET DOMAIN raws
      /\ I \in SUBSET DOMAIN raws /\ DOMAIN items = DOMAIN raws
  BY <1>2 DEF Range
<1>4. \A i \in DOMAIN raws : items[i].url = raws[i].raw.url
  BY DEF GalleryItem
<1>5. \A i \in I, j \in I : items[i].url = items[j].url => i = j
  BY <1>4, RepresentativeFacts
<1>6. all = {items[i].url : i \in I}
  <2>1. ASSUME NEW i \in I PROVE items[i].url \in all
    <3>1. i \in DOMAIN raws /\ Acceptable(raws[i].raw)
      BY DEF Representative
    <3> QED
      BY <3>1, <1>4 DEF AcceptableUrls, Untagged, ToSet
  <2>2. ASSUME NEW u \in all PROVE u \in {items[i].url : i \in I}
    <3>1. PICK i \in DOMAIN raws : Acceptable(raws[i].raw) /\ u = raws[i].raw.url
      BY DEF AcceptableUrls, Untagged, ToSet
    <3>2. PICK j \in DOMAIN raws : Representative(raws, j) /\ raws[j].raw.url = raws[i].raw.url
      BY <3>1, RepresentativeFacts
    <3> QED
      BY <3>1, <3>2, <1>4
  <2> QED
    BY <2>1, <2>2
<1>7. I \intersect R = {}
  BY DEF Representative
<1> HIDE DEF I, R, items, all, Y
<1>8. /\ IsFiniteSet(I) /\ N \in Nat /\ accepted \in Seq(Y) /\ Len(accepted) = N
      /\ DOMAIN accepted = 1..N /\ ToSet(accepted) = {items[i] : i \in I}
  <2>1. /\ IsFiniteSet(I) /\ Cardinality(I) \in Nat
        /\ Picked(items, I) \in Seq(Y) /\ Len(Picked(items, I)) = Cardinality(I)
        /\ DOMAIN Picked(items, I) = 1..Cardinality(I)
    BY <1>3, PickedFacts
  <2>2. ToSet(Picked(items, I)) = {items[i] : i \in I}
    BY <1>3, PickedElements
  <2> QED
    BY <2>1, <2>2
<1>9. \A m, n \in 1..N : m < n =>
        \E i, j \in I : accepted[m] = items[i] /\ accepted[n] = items[j] /\ i < j
  BY <1>3, PickedOrder
<1> HIDE DEF accepted, N, gallery
<1>10. /\ gallery \in Seq(Y) /\ Len(gallery) \in 0..N
       /\ Len(gallery) = IF MaxGalleryItems <= N THEN MaxGalleryItems ELSE N
       /\ \A n \in 1..Len(gallery) : gallery[n] = accepted[n]
  <2>1. MaxGalleryItems \in Nat
    BY ImagesAssumption
  <2> QED
    BY <1>8, <2>1, FirstOfFacts DEF gallery
<1> DEFINE M == Len(gallery)
<1>11. M \in Nat /\ M <= N /\ DOMAIN gallery = 1..M /\ \A n \in 1..M : n \in 1..N
  BY <1>8, <1>10
<1>12. \A n \in 1..M : \E i \in I : gallery[n] = items[i]
  BY <1>8, <1>10, <1>11 DEF ToSet, M
<1> HIDE DEF M
<1>13. Cardinality(UrlsOf(gallery)) = M
  <2> DEFINE S == 1..M
             T == UrlsOf(gallery)
             f == [n \in S |-> gallery[n].url]
  <2>1. IsFiniteSet(S) /\ Cardinality(S) = M
    BY <1>11, IntervalFacts
  <2>2. f \in [S -> T] /\ \A z \in T : \E x \in S : f[x] = z
    BY <1>11 DEF UrlsOf
  <2>3. \A x, y \in S : f[x] = f[y] => x = y
    <3>1. ASSUME NEW x \in S, NEW y \in S, x < y PROVE f[x] # f[y]
      <4>1. PICK i \in I, j \in I : gallery[x] = items[i] /\ gallery[y] = items[j] /\ i < j
        BY <1>9, <1>10, <1>11, <3>1 DEF M
      <4> QED
        BY <1>3, <1>5, <4>1
    <3> QED
      BY <1>11, <3>1
  <2> HIDE DEF f, S, T
  <2>4. Cardinality(T) = Cardinality(S)
    BY <2>1, <2>2, <2>3, SameSize
  <2> QED
    BY <2>1, <2>4 DEF T
<1>14. UrlsOf(gallery) \subseteq all
  BY <1>6, <1>11, <1>12 DEF UrlsOf
<1>15. M = N => all \subseteq UrlsOf(gallery)
  <2> SUFFICES ASSUME M = N, NEW i \in I PROVE items[i].url \in UrlsOf(gallery)
    BY <1>6
  <2>1. PICK n \in 1..N : accepted[n] = items[i]
    BY <1>8 DEF ToSet
  <2>2. gallery[n] = items[i] /\ n \in DOMAIN gallery
    BY <1>10, <1>11, <2>1 DEF M
  <2> QED
    BY <2>2 DEF UrlsOf
<1>16. N + Cardinality(R) <= Len(raws) /\ Cardinality(R) \in Nat
  <2>1. IsFiniteSet(1..Len(raws)) /\ Cardinality(1..Len(raws)) = Len(raws)
    BY <1>2, IntervalFacts
  <2>2. IsFiniteSet(R) /\ Cardinality(R) \in Nat
    BY <1>2, <1>3, <2>1, FS_Subset, FS_CardinalityType
  <2>3. Cardinality(I \union R) = Cardinality(I) + Cardinality(R) - Cardinality(I \intersect R)
    BY <1>8, <2>2, FS_Union
  <2>4. Cardinality(I \intersect R) = 0
    BY <1>7, FS_EmptySet
  <2>5. I \union R \in SUBSET (1..Len(raws))
    BY <1>2, <1>3
  <2>6. Cardinality(I \union R) <= Cardinality(1..Len(raws))
    BY <2>1, <2>5, FS_Subset
  <2> QED
    BY <1>2, <1>8, <2>1, <2>2, <2>3, <2>4, <2>6 DEF N
<1>17. s.gallery = gallery /\ Len(s.gallery) = M
  BY <1>1 DEF M, gallery, accepted, I, items
<1>18. MaxGalleryItems \in Nat /\ (s.truncated <=> N > MaxGalleryItems)
  BY <1>1, <1>8, ImagesAssumption DEF accepted, I, items
<1>19. M = IF MaxGalleryItems <= N THEN MaxGalleryItems ELSE N
  BY <1>10 DEF M
<1> QED
  <2>1. Len(s.gallery) <= MaxGalleryItems /\ (s.truncated => Len(s.gallery) = MaxGalleryItems)
    BY <1>8, <1>17, <1>18, <1>19
  <2>2. ~s.truncated => M = N
    BY <1>8, <1>18, <1>19
  <2>3. Len(s.gallery) + s.rejected <= s.raw_count
    BY <1>1, <1>2, <1>8, <1>11, <1>16, <1>17 DEF R
  <2> QED
    BY <1>13, <1>14, <1>15, <1>17, <2>1, <2>2, <2>3 DEF all

LEMMA TaggedFacts ==
  ASSUME NEW raws, IsList(raws), NEW role, NEW X, \A raw \in Range(raws) : [raw |-> raw, role |-> role] \in X
  PROVE  /\ Tagged(raws, role) \in Seq(X)
         /\ ToSet(Tagged(raws, role)) = Labelled(Range(raws), role)
<1>1. raws \in Seq(Range(raws))
  BY DEF IsList
<1>2. Len(raws) \in Nat /\ DOMAIN raws = 1..Len(raws)
  BY <1>1
<1> QED
  BY <1>2 DEF Tagged, Labelled, ToSet, Range

LEMMA CollectedFacts ==
  ASSUME NEW gates, NEW attachments, NEW material, NEW images,
         IsList(gates), IsList(attachments), IsList(material), IsList(images)
  PROVE  /\ \E X : Collected(gates, attachments, material, images) \in Seq(X)
         /\ Untagged(Collected(gates, attachments, material, images))
              = Mentioned(gates, attachments, material, images)
<1> DEFINE all == Mentioned(gates, attachments, material, images)
           X == [raw : all, role : {"content", "unknown", "brand_asset"}]
           attached == [i \in DOMAIN attachments |-> Attachment(attachments[i])]
           a == Tagged(gates, "content")
           b == Tagged(attached, "unknown")
           c == Tagged(material, "brand_asset")
           d == Tagged(images, "unknown")
<1>1. IsList(attached) /\ Range(attached) = AttachmentsOf(Range(attachments))
  <2>1. attachments \in Seq(Range(attachments))
    BY DEF IsList
  <2>2. Len(attachments) \in Nat /\ DOMAIN attachments = 1..Len(attachments)
    BY <2>1
  <2>3. attached \in Seq(Range(attached))
    BY <2>2 DEF Range
  <2> QED
    BY <2>3 DEF Range, IsList, AttachmentsOf
<1> HIDE DEF attached
<1>2. /\ \A raw \in Range(gates) : [raw |-> raw, role |-> "content"] \in X
      /\ \A raw \in Range(attached) : [raw |-> raw, role |-> "unknown"] \in X
      /\ \A raw \in Range(material) : [raw |-> raw, role |-> "brand_asset"] \in X
      /\ \A raw \in Range(images) : [raw |-> raw, role |-> "unknown"] \in X
  BY <1>1 DEF Mentioned
<1> HIDE DEF X
<1>3. a \in Seq(X) /\ ToSet(a) = Labelled(Range(gates), "content")
  BY <1>2, TaggedFacts
<1>4. b \in Seq(X) /\ ToSet(b) = Labelled(Range(attached), "unknown")
  BY <1>1, <1>2, TaggedFacts
<1>5. c \in Seq(X) /\ ToSet(c) = Labelled(Range(material), "brand_asset")
  BY <1>2, TaggedFacts
<1>6. d \in Seq(X) /\ ToSet(d) = Labelled(Range(images), "unknown")
  BY <1>2, TaggedFacts
<1> HIDE DEF a, b, c, d
<1> DEFINE ab == a \o b
           abc == ab \o c
           e == abc \o d
<1>7. ab \in Seq(X) /\ ToSet(ab) = ToSet(a) \union ToSet(b)
  BY <1>3, <1>4, ConcatElements
<1> HIDE DEF ab
<1>8. abc \in Seq(X) /\ ToSet(abc) = ToSet(a) \union ToSet(b) \union ToSet(c)
  BY <1>5, <1>7, ConcatElements
<1> HIDE DEF abc
<1>9. /\ e \in Seq(X)
      /\ ToSet(e) = ToSet(a) \union ToSet(b) \union ToSet(c) \union ToSet(d)
  BY <1>6, <1>8, ConcatElements
<1>10. Collected(gates, attachments, material, images) = e
  BY DEF Collected, a, b, c, d, attached, ab, abc
<1> HIDE DEF e
<1>11. ToSet(e) = Labelled(Range(gates), "content")
                   \union Labelled(Range(attached), "unknown")
                   \union Labelled(Range(material), "brand_asset")
                   \union Labelled(Range(images), "unknown")
  BY <1>3, <1>4, <1>5, <1>6, <1>9
<1>12. Untagged(e) = all
  <2>1. ASSUME NEW S, NEW role PROVE {t.raw : t \in Labelled(S, role)} = S
    <3>1. \A x \in S : [raw |-> x, role |-> role] \in Labelled(S, role)
                         /\ [raw |-> x, role |-> role].raw = x
      BY DEF Labelled
    <3>2. \A t \in Labelled(S, role) : t.raw \in S
      BY DEF Labelled
    <3> QED
      BY <3>1, <3>2
  <2>2. Untagged(e) = {t.raw : t \in Labelled(Range(gates), "content")}
                       \union {t.raw : t \in Labelled(Range(attached), "unknown")}
                       \union {t.raw : t \in Labelled(Range(material), "brand_asset")}
                       \union {t.raw : t \in Labelled(Range(images), "unknown")}
    BY <1>11 DEF Untagged
  <2> QED
    BY <1>1, <2>1, <2>2 DEF Mentioned
<1> QED
  BY <1>9, <1>10, <1>12 DEF X

\* The gallery of a task has each acceptable url once, up to the cap, and its counts say
\* what became of the others.
THEOREM GalleriesAreAccounted == IntakeSpec => []GalleryAccounted
<1>1. IntakeInv => GalleryAccounted
  <2> SUFFICES ASSUME IntakeInv, stage = "ready" PROVE GalleryAccounted
    BY DEF GalleryAccounted
  <2> DEFINE slot == At(Ungated, BrandMaterial)
             material == IF slot = Absent THEN <<>> ELSE slot
             raws == Collected(envelope.gates, envelope.attachments, material, envelope.images)
             s == SanitizeGallery(raws)
             all == Mentioned(envelope.gates, envelope.attachments, material, envelope.images)
  <2>1. context.images = s
    BY DEF IntakeInv, Normal, Normalized, RawImages
  <2>2. /\ IsList(envelope.gates) /\ IsList(envelope.attachments) /\ IsList(envelope.images)
        /\ slot # Absent => IsList(slot)
    BY DEF IntakeInv, WellFormed, envelope, Ungated
  <2>3. IsList(<<>>)
    BY DEF IsList
  <2>4. IsList(material)
    BY <2>2, <2>3
  <2>5. Range(material) = IF slot = Absent THEN {} ELSE Range(Ungated[BrandMaterial])
    <3>1. slot # Absent => slot = Ungated[BrandMaterial]
      BY DEF At
    <3>2. Range(<<>>) = {}
      BY DEF Range
    <3> QED
      BY <3>1, <3>2
  <2>6. all = Range(envelope.gates) \union Range(envelope.images)
              \union {Attachment(u) : u \in Range(envelope.attachments)}
              \union (IF slot = Absent THEN {} ELSE Range(Ungated[BrandMaterial]))
    BY <2>5 DEF AttachmentsOf, Mentioned
  <2> HIDE DEF material, slot
  <2>7. (\E X : raws \in Seq(X)) /\ Untagged(raws) = all
    BY <2>2, <2>4, CollectedFacts
  <2> HIDE DEF raws, all
  <2>8. /\ Cardinality(UrlsOf(s.gallery)) = Len(s.gallery)
        /\ Len(s.gallery) <= MaxGalleryItems
        /\ UrlsOf(s.gallery) \subseteq AcceptableUrls(all)
        /\ s.truncated => Len(s.gallery) = MaxGalleryItems
        /\ ~s.truncated => UrlsOf(s.gallery) = AcceptableUrls(all)
        /\ Len(s.gallery) + s.rejected <= s.raw_count
    BY <2>7, SanitizedFacts
  <2> QED
    BY <2>1, <2>6, <2>8 DEF GalleryAccounted, UrlsOf, AcceptableUrls, slot
<1> QED
  BY <1>1, IntakeInvariant, PTL

-----------------------------------------------------------------------------
(* The brief with the user profile over it.                                *)

LEMMA OrFacts ==
  ASSUME NEW t, NEW u
  PROVE  /\ u # Absent => Or(t, u) # Absent
         /\ t # Absent => Or(t, u) = t
         /\ Or(Absent, u) = u
  BY DEF Or

LEMMA Tables ==
  /\ DOMAIN Sources = {"business_name", "category", "country", "business_description",
                       "target_customer", "value_proposition", "tone",
                       "communication_language", "website_url", "brief_background"}
  /\ DOMAIN TextOverrides = {"business_name", "category", "country", "business_description",
                             "target_customer", "website_url", "tone", "communication_language"}
  /\ DOMAIN TokenOverrides = {"font_style", "design_style", "post_content_style",
                              "communication_style"}
  /\ ChannelKinds = {"instagram_profile", "facebook", "tiktok", "linkedin", "phone", "email",
                     "website", "dm", "link_sticker"}
  /\ DOMAIN ChannelOverrides = {"website", "instagram_profile", "facebook", "tiktok", "linkedin",
                                "phone", "email"}
  /\ DOMAIN ExtraOverrides = {"subcategory", "product_services", "store_type", "location",
                              "logo_url"}
<1>1. DOMAIN Sources = {"business_name", "category", "country", "business_description",
                        "target_customer", "value_proposition", "tone",
                        "communication_language", "website_url", "brief_background"}
  BY DEF Sources
<1>2. /\ DOMAIN TextOverrides = {"business_name", "category", "country", "business_description",
                                 "target_customer", "website_url", "tone",
                                 "communication_language"}
      /\ DOMAIN TokenOverrides = {"font_style", "design_style", "post_content_style",
                                  "communication_style"}
  BY DEF TextOverrides, TokenOverrides
<1>3. ChannelKinds = {"instagram_profile", "facebook", "tiktok", "linkedin", "phone", "email",
                      "website", "dm", "link_sticker"}
  BY DEF ChannelKinds, ChannelSlots, Always
<1>4. DOMAIN ChannelOverrides = {"website", "instagram_profile", "facebook", "tiktok", "linkedin",
                                 "phone", "email"}
  BY DEF ChannelOverrides
<1>5. DOMAIN ExtraOverrides = {"subcategory", "product_services", "store_type", "location",
                               "logo_url"}
  BY DEF ExtraOverrides
<1> QED
  BY <1>1, <1>2, <1>3, <1>4, <1>5

LEMMA OverrideFacts ==
  ASSUME NEW old, NEW table, NEW identity
  PROVE  /\ DOMAIN Override(old, table, identity) = DOMAIN old
         /\ \A k \in DOMAIN old : old[k] # Absent => Override(old, table, identity)[k] # Absent
         /\ \A k \in DOMAIN old \intersect DOMAIN table :
              Override(old, table, identity)[k] = Or(Clean(At(identity, table[k])), old[k])
         /\ \A k \in DOMAIN old \ DOMAIN table : Override(old, table, identity)[k] = old[k]
  BY DEF Override, Or

\* The texts of a table all reach what they override.
LEMMA OverrideKeeps ==
  ASSUME NEW old, NEW table, NEW identity, DOMAIN table \subseteq DOMAIN old,
         NEW k \in DOMAIN table, table[k] \in DOMAIN identity
  PROVE  Clean(identity[table[k]]) \in Values(Override(old, table, identity)) \union {Absent}
<1> DEFINE v == Clean(identity[table[k]])
<1>1. Override(old, table, identity)[k] = Or(v, old[k]) /\ k \in DOMAIN Override(old, table, identity)
  BY OverrideFacts DEF At
<1>2. v # Absent => Override(old, table, identity)[k] = v
  BY <1>1 DEF Or
<1> QED
  BY <1>1, <1>2 DEF Values

LEMMA OfferedFacts ==
  ASSUME NEW all
  PROVE  /\ \A k : k \in DOMAIN Offered(all) <=> k \in DOMAIN all /\ (k \in Always \/ all[k] # Absent)
         /\ \A k \in DOMAIN Offered(all) : Offered(all)[k] = all[k]
         /\ Values(Offered(all)) = Values(all)
  BY DEF Offered, Values

LEMMA ExtendedFacts ==
  ASSUME NEW extras, NEW identity, NEW k \in DOMAIN ExtraOverrides,
         ExtraOverrides[k] \in DOMAIN identity
  PROVE  Clean(identity[ExtraOverrides[k]]) \in Values(Extended(extras, identity)) \union {Absent}
<1> DEFINE v == identity[ExtraOverrides[k]]
           e == Extended(extras, identity)
<1>1. Clean(v) # Absent => v # Absent /\ Clean(v) = v
  BY DEF Clean
<1>2. Clean(v) # Absent => k \in DOMAIN e /\ e[k] = v
  BY DEF Extended, At
<1> QED
  BY <1>1, <1>2 DEF Values

\* What a brief, its tokens and its channels say twice.
Agree(brief, tokens, channels) ==
  /\ DOMAIN brief.texts = DOMAIN Sources
  /\ DOMAIN channels \subseteq ChannelKinds
  /\ "website" \in DOMAIN channels <=> brief.texts.website_url # Absent
  /\ "website" \in DOMAIN channels => channels.website = brief.texts.website_url
  /\ tokens.palette \subseteq brief.colors

LEMMA FlatAgrees ==
  ASSUME NEW doc, NEW flat, flat = Flatten(doc)
  PROVE  Agree(flat, BrandTokens(doc, flat), AvailableChannels(doc, flat))
<1> DEFINE channels == AvailableChannels(doc, flat)
           all == [k \in ChannelKinds |->
                     CASE k = "website" -> flat.texts.website_url
                       [] k \in Always -> Absent
                       [] OTHER -> Clean(FirstTrue(doc, ChannelSlots[k]))]
<1>1. flat.texts = FlatTexts(doc) /\ flat.colors = Colors(doc)
  BY DEF Flatten
<1>2. DOMAIN flat.texts = DOMAIN Sources
  BY <1>1 DEF FlatTexts
<1>3. channels = Offered(all)
  BY DEF AvailableChannels
<1>4. DOMAIN all = ChannelKinds /\ "website" \in ChannelKinds /\ "website" \notin Always
  BY Tables DEF Always
<1>5. all["website"] = flat.texts.website_url
  BY <1>4
<1> HIDE DEF all
<1>6. /\ DOMAIN channels \subseteq ChannelKinds
      /\ "website" \in DOMAIN channels <=> flat.texts.website_url # Absent
      /\ "website" \in DOMAIN channels => channels.website = flat.texts.website_url
  BY <1>3, <1>4, <1>5, OfferedFacts
<1>7. BrandTokens(doc, flat).palette \subseteq flat.colors
  <2> SUFFICES ASSUME NEW c \in Listed(doc, FormColors), c \in DOMAIN HexIn
               PROVE  c \in Colors(doc)
    BY <1>1 DEF BrandTokens
  <2>1. c # Absent /\ Clean(c) = c
    BY BriefAssumption DEF Clean
  <2> QED
    BY <2>1 DEF Colors, Cleaned
<1> QED
  BY <1>2, <1>6, <1>7 DEF Agree

LEMMA EmptyAgrees == Agree(EmptyFlat, NoTokens, NoChannels)
<1>1. DOMAIN EmptyFlat.texts = DOMAIN Sources
  BY DEF EmptyFlat
<1>2. EmptyFlat.texts.website_url = Absent
  BY Tables DEF EmptyFlat
<1>3. DOMAIN NoChannels = {} /\ NoTokens.palette = {}
  BY DEF NoChannels, NoTokens
<1> QED
  BY <1>1, <1>2, <1>3 DEF Agree

\* The overrides of the website are the same, and so are those of the colours.
LEMMA MergeAgrees ==
  ASSUME NEW brief, NEW tokens, NEW channels, NEW identity, Agree(brief, tokens, channels)
  PROVE  Agree(MergedFlat(brief, identity), MergedTokens(tokens, identity),
               MergedChannels(channels, identity))
<1> DEFINE texts == Override(brief.texts, TextOverrides, identity)
           known == [k \in ChannelKinds |-> IF k \in DOMAIN channels THEN channels[k] ELSE Absent]
           all == Override(known, ChannelOverrides, identity)
           slot == <<"company", "websiteUrl">>
<1>1. /\ MergedFlat(brief, identity).texts = texts
      /\ MergedFlat(brief, identity).colors = OrSet(ProfileColors(identity), brief.colors)
      /\ MergedTokens(tokens, identity).palette = OrSet(ProfileColors(identity), tokens.palette)
      /\ MergedChannels(channels, identity) = Offered(all)
  BY DEF MergedFlat, MergedTokens, MergedChannels
<1>2. TextOverrides["website_url"] = slot /\ ChannelOverrides["website"] = slot
  BY DEF TextOverrides, ChannelOverrides
<1>3. /\ "website_url" \in DOMAIN brief.texts \intersect DOMAIN TextOverrides
      /\ "website" \in ChannelKinds \intersect DOMAIN ChannelOverrides
      /\ "website" \notin Always /\ DOMAIN known = ChannelKinds
  BY Tables DEF Agree, Always
<1>4. known["website"] = brief.texts["website_url"]
  BY <1>3 DEF Agree
<1> HIDE DEF known, slot
<1>5. DOMAIN texts = DOMAIN Sources /\ DOMAIN all = ChannelKinds
  BY <1>3, OverrideFacts DEF Agree
<1>6. texts["website_url"] = Or(Clean(At(identity, slot)), brief.texts["website_url"])
  BY <1>2, <1>3, OverrideFacts
<1>7. all["website"] = Or(Clean(At(identity, slot)), known["website"])
  BY <1>2, <1>3, OverrideFacts
<1> HIDE DEF texts, all
<1>8. /\ DOMAIN Offered(all) \subseteq ChannelKinds
      /\ "website" \in DOMAIN Offered(all) <=> texts["website_url"] # Absent
      /\ "website" \in DOMAIN Offered(all) => Offered(all)["website"] = texts["website_url"]
  BY <1>3, <1>4, <1>5, <1>6, <1>7, OfferedFacts
<1>9. OrSet(ProfileColors(identity), tokens.palette) \subseteq OrSet(ProfileColors(identity), brief.colors)
  BY DEF OrSet, Agree
<1> QED
  BY <1>1, <1>5, <1>8, <1>9 DEF Agree

LEMMA FactsAgree ==
  ASSUME NEW flat, NEW channels, NEW doc, DOMAIN channels \subseteq ChannelKinds,
         NEW facts, facts = BriefFacts(flat, channels, doc)
  PROVE  /\ facts.hex_colors = flat.colors
         /\ Values(channels) \intersect Http \subseteq facts.urls
         /\ \A url \in facts.urls :
              \/ url \in Values(channels)
              \/ \E t \in Searched(flat, doc) \intersect DOMAIN Mentions : url \in Mentions[t].urls
         /\ \A k \in {"phone", "email"} \intersect DOMAIN channels :
              channels[k] \in facts.phones \union facts.emails
<1> DEFINE Found(kind) == UNION {Mentions[t][kind] : t \in Searched(flat, doc) \intersect DOMAIN Mentions}
           Of(kinds) == {channels[k] : k \in kinds \intersect DOMAIN channels}
<1>1. /\ facts.urls = (Of(ChannelKinds) \intersect Http) \union Found("urls")
      /\ facts.phones = Of({"phone"}) \union Found("phones")
      /\ facts.emails = Of({"email"}) \union Found("emails")
      /\ facts.hex_colors = flat.colors
  BY DEF BriefFacts
<1>2. Of(ChannelKinds) \intersect Http = Values(channels) \intersect Http
  BY BriefAssumption DEF Values
<1>3. \A url \in Found("urls") :
         \E t \in Searched(flat, doc) \intersect DOMAIN Mentions : url \in Mentions[t].urls
  OBVIOUS
<1>4. \A k \in {"phone", "email"} \intersect DOMAIN channels : channels[k] \in Of({k})
  OBVIOUS
<1> HIDE DEF Found, Of
<1> QED
  BY <1>1, <1>2, <1>3, <1>4

\* The brief that is merged: that of the envelope, or an empty one.
Given(base) == IF IsDocument(BriefData) THEN base.brief ELSE EmptyFlat

LEMMA BaseFacts ==
  ASSUME NEW base, base = FromBrief
  PROVE  /\ Agree(Given(base), base.tokens, base.channels)
         /\ IsDocument(BriefData) =>
              base.facts = BriefFacts(base.brief, base.channels, Document(BriefData))
         /\ ~IsDocument(BriefData) => base.brief = NoBrief
<1>1. CASE IsDocument(BriefData)
  <2> DEFINE flat == Flatten(BriefData)
             channels == AvailableChannels(BriefData, flat)
  <2>1. /\ base.brief = flat /\ base.tokens = BrandTokens(BriefData, flat)
        /\ base.channels = channels /\ base.facts = BriefFacts(flat, channels, BriefData)
    BY <1>1 DEF FromBrief
  <2>2. Agree(flat, BrandTokens(BriefData, flat), channels)
    BY FlatAgrees
  <2>3. Document(BriefData) = BriefData
    BY <1>1 DEF Document
  <2> QED
    BY <1>1, <2>1, <2>2, <2>3 DEF Given
<1>2. CASE ~IsDocument(BriefData)
  <2>1. base.brief = NoBrief /\ base.tokens = NoTokens /\ base.channels = NoChannels
    BY <1>2 DEF FromBrief
  <2> QED
    BY <1>2, <2>1, EmptyAgrees DEF Given
<1> QED
  BY <1>1, <1>2

LEMMA MergedFacts ==
  ASSUME NEW base, base = FromBrief, NEW merged, merged = ApplyUserProfile(base)
  PROVE  /\ merged.facts = BriefFacts(merged.brief, merged.channels, Document(BriefData))
         /\ profile.identity = NoIdentity =>
              /\ merged.brief = Given(base)
              /\ merged.tokens = base.tokens /\ merged.channels = base.channels
         /\ profile.identity # NoIdentity =>
              /\ merged.brief = MergedFlat(Given(base), profile.identity)
              /\ merged.tokens = MergedTokens(base.tokens, profile.identity)
              /\ merged.channels = MergedChannels(base.channels, profile.identity)
<1> DEFINE m == IF profile.identity = NoIdentity THEN [base EXCEPT !.brief = Given(base)]
                ELSE [brief |-> MergedFlat(Given(base), profile.identity),
                      tokens |-> MergedTokens(base.tokens, profile.identity),
                      channels |-> MergedChannels(base.channels, profile.identity),
                      facts |-> base.facts]
<1>1. merged = [m EXCEPT !.facts = FactsOf(base, m)]
  BY DEF ApplyUserProfile, Given
<1>2. DOMAIN base = {"brief", "tokens", "channels", "facts"}
  BY DEF FromBrief
<1>3. /\ DOMAIN m = {"brief", "tokens", "channels", "facts"}
      /\ profile.identity = NoIdentity =>
           /\ m.brief = Given(base)
           /\ m.tokens = base.tokens /\ m.channels = base.channels
      /\ profile.identity # NoIdentity =>
           /\ m.brief = MergedFlat(Given(base), profile.identity)
           /\ m.tokens = MergedTokens(base.tokens, profile.identity)
           /\ m.channels = MergedChannels(base.channels, profile.identity)
  BY <1>2
<1> HIDE DEF m
<1>4. /\ merged.facts = FactsOf(base, m) /\ merged.brief = m.brief
      /\ merged.tokens = m.tokens /\ merged.channels = m.channels
  BY <1>1, <1>3
<1> QED
  BY <1>3, <1>4 DEF FactsOf

LEMMA ContextFacts ==
  ASSUME IntakeInv, stage = "ready",
         NEW c, c = IF profile.kind = "profile" THEN ApplyUserProfile(FromBrief) ELSE FromBrief
  PROVE  /\ context.base = FromBrief
         /\ context.brief = c.brief /\ context.tokens = c.tokens
         /\ context.channels = c.channels /\ context.facts = c.facts
<1>1. context = Normalized
  BY DEF IntakeInv, Normal
<1> QED
  BY <1>1 DEF Normalized

\* What a context says in several places it says the same in all of them, after the
\* merge as before it.
THEOREM CopiesDoAgree == IntakeSpec => []CopiesAgree
<1>1. IntakeInv => CopiesAgree
  <2> SUFFICES ASSUME IntakeInv, stage = "ready", context.brief # NoBrief PROVE CopiesAgree
    BY DEF CopiesAgree
  <2> DEFINE base == FromBrief
             c == IF profile.kind = "profile" THEN ApplyUserProfile(base) ELSE base
  <2>1. /\ context.brief = c.brief /\ context.tokens = c.tokens
        /\ context.channels = c.channels /\ context.facts = c.facts
    BY ContextFacts
  <2>2. /\ Agree(Given(base), base.tokens, base.channels)
        /\ IsDocument(BriefData) =>
             base.facts = BriefFacts(base.brief, base.channels, Document(BriefData))
        /\ ~IsDocument(BriefData) => base.brief = NoBrief
    BY BaseFacts
  <2> HIDE DEF base
  <2>3. /\ Agree(c.brief, c.tokens, c.channels)
        /\ c.facts = BriefFacts(c.brief, c.channels, Document(BriefData))
    <3>1. CASE profile.kind = "profile"
      <4>1. c = ApplyUserProfile(base)
        BY <3>1
      <4>2. /\ c.facts = BriefFacts(c.brief, c.channels, Document(BriefData))
            /\ profile.identity = NoIdentity =>
                 /\ c.brief = Given(base)
                 /\ c.tokens = base.tokens /\ c.channels = base.channels
            /\ profile.identity # NoIdentity =>
                 /\ c.brief = MergedFlat(Given(base), profile.identity)
                 /\ c.tokens = MergedTokens(base.tokens, profile.identity)
                 /\ c.channels = MergedChannels(base.channels, profile.identity)
        BY <4>1, MergedFacts DEF base
      <4> QED
        BY <2>2, <4>2, MergeAgrees
    <3>2. CASE profile.kind # "profile"
      <4>1. c = base /\ IsDocument(BriefData)
        BY <2>1, <2>2, <3>2
      <4> QED
        BY <2>2, <4>1 DEF Given
    <3> QED
      BY <3>1, <3>2
  <2> HIDE DEF c
  <2>4. Agree(context.brief, context.tokens, context.channels)
    BY <2>1, <2>3
  <2>5. context.facts = BriefFacts(context.brief, context.channels, Document(BriefData))
    BY <2>1, <2>3
  <2>6. DOMAIN context.channels \subseteq ChannelKinds
    BY <2>4 DEF Agree
  <2>7. /\ context.facts.hex_colors = context.brief.colors
        /\ Values(context.channels) \intersect Http \subseteq context.facts.urls
        /\ \A url \in context.facts.urls :
             \/ url \in Values(context.channels)
             \/ \E t \in Searched(context.brief, Document(BriefData)) \intersect DOMAIN Mentions :
                  url \in Mentions[t].urls
        /\ \A k \in {"phone", "email"} \intersect DOMAIN context.channels :
             context.channels[k] \in context.facts.phones \union context.facts.emails
    BY <2>5, <2>6, FactsAgree
  <2> QED
    BY <2>4, <2>7 DEF CopiesAgree, Agree
<1> QED
  BY <1>1, IntakeInvariant, PTL

\* What a merge keeps of the identity, and of the brief.
LEMMA IdentityKept ==
  ASSUME NEW brief, NEW tokens, NEW channels, NEW identity, DOMAIN identity \subseteq Queried,
         DOMAIN brief.texts = DOMAIN Sources,
         DOMAIN tokens.texts = DOMAIN TokenOverrides,
         NEW b, b = MergedFlat(brief, identity), NEW t, t = MergedTokens(tokens, identity),
         NEW c, c = MergedChannels(channels, identity),
         NEW slot \in DOMAIN identity
             \ {<<"brand", "colors">>, <<"brand", "keywords">>, <<"brand", "hasMaterial">>}
  PROVE  Clean(identity[slot])
           \in Values(b.texts) \union Values(t.texts) \union Values(c) \union Values(b.extras)
               \union {Absent}
<1> DEFINE known == [k \in ChannelKinds |-> IF k \in DOMAIN channels THEN channels[k] ELSE Absent]
<1>1. /\ b.texts = Override(brief.texts, TextOverrides, identity)
      /\ t.texts = Override(tokens.texts, TokenOverrides, identity)
      /\ c = Offered(Override(known, ChannelOverrides, identity))
      /\ b.extras = Extended(brief.extras, identity)
  BY DEF MergedFlat, MergedTokens, MergedChannels
<1>2. Values(c) = Values(Override(known, ChannelOverrides, identity))
  BY <1>1, OfferedFacts
<1>3. DOMAIN known = ChannelKinds
  OBVIOUS
<1> HIDE DEF known
<1>4. /\ DOMAIN TextOverrides \subseteq DOMAIN brief.texts
      /\ DOMAIN TokenOverrides \subseteq DOMAIN tokens.texts
      /\ DOMAIN ChannelOverrides \subseteq DOMAIN known
  BY <1>3, Tables
<1>5. \/ \E k \in DOMAIN TextOverrides : slot = TextOverrides[k]
      \/ \E k \in DOMAIN TokenOverrides : slot = TokenOverrides[k]
      \/ \E k \in DOMAIN ChannelOverrides : slot = ChannelOverrides[k]
      \/ \E k \in DOMAIN ExtraOverrides : slot = ExtraOverrides[k]
  <2>1. CASE slot \in {"brand"} \X {"communicationLang", "communicationStyle", "designStyle",
                                     "font", "postContentStyle", "logoUrl"}
    BY <2>1 DEF TextOverrides, TokenOverrides, ExtraOverrides
  <2>2. CASE slot \in {"company"} \X {"name", "category", "subcategory", "country",
                          "businessPhone", "email", "websiteUrl", "historyAndFounder",
                          "targetCustomer", "productServices", "storeType", "location"}
    BY <2>2 DEF TextOverrides, ChannelOverrides, ExtraOverrides
  <2>3. CASE slot \in {"social"} \X {"instagramUrl", "facebookUrl", "tiktokUrl", "linkedinUrl"}
    BY <2>3 DEF ChannelOverrides
  <2> QED
    BY <2>1, <2>2, <2>3 DEF Queried
<1>6. CASE \E k \in DOMAIN TextOverrides : slot = TextOverrides[k]
  BY <1>1, <1>4, <1>6, OverrideKeeps
<1>7. CASE \E k \in DOMAIN TokenOverrides : slot = TokenOverrides[k]
  BY <1>1, <1>4, <1>7, OverrideKeeps
<1>8. CASE \E k \in DOMAIN ChannelOverrides : slot = ChannelOverrides[k]
  BY <1>2, <1>4, <1>8, OverrideKeeps
<1>9. CASE \E k \in DOMAIN ExtraOverrides : slot = ExtraOverrides[k]
  BY <1>1, <1>9, ExtendedFacts
<1> QED
  BY <1>5, <1>6, <1>7, <1>8, <1>9

LEMMA BriefKept ==
  ASSUME NEW brief, NEW tokens, NEW channels, NEW identity,
         DOMAIN channels \subseteq ChannelKinds,
         \A k \in DOMAIN channels : k \in Always \/ channels[k] # Absent,
         NEW b, b = MergedFlat(brief, identity), NEW t, t = MergedTokens(tokens, identity),
         NEW c, c = MergedChannels(channels, identity)
  PROVE  /\ DOMAIN channels \subseteq DOMAIN c
         /\ \A k \in DOMAIN tokens.texts : tokens.texts[k] # Absent => t.texts[k] # Absent
         /\ \A f \in DOMAIN brief.texts : brief.texts[f] # Absent => b.texts[f] # Absent
         /\ brief.colors # {} => b.colors # {}
         /\ DOMAIN brief.extras \subseteq DOMAIN b.extras
<1> DEFINE known == [k \in ChannelKinds |-> IF k \in DOMAIN channels THEN channels[k] ELSE Absent]
           all == Override(known, ChannelOverrides, identity)
<1>1. /\ b.texts = Override(brief.texts, TextOverrides, identity)
      /\ t.texts = Override(tokens.texts, TokenOverrides, identity)
      /\ c = Offered(all)
      /\ b.extras = Extended(brief.extras, identity)
      /\ b.colors = OrSet(ProfileColors(identity), brief.colors)
  BY DEF MergedFlat, MergedTokens, MergedChannels
<1>2. DOMAIN known = ChannelKinds /\ \A k \in DOMAIN channels : known[k] = channels[k]
  OBVIOUS
<1> HIDE DEF known
<1>3. DOMAIN all = ChannelKinds /\ \A k \in ChannelKinds : known[k] # Absent => all[k] # Absent
  BY <1>2, OverrideFacts
<1> HIDE DEF all
<1>4. DOMAIN channels \subseteq DOMAIN c
  BY <1>1, <1>2, <1>3, OfferedFacts
<1>5. DOMAIN brief.extras \subseteq DOMAIN b.extras
  BY <1>1 DEF Extended
<1>6. brief.colors # {} => b.colors # {}
  BY <1>1 DEF OrSet
<1> QED
  BY <1>1, <1>4, <1>5, <1>6, OverrideFacts

LEMMA BaseShape ==
  ASSUME NEW base, base = FromBrief
  PROVE  /\ DOMAIN base.tokens.texts = DOMAIN TokenOverrides
         /\ DOMAIN NoTokens.texts = DOMAIN TokenOverrides
         /\ DOMAIN base.channels \subseteq ChannelKinds
         /\ \A k \in DOMAIN base.channels : k \in Always \/ base.channels[k] # Absent
<1>1. DOMAIN NoTokens.texts = DOMAIN TokenOverrides
  BY Tables DEF NoTokens
<1>2. CASE ~IsDocument(BriefData)
  <2>1. base.tokens = NoTokens /\ base.channels = NoChannels
    BY <1>2 DEF FromBrief
  <2>2. DOMAIN NoChannels = {}
    BY DEF NoChannels
  <2> QED
    BY <1>1, <2>1, <2>2
<1>3. CASE IsDocument(BriefData)
  <2> DEFINE flat == Flatten(BriefData)
             all == [k \in ChannelKinds |->
                       CASE k = "website" -> flat.texts.website_url
                         [] k \in Always -> Absent
                         [] OTHER -> Clean(FirstTrue(BriefData, ChannelSlots[k]))]
  <2>1. base.tokens = BrandTokens(BriefData, flat) /\ base.channels = Offered(all)
    BY <1>3 DEF FromBrief, AvailableChannels
  <2>2. DOMAIN base.tokens.texts = DOMAIN TokenOverrides
    BY <2>1, Tables DEF BrandTokens
  <2>3. DOMAIN all = ChannelKinds
    OBVIOUS
  <2> HIDE DEF all
  <2> QED
    BY <1>1, <2>1, <2>2, <2>3, OfferedFacts
<1> QED
  BY <1>2, <1>3

\* A merge loses nothing that the gateway has for the account, and nothing of the brief
\* but for something better.
THEOREM MergesKeepAll == IntakeSpec => []MergeKeepsAll
<1>1. IntakeInv => MergeKeepsAll
  <2> SUFFICES ASSUME IntakeInv, stage = "ready", profile.kind = "profile" PROVE MergeKeepsAll
    BY DEF MergeKeepsAll
  <2> DEFINE base == FromBrief
             c == ApplyUserProfile(base)
             identity == profile.identity
  <2>1. /\ context.base = base
        /\ context.brief = c.brief /\ context.tokens = c.tokens /\ context.channels = c.channels
    BY ContextFacts
  <2>2. /\ identity = NoIdentity =>
             c.brief = Given(base) /\ c.tokens = base.tokens /\ c.channels = base.channels
        /\ identity # NoIdentity =>
             /\ c.brief = MergedFlat(Given(base), identity)
             /\ c.tokens = MergedTokens(base.tokens, identity)
             /\ c.channels = MergedChannels(base.channels, identity)
    BY MergedFacts
  <2>3. identity # NoIdentity => DOMAIN identity \subseteq Queried
    BY DEF IntakeInv, WellFormed, IsProfileReply, UspResult, FetchUserProfile, Asked
  <2>4. /\ Agree(Given(base), base.tokens, base.channels)
        /\ ~IsDocument(BriefData) => base.brief = NoBrief
    BY BaseFacts
  <2>5. base.brief # NoBrief => base.brief = Given(base)
    BY <2>4 DEF Given
  <2>6. /\ DOMAIN base.tokens.texts = DOMAIN TokenOverrides
        /\ DOMAIN NoTokens.texts = DOMAIN TokenOverrides
        /\ DOMAIN base.channels \subseteq ChannelKinds
        /\ \A k \in DOMAIN base.channels : k \in Always \/ base.channels[k] # Absent
    BY BaseShape
  <2>7. DOMAIN Given(base).texts = DOMAIN Sources
    BY <2>4 DEF Agree
  <2> HIDE DEF base, c, identity
  <2> DEFINE brief == Given(base)
  <2>8. ASSUME identity # NoIdentity,
               NEW slot \in DOMAIN identity
                   \ {<<"brand", "colors">>, <<"brand", "keywords">>, <<"brand", "hasMaterial">>}
        PROVE  Clean(identity[slot])
                 \in Values(c.brief.texts) \union Values(c.tokens.texts) \union Values(c.channels)
                     \union Values(c.brief.extras) \union {Absent}
    BY <2>2, <2>3, <2>6, <2>7, <2>8, IdentityKept
  <2>9. /\ DOMAIN base.channels \subseteq DOMAIN c.channels
        /\ \A k \in DOMAIN base.tokens.texts :
             base.tokens.texts[k] # Absent => c.tokens.texts[k] # Absent
        /\ \A f \in DOMAIN brief.texts : brief.texts[f] # Absent => c.brief.texts[f] # Absent
        /\ brief.colors # {} => c.brief.colors # {}
        /\ DOMAIN brief.extras \subseteq DOMAIN c.brief.extras
    <3>1. CASE identity = NoIdentity
      BY <2>2, <3>1
    <3>2. CASE identity # NoIdentity
      <4> HIDE DEF brief
      <4> QED
        BY <2>2, <2>6, <3>2, BriefKept DEF brief
    <3> QED
      BY <3>1, <3>2
  <2> QED
    BY <2>1, <2>5, <2>6, <2>7, <2>8, <2>9 DEF MergeKeepsAll, identity
<1> QED
  BY <1>1, IntakeInvariant, PTL
=============================================================================
