---------------------------- MODULE PostEnrichment ----------------------------
(***************************************************************************)
(* From the answer of Gemini to the payload of the callback, for one post: *)
(* validate_and_correct (the images, the texts, the call to action), then  *)
(* the shared brand_dna of a batch, then the resources handed to Content   *)
(* Factory.                                                                *)
(*                                                                         *)
(* Gemini is external: it may name any URL, in any list.  A text is        *)
(* "clean" or makes "claims" (a URL, phone, email or colour that the brief *)
(* does not have); a handle of a channel is "null", "ok" or "malformed".   *)
(***************************************************************************)
EXTENDS Ranking

CONSTANTS
  Url,
  Channel,       \* available_channels may offer these
  MaxAssets,     \* bounds on the lists Gemini fills, and on client_request
  MaxReferences,
  MaxPicks,
  MaxAttachments

ASSUME PostAssumption ==
  /\ Channel \subseteq {"website", "phone", "dm"}
  /\ {MaxAssets, MaxReferences, MaxPicks, MaxAttachments} \subseteq Nat

NoCta == [channel |-> "none", handle |-> "null"]
Cta == [channel : Channel, handle : {"null", "ok", "malformed"}]
Format == {"post", "carousel"}
Picks == SeqOf(Url, MaxPicks)    \* selected_images

\* What _detect_requested_surface finds in the text of the request.
Requested == {"any", "carousel"}

\* What normalize put into the InternalContext, and the brand_dna
\* reason_multi_fanout passes along.
Context == [gallery : [Url -> {"absent", "content", "reference"}],
            attachments : SeqOf(Url, MaxAttachments),
            offered : SUBSET Cta, requested : Requested,
            precomputed : {"none", "clean", "claims"}]

\* A PostEnrichment that has passed the schema; said are the channels the
\* cta_line of the caption speaks of.
Answer == [assets : SeqOf(Url, MaxAssets), references : SeqOf(Url, MaxReferences),
           picks : Picks, cta : Cta \union {NoCta},
           said : SUBSET Channel, format : Format, brand_dna : {"clean", "claims"}]

VARIABLES
  step,        \* "answered", "validated", "assembled"
  ctx,         \* the InternalContext
  answer,      \* as Gemini sent it
  enrichment,  \* the same after the corrections
  mismatch,    \* was cta_caption_channel_mismatch added to the warnings?
  payload      \* CFPayload of the callback

postVars == <<step, ctx, answer, enrichment, mismatch, payload>>

NoPayload == [resources |-> <<>>, total_items |-> 1, client_dna |-> "clean"]

PostInitFrom(contexts, answers) ==
  /\ step = "answered" /\ mismatch = FALSE /\ payload = NoPayload
  /\ ctx \in contexts /\ answer \in answers
  /\ enrichment = answer

PostInit == PostInitFrom(Context, Answer)

Keep(urls, wanted) == Picked(urls, {i \in DOMAIN urls : urls[i] \in wanted})

\* list(dict.fromkeys(urls)): the first occurrence of each.
FirstSeen(urls) ==
  Picked(urls, {i \in DOMAIN urls : \A k \in 1..(i - 1) : urls[k] # urls[i]})

-----------------------------------------------------------------------------
(* validate_and_correct.                                                   *)

Known == {u \in Url : ctx.gallery[u] # "absent"}
References == {u \in Url : ctx.gallery[u] = "reference"}

\* Mutant: a reference among the assets is dropped instead of moved.
MisplacedDropped(assets, references) == <<>>

\* References among the assets that the other list does not have yet.
Misplaced(assets, references) ==
  Keep(FirstSeen(assets), References \ ToSet(references))

\* Mutant: a URL in both lists stays in both.
UnsharedNever(assets, references) == Keep(assets, Known \ References)

Unshared(assets, references) ==
  Keep(assets, (Known \ References) \ ToSet(references))

\* The URLs of the gallery, references moved to their list, none in both.
Images(e) ==
  LET assets == Keep(e.assets, Known)
      references == Keep(e.references, Known)
      moved == references \o Misplaced(assets, references)
  IN  [e EXCEPT !.assets = Unshared(assets, moved), !.references = moved]

Scrubbed(text) == IF text = "claims" THEN "scrubbed" ELSE text

\* The channel is offered, with this handle unless it needs none.
Stands(cta) ==
  \E o \in ctx.offered :
    /\ o.channel = cta.channel
    /\ \/ cta.channel = "dm"
       \/ /\ cta.handle # "null" /\ cta.handle = o.handle
          /\ cta.channel = "website" => cta.handle # "malformed"

ValidCta(cta) ==
  IF ~Stands(cta) THEN NoCta
  ELSE IF cta.channel = "dm" THEN [cta EXCEPT !.handle = "null"] ELSE cta

Corrected(e) ==
  [Images(e) EXCEPT !.format = IF ctx.requested = "any" THEN @ ELSE ctx.requested,
                    !.brand_dna = Scrubbed(@), !.cta = ValidCta(@)]

\* Mutant: the caption is compared with the channel Gemini chose.
ForeignToAnswer(e) == answer.said \ {answer.cta.channel}

\* _check_cta_caption_coherence, on the corrected cta: "none" is no channel.
Foreign(e) == e.said \ {e.cta.channel}

ValidateAndCorrect ==
  /\ step = "answered" /\ step' = "validated"
  /\ enrichment' = Corrected(enrichment)
  /\ mismatch' = (Foreign(Corrected(enrichment)) # {})
  /\ UNCHANGED <<ctx, answer, payload>>

-----------------------------------------------------------------------------
(* The rest of reason().                                                   *)

\* Mutant: the legacy selection first.
LegacyFirst == FirstSeen(enrichment.assets \o ctx.attachments \o enrichment.picks)

Resources == FirstSeen(ctx.attachments \o enrichment.picks \o enrichment.assets)

TotalItems(urls) ==
  IF enrichment.format = "carousel" /\ urls # <<>> THEN Len(urls) ELSE 1

\* The payload, which reason_multi builds in the same way.
CFPayload(dna) ==
  [resources |-> Resources, total_items |-> TotalItems(Resources), client_dna |-> dna]

Assemble ==
  /\ step = "validated" /\ step' = "assembled"
  /\ LET dna == IF ctx.precomputed = "none" THEN enrichment.brand_dna
                ELSE ctx.precomputed
     IN  /\ enrichment' = [enrichment EXCEPT !.brand_dna = dna]
         /\ payload' = CFPayload(dna)
  /\ UNCHANGED <<ctx, answer, mismatch>>

PostNext == ValidateAndCorrect \/ Assemble

PostSpec == PostInit /\ [][PostNext]_postVars

-----------------------------------------------------------------------------
(* Properties.                                                             *)

Validated == step # "answered"

\* Whatever lists Gemini filled, after the corrections an asset is an image of
\* the gallery, no reference of the brand is used as an asset, and no image is
\* in both lists.
ImagesContained ==
  Validated =>
    LET assets == ToSet(enrichment.assets)
        references == ToSet(enrichment.references)
    IN  /\ assets \subseteq Known \ References
        /\ references \subseteq Known
        /\ assets \intersect references = {}

\* The corrections move images, they lose none: every image of the gallery that
\* Gemini named, and no other, is still named.
NoImageLost ==
  Validated =>
    ToSet(enrichment.assets \o enrichment.references)
      = ToSet(answer.assets \o answer.references) \intersect Known

\* A reader of the post can follow its call to action, and if the caption speaks
\* of a channel that is not that of the corrected call the warnings say so.
CallCanBeFollowed ==
  Validated =>
    /\ \/ enrichment.cta = NoCta
       \/ enrichment.cta \in ctx.offered
       \/ enrichment.cta.channel = "dm"
    /\ enrichment.cta # [channel |-> "website", handle |-> "malformed"]
    /\ (\E c \in enrichment.said : c # enrichment.cta.channel) <=> mismatch

\* The images go out once each, those the user attached first, and in the order
\* attachments, picks, selection; a carousel has one item for each of them.
ResourcesInOrder ==
  step = "assembled" =>
    LET urls == payload.resources
        all == ctx.attachments \o enrichment.picks \o enrichment.assets
        First(u) == CHOOSE i \in DOMAIN all :
                      all[i] = u /\ \A k \in 1..(i - 1) : all[k] # u
    IN  /\ ToSet(urls) = ToSet(all)
        /\ \A i, k \in DOMAIN urls : i < k => First(urls[i]) < First(urls[k])
        /\ payload.total_items =
             IF enrichment.format = "carousel" /\ all # <<>>
             THEN Cardinality(ToSet(all)) ELSE 1

=============================================================================
