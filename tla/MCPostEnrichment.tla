--------------------------- MODULE MCPostEnrichment ---------------------------
(* Nothing relates the images of a post to its call to action, so the run    *)
(* takes all contexts and answers about the one, then all about the other.   *)
EXTENDS PostEnrichment

CONSTANTS u1, u2, invented

MCUrl == {u1, u2, invented}
MCChannel == {"website", "phone", "dm"}

Plain == [u \in Url |-> "absent"]
ImageContexts ==
  [gallery : [Url -> {"absent", "content", "reference"}],
   attachments : SeqOf(Url, MaxAttachments), offered : {{}},
   requested : {"any", "carousel"}, precomputed : {"none", "clean", "claims"}]
ImageAnswers ==
  [assets : SeqOf(Url, MaxAssets), references : SeqOf(Url, MaxReferences),
   picks : SeqOf(Url, MaxPicks), cta : {NoCta}, said : {{}},
   format : {"post"}, brand_dna : {"claims"}]
CtaContexts ==
  [gallery : {Plain}, attachments : {<<>>}, offered : SUBSET Cta,
   requested : {"any"}, precomputed : {"none"}]
CtaAnswers ==
  [assets : {<<>>}, references : {<<>>}, picks : {<<>>}, cta : Cta \union {NoCta},
   said : SUBSET Channel, format : Format, brand_dna : {"clean"}]

MCInit ==
  PostInitFrom(ImageContexts, ImageAnswers) \/ PostInitFrom(CtaContexts, CtaAnswers)
MCSpec == MCInit /\ [][PostNext]_postVars
=============================================================================
