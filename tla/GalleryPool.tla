----------------------------- MODULE GalleryPool -----------------------------
(***************************************************************************)
(* The gallery image pool: fetch_gallery_pool, is_eligible, score_image    *)
(* and _build_shortlist.  A text is the set of its words, and "a occurs in *)
(* b" is membership.                                                       *)
(***************************************************************************)
EXTENDS Ranking

CONSTANTS
  PersonSignals,   \* _PERSON_SIGNALS
  PageSize         \* GALLERY_PAGE_SIZE

\* An item of a page has finitely many words, in lists and texts.
IsGalleryReply(reply) ==
  /\ reply.kind \in {"unreachable", "404", "page"}
  /\ reply.kind = "page" =>
       /\ IsList(reply.items) /\ reply.total_items \in Int
       /\ \A i \in DOMAIN reply.items :
            LET item == reply.items[i]
            IN  \A words \in {item.tags, item.description, item.subject, item.mood} :
                  IsFiniteSet(words)

\* used_at is null, and no lock is in force; a locked_until that cannot be parsed
\* is no lock.  A locked_until without time zone cannot be compared with now.
Unused(item) == item.type = "img" /\ ~item.used
IncomparableLock(item) == Unused(item) /\ item.locked_until = "naive"

IsEligible(item) == Unused(item) /\ item.locked_until # "future"

Hits(a, b) == Cardinality(a \intersect b)
One(p) == IF p THEN 1 ELSE 0

\* c is the task_context; without metadata even the description counts nothing.
Score(item, c) ==
  LET tokens == c.user_request \union c.brief_keywords
  IN  IF ~item.metadata THEN 0
      ELSE 3 * (Hits(item.tags, tokens) + Hits(item.description, c.user_request))
           + 2 * (Hits(item.subject, c.user_request) + Hits(item.mood, c.brief_tone))
           + 2 * One(item.people /\ tokens \intersect PersonSignals # {})
           + One(item.category \intersect tokens # {})
           + One(item.style \intersect c.brief_design_style # {})

Eligible(items) == Picked(items, {i \in DOMAIN items : IsEligible(items[i])})

\* Mutant: the cap comes before the sort.
ShortlistEarlyCap(items, c, vision_candidates) ==
  LET first == FirstOf(Eligible(items), vision_candidates)
  IN  Descending(first, [i \in DOMAIN first |-> Score(first[i], c)])

\* Filter, score, sort, cap.
BuildShortlist(items, c, vision_candidates) ==
  LET fit == Eligible(items)
      scored == Descending(fit, [i \in DOMAIN fit |-> Score(fit[i], c)])
  IN  FirstOf(scored, vision_candidates)

\* total_items of the answer, or a negative number when it has none.
Truncated(reply) ==
  IF reply.total_items >= 0 THEN reply.total_items > Len(reply.items)
  ELSE Len(reply.items) >= PageSize

\* fetch_gallery_pool: a pool or none, and a warning code or none.  A reply is
\* "unreachable" as in UserProfile, "404", or a "page"; one of another shape is a
\* page without items.
FetchGalleryPool(reply, c, vision_candidates) ==
  CASE reply.kind = "unreachable" -> [kind |-> "none", warning |-> {"gallery_api_unavailable"}]
    [] reply.kind = "404" -> [kind |-> "none", warning |-> {"gallery_api_not_found"}]
    [] reply.kind = "page" /\ \E i \in DOMAIN reply.items : IncomparableLock(reply.items[i]) ->
         [kind |-> "raised", warning |-> {"gallery_api_unavailable"}]
    [] OTHER ->
         [kind |-> "pool",
          shortlist |-> BuildShortlist(reply.items, c, vision_candidates),
          truncated |-> Truncated(reply),
          warning |-> IF Truncated(reply) THEN {"gallery_pool_truncated"}
                      ELSE IF \E i \in DOMAIN reply.items : IsEligible(reply.items[i])
                      THEN {} ELSE {"gallery_pool_empty"}]

=============================================================================
