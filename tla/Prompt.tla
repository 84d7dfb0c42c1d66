-------------------------------- MODULE Prompt --------------------------------
(***************************************************************************)
(* What Gemini is told of a context: _detect_prior_post and                *)
(* _build_prompt_context.  A place where a prior post may be has NoPost or *)
(* a record of two texts, caption and image_url, as in Brief; an entry of  *)
(* agent_sequence.previous has such a place twice, and in fields what else *)
(* its output has that _compact_prior_step_outputs may keep.               *)
(***************************************************************************)
EXTENDS Brief

CONSTANTS
  Signals,      \* the fields _compact_prior_step_outputs keeps
  ListCap       \* EXTRAS_LIST_TRUNCATION

NoPost == [none |-> TRUE]

\* The entries of agent_sequence.previous whose output_data is an object.
PriorStepOutputs(previous) ==
  Picked(previous, {i \in DOMAIN previous : previous[i].output})

\* Mutant: the context of the task hides that of the request.
TaskContextFirst(posts) ==
  IF posts.context # NoPost THEN posts.context ELSE posts.request.prior_post

\* client_request.context or payload.context
OfContext(posts) ==
  IF posts.request.empty THEN posts.context ELSE posts.request.prior_post

\* Where a prior post is looked for, in this order.
Candidates(posts, outputs) ==
  <<OfContext(posts), posts.extras>>
    \o [n \in 1..2 * Len(outputs) |->
          LET step == outputs[(n + 1) \div 2] IN IF n % 2 = 1 THEN step.prior_post ELSE step.post]

\* c.get("caption") or c.get("image_url"), so that a blank will do.
IsPost(c) == c # NoPost /\ Or(c.caption, c.image_url) # Absent

\* The post as it goes into the context.
Told(c) == [caption |-> Clean(c.caption), image_url |-> Clean(c.image_url)]

\* _detect_prior_post
PriorPost(posts, outputs) ==
  LET all == Candidates(posts, outputs)
      found == Picked(all, {i \in DOMAIN all : IsPost(all[i])})
  IN  IF found = <<>> THEN NoPost ELSE Told(found[1])

\* _compact_prior_step_outputs
Compacted(outputs) ==
  LET fields == [i \in DOMAIN outputs |-> outputs[i].fields \intersect Signals]
  IN  Picked(fields, {i \in DOMAIN fields : fields[i] # {}})

\* serialize_for_prompt cuts every list.
Cut(list) == FirstOf(list, ListCap)

\* Of _build_prompt_context, the lists of images, insights and steps, and the post.
PromptContext(c) ==
  [gallery_pool |-> Cut(c.shortlist),
   gallery |-> Cut(c.images.gallery),
   user_insights |-> Cut(c.insights),
   prior_step_outputs |-> Compacted(c.outputs), prior_post |-> c.prior_post]

=============================================================================
