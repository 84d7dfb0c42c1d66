------------------------------- MODULE MCIntake -------------------------------
EXTENDS Intake

CONSTANTS none, red, blue, aboutUs, u1, u2, u3, ftp, broken,
          w1, w2, w3   \* words

-----------------------------------------------------------------------------
(* Texts.  The text of a slot is the slot itself, so that one sees where a *)
(* value came from.                                                        *)

TextSlots ==
  UNION {Range(Sources[f]) : f \in DOMAIN Sources}
  \union UNION {Range(ChannelSlots[k]) : k \in DOMAIN ChannelSlots}
  \union {<<"form", "FIELD_FONT_STYLE">>, <<"form", "FIELD_DESIGN_STYLE">>,
          <<"form", "FIELD_POST_CONTENT_STYLE">>, <<"top", "subcategory">>, <<"top", "logo_url">>}

ProfileSlots == UNION {Range(t) : t \in {TextOverrides, TokenOverrides, ChannelOverrides, ExtraOverrides}}

MCHttp ==
  {<<"form", "FIELD_WEBSITE_URL">>, <<"profile", "website_url">>, <<"top", "website_current">>,
   <<"company", "websiteUrl">>, <<"form", "FIELD_FACEBOOK_URL">>, <<"social", "facebookUrl">>}

\* The description speaks of the website of the form, and the products of an old site.
MCMentions ==
  [t \in {<<"form", "FIELD_LARGE_ANSWER">>, <<"form", "FIELD_PRODUCTS_SERVICES_ANSWER">>} |->
     [urls |-> IF t[2] = "FIELD_LARGE_ANSWER" THEN {<<"form", "FIELD_WEBSITE_URL">>}
               ELSE {<<"old", "site">>},
      phones |-> {}, emails |-> {}, prices |-> {<<"9", "EUR">>}]]

MCHexIn == (red :> red) @@ (blue :> blue) @@ (aboutUs :> blue)
MCDiverging == {<<"brief", "brief">>}

\* Each of the slots missing, a sentinel, or a text.
Vary(slots) ==
  UNION {{[s \in have |-> IF s \in blank THEN Sentinel ELSE s] : blank \in SUBSET have}
           : have \in SUBSET slots}
Filled(slots) == [s \in slots |-> s]
Nothing == [s \in {} |-> none]

\* What else is known while one field varies: a few slots that other fields are read from.
FewSlots == {Style, <<"form", "FIELD_WEBSITE_URL">>, <<"profile", "email">>}
FewProfileSlots == {<<"brand", "communicationStyle">>, <<"company", "websiteUrl">>}
Backgrounds(few, slots) == {Filled(few \ slots), Nothing}

-----------------------------------------------------------------------------
(* A plain task, and the families that vary a part of it.                  *)

Answer(identity) ==
  [kind |-> "answer", identity |-> identity,
   insights |-> <<[active |-> TRUE, complete |-> TRUE, confidence |-> 1],
                  [active |-> TRUE, complete |-> TRUE, confidence |-> 2]>>]

Image == [uuid |-> 0, type |-> "img", used |-> FALSE, locked_until |-> "null", metadata |-> TRUE,
          tags |-> {}, description |-> {}, subject |-> {}, mood |-> {}, people |-> FALSE,
          category |-> {}, style |-> {}]

Page(items, total) == [kind |-> "page", items |-> items, total_items |-> total]

NoPosts == [request |-> [empty |-> TRUE, prior_post |-> NoPost], context |-> NoPost,
            extras |-> NoPost]

Plain ==
  [envelope |-> [action |-> "create_post", description |-> [words |-> {w1}, vague |-> FALSE],
                 context |-> "account", post_id |-> TRUE, website_id |-> TRUE,
                 brief |-> [passed |-> TRUE, data |-> Filled(FewSlots)],
                 gates |-> <<>>, attachments |-> <<>>, images |-> <<>>, jobs |-> <<>>,
                 posts |-> NoPosts, previous |-> <<>>],
   usp |-> Answer(Filled(FewProfileSlots)), gallery |-> Page(<<Image>>, -1), vision |-> 2]

Merging(doc, identity) ==
  [Plain EXCEPT !.envelope.brief.data = doc, !.usp = Answer(identity)]

\* Each field with the slots it is read from and the slot of the profile that overrides it.
Groups ==
  {<<Range(Sources[f]), IF f \in DOMAIN TextOverrides THEN {TextOverrides[f]} ELSE {}>> : f \in DOMAIN Sources}
  \union {<<Range(ChannelSlots[k]), {ChannelOverrides[k]}>> : k \in DOMAIN ChannelSlots}
  \union {<<{<<"form", "FIELD_FONT_STYLE">>}, {<<"brand", "font">>}>>,
          <<{<<"form", "FIELD_DESIGN_STYLE">>}, {<<"brand", "designStyle">>}>>,
          <<{<<"form", "FIELD_POST_CONTENT_STYLE">>}, {<<"brand", "postContentStyle">>}>>,
          <<{<<"top", "subcategory">>}, {<<"company", "subcategory">>}>>,
          <<{<<"top", "logo_url">>}, {<<"brand", "logoUrl">>, <<"company", "location">>}>>}

Merge ==
  \/ \E g \in Groups : \E d \in Vary(g[1]), i \in Vary(g[2]) :
       \E bd \in Backgrounds(FewSlots, g[1]), bi \in Backgrounds(FewProfileSlots, g[2]) :
         InitFrom(Merging(d @@ bd, i @@ bi))
  \/ \E d \in {Filled(TextSlots), Nothing}, i \in {Filled(ProfileSlots), Nothing} :
       InitFrom(Merging(d, i))

Products == <<"form", "FIELD_PRODUCTS_SERVICES_ANSWER">>

MergeColors ==
  \E f \in SUBSET {red, aboutUs, Sentinel}, p \in SUBSET {blue, aboutUs, none}, m \in BOOLEAN :
    InitFrom(Merging((FormColors :> f) @@ (<<"top", "brand_accent_color">> :> red)
                       @@ (Products :> Products),
                     (<<"brand", "colors">> :> p) @@ (<<"brand", "hasMaterial">> :> m)))

\* Every way a source can fail or be left out.
Sourcing ==
  \E c \in {"account", "none", "null"}, p \in BOOLEAN, d \in {NoBrief, Odd, Filled(FewSlots)},
     u \in {Pending, [kind |-> "unreachable"], [kind |-> "odd"], Answer(NoIdentity),
            Answer(Nothing), Answer(Filled(FewProfileSlots))},
     g \in {Pending, [kind |-> "unreachable"], [kind |-> "404"], Page(<<>>, -1), Page(<<>>, 4),
            Page(<<Image>>, -1), Page(<<[Image EXCEPT !.locked_until = "naive"]>>, -1)},
     v \in {0, 2} :
    InitFrom([Plain EXCEPT !.envelope.context = c, !.envelope.brief = [passed |-> p, data |-> d],
                           !.usp = u, !.gallery = g, !.vision = v])

\* An image of each kind: three that fit with different scores, one free again, one
\* without metadata, and one each that is locked, used or no image although it would
\* score best.
Pool ==
  LET Best == [Image EXCEPT !.tags = {w1, w2}, !.subject = {w1}]
  IN  <<[Image EXCEPT !.uuid = 1], [Image EXCEPT !.uuid = 2, !.description = {w1}],
        [Image EXCEPT !.uuid = 3, !.tags = {w2}, !.people = TRUE],
        [Best EXCEPT !.uuid = 4, !.locked_until = "past"], [Best EXCEPT !.uuid = 5, !.metadata = FALSE],
        [Best EXCEPT !.uuid = 6, !.locked_until = "future"], [Best EXCEPT !.uuid = 7, !.used = TRUE],
        [Best EXCEPT !.uuid = 8, !.type = "video"]>>

Picking ==
  \E n \in 0..3 : \E s \in [1..n -> DOMAIN Pool] :
    /\ IsInjective(s)
    /\ \E t \in {-1, 3}, v \in {-1, 0, 1, 2}, d \in {NoBrief, (FormKeywords :> {w2, w3})} :
         InitFrom([Plain EXCEPT !.gallery = Page([i \in 1..n |-> Pool[s[i]]], t), !.vision = v,
                                !.envelope.brief.data = d, !.usp = Pending])

\* The same url can be good in one place and bad in another.
Raw(url, declared, size, size_bytes, role) ==
  [url |-> url, declared |-> declared, size |-> size, size_bytes |-> size_bytes, role |-> role]

Raws ==
  {Raw(u1, FALSE, NoSize, NoSize, "none"), Raw(u1, TRUE, 0, 0, "none"),
   Raw(u1, FALSE, MaxSize + 1, 1, "none"), Raw(u2, TRUE, 0, MaxSize, "none"),
   Raw(u2, FALSE, NoSize, NoSize, "reference"), Raw(ftp, TRUE, 1, 1, "none"),
   Raw(u3, FALSE, 1, NoSize, "brand_asset"), Raw(broken, TRUE, 1, 1, "none")}

Collecting ==
  \/ \E g, m, i \in SeqOf(Raws, 1), a \in SeqOf({u1, u2, ftp, broken}, 1) :
       InitFrom([Plain EXCEPT !.envelope.gates = g, !.envelope.attachments = a, !.usp = Pending,
                              !.envelope.images = i, !.envelope.brief.data = (BrandMaterial :> m)])
  \/ \E g \in SeqOf(Raws, 3), a \in {<<>>, <<u3>>} :
       InitFrom([Plain EXCEPT !.envelope.gates = g, !.envelope.attachments = a, !.usp = Pending])

Acting ==
  \E a \in KnownActions \union {"unheard_of"}, p, w \in BOOLEAN,
     d \in {[words |-> {}, vague |-> TRUE], [words |-> {w1}, vague |-> TRUE],
            [words |-> {w1, w2}, vague |-> FALSE]} :
    InitFrom([Plain EXCEPT !.envelope.action = a, !.envelope.post_id = p,
                           !.envelope.website_id = w, !.envelope.description = d])

\* Quantities: no number, -1, one half, 2, and one more than MaxQuantity.
JobItems ==
  {[key |-> k, quantity |-> q] :
     k \in LlmKeys \union {"create_prod_line", ""}, q \in {NoNumber, -2, 1, 4, 8}}
  \union {[key |-> "junk", quantity |-> NoNumber], [key |-> "create_post", quantity |-> Infinite]}

Subscribing ==
  \E n \in 0..3 : \E jobs \in [1..n -> JobItems] :
    InitFrom([Plain EXCEPT !.envelope.action = "subscription_strategy", !.envelope.jobs = jobs,
                           !.envelope.brief.data = NoBrief, !.usp = Pending, !.gallery = Pending])

\* A post in any of the places, with a caption that says where, blank, or without any.
Post(place) ==
  {NoPost} \union {[caption |-> c, image_url |-> Absent] : c \in {Absent, Sentinel, <<place>>}}

Editing ==
  \E e \in BOOLEAN, r \in Post("request"), c \in Post("context"), x \in Post("extras"),
     s \in {<<>>} \union {<<[output |-> o, prior_post |-> p, post |-> q, fields |-> f]>> :
              o \in BOOLEAN, p \in Post("prior_post"), q \in {NoPost, [caption |-> <<"post">>, image_url |-> Absent]},
              f \in {{"resources_count"}, {"brand_dna"}}} :
    /\ e => r = NoPost
    /\ InitFrom([Plain EXCEPT !.envelope.action = "edit_post", !.envelope.previous = s,
          !.envelope.posts = [request |-> [empty |-> e, prior_post |-> r], context |-> c, extras |-> x]])

-----------------------------------------------------------------------------

Init ==
  Merge \/ MergeColors \/ Sourcing \/ Picking \/ Collecting \/ Acting \/ Editing
  \/ Subscribing

Spec == Init /\ [][Next]_vars

MCWeb == {u1, u2, u3}
MCSuffixed == {u1, u3, ftp}
MCPersonSignals == {w3}
===============================================================================
