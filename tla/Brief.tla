-------------------------------- MODULE Brief --------------------------------
(***************************************************************************)
(* The brief of an account, and the user profile laid over it:             *)
(* _flatten_brief, _extract_brand_tokens, _extract_available_channels,     *)
(* _extract_brief_facts and _apply_user_profile.                           *)
(*                                                                         *)
(* A document is a function from the slots it has, <<place, field>>, to    *)
(* texts; the places of a brief are form (form_values), profile, brief     *)
(* (the nested object) and top (data itself).  A text is Absent when it is *)
(* missing, null or "", and Sentinel when it is another of EMPTY_SENTINELS *)
(* or blank: cleaning makes it Absent too, but "a or b" stops at it.  A    *)
(* list of words is the text it is joined to; colours and keywords are     *)
(* sets of texts; case and order are left out.                             *)
(***************************************************************************)
EXTENDS Ranking, UserProfile

CONSTANTS
  Absent, Sentinel, NoBrief,
  Spanish,    \* the default language
  HexIn,      \* the texts with a hex colour in them, and that colour
  Http,       \* the texts that start with "http"
  Mentions    \* per text the urls, phones, emails and prices found in it

\* What is missing or blank is no colour and no address.
ASSUME BriefAssumption == {Absent, Sentinel} \intersect DOMAIN HexIn = {} /\ Absent \notin Http

Clean(t) == IF t = Sentinel THEN Absent ELSE t
Cleaned(texts) == {Clean(t) : t \in texts} \ {Absent}
At(doc, slot) == IF slot \in DOMAIN doc THEN doc[slot] ELSE Absent
Listed(doc, slot) == IF slot \in DOMAIN doc THEN doc[slot] ELSE {}
Or(t, u) == IF t # Absent THEN t ELSE u

\* The first slot whose text is not blank, and the first that is true at all.
FirstNonEmpty(doc, slots) ==
  LET Step(t, slot) == Or(t, Clean(At(doc, slot))) IN FoldLeft(Step, Absent, slots)
FirstTrue(doc, slots) ==
  LET Step(t, slot) == Or(t, At(doc, slot)) IN FoldLeft(Step, Absent, slots)

-----------------------------------------------------------------------------
(* _flatten_brief.                                                         *)

Style == <<"form", "FIELD_COMMUNICATION_STYLE">>

\* Where each text of the flat brief is looked for, in this order.
Sources ==
  [business_name |-> <<<<"form", "FIELD_COMPANY_NAME">>, <<"profile", "business_name">>,
                       <<"brief", "name">>, <<"top", "name">>>>,
   category |-> <<<<"form", "FIELD_COMPANY_CATEGORY">>, <<"top", "industry">>,
                  <<"top", "business_type">>, <<"profile", "category">>>>,
   country |-> <<<<"form", "FIELD_COUNTRY">>, <<"top", "country">>>>,
   business_description |-> <<<<"form", "FIELD_LARGE_ANSWER">>, <<"top", "description">>>>,
   target_customer |-> <<<<"form", "FIELD_TARGET_CUSTOMER_ANSWER">>,
                         <<"top", "target_customer">>>>,
   value_proposition |-> <<<<"form", "FIELD_VALUE_PROPOSITION">>,
                           <<"top", "value_proposition">>>>,
   tone |-> <<<<"profile", "tone">>, Style, <<"top", "brand_voice">>>>,
   communication_language |-> <<<<"form", "FIELD_COMMUNICATION_LANGUAGE">>,
                                <<"top", "communication_language">>>>,
   website_url |-> <<<<"form", "FIELD_WEBSITE_URL">>, <<"profile", "website_url">>,
                     <<"top", "website_current">>>>,
   brief_background |-> <<<<"brief", "brief">>, <<"top", "brief">>>>]

FlatTexts(doc) ==
  [[f \in DOMAIN Sources |-> FirstNonEmpty(doc, Sources[f])]
     EXCEPT !.communication_language = Or(@, Spanish)]

FormColors == <<"form", "FIELD_COLOR_LIST_PICKER">>
FormKeywords == <<"form", "FIELD_KEYWORDS_TAGS_INPUT">>
BrandMaterial == <<"form", "FIELD_BRAND_MATERIAL">>

Colors(doc) ==
  Cleaned(Listed(doc, FormColors)
          \union {At(doc, <<"top", "brand_primary_color">>), At(doc, <<"top", "brand_accent_color">>)})

HasBrandMaterial(doc) ==
  \/ At(doc, <<"form", "FIELD_HAS_BRAND_MATERIAL">>) # Absent
  \/ At(doc, BrandMaterial) \notin {Absent, <<>>}
  \/ At(doc, <<"top", "photos_urls">>) # Absent

ConsumedTop ==
  {"name", "industry", "business_type", "country", "description", "target_customer",
   "value_proposition", "brand_voice", "communication_language", "brand_primary_color",
   "brand_accent_color", "brief", "website_current", "photos_urls", "uuid", "business_cid"}

\* What nobody asked for is kept as it is; data itself comes before the nested brief.
\* The three answers of the form that are kept too are in BrandTokens.
Extras(doc) ==
  LET tops == {slot[2] : slot \in {s \in DOMAIN doc : s[1] = "top"}} \ ConsumedTop
      nested == {slot[2] : slot \in {s \in DOMAIN doc : s[1] = "brief"}} \ {"keywords", "brief"}
  IN  [k \in tops \union nested |-> IF k \in tops THEN doc[<<"top", k>>] ELSE doc[<<"brief", k>>]]

Flatten(doc) ==
  [texts |-> FlatTexts(doc), colors |-> Colors(doc),
   keywords |-> Cleaned(Listed(doc, FormKeywords) \union Listed(doc, <<"brief", "keywords">>)),
   has_brand_material |-> HasBrandMaterial(doc), extras |-> Extras(doc)]

FlattenWarnings(flat) ==
  {w \in {"value_proposition_empty", "tone_unclear"} :
     flat.texts[IF w = "tone_unclear" THEN "tone" ELSE "value_proposition"] = Absent}

\* FlatBrief(): no language either.
EmptyFlat == [texts |-> [f \in DOMAIN Sources |-> Absent], colors |-> {}, keywords |-> {},
              has_brand_material |-> FALSE, extras |-> <<>>]

-----------------------------------------------------------------------------
(* Brand tokens, channels and facts.                                       *)

BrandTokens(doc, flat) ==
  [palette |-> {c \in Listed(doc, FormColors) : c \in DOMAIN HexIn /\ HexIn[c] = c},
   texts |-> [font_style |-> Clean(At(doc, <<"form", "FIELD_FONT_STYLE">>)),
              design_style |-> Clean(At(doc, <<"form", "FIELD_DESIGN_STYLE">>)),
              post_content_style |-> Clean(At(doc, <<"form", "FIELD_POST_CONTENT_STYLE">>)),
              communication_style |-> Or(Clean(At(doc, Style)), flat.texts.tone)]]

NoTokens == [palette |-> {},
             texts |-> [t \in {"font_style", "design_style", "post_content_style",
                               "communication_style"} |-> Absent]]

ChannelSlots ==
  [instagram_profile |-> <<<<"form", "FIELD_INSTAGRAM_URL">>, <<"profile", "instagram">>>>,
   facebook |-> <<<<"form", "FIELD_FACEBOOK_URL">>, <<"profile", "facebook">>>>,
   tiktok |-> <<<<"form", "FIELD_TIKTOK_URL">>>>,
   linkedin |-> <<<<"form", "FIELD_LINKEDIN_URL">>>>,
   phone |-> <<<<"form", "FIELD_BUSINESS_PHONE">>, <<"profile", "contact_phone">>>>,
   email |-> <<<<"form", "FIELD_BUSINESS_EMAIL">>, <<"profile", "email">>>>]

Always == {"dm", "link_sticker"}
ChannelKinds == DOMAIN ChannelSlots \union {"website"} \union Always

\* A channel without url or handle is dropped, but for the two that need none.
Offered(all) ==
  [k \in {c \in DOMAIN all : c \in Always \/ all[c] # Absent} |-> all[k]]

AvailableChannels(doc, flat) ==
  Offered([k \in ChannelKinds |->
    CASE k = "website" -> flat.texts.website_url
      [] k \in Always -> Absent
      [] OTHER -> Clean(FirstTrue(doc, ChannelSlots[k]))])

NoChannels == [k \in {} |-> Absent]

\* The texts that are searched, of the flat brief and of two answers of the form.
Searched(flat, doc) ==
  {flat.texts[f] : f \in {"business_description", "value_proposition", "target_customer",
                          "brief_background"}}
  \union {At(doc, <<"form", "FIELD_PRODUCTS_SERVICES_ANSWER">>),
          At(doc, <<"form", "FIELD_RELEVANT_DATES_ANSWER">>)}

BriefFacts(flat, channels, doc) ==
  LET Found(kind) == UNION {Mentions[t][kind] : t \in Searched(flat, doc) \intersect DOMAIN Mentions}
      Of(kinds) == {channels[k] : k \in kinds \intersect DOMAIN channels}
  IN  [urls |-> (Of(ChannelKinds) \intersect Http) \union Found("urls"),
       phones |-> Of({"phone"}) \union Found("phones"),
       emails |-> Of({"email"}) \union Found("emails"),
       prices |-> Found("prices"),
       hex_colors |-> flat.colors]

NoFacts == [urls |-> {}, phones |-> {}, emails |-> {}, prices |-> {}, hex_colors |-> {}]

-----------------------------------------------------------------------------
(* _apply_user_profile: an identity is a document too, with the places     *)
(* company, brand and social.                                              *)

TextOverrides ==
  [business_name |-> <<"company", "name">>, category |-> <<"company", "category">>,
   country |-> <<"company", "country">>,
   business_description |-> <<"company", "historyAndFounder">>,
   target_customer |-> <<"company", "targetCustomer">>,
   website_url |-> <<"company", "websiteUrl">>, tone |-> <<"brand", "communicationStyle">>,
   communication_language |-> <<"brand", "communicationLang">>]

TokenOverrides ==
  [font_style |-> <<"brand", "font">>, design_style |-> <<"brand", "designStyle">>,
   post_content_style |-> <<"brand", "postContentStyle">>,
   communication_style |-> <<"brand", "communicationStyle">>]

ChannelOverrides ==
  [website |-> <<"company", "websiteUrl">>, instagram_profile |-> <<"social", "instagramUrl">>,
   facebook |-> <<"social", "facebookUrl">>, tiktok |-> <<"social", "tiktokUrl">>,
   linkedin |-> <<"social", "linkedinUrl">>, phone |-> <<"company", "businessPhone">>,
   email |-> <<"company", "email">>]

ExtraOverrides ==
  [subcategory |-> <<"company", "subcategory">>, product_services |-> <<"company", "productServices">>,
   store_type |-> <<"company", "storeType">>, location |-> <<"company", "location">>,
   logo_url |-> <<"brand", "logoUrl">>]

\* Mutant: a blank of the profile erases what the brief has.
OverrideRaw(old, table, identity) ==
  [k \in DOMAIN old |->
     IF k \in DOMAIN table /\ table[k] \in DOMAIN identity
     THEN Clean(identity[table[k]]) ELSE old[k]]

\* The non-blank texts of the identity win.
Override(old, table, identity) ==
  [k \in DOMAIN old |->
     IF k \in DOMAIN table THEN Or(Clean(At(identity, table[k])), old[k]) ELSE old[k]]

\* Extras get new keys.
Extended(extras, identity) ==
  LET new == {k \in DOMAIN ExtraOverrides : Clean(At(identity, ExtraOverrides[k])) # Absent}
  IN  [k \in new \union DOMAIN extras |->
         IF k \in new THEN identity[ExtraOverrides[k]] ELSE extras[k]]

\* The hex colours within the colours of the profile.
ProfileColors(identity) ==
  {HexIn[c] : c \in Listed(identity, <<"brand", "colors">>) \intersect DOMAIN HexIn}

OrSet(s, t) == IF s # {} THEN s ELSE t

MergedFlat(flat, identity) ==
  [texts |-> Override(flat.texts, TextOverrides, identity),
   colors |-> OrSet(ProfileColors(identity), flat.colors),
   keywords |-> OrSet(Listed(identity, <<"brand", "keywords">>), flat.keywords),
   has_brand_material |-> IF <<"brand", "hasMaterial">> \in DOMAIN identity
                          THEN identity[<<"brand", "hasMaterial">>] ELSE flat.has_brand_material,
   extras |-> Extended(flat.extras, identity)]

MergedTokens(tokens, identity) ==
  [palette |-> OrSet(ProfileColors(identity), tokens.palette),
   texts |-> Override(tokens.texts, TokenOverrides, identity)]

MergedChannels(channels, identity) ==
  Offered(Override([k \in ChannelKinds |-> IF k \in DOMAIN channels THEN channels[k] ELSE Absent],
                   ChannelOverrides, identity))

=============================================================================
