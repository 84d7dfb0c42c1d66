----------------------------- MODULE UserProfile -----------------------------
(***************************************************************************)
(* fetch_user_profile: what is made of an answer of the USP Memory         *)
(* Gateway.  A reply has a kind, "unreachable" for a timeout, a refused    *)
(* status, a transport error or a body that is no JSON, "odd" for JSON of  *)
(* another shape, and "answer" otherwise; GraphQL errors are logged, and   *)
(* the data, null or not, are taken as they are.                           *)
(***************************************************************************)
EXTENDS Ranking

CONSTANT NoIdentity

\* _QUERY: the fields of an identity that are asked for.
Queried ==
  ({"brand"} \X {"colors", "communicationLang", "communicationStyle", "designStyle", "font",
                 "hasMaterial", "keywords", "postContentStyle", "logoUrl"})
  \union ({"company"} \X {"name", "category", "subcategory", "country", "businessPhone", "email",
                          "websiteUrl", "historyAndFounder", "targetCustomer", "productServices",
                          "storeType", "location"})
  \union ({"social"} \X {"instagramUrl", "facebookUrl", "tiktokUrl", "linkedinUrl"})

\* An answer has the fields that were asked for, or some of them.
IsProfileReply(reply) ==
  /\ reply.kind \in {"unreachable", "odd", "answer"}
  /\ reply.kind = "answer" /\ reply.identity # NoIdentity => DOMAIN reply.identity \subseteq Queried

\* An active insight with a key and a text.
Usable(insight) == insight.active /\ insight.complete

\* A confidence of null counts as 0.
Insights(insights) ==
  LET usable == Picked(insights, {i \in DOMAIN insights : Usable(insights[i])})
  IN  Descending(usable, [i \in DOMAIN usable |-> usable[i].confidence])

\* fetch_user_profile; "raised" is an exception that leaves it.
FetchUserProfile(reply) ==
  CASE reply.kind = "unreachable" -> [kind |-> "none"]
    [] reply.kind = "odd" -> [kind |-> "raised"]
    [] reply.kind = "answer" ->
         [kind |-> "profile", identity |-> reply.identity,
          insights |-> IF reply.identity = NoIdentity THEN <<>>
                       ELSE Insights(reply.insights)]

\* Mutant: an exception is taken for a profile without warning.
ResolvedQuietly(profile) ==
  CASE profile.kind = "none" -> {"user_profile_unavailable"}
    [] profile.kind = "skipped" -> {"user_profile_skipped"}
    [] OTHER -> IF profile.kind = "profile" /\ profile.identity = NoIdentity
                THEN {"user_profile_not_found"} ELSE {}

\* The usp_warning _run_and_callback makes of it.
UspWarning(profile) ==
  CASE profile.kind \in {"none", "raised"} -> {"user_profile_unavailable"}
    [] profile.kind = "skipped" -> {"user_profile_skipped"}
    [] profile.kind = "profile" ->
         IF profile.identity = NoIdentity THEN {"user_profile_not_found"} ELSE {}

=============================================================================
