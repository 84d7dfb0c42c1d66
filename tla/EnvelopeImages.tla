---------------------------- MODULE EnvelopeImages ----------------------------
(***************************************************************************)
(* The images that come with an envelope: _collect_raw_images and          *)
(* _sanitize_gallery.  A raw image has a url, declared (its extension or   *)
(* mime type is an allowed one), size and size_bytes in MB, or NoSize, and *)
(* a role, "none" if it states no valid one.                               *)
(***************************************************************************)
EXTENDS Ranking

CONSTANTS
  NoSize,
  Web,             \* the urls with an http scheme and a host
  Malformed,       \* the urls urlparse raises ValueError for
  Suffixed,        \* the urls that end in an allowed extension
  MaxGalleryItems, \* MAX_GALLERY_ITEMS
  MaxSize          \* MAX_SIZE_BYTES

ASSUME ImagesAssumption == MaxGalleryItems \in Nat /\ Malformed \intersect Web = {}

\* raw.get("size") or raw.get("size_bytes")
Size(raw) == IF raw.size \in {NoSize, 0} THEN raw.size_bytes ELSE raw.size

Acceptable(raw) ==
  /\ raw.url \in Web
  /\ raw.declared \/ raw.url \in Suffixed
  /\ Size(raw) = NoSize \/ (Size(raw) # 0 /\ Size(raw) <= MaxSize)

Tagged(raws, role) == [i \in DOMAIN raws |-> [raw |-> raws[i], role |-> role]]

Attachment(url) ==
  [url |-> url, declared |-> FALSE, size |-> NoSize, size_bytes |-> NoSize, role |-> "none"]

\* All gates but the brief, passed or not, then attachments, brand material (of a brief
\* passed or not) and payload.images.
Collected(gates, attachments, material, images) ==
  Tagged(gates, "content")
    \o Tagged([i \in DOMAIN attachments |-> Attachment(attachments[i])], "unknown")
    \o Tagged(material, "brand_asset") \o Tagged(images, "unknown")

\* Mutant: a url counts as seen before it is known to be acceptable.
FirstMention(raws, i) ==
  Acceptable(raws[i].raw) /\ \A j \in 1..(i - 1) : raws[j].raw.url # raws[i].raw.url

\* The first acceptable raw image of a url stands for it.
Representative(raws, i) ==
  /\ Acceptable(raws[i].raw)
  /\ \A j \in 1..(i - 1) : Acceptable(raws[j].raw) => raws[j].raw.url # raws[i].raw.url

GalleryItem(tagged) ==
  [url |-> tagged.raw.url,
   role |-> IF tagged.raw.role = "none" THEN tagged.role ELSE tagged.raw.role]

\* _sanitize_gallery, with its counts.
SanitizeGallery(raws) ==
  LET accepted == Picked([i \in DOMAIN raws |-> GalleryItem(raws[i])],
                         {i \in DOMAIN raws : Representative(raws, i)})
  IN  [gallery |-> FirstOf(accepted, MaxGalleryItems),
       raw_count |-> Len(raws),
       rejected |-> Cardinality({i \in DOMAIN raws : ~Acceptable(raws[i].raw)}),
       truncated |-> Len(accepted) > MaxGalleryItems]

GalleryWarnings(s) ==
  (IF s.gallery = <<>> THEN {IF s.raw_count = 0 THEN "gallery_empty" ELSE "gallery_all_filtered"}
   ELSE IF s.rejected > 0 THEN {"gallery_partially_filtered"} ELSE {})
  \union (IF s.truncated THEN {"gallery_truncated"} ELSE {})

=============================================================================
