------------------------- MODULE CatalogProperties -------------------------
(***************************************************************************)
(* What the offers and the catalog keep, whatever the order of the         *)
(* statements of their calls, and what they keep while no two calls        *)
(* overlap, at any statement a call may fail at.                           *)
(***************************************************************************)
EXTENDS Catalog

VARIABLE calm  \* no two calls have overlapped

CalmInit == Init /\ calm = TRUE
CalmNext ==
    /\ Next
    /\ calm' = (calm /\ \A p, q \in Proc : p # q => Idle \in {call'[p], call'[q]})
CalmSpec == CalmInit /\ [][CalmNext]_<<vars, calm>>

\* A service or package never loses its category: the count in
\* CategoryService.remove may be stale by the time of the delete, and the
\* category that assertActiveCategory read may be gone by the time of the save.
\* And the site's page of a category lists what the site counts for it: no two
\* edits that overlap give two categories one slug.
CategoryKept ==
    /\ \A o \in Offer : offers[o] # None => categories[offers[o].category] # None
    /\ \A c \in DOMAIN PublicCounts : \A d \in IdsForSlug(categories[c].slug) :
          PublicCounts[c] = [services |-> Cardinality(PublicOffers(Service, d)),
                             packages |-> Cardinality(PublicOffers(Package, d))]

\* A failure in the middle of replacing or removing an image never leaves an
\* offer with an image that is not stored (admin-pricing.service.ts:300-301).
LiveImageStored ==
    calm => \A o \in Offer : offers[o] # None /\ offers[o].image # None =>
                objects[offers[o].image] = "stored"

\* At most one image of an item is its primary one, after edits of the item and
\* calls that stopped half-way too.
OnePrimary ==
    calm => \A i \in Item : \A k, l \in Gallery(i) : images[k].primary /\ images[l].primary => k = l
=============================================================================
