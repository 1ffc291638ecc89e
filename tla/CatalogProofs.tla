--------------------------- MODULE CatalogProofs ---------------------------
(***************************************************************************)
(* What the database's keys keep for every set of categories, services,    *)
(* packages and overlapping calls, stale as the checks of the handlers     *)
(* are; and, one call at a time, what the image store and the rows that    *)
(* name its objects keep, wherever a call stops.                           *)
(***************************************************************************)
EXTENDS CatalogProperties, TLAPS

\* The rows a call is about to save have the shape of their table.
Shaped(c) ==
    /\ c.pc = "save" => /\ c.id \in Category => c.row \in CategoryRow
                        /\ c.id \in Offer => c.row \in PackageRow
    /\ c.pc = "order" => /\ c.ids \in Seq(Category)
                         /\ c.at \in DOMAIN c.ids
                         /\ \A i \in DOMAIN c.ids : c.rows[c.ids[i]] \in CategoryRow
    /\ c.pc \in {"put", "image"} => c.id \in Offer /\ c.row \in PackageRow

\* What the foreign key and the unique index say of the two tables.
Keyed ==
    /\ categories \in [Category -> CategoryRow \cup {None}]
    /\ offers \in [Offer -> PackageRow \cup {None}]
    /\ \A o \in Offer : offers[o] # None => categories[offers[o].category] # None
    /\ \A c \in Category : categories[c] # None => SlugFree(categories[c].slug, c)

ShelfInv ==
    /\ Keyed
    /\ DOMAIN call = Proc
    /\ \A p \in Proc : Shaped(call[p])

-----------------------------------------------------------------------------

LEMMA GotoShaped ==
    ASSUME ShelfInv, NEW p \in Proc, NEW c, Shaped(c), Goto(p, c), Keyed'
    PROVE  ShelfInv'
  BY DEF ShelfInv, Goto, Shaped

LEMMA KeyedUntouched ==
    ASSUME Keyed, UNCHANGED <<categories, offers>>
    PROVE  Keyed'
  BY DEF Keyed, SlugFree

\* A call that leaves categories and offers alone keeps the invariant.
LEMMA ShelfUntouched ==
    ASSUME ShelfInv, NEW p \in Proc, NEW c, Shaped(c), Goto(p, c),
           UNCHANGED <<categories, offers>>
    PROVE  ShelfInv'
  BY KeyedUntouched, GotoShaped DEF ShelfInv

LEMMA OthersShaped ==
    ASSUME NEW c, c.pc \notin {"save", "order", "put", "image"}
    PROVE  Shaped(c)
  BY DEF Shaped

LEMMA SavingShaped ==
    /\ \A c \in Category, row \in CategoryRow : Shaped(Saving(c, row))
    /\ \A o \in Offer, row \in PackageRow : Shaped(Saving(o, row))
    /\ \A r \in Requirement \cup Branch \cup FieldId : \A row : Shaped(Saving(r, row))
  BY OffersAssumption, CatalogAssumption DEF Shaped, Saving

-----------------------------------------------------------------------------
(* Categories *)

LEMMA CategorySaved ==
    ASSUME ShelfInv, NEW p \in Proc, NEW c, Shaped(c), Goto(p, c),
           NEW d \in Category, NEW row \in CategoryRow, SlugFree(row.slug, d),
           categories' = [categories EXCEPT ![d] = row], offers' = offers
    PROVE  ShelfInv'
  <1>1. categories' \in [Category -> CategoryRow \cup {None}] /\ row # None
      BY OffersAssumption DEF ShelfInv, Keyed
  <1>2. \A o \in Offer : offers'[o] # None => categories'[offers'[o].category] # None
      BY <1>1 DEF ShelfInv, Keyed, PackageRow
  <1>3. \A e \in Category : categories'[e] # None =>
             \A x \in Category \ {e} : categories'[x] # None => categories'[x].slug # categories'[e].slug
      BY <1>1 DEF ShelfInv, Keyed, SlugFree
  <1> QED  BY <1>1, <1>2, <1>3, GotoShaped DEF ShelfInv, Keyed, SlugFree

LEMMA CategoryKeeps ==
    ASSUME ShelfInv, NEW p \in Proc, CategoryStep(p)
    PROVE  ShelfInv'
  <1> USE DEF Begin, shelf
  <1>1. CASE \E c \in Category, slug \in Slug : CreateCategory(p, c, slug)
    <2>1. PICK c \in Category, slug \in Slug : CreateCategory(p, c, slug)
        BY <1>1
    <2> DEFINE row == [slug |-> slug, active |-> TRUE, order |-> 0]
    <2>2. row \in CategoryRow
        BY DEF CategoryRow
    <2> QED  BY <2>1, <2>2, SavingShaped, ShelfUntouched DEF CreateCategory
  <1>2. CASE \E c \in Category, slug \in Slug : UpdateCategory(p, c, slug)
    <2>1. PICK c \in Category, slug \in Slug : UpdateCategory(p, c, slug)
        BY <1>2
    <2> DEFINE row == [categories[c] EXCEPT !.slug = slug]
    <2>2. row \in CategoryRow
        BY <2>1 DEF UpdateCategory, ShelfInv, Keyed, CategoryRow
    <2> QED  BY <2>1, <2>2, SavingShaped, ShelfUntouched DEF UpdateCategory
  <1>3. CASE \E c \in Category, active \in BOOLEAN : SetCategoryStatus(p, c, active)
    <2>1. PICK c \in Category, active \in BOOLEAN : SetCategoryStatus(p, c, active)
        BY <1>3
    <2> DEFINE row == [categories[c] EXCEPT !.active = active]
    <2>2. row \in CategoryRow
        BY <2>1 DEF SetCategoryStatus, ShelfInv, Keyed, CategoryRow
    <2> QED  BY <2>1, <2>2, SavingShaped, ShelfUntouched DEF SetCategoryStatus
  <1>4. CASE \E ids \in Order : ReorderCategories(p, ids)
    <2>1. PICK ids \in Order : ReorderCategories(p, ids)
        BY <1>4
    <2> DEFINE rows == [c \in {ids[i] : i \in DOMAIN ids} |-> categories[c]]
               c == [pc |-> "order", id |-> None, ids |-> ids, at |-> 1, rows |-> rows]
    <2>2. ids \in Seq(Category) /\ 1 \in DOMAIN ids
        BY OffersAssumption
    <2>3. \A i \in DOMAIN ids : categories[ids[i]] \in CategoryRow
        BY <2>1, <2>2 DEF ReorderCategories, ShelfInv, Keyed
    <2>4. \A i \in DOMAIN ids : rows[ids[i]] \in CategoryRow
        BY <2>3
    <2> HIDE DEF rows
    <2>5. Shaped(c)
        BY <2>2, <2>4 DEF Shaped
    <2>6. Goto(p, c)
        BY <2>1 DEF ReorderCategories, rows
    <2> QED  BY <2>1, <2>5, <2>6, ShelfUntouched DEF ReorderCategories
  <1>5. CASE \E c \in Category : RemoveCategory(p, c)
      BY <1>5, OthersShaped, ShelfUntouched DEF RemoveCategory
  <1>6. CASE SaveCategory(p)
    <2>1. call[p].id \in Category /\ call[p].row \in CategoryRow
        BY <1>6 DEF SaveCategory, ShelfInv, Shaped
    <2>2. Shaped(Idle)
        BY OthersShaped DEF Idle
    <2> QED  BY <1>6, <2>1, <2>2, CategorySaved DEF SaveCategory
  <1>7. CASE SaveOrder(p)
    <2> DEFINE b == call[p]
               d == b.ids[b.at]
               row == [b.rows[d] EXCEPT !.order = b.at - 1]
               more == [pc |-> "order", id |-> None, ids |-> b.ids, at |-> b.at + 1, rows |-> b.rows]
               c == IF b.at = Len(b.ids) THEN Idle ELSE more
    <2>1. /\ b.ids \in Seq(Category)
          /\ b.at \in DOMAIN b.ids
          /\ \A i \in DOMAIN b.ids : b.rows[b.ids[i]] \in CategoryRow
        BY <1>7 DEF SaveOrder, ShelfInv, Shaped
    <2>2. d \in Category /\ b.rows[d] \in CategoryRow /\ b.at - 1 \in Nat
        BY <2>1
    <2>3. row \in CategoryRow
        BY <2>2 DEF CategoryRow
    <2>4. b.at # Len(b.ids) => b.at + 1 \in DOMAIN b.ids
        BY <2>1
    <2>5. Shaped(c)
      <3>1. b.at # Len(b.ids) => Shaped(more)
          BY <2>1, <2>4 DEF Shaped
      <3>2. Shaped(Idle)
          BY OthersShaped DEF Idle
      <3> QED  BY <3>1, <3>2
    <2>6. /\ SlugFree(row.slug, d) /\ Goto(p, c)
          /\ categories' = [categories EXCEPT ![d] = row] /\ offers' = offers
        BY <1>7 DEF SaveOrder
    <2> HIDE DEF row, c, d
    <2> QED  BY <2>2, <2>3, <2>5, <2>6, CategorySaved
  <1>8. CASE DeleteCategory(p)
    <2> DEFINE d == call[p].id
    <2>1. /\ d \in Category /\ Holds(d) = {} /\ Goto(p, Idle)
          /\ categories' = [categories EXCEPT ![d] = None] /\ offers' = offers
        BY <1>8 DEF DeleteCategory
    <2>2. categories' \in [Category -> CategoryRow \cup {None}]
        BY <2>1 DEF ShelfInv, Keyed
    <2>3. \A o \in Offer : offers'[o] # None => categories'[offers'[o].category] # None
        BY <2>1 DEF ShelfInv, Keyed, PackageRow, Holds
    <2>4. \A e \in Category : categories'[e] # None =>
               \A x \in Category \ {e} : categories'[x] # None => categories'[x].slug # categories'[e].slug
        BY <2>1 DEF ShelfInv, Keyed, SlugFree
    <2>5. Keyed'
        BY <2>1, <2>2, <2>3, <2>4 DEF ShelfInv, Keyed, SlugFree
    <2>6. Shaped(Idle)
        BY OthersShaped DEF Idle
    <2> QED  BY <2>1, <2>5, <2>6, GotoShaped
  <1> QED  BY <1>1, <1>2, <1>3, <1>4, <1>5, <1>6, <1>7, <1>8 DEF CategoryStep

-----------------------------------------------------------------------------
(* Services, packages and their images *)

LEMMA OfferSaved ==
    ASSUME ShelfInv, NEW p \in Proc, NEW c, Shaped(c), Goto(p, c),
           NEW o \in Offer, NEW row \in PackageRow, categories[row.category] # None,
           offers' = [offers EXCEPT ![o] = row], categories' = categories
    PROVE  ShelfInv'
  <1>1. offers' \in [Offer -> PackageRow \cup {None}]
      BY DEF ShelfInv, Keyed
  <1>2. \A x \in Offer : offers'[x] # None => categories'[offers'[x].category] # None
      BY DEF ShelfInv, Keyed
  <1>3. Keyed'
      BY <1>1, <1>2 DEF ShelfInv, Keyed, SlugFree
  <1> QED  BY <1>3, GotoShaped

LEMMA OfferKeeps ==
    ASSUME ShelfInv, NEW p \in Proc, OfferStep(p)
    PROVE  ShelfInv'
  <1> USE DEF Begin, shelf, Offer
  <1>1. CASE \E s \in Service, c \in Category, active \in BOOLEAN : CreateService(p, s, c, active)
    <2>1. PICK s \in Service, c \in Category, active \in BOOLEAN : CreateService(p, s, c, active)
        BY <1>1
    <2>2. NewOffer(c, active, {}) \in PackageRow
        BY DEF NewOffer, PackageRow
    <2> QED  BY <2>1, <2>2, SavingShaped, ShelfUntouched DEF CreateService
  <1>2. CASE \E k \in Package, c \in Category, services \in SUBSET Service :
                CreatePackage(p, k, c, services)
    <2>1. PICK k \in Package, c \in Category, services \in SUBSET Service :
              CreatePackage(p, k, c, services)
        BY <1>2
    <2>2. NewOffer(c, TRUE, services) \in PackageRow
        BY DEF NewOffer, PackageRow
    <2> QED  BY <2>1, <2>2, SavingShaped, ShelfUntouched DEF CreatePackage
  <1>3. CASE \E s \in Service, c \in Category, active \in BOOLEAN : UpdateService(p, s, c, active)
    <2>1. PICK s \in Service, c \in Category, active \in BOOLEAN : UpdateService(p, s, c, active)
        BY <1>3
    <2> DEFINE row == [offers[s] EXCEPT !.category = c, !.active = active]
    <2>2. row \in PackageRow
        BY <2>1 DEF UpdateService, ShelfInv, Keyed, PackageRow
    <2> QED  BY <2>1, <2>2, SavingShaped, ShelfUntouched DEF UpdateService
  <1>4. CASE \E k \in Package, c \in Category, services \in SUBSET Service :
                UpdatePackage(p, k, c, services)
    <2>1. PICK k \in Package, c \in Category, services \in SUBSET Service :
              UpdatePackage(p, k, c, services)
        BY <1>4
    <2> DEFINE row == [offers[k] EXCEPT !.category = c, !.services = services]
    <2>2. row \in PackageRow
        BY <2>1 DEF UpdatePackage, ShelfInv, Keyed, PackageRow
    <2> QED  BY <2>1, <2>2, SavingShaped, ShelfUntouched DEF UpdatePackage
  <1>5. CASE \E k \in Package, active \in BOOLEAN : SetPackageStatus(p, k, active)
    <2>1. PICK k \in Package, active \in BOOLEAN : SetPackageStatus(p, k, active)
        BY <1>5
    <2> DEFINE row == [offers[k] EXCEPT !.active = active]
    <2>2. row \in PackageRow
        BY <2>1 DEF SetPackageStatus, ShelfInv, Keyed, PackageRow
    <2> QED  BY <2>1, <2>2, SavingShaped, ShelfUntouched DEF SetPackageStatus
  <1>6. CASE \E k \in Package : RemovePackage(p, k)
      BY <1>6, OthersShaped, ShelfUntouched DEF RemovePackage
  <1>7. CASE SaveOffer(p)
    <2>1. call[p].id \in Offer /\ call[p].row \in PackageRow
        BY <1>7 DEF SaveOffer, ShelfInv, Shaped
    <2>2. Shaped(Idle)
        BY OthersShaped DEF Idle
    <2> QED  BY <1>7, <2>1, <2>2, OfferSaved DEF SaveOffer
  <1>8. CASE DeletePackage(p)
    <2>1. Keyed'
        BY <1>8 DEF DeletePackage, ShelfInv, Keyed, SlugFree
    <2>2. Shaped(Idle)
        BY OthersShaped DEF Idle
    <2> QED  BY <1>8, <2>1, <2>2, GotoShaped DEF DeletePackage
  <1> QED  BY <1>1, <1>2, <1>3, <1>4, <1>5, <1>6, <1>7, <1>8 DEF OfferStep

LEMMA ImageKeeps ==
    ASSUME ShelfInv, NEW p \in Proc, ImageStep(p)
    PROVE  ShelfInv'
  <1> USE DEF Begin, shelf
  <1>1. CASE \E o \in Offer, key \in Image : SetImage(p, o, key)
    <2>1. PICK o \in Offer, key \in Image : SetImage(p, o, key)
        BY <1>1
    <2> DEFINE row == [offers[o] EXCEPT !.image = key]
               c == [pc |-> "put", id |-> o, key |-> key, row |-> row, previous |-> offers[o].image]
    <2>2. row \in PackageRow
        BY <2>1 DEF SetImage, ShelfInv, Keyed, PackageRow
    <2>3. Goto(p, c)
        BY <2>1 DEF SetImage
    <2> HIDE DEF row
    <2>4. Shaped(c)
        BY <2>2 DEF Shaped
    <2> QED  BY <2>1, <2>3, <2>4, ShelfUntouched DEF SetImage
  <1>2. CASE \E o \in Offer : RemoveImage(p, o)
    <2>1. PICK o \in Offer : RemoveImage(p, o)
        BY <1>2
    <2> DEFINE row == [offers[o] EXCEPT !.image = None]
               c == [pc |-> "image", id |-> o, row |-> row, previous |-> offers[o].image]
    <2>2. row \in PackageRow
        BY <2>1 DEF RemoveImage, ShelfInv, Keyed, PackageRow
    <2>3. Goto(p, c)
        BY <2>1 DEF RemoveImage
    <2> HIDE DEF row
    <2>4. Shaped(c)
        BY <2>2 DEF Shaped
    <2> QED  BY <2>1, <2>3, <2>4, ShelfUntouched DEF RemoveImage
  <1>3. CASE PutImage(p)
    <2> DEFINE b == call[p]
               c == [pc |-> "image", id |-> b.id, row |-> b.row, previous |-> b.previous]
    <2>1. b.id \in Offer /\ b.row \in PackageRow
        BY <1>3 DEF PutImage, ShelfInv, Shaped
    <2>2. Shaped(c)
        BY <2>1 DEF Shaped
    <2>3. Goto(p, c) /\ UNCHANGED <<categories, offers>>
        BY <1>3 DEF PutImage
    <2> QED  BY <2>2, <2>3, ShelfUntouched
  <1>4. CASE SaveImage(p)
    <2> DEFINE b == call[p]
               c == IF b.previous = None THEN Idle
                    ELSE [pc |-> "unlink", id |-> b.id, key |-> b.previous]
    <2>1. b.id \in Offer /\ b.row \in PackageRow
        BY <1>4 DEF SaveImage, ShelfInv, Shaped
    <2>2. Shaped(c)
        BY OthersShaped DEF Idle
    <2>3. /\ Goto(p, c) /\ categories' = categories /\ categories[b.row.category] # None
          /\ offers' = [offers EXCEPT ![b.id] = b.row]
        BY <1>4 DEF SaveImage
    <2> HIDE DEF c
    <2> QED  BY <2>1, <2>2, <2>3, OfferSaved
  <1>5. CASE UnlinkImage(p)
    <2>1. Shaped(Idle)
        BY OthersShaped DEF Idle
    <2> QED  BY <1>5, <2>1, ShelfUntouched DEF UnlinkImage
  <1> QED  BY <1>1, <1>2, <1>3, <1>4, <1>5 DEF ImageStep

-----------------------------------------------------------------------------
(* Requirements and the catalog, which share the calls *)

LEMMA RequirementKeeps ==
    ASSUME ShelfInv, NEW p \in Proc, RequirementStep(p)
    PROVE  ShelfInv'
  <1> USE DEF Begin, shelf
  <1>1. CASE \/ \E r \in Requirement, s \in Service, required \in BOOLEAN : CreateRequirement(p, r, s, required)
             \/ \E r \in Requirement, required \in BOOLEAN : UpdateRequirement(p, r, required)
      BY <1>1, SavingShaped, ShelfUntouched DEF CreateRequirement, UpdateRequirement
  <1>2. CASE \E r \in Requirement : RemoveRequirement(p, r)
      BY <1>2, OthersShaped, ShelfUntouched DEF RemoveRequirement
  <1>3. CASE SaveRequirement(p) \/ DeleteRequirement(p)
    <2>1. Shaped(Idle)
        BY OthersShaped DEF Idle
    <2> QED  BY <1>3, <2>1, ShelfUntouched DEF SaveRequirement, DeleteRequirement
  <1> QED  BY <1>1, <1>2, <1>3 DEF RequirementStep

LEMMA CatalogKeeps ==
    ASSUME ShelfInv, NEW p \in Proc, CatalogStep(p)
    PROVE  ShelfInv'
  <1> USE DEF Start, Begin, shelf
  <1>0. ASSUME NEW c, Goto(p, c), c.pc \notin {"save", "order", "put", "image"},
               UNCHANGED <<categories, offers>>
        PROVE  ShelfInv'
      BY <1>0, OthersShaped, ShelfUntouched
  <1>1. CASE \/ \E b \in Branch, parent \in Branch \cup {None} : CreateBranch(p, b, parent) \/ UpdateBranch(p, b, parent)
             \/ \E f \in FieldId, row \in FieldRow : CreateField(p, f, row) \/ UpdateField(p, f, row)
      BY <1>1, SavingShaped, ShelfUntouched DEF CreateBranch, UpdateBranch, CreateField, UpdateField
  <1>2. CASE \/ \E b \in Branch : DeleteBranch(p, b)
             \/ \E i \in Item : DeleteItem(p, i)
             \/ \E i \in Item, key \in Image, primary \in BOOLEAN : AddImage(p, i, key, primary)
             \/ \E key \in Image : DeleteImage(p, key)
      BY <1>0, <1>2 DEF DeleteBranch, DeleteItem, AddImage, DeleteImage
  <1>3. CASE \E i \in Item, row \in ItemRow :
                \/ \E given \in SUBSET Name : CreateItem(p, i, row, given)
                \/ \E given \in SUBSET Name \cup {None} : UpdateItem(p, i, row, given)
      BY <1>0, <1>3 DEF CreateItem, UpdateItem
  <1>4. CASE SaveBranch(p) \/ DropBranch(p) \/ SaveField(p) \/ FillValues(p) \/ DropItem(p)
             \/ InsertImage(p) \/ DropImage(p)
      BY <1>0, <1>4 DEF SaveBranch, DropBranch, SaveField, FillValues, DropItem, InsertImage, DropImage, Idle
  <1>5. CASE SaveItem(p) \/ ClearValues(p) \/ Demote(p) \/ DiscardImage(p)
      BY <1>0, <1>5 DEF SaveItem, ClearValues, Demote, DiscardImage
  <1>6. CASE CheckFields(p)
      BY <1>0, <1>6 DEF CheckFields, Idle
  <1>7. CASE StoreImage(p)
      BY <1>0, <1>7 DEF StoreImage
  <1> QED  BY <1>1, <1>2, <1>3, <1>4, <1>5, <1>6, <1>7 DEF CatalogStep

-----------------------------------------------------------------------------

LEMMA KeyedKeeps == Keyed => CategoryKept
  <1> SUFFICES ASSUME Keyed
               PROVE  CategoryKept
      OBVIOUS
  <1>1. ASSUME NEW c \in DOMAIN PublicCounts, NEW d \in IdsForSlug(categories[c].slug)
        PROVE  PublicCounts[c] = [services |-> Cardinality(PublicOffers(Service, d)),
                                  packages |-> Cardinality(PublicOffers(Package, d))]
    <2>1. c \in Category /\ categories[c] # None /\ d = c
        BY <1>1 DEF PublicCounts, IdsForSlug, Keyed, SlugFree
    <2>2. {o \in Holds(c) : o \in Service /\ offers[o].active} = PublicOffers(Service, d)
        BY <2>1 DEF Holds, PublicOffers, Offer
    <2>3. {o \in Holds(c) : o \in Package /\ offers[o].active} = PublicOffers(Package, d)
        BY <2>1 DEF Holds, PublicOffers, Offer
    <2> QED  BY <1>1, <2>2, <2>3 DEF PublicCounts
  <1> QED  BY <1>1 DEF CategoryKept, Keyed

LEMMA ShelfStart == CalmInit => ShelfInv
  <1> SUFFICES ASSUME Init
               PROVE  ShelfInv
      BY DEF CalmInit
  <1>1. PICK slug \in Slug :
            categories = [c \in Category |-> IF c # General THEN None
                                             ELSE [slug |-> slug, active |-> TRUE, order |-> 0]]
      BY DEF Init, OffersInit
  <1>2. Keyed
      BY <1>1 DEF Init, OffersInit, Keyed, CategoryRow, SlugFree
  <1> QED  BY <1>2 DEF Init, OffersInit, ShelfInv, Shaped, Idle

LEMMA ShelfStep ==
    ASSUME ShelfInv, CalmNext
    PROVE  ShelfInv'
  <1>1. PICK p \in Proc : CatalogStep(p) \/ OffersStep(p) \/ Fail(p)
      BY DEF CalmNext, Next
  <1>2. CASE Fail(p)
    <2>1. Shaped(Idle)
        BY OthersShaped DEF Idle
    <2> QED  BY <1>2, <2>1, ShelfUntouched DEF Fail, shelf
  <1> QED  BY <1>1, <1>2, CatalogKeeps, CategoryKeeps, OfferKeeps, ImageKeeps,
              RequirementKeeps DEF OffersStep

\* No service or package loses its category, and the site's page of a category lists what
\* the site counts for it (category.service.ts remove, create and update; the foreign keys
\* and the index of the migrations).
THEOREM CategoryTheorem == CalmSpec => []CategoryKept
  <1>1. CalmInit => ShelfInv
      BY ShelfStart
  <1>2. ShelfInv /\ [CalmNext]_<<vars, calm>> => ShelfInv'
      BY ShelfStep DEF vars, shelf, ShelfInv, Keyed, SlugFree, Shaped
  <1>3. ShelfInv => CategoryKept
      BY KeyedKeeps DEF ShelfInv
  <1> QED  BY <1>1, <1>2, <1>3, PTL DEF CalmSpec

-----------------------------------------------------------------------------
(* One call at a time: what the store holds for the rows that name it *)

Quiet == \A p, q \in Proc : p # q => Idle \in {call[p], call[q]}

\* No offer O shows the object.
Unshown(k, O) == \A o \in Offer : O[o] # None /\ O[o].image # None => O[o].image # k

\* Offers O show stored objects B, each its own and none from a gallery of G; and an item
\* has one primary image.
Stored(O, B, G) ==
    /\ B \in [Image -> {"new", "stored", "gone"}]
    /\ G \in [Image -> ImageRow \cup {None}]
    /\ \A o \in Offer : O[o] # None /\ O[o].image # None =>
          /\ B[O[o].image] = "stored"
          /\ G[O[o].image] = None
          /\ \A x \in Offer \ {o} : O[x] # None => O[x].image # O[o].image
    /\ \A k \in Image : G[k] # None => B[k] # "new"
    /\ \A k, l \in Image :
          G[k] # None /\ G[l] # None /\ G[k].item = G[l].item /\ G[k].primary /\ G[l].primary => k = l

\* What a call holds is still so: the image a row shows, and the one it showed; the object
\* it is about to store, show or remove; the gallery it read, and that it demoted.
Steady(c, O, B, G) ==
    /\ c.pc = "save" /\ c.id \in Offer /\ c.row.image # None => O[c.id] # None /\ O[c.id].image = c.row.image
    /\ c.pc = "put" => /\ O[c.id] # None /\ c.previous = O[c.id].image
                       /\ c.key \in Image /\ c.row.image = c.key /\ B[c.key] = "new"
    /\ c.pc = "image" => /\ O[c.id] # None /\ c.previous = O[c.id].image
                         /\ c.row.image # None => /\ B[c.row.image] = "stored"
                                                  /\ G[c.row.image] = None
                                                  /\ Unshown(c.row.image, O)
    /\ c.pc = "unlink" => c.key \in Image /\ Unshown(c.key, O)
    /\ c.pc = "store" => c.id \in Image /\ c.row \in ImageRow /\ B[c.id] = "new"
    /\ c.pc \in {"demote", "insert"} =>
          c.id \in Image /\ c.row \in ImageRow /\ B[c.id] = "stored" /\ Unshown(c.id, O)
    /\ c.pc = "insert" /\ c.row.primary =>
          \A k \in Image : G[k] # None /\ G[k].item = c.row.item => ~G[k].primary
    /\ c.pc = "discard" => c.id \in Image /\ Unshown(c.id, O)
    /\ c.pc = "item" => \A k \in DOMAIN c.gallery : c.gallery[k] = G[k]

ServedInv ==
    /\ ShelfInv
    /\ calm \in BOOLEAN
    /\ calm => /\ Quiet
               /\ Stored(offers, objects, images)
               /\ \A p \in Proc : Steady(call[p], offers, objects, images)

\* What a step of a quiet system keeps.
Served ==
    /\ Stored(offers', objects', images')
    /\ \A p \in Proc : Steady(call'[p], offers', objects', images')

LEMMA CalmBefore ==
    ASSUME calm \in BOOLEAN, CalmNext
    PROVE  calm' \in BOOLEAN /\ (calm' => calm /\ Quiet')
  <1>1. CASE calm /\ Quiet'
      BY <1>1 DEF CalmNext, Quiet
  <1>2. CASE ~(calm /\ Quiet')
      <2>1. calm' = FALSE
          BY <1>2 DEF CalmNext, Quiet
      <2> QED  BY <2>1
  <1> QED  BY <1>1, <1>2

LEMMA OthersSteady ==
    ASSUME NEW c, NEW O, NEW B, NEW G,
           c.pc \notin {"save", "put", "image", "unlink", "store", "demote", "insert", "discard", "item"}
    PROVE  Steady(c, O, B, G)
  BY DEF Steady

\* A call begins, or goes on and leaves offers, objects and galleries alone.
LEMMA BeginSteady ==
    ASSUME ServedInv, calm, NEW p \in Proc, NEW c, Goto(p, c), Steady(c, offers, objects, images),
           UNCHANGED <<offers, objects, images>>
    PROVE  Served
  BY DEF ServedInv, ShelfInv, Served, Goto

\* A call that goes on is alone.
LEMMA GoSteady ==
    ASSUME ServedInv, calm, NEW p \in Proc, call[p] # Idle, NEW c, Goto(p, c),
           Steady(c, offers', objects', images'), Stored(offers', objects', images')
    PROVE  Served
  <1> SUFFICES ASSUME NEW q \in Proc \ {p}
               PROVE  Steady(call'[q], offers', objects', images')
      BY DEF ServedInv, ShelfInv, Served, Goto
  <1>1. call[q] = Idle /\ call'[q] = call[q]
      BY DEF ServedInv, ShelfInv, Quiet, Goto
  <1> QED  BY <1>1, OthersSteady DEF Idle

\* Calls that have no image in hand.
LEMMA EasyServed ==
    ASSUME ServedInv, calm, NEW p \in Proc, NEW c, Goto(p, c),
           \/ c = Idle
           \/ c.pc \in {"order", "delete", "check", "clear", "fill"}
           \/ c.pc = "save" /\ c.id \notin Offer,
           UNCHANGED <<offers, objects, images>>
    PROVE  Served
  <1>1. Steady(c, offers, objects, images)
      BY DEF Steady, Idle
  <1> QED  BY <1>1, BeginSteady

LEMMA CategoryServed ==
    ASSUME ServedInv, calm, NEW p \in Proc, CategoryStep(p), images' = images
    PROVE  Served
  <1> USE DEF Begin, shelf, Saving
  <1>1. ASSUME NEW c \in Category, NEW slug \in Slug, CreateCategory(p, c, slug) \/ UpdateCategory(p, c, slug)
        PROVE  Served
      BY <1>1, EasyServed, OffersAssumption DEF CreateCategory, UpdateCategory
  <1>2. ASSUME NEW c \in Category, NEW active \in BOOLEAN, SetCategoryStatus(p, c, active)
        PROVE  Served
      BY <1>2, EasyServed, OffersAssumption DEF SetCategoryStatus
  <1>3. CASE \E ids \in Order : ReorderCategories(p, ids)
      BY <1>3, EasyServed DEF ReorderCategories
  <1>4. CASE \E c \in Category : RemoveCategory(p, c)
      BY <1>4, EasyServed DEF RemoveCategory
  <1>5. CASE SaveCategory(p) \/ DeleteCategory(p)
      BY <1>5, EasyServed DEF SaveCategory, DeleteCategory
  <1>6. CASE SaveOrder(p)
      BY <1>6, EasyServed DEF SaveOrder
  <1> QED  BY <1>1, <1>2, <1>3, <1>4, <1>5, <1>6 DEF CategoryStep

\* A call is about to save an offer with the image it has, or none.
LEMMA SavingServed ==
    ASSUME ServedInv, calm, NEW p \in Proc, NEW o \in Offer, NEW row, Goto(p, Saving(o, row)),
           row.image # None => offers[o] # None /\ offers[o].image = row.image,
           UNCHANGED <<offers, objects, images>>
    PROVE  Served
  <1>1. Steady(Saving(o, row), offers, objects, images)
      BY DEF Steady, Saving
  <1> QED  BY <1>1, BeginSteady

LEMMA OfferServed ==
    ASSUME ServedInv, calm, NEW p \in Proc, OfferStep(p), images' = images
    PROVE  Served
  <1> USE DEF Begin, shelf, Offer
  <1>1. ASSUME NEW s \in Service, NEW c \in Category, NEW active \in BOOLEAN,
               CreateService(p, s, c, active)
        PROVE  Served
      BY <1>1, SavingServed DEF CreateService, NewOffer
  <1>2. ASSUME NEW k \in Package, NEW c \in Category, NEW services \in SUBSET Service,
               CreatePackage(p, k, c, services)
        PROVE  Served
      BY <1>2, SavingServed DEF CreatePackage, NewOffer
  <1>3. ASSUME NEW s \in Service, NEW c \in Category, NEW active \in BOOLEAN,
               UpdateService(p, s, c, active)
        PROVE  Served
    <2> DEFINE row == [offers[s] EXCEPT !.category = c, !.active = active]
    <2>1. offers[s] # None /\ row.image = offers[s].image
        BY <1>3 DEF UpdateService, ServedInv, ShelfInv, Keyed, PackageRow
    <2>2. Goto(p, Saving(s, row)) /\ UNCHANGED <<offers, objects, images>>
        BY <1>3 DEF UpdateService
    <2> HIDE DEF row
    <2> QED  BY <2>1, <2>2, SavingServed
  <1>4. ASSUME NEW k \in Package, NEW c \in Category, NEW services \in SUBSET Service,
               UpdatePackage(p, k, c, services)
        PROVE  Served
    <2> DEFINE row == [offers[k] EXCEPT !.category = c, !.services = services]
    <2>1. offers[k] # None /\ row.image = offers[k].image
        BY <1>4 DEF UpdatePackage, ServedInv, ShelfInv, Keyed, PackageRow
    <2>2. Goto(p, Saving(k, row)) /\ UNCHANGED <<offers, objects, images>>
        BY <1>4 DEF UpdatePackage
    <2> HIDE DEF row
    <2> QED  BY <2>1, <2>2, SavingServed
  <1>5. ASSUME NEW k \in Package, NEW active \in BOOLEAN, SetPackageStatus(p, k, active)
        PROVE  Served
    <2> DEFINE row == [offers[k] EXCEPT !.active = active]
    <2>1. offers[k] # None /\ row.image = offers[k].image
        BY <1>5 DEF SetPackageStatus, ServedInv, ShelfInv, Keyed, PackageRow
    <2>2. Goto(p, Saving(k, row)) /\ UNCHANGED <<offers, objects, images>>
        BY <1>5 DEF SetPackageStatus
    <2> HIDE DEF row
    <2> QED  BY <2>1, <2>2, SavingServed
  <1>6. CASE \E k \in Package : RemovePackage(p, k)
      BY <1>6, EasyServed DEF RemovePackage
  <1>7. CASE SaveOffer(p)
    <2> DEFINE b == call[p]
    <2>1. /\ b.pc = "save" /\ b.id \in Offer /\ b.row \in PackageRow /\ Goto(p, Idle)
          /\ offers' = [offers EXCEPT ![b.id] = b.row] /\ UNCHANGED <<objects, images>>
          /\ b.row.image # None => offers[b.id] # None /\ offers[b.id].image = b.row.image
        BY <1>7 DEF SaveOffer, ServedInv, ShelfInv, Shaped, Steady
    <2>2. Stored(offers', objects', images')
        BY <2>1 DEF ServedInv, ShelfInv, Keyed, Stored
    <2>3. call[p] # Idle /\ Steady(Idle, offers', objects', images')
        BY <2>1, OthersSteady DEF Idle
    <2> QED  BY <2>1, <2>2, <2>3, GoSteady
  <1>8. CASE DeletePackage(p)
    <2> DEFINE b == call[p]
    <2>1. /\ b.pc = "delete" /\ Goto(p, Idle)
          /\ offers' = [offers EXCEPT ![b.id] = None] /\ UNCHANGED <<objects, images>>
        BY <1>8 DEF DeletePackage
    <2>2. Stored(offers', objects', images')
        BY <2>1 DEF ServedInv, ShelfInv, Keyed, Stored
    <2>3. call[p] # Idle /\ Steady(Idle, offers', objects', images')
        BY <2>1, OthersSteady DEF Idle
    <2> QED  BY <2>1, <2>2, <2>3, GoSteady
  <1> QED  BY <1>1, <1>2, <1>3, <1>4, <1>5, <1>6, <1>7, <1>8 DEF OfferStep

LEMMA ImageServed ==
    ASSUME ServedInv, calm, NEW p \in Proc, ImageStep(p), images' = images
    PROVE  Served
  <1> USE DEF Begin, shelf
  <1>1. ASSUME NEW o \in Offer, NEW key \in Image, SetImage(p, o, key)
        PROVE  Served
    <2> DEFINE row == [offers[o] EXCEPT !.image = key]
               c == [pc |-> "put", id |-> o, key |-> key, row |-> row, previous |-> offers[o].image]
    <2>1. offers[o] # None /\ row.image = key /\ objects[key] = "new"
        BY <1>1 DEF SetImage, FreshKey, ServedInv, ShelfInv, Keyed, PackageRow
    <2>2. Goto(p, c) /\ UNCHANGED <<offers, objects, images>>
        BY <1>1 DEF SetImage
    <2> HIDE DEF row
    <2>3. Steady(c, offers, objects, images)
        BY <2>1 DEF Steady
    <2> QED  BY <2>2, <2>3, BeginSteady
  <1>2. ASSUME NEW o \in Offer, RemoveImage(p, o)
        PROVE  Served
    <2> DEFINE row == [offers[o] EXCEPT !.image = None]
               c == [pc |-> "image", id |-> o, row |-> row, previous |-> offers[o].image]
    <2>1. offers[o] # None /\ row.image = None
        BY <1>2 DEF RemoveImage, ServedInv, ShelfInv, Keyed, PackageRow
    <2>2. Goto(p, c) /\ UNCHANGED <<offers, objects, images>>
        BY <1>2 DEF RemoveImage
    <2> HIDE DEF row
    <2>3. Steady(c, offers, objects, images)
        BY <2>1 DEF Steady
    <2> QED  BY <2>2, <2>3, BeginSteady
  <1>3. CASE PutImage(p)
    <2> DEFINE b == call[p]
               c == [pc |-> "image", id |-> b.id, row |-> b.row, previous |-> b.previous]
    <2>1. /\ b.pc = "put" /\ Goto(p, c) /\ UNCHANGED <<offers, images>>
          /\ objects' = [objects EXCEPT ![b.key] = "stored"]
        BY <1>3 DEF PutImage
    <2>2. /\ offers[b.id] # None /\ b.previous = offers[b.id].image
          /\ b.key \in Image /\ b.row.image = b.key /\ objects[b.key] = "new"
        BY <2>1 DEF ServedInv, Steady
    <2>3. Stored(offers, objects, images)
        BY DEF ServedInv
    <2>4. Stored(offers', objects', images')
        BY <2>1, <2>2, <2>3 DEF Stored
    <2>5. images[b.key] = None /\ Unshown(b.key, offers)
        BY <2>2, <2>3 DEF Stored, Unshown
    <2>6. objects'[b.key] = "stored"
        BY <2>1, <2>2, <2>3 DEF Stored
    <2>7. Unshown(b.key, offers')
        BY <2>1, <2>5
    <2>8. Steady(c, offers', objects', images')
        BY <2>1, <2>2, <2>5, <2>6, <2>7 DEF Steady
    <2>9. b # Idle
        BY <2>1 DEF Idle
    <2> HIDE DEF c
    <2> QED  BY <2>1, <2>4, <2>8, <2>9, GoSteady
  <1>4. CASE SaveImage(p)
    <2> DEFINE b == call[p]
               unlink == [pc |-> "unlink", id |-> b.id, key |-> b.previous]
               c == IF b.previous = None THEN Idle ELSE unlink
    <2>1. /\ b.pc = "image" /\ Goto(p, c) /\ UNCHANGED <<objects, images>>
          /\ offers' = [offers EXCEPT ![b.id] = b.row]
        BY <1>4 DEF SaveImage
    <2>2. /\ b.id \in Offer /\ b.row \in PackageRow
          /\ offers[b.id] # None /\ b.previous = offers[b.id].image
          /\ b.row.image # None => /\ objects[b.row.image] = "stored"
                                   /\ images[b.row.image] = None
                                   /\ Unshown(b.row.image, offers)
        BY <2>1 DEF ServedInv, ShelfInv, Shaped, Steady
    <2>3. Stored(offers, objects, images) /\ Keyed
        BY DEF ServedInv, ShelfInv
    <2>4. offers'[b.id] = b.row /\ \A x \in Offer \ {b.id} : offers'[x] = offers[x]
        BY <2>1, <2>2, <2>3 DEF Keyed
    <2>5. Stored(offers', objects', images')
        BY <2>1, <2>2, <2>3, <2>4 DEF Stored, Unshown
    <2>6. ASSUME b.previous # None
          PROVE  Steady(unlink, offers', objects', images')
      <3>1. b.previous \in Image
          BY <2>2, <2>3, <2>6 DEF Keyed, PackageRow
      <3>2. Unshown(b.previous, offers')
          BY <2>2, <2>3, <2>4, <2>6 DEF Stored, Unshown
      <3> QED  BY <3>1, <3>2 DEF Steady
    <2>7. Steady(Idle, offers', objects', images') /\ b # Idle
        BY <2>1, OthersSteady DEF Idle
    <2>8. Steady(c, offers', objects', images')
        BY <2>6, <2>7
    <2> HIDE DEF c
    <2> QED  BY <2>1, <2>5, <2>7, <2>8, GoSteady
  <1>5. CASE UnlinkImage(p)
    <2> DEFINE b == call[p]
    <2>1. /\ b.pc = "unlink" /\ Goto(p, Idle) /\ UNCHANGED <<offers, images>>
          /\ objects' \in {Unlinked(b.key), objects}
        BY <1>5 DEF UnlinkImage
    <2>2. b.key \in Image /\ Unshown(b.key, offers) /\ Stored(offers, objects, images)
        BY <2>1 DEF ServedInv, Steady
    <2>3. Stored(offers', objects', images')
      <3>1. CASE objects' = objects
          BY <2>1, <2>2, <3>1 DEF Stored
      <3>2. CASE objects' = [objects EXCEPT ![b.key] = "gone"]
          BY <2>1, <2>2, <3>2 DEF Stored, Unshown
      <3> QED  BY <2>1, <3>1, <3>2 DEF Unlinked
    <2>4. Steady(Idle, offers', objects', images') /\ b # Idle
        BY <2>1, OthersSteady DEF Idle
    <2> QED  BY <2>1, <2>3, <2>4, GoSteady
  <1> QED  BY <1>1, <1>2, <1>3, <1>4, <1>5 DEF ImageStep

LEMMA RequirementServed ==
    ASSUME ServedInv, calm, NEW p \in Proc, RequirementStep(p), images' = images
    PROVE  Served
  <1> USE DEF Begin, shelf, Saving
  <1>1. CASE \/ \E r \in Requirement, s \in Service, required \in BOOLEAN : CreateRequirement(p, r, s, required)
             \/ \E r \in Requirement, required \in BOOLEAN : UpdateRequirement(p, r, required)
      BY <1>1, EasyServed, OffersAssumption DEF CreateRequirement, UpdateRequirement
  <1>2. CASE \E r \in Requirement : RemoveRequirement(p, r)
      BY <1>2, EasyServed DEF RemoveRequirement
  <1>3. CASE SaveRequirement(p) \/ DeleteRequirement(p)
      BY <1>3, EasyServed DEF SaveRequirement, DeleteRequirement
  <1> QED  BY <1>1, <1>2, <1>3 DEF RequirementStep

LEMMA BranchServed ==
    ASSUME ServedInv, calm, NEW p \in Proc,
           \/ \E b \in Branch, parent \in Branch \cup {None} : CreateBranch(p, b, parent) \/ UpdateBranch(p, b, parent)
           \/ \E b \in Branch : DeleteBranch(p, b)
           \/ \E f \in FieldId, row \in FieldRow : CreateField(p, f, row) \/ UpdateField(p, f, row)
           \/ SaveBranch(p) \/ DropBranch(p) \/ SaveField(p) \/ CheckFields(p)
           \/ ClearValues(p) \/ FillValues(p)
           \/ \E i \in Item : DeleteItem(p, i)
    PROVE  Served
  <1> USE DEF Start, Begin, shelf, catalog, Saving
  <1>1. CASE \/ \E b \in Branch, parent \in Branch \cup {None} : CreateBranch(p, b, parent) \/ UpdateBranch(p, b, parent)
             \/ \E f \in FieldId, row \in FieldRow : CreateField(p, f, row) \/ UpdateField(p, f, row)
      BY <1>1, EasyServed, CatalogAssumption DEF CreateBranch, UpdateBranch, CreateField, UpdateField
  <1>2. CASE \/ \E b \in Branch : DeleteBranch(p, b)
             \/ \E i \in Item : DeleteItem(p, i)
      BY <1>2, EasyServed DEF DeleteBranch, DeleteItem
  <1>3. CASE SaveBranch(p) \/ DropBranch(p) \/ SaveField(p)
      BY <1>3, EasyServed DEF SaveBranch, DropBranch, SaveField
  <1>4. CASE ClearValues(p) \/ FillValues(p)
      BY <1>4, EasyServed DEF ClearValues, FillValues
  <1>5. CASE CheckFields(p)
      BY <1>5, EasyServed DEF CheckFields
  <1> QED  BY <1>1, <1>2, <1>3, <1>4, <1>5

LEMMA ItemServed ==
    ASSUME ServedInv, calm, NEW p \in Proc,
           \/ \E i \in Item, row \in ItemRow :
                 \/ \E given \in SUBSET Name : CreateItem(p, i, row, given)
                 \/ \E given \in SUBSET Name \cup {None} : UpdateItem(p, i, row, given)
           \/ SaveItem(p) \/ DropItem(p)
    PROVE  Served
  <1>1. ASSUME NEW i \in Item, NEW row \in ItemRow, NEW given \in SUBSET Name, CreateItem(p, i, row, given)
        PROVE  Served
    <2> DEFINE c == [pc |-> "item", id |-> i, row |-> row, given |-> given,
                     had |-> {}, gallery |-> [k \in {} |-> None]]
    <2>1. Goto(p, c) /\ UNCHANGED <<offers, objects, images>>
        BY <1>1 DEF CreateItem, Start, Begin, shelf, catalog
    <2>2. Steady(c, offers, objects, images)
        BY DEF Steady
    <2> HIDE DEF c
    <2> QED  BY <2>1, <2>2, BeginSteady
  <1>2. ASSUME NEW i \in Item, NEW row \in ItemRow, NEW given \in SUBSET Name \cup {None},
               UpdateItem(p, i, row, given)
        PROVE  Served
    <2> DEFINE gallery == [k \in Gallery(i) |-> images[k]]
               names == IF given = None THEN {fields[f].name : f \in values[i]} ELSE given
               c == [pc |-> "item", id |-> i, row |-> row, given |-> names,
                     had |-> values[i], gallery |-> gallery]
    <2>1. Goto(p, c) /\ UNCHANGED <<offers, objects, images>>
        BY <1>2 DEF UpdateItem, Start, Begin, shelf, catalog
    <2>2. \A k \in DOMAIN gallery : gallery[k] = images[k]
        OBVIOUS
    <2> HIDE DEF gallery, names
    <2>3. Steady(c, offers, objects, images)
        BY <2>2 DEF Steady
    <2> HIDE DEF c
    <2> QED  BY <2>1, <2>3, BeginSteady
  <1>3. CASE SaveItem(p)
    <2> DEFINE b == call[p]
               c == [pc |-> "check", id |-> b.id, type |-> b.row.type, given |-> b.given]
    <2>1. /\ b.pc = "item" /\ Goto(p, c) /\ UNCHANGED <<offers, objects>>
          /\ images' = [k \in Image |-> IF k \in DOMAIN b.gallery THEN b.gallery[k] ELSE images[k]]
        BY <1>3 DEF SaveItem, shelf
    <2>2. images \in [Image -> ImageRow \cup {None}] /\ \A k \in DOMAIN b.gallery : b.gallery[k] = images[k]
        BY <2>1 DEF ServedInv, Stored, Steady
    <2>3. images' = images
        BY <2>1, <2>2
    <2> QED  BY <2>1, <2>3, EasyServed
  <1>4. CASE DropItem(p)
    <2> DEFINE b == call[p]
    <2>1. /\ b.pc = "delete" /\ Goto(p, Idle) /\ UNCHANGED <<offers, objects>>
          /\ images' = [k \in Image |-> IF k \in Gallery(b.id) THEN None ELSE images[k]]
        BY <1>4 DEF DropItem, shelf
    <2>2. Stored(offers, objects, images) /\ Keyed
        BY DEF ServedInv, ShelfInv
    <2>3. images' \in [Image -> ImageRow \cup {None}] /\ \A k \in Image : images'[k] \in {images[k], None}
        BY <2>1, <2>2 DEF Stored
    <2>4. Stored(offers', objects', images')
        BY <2>1, <2>2, <2>3 DEF Stored, Keyed, PackageRow
    <2>5. Steady(Idle, offers', objects', images') /\ b # Idle
        BY <2>1, OthersSteady DEF Idle
    <2> QED  BY <2>1, <2>4, <2>5, GoSteady
  <1> QED  BY <1>1, <1>2, <1>3, <1>4

LEMMA Demoted ==
    ASSUME NEW r \in ImageRow
    PROVE  /\ [r EXCEPT !.primary = FALSE] \in ImageRow
           /\ [r EXCEPT !.primary = FALSE].item = r.item
           /\ ~[r EXCEPT !.primary = FALSE].primary
  <1>1. [r EXCEPT !.primary = FALSE] \in ImageRow
      BY DEF ImageRow
  <1>2. [r EXCEPT !.primary = FALSE].item = r.item
      BY DEF ImageRow
  <1>3. [r EXCEPT !.primary = FALSE].primary = FALSE
      BY DEF ImageRow
  <1> QED  BY <1>1, <1>2, <1>3

LEMMA GalleryServed ==
    ASSUME ServedInv, calm, NEW p \in Proc,
           \/ \E i \in Item, key \in Image, primary \in BOOLEAN : AddImage(p, i, key, primary)
           \/ \E key \in Image : DeleteImage(p, key)
           \/ StoreImage(p) \/ Demote(p) \/ InsertImage(p) \/ DiscardImage(p) \/ DropImage(p)
    PROVE  Served
  <1> DEFINE b == call[p]
  <1>0. Stored(offers, objects, images) /\ Keyed
      BY DEF ServedInv, ShelfInv
  <1>1. ASSUME NEW i \in Item, NEW key \in Image, NEW primary \in BOOLEAN, AddImage(p, i, key, primary)
        PROVE  Served
    <2> DEFINE row == [item |-> i, primary |-> primary]
               c == [pc |-> "store", id |-> key, key |-> key, row |-> row]
    <2>1. Goto(p, c) /\ UNCHANGED <<offers, objects, images>> /\ objects[key] = "new"
        BY <1>1 DEF AddImage, Start, Begin, shelf, catalog, FreshKey
    <2>2. row \in ImageRow
        BY DEF ImageRow
    <2> HIDE DEF row
    <2>3. Steady(c, offers, objects, images)
        BY <2>1, <2>2 DEF Steady
    <2> QED  BY <2>1, <2>3, BeginSteady
  <1>2. ASSUME NEW key \in Image, DeleteImage(p, key)
        PROVE  Served
    <2> DEFINE c == [pc |-> "discard", id |-> key]
    <2>1. Goto(p, c) /\ UNCHANGED <<offers, objects, images>> /\ images[key] # None
        BY <1>2 DEF DeleteImage, Start, Begin, shelf, catalog
    <2>2. Unshown(key, offers)
        BY <1>0, <2>1 DEF Stored, Unshown
    <2>3. Steady(c, offers, objects, images)
        BY <2>2 DEF Steady
    <2> QED  BY <2>1, <2>3, BeginSteady
  <1>3. CASE StoreImage(p)
    <2> DEFINE c == [pc |-> IF b.row.primary THEN "demote" ELSE "insert", id |-> b.id, row |-> b.row]
    <2>1. /\ b.pc = "store" /\ Goto(p, c) /\ UNCHANGED <<offers, images>>
          /\ objects' = [objects EXCEPT ![b.id] = "stored"]
        BY <1>3 DEF StoreImage, shelf, catalog
    <2>2. b.id \in Image /\ b.row \in ImageRow /\ objects[b.id] = "new"
        BY <2>1 DEF ServedInv, Steady
    <2>3. Unshown(b.id, offers) /\ objects'[b.id] = "stored"
        BY <1>0, <2>1, <2>2 DEF Stored, Unshown
    <2>4. Stored(offers', objects', images')
        BY <1>0, <2>1, <2>2 DEF Stored
    <2>5. Steady(c, offers', objects', images')
        BY <2>1, <2>2, <2>3 DEF Steady, Unshown
    <2>6. b # Idle
        BY <2>1 DEF Idle
    <2> HIDE DEF c
    <2> QED  BY <2>1, <2>4, <2>5, <2>6, GoSteady
  <1>4. CASE Demote(p)
    <2> DEFINE c == [pc |-> "insert", id |-> b.id, row |-> b.row]
    <2>1. /\ b.pc = "demote" /\ Goto(p, c) /\ UNCHANGED <<offers, objects>>
          /\ images' = [k \in Image |-> IF images[k] # None /\ images[k].item = b.row.item
                                        THEN [images[k] EXCEPT !.primary = FALSE] ELSE images[k]]
        BY <1>4 DEF Demote, Gallery, shelf
    <2>2. b.id \in Image /\ b.row \in ImageRow /\ objects[b.id] = "stored" /\ Unshown(b.id, offers)
        BY <2>1 DEF ServedInv, Steady
    <2>3. \A k \in Image :
             \/ images'[k] = images[k] /\ (images[k] # None => images[k].item # b.row.item)
             \/ /\ images[k] # None /\ images[k].item = b.row.item
                /\ images'[k] \in ImageRow /\ images'[k].item = b.row.item /\ ~images'[k].primary
      <3> SUFFICES ASSUME NEW k \in Image, images[k] # None, images[k].item = b.row.item
                   PROVE  images'[k] \in ImageRow /\ images'[k].item = b.row.item /\ ~images'[k].primary
          BY <2>1
      <3>1. images[k] \in ImageRow /\ images'[k] = [images[k] EXCEPT !.primary = FALSE]
          BY <1>0, <2>1 DEF Stored
      <3> QED  BY <3>1, Demoted
    <2>4. DOMAIN images' = Image
        BY <2>1
    <2>5. images' \in [Image -> ImageRow \cup {None}]
      <3>1. \A k \in Image : images[k] \in ImageRow \cup {None}
          BY <1>0 DEF Stored
      <3>2. \A k \in Image : images'[k] \in ImageRow \cup {None}
          BY <2>3, <3>1
      <3> QED  BY <2>1, <3>2
    <2>6. Stored(offers', objects', images')
      <3>1. \A k \in Image : images[k] = None => images'[k] = None
          BY <2>3
      <3>2. \A k \in Image : images'[k] # None => objects[k] # "new"
          BY <1>0, <3>1 DEF Stored
      <3>3. ASSUME NEW k \in Image, NEW l \in Image, images'[k] # None, images'[l] # None,
                   images'[k].item = images'[l].item, images'[k].primary, images'[l].primary
            PROVE  k = l
          BY <1>0, <2>3, <3>3 DEF Stored
      <3>4. ASSUME NEW o \in Offer, offers[o] # None, offers[o].image # None
            PROVE  images'[offers[o].image] = None
          BY <1>0, <3>1, <3>4 DEF Stored, Keyed, PackageRow
      <3> QED  BY <1>0, <2>1, <2>5, <3>2, <3>3, <3>4 DEF Stored
    <2>7. \A k \in Image : images'[k] # None /\ images'[k].item = b.row.item => ~images'[k].primary
        BY <2>3
    <2>8. Steady(c, offers', objects', images')
        BY <2>1, <2>2, <2>7 DEF Steady, Unshown
    <2>9. b # Idle
        BY <2>1 DEF Idle
    <2> QED  BY <2>1, <2>6, <2>8, <2>9, GoSteady
  <1>5. CASE InsertImage(p)
    <2>1. /\ b.pc = "insert" /\ Goto(p, Idle) /\ UNCHANGED <<offers, objects>>
          /\ images' = [images EXCEPT ![b.id] = b.row]
        BY <1>5 DEF InsertImage, shelf
    <2>2. /\ b.id \in Image /\ b.row \in ImageRow /\ objects[b.id] = "stored" /\ Unshown(b.id, offers)
          /\ b.row.primary => \A k \in Image : images[k] # None /\ images[k].item = b.row.item => ~images[k].primary
        BY <2>1 DEF ServedInv, Steady
    <2>3. Stored(offers', objects', images')
      <3>1. images' \in [Image -> ImageRow \cup {None}]
          BY <1>0, <2>1, <2>2 DEF Stored
      <3>2. images'[b.id] = b.row /\ \A k \in Image \ {b.id} : images'[k] = images[k]
          BY <1>0, <2>1, <2>2 DEF Stored
      <3> QED  BY <1>0, <2>1, <2>2, <3>1, <3>2 DEF Stored, Unshown, Keyed, PackageRow
    <2>4. Steady(Idle, offers', objects', images') /\ b # Idle
        BY <2>1, OthersSteady DEF Idle
    <2> QED  BY <2>1, <2>3, <2>4, GoSteady
  <1>6. CASE DiscardImage(p)
    <2> DEFINE c == [pc |-> "delete", id |-> b.id]
    <2>1. /\ b.pc = "discard" /\ Goto(p, c) /\ UNCHANGED <<offers, images>>
          /\ objects' \in {[objects EXCEPT ![b.id] = "gone"], objects}
        BY <1>6 DEF DiscardImage, Unlinked, shelf, catalog
    <2>2. b.id \in Image /\ Unshown(b.id, offers)
        BY <2>1 DEF ServedInv, Steady
    <2>3. Stored(offers', objects', images')
      <3>1. CASE objects' = objects
          BY <1>0, <2>1, <3>1 DEF Stored
      <3>2. CASE objects' = [objects EXCEPT ![b.id] = "gone"]
          BY <1>0, <2>1, <2>2, <3>2 DEF Stored, Unshown
      <3> QED  BY <2>1, <3>1, <3>2
    <2>4. Steady(c, offers', objects', images')
        BY OthersSteady
    <2>5. b # Idle
        BY <2>1 DEF Idle
    <2> HIDE DEF c
    <2> QED  BY <2>1, <2>3, <2>4, <2>5, GoSteady
  <1>7. CASE DropImage(p)
    <2>1. /\ b.pc = "delete" /\ Goto(p, Idle) /\ UNCHANGED <<offers, objects>>
          /\ images' = [images EXCEPT ![b.id] = None]
        BY <1>7 DEF DropImage, shelf
    <2>2. images' \in [Image -> ImageRow \cup {None}] /\ \A k \in Image : images'[k] \in {images[k], None}
        BY <1>0, <2>1 DEF Stored
    <2>3. Stored(offers', objects', images')
        BY <1>0, <2>1, <2>2 DEF Stored, Keyed, PackageRow
    <2>4. Steady(Idle, offers', objects', images') /\ b # Idle
        BY <2>1, OthersSteady DEF Idle
    <2> QED  BY <2>1, <2>3, <2>4, GoSteady
  <1> QED  BY <1>1, <1>2, <1>3, <1>4, <1>5, <1>6, <1>7

LEMMA ServedStep ==
    ASSUME ServedInv, [CalmNext]_<<vars, calm>>
    PROVE  ServedInv'
  <1>1. CASE UNCHANGED <<vars, calm>>
      BY <1>1 DEF vars, shelf, catalog, ServedInv, ShelfInv, Keyed, SlugFree, Shaped, Quiet
  <1>2. CASE CalmNext
    <2>1. ShelfInv' /\ calm' \in BOOLEAN /\ (calm' => calm /\ Quiet')
        BY <1>2, ShelfStep, CalmBefore DEF ServedInv
    <2>2. ASSUME calm'
          PROVE  Served
      <3>1. PICK p \in Proc : CatalogStep(p) \/ ((OffersStep(p) \/ Fail(p)) /\ UNCHANGED catalog)
          BY <1>2 DEF CalmNext, Next
      <3>2. CASE CatalogStep(p)
          BY <2>1, <2>2, <3>2, BranchServed, ItemServed, GalleryServed DEF CatalogStep
      <3>3. CASE OffersStep(p) /\ UNCHANGED catalog
          BY <2>1, <2>2, <3>3, CategoryServed, OfferServed, ImageServed, RequirementServed
             DEF OffersStep, catalog
      <3>4. CASE Fail(p) /\ UNCHANGED catalog
          BY <2>1, <2>2, <3>4, EasyServed DEF Fail, shelf, catalog
      <3> QED  BY <3>1, <3>2, <3>3, <3>4
    <2> QED  BY <2>1, <2>2 DEF ServedInv, Served
  <1> QED  BY <1>1, <1>2

LEMMA ServedStart == CalmInit => ServedInv
  <1> SUFFICES ASSUME CalmInit
               PROVE  ServedInv
      OBVIOUS
  <1>1. ShelfInv
      BY ShelfStart
  <1>2. \A p \in Proc : call[p] = Idle
      BY DEF CalmInit, Init, OffersInit
  <1>3. Stored(offers, objects, images)
      BY DEF CalmInit, Init, OffersInit, Stored
  <1>4. \A p \in Proc : Steady(call[p], offers, objects, images)
      BY <1>2, OthersSteady DEF Idle
  <1> QED  BY <1>1, <1>2, <1>3, <1>4 DEF CalmInit, ServedInv, Quiet

\* Served one by one, an offer never shows an image that is not stored, wherever the calls
\* that replace or remove it stop: the new object is stored before the row names it, and the
\* old one goes once no row does.
THEOREM LiveImageTheorem == CalmSpec => []LiveImageStored
  <1>1. ServedInv => LiveImageStored
      BY DEF ServedInv, Stored, LiveImageStored
  <1> QED  BY <1>1, ServedStart, ServedStep, PTL DEF CalmSpec

\* Served one by one, an item has at most one primary image: the others are demoted before a
\* new one is inserted, and an edit of the item writes back the gallery as it is.
THEOREM PrimaryTheorem == CalmSpec => []OnePrimary
  <1>1. ServedInv => OnePrimary
      BY DEF ServedInv, Stored, OnePrimary, Gallery
  <1> QED  BY <1>1, ServedStart, ServedStep, PTL DEF CalmSpec
=============================================================================
