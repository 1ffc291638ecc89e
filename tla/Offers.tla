------------------------------- MODULE Offers -------------------------------
(***************************************************************************)
(* Categories, the services and packages in them, their images, and the    *)
(* documents a service asks for.                                           *)
(*                                                                         *)
(* Every call reads rows, checks them, and saves whole rows later, with no *)
(* transaction. save inserts a row that is gone; the foreign keys and the  *)
(* unique index on slug are the database's.                                *)
(***************************************************************************)
EXTENDS Naturals, Sequences, FiniteSets

CONSTANTS
    Category, Slug,
    General,       \* the category that services and packages were put into
    Service, Package, Requirement,
    Image,         \* keys of stored objects
    Order,         \* sequences of categories to reorder by
    Subscribed,    \* packages that subscriptions name
    Proc, None, MaxCalls

VARIABLES
    categories,    \* id -> row or None
    offers,        \* services and packages: id -> row or None
    requirements,  \* service_required_documents: id -> row or None
    objects,       \* the public image store: key -> "new", "stored" or "gone"
    call, calls

shelf == <<categories, offers, requirements>>

Offer == Service \cup Package

CategoryRow == [slug : Slug, active : BOOLEAN, order : Nat]
ServiceRow == [category : Category, active : BOOLEAN, image : Image \cup {None}, services : {{}}]
PackageRow == [category : Category, active : BOOLEAN, image : Image \cup {None}, services : SUBSET Service]
RequirementRow == [service : Service, required : BOOLEAN]

ASSUME OffersAssumption ==
    /\ General \in Category
    /\ Order \subseteq Seq(Category) \ {<<>>}
    /\ Category \cap Offer = {}
    /\ Requirement \cap (Category \cup Offer) = {}
    /\ None \notin CategoryRow \cup ServiceRow \cup PackageRow

Idle == [pc |-> "idle"]

\* The migration leaves one category.
OffersInit ==
    /\ \E slug \in Slug :
          categories = [c \in Category |-> IF c # General THEN None
                                         ELSE [slug |-> slug, active |-> TRUE, order |-> 0]]
    /\ offers = [o \in Offer |-> None]
    /\ requirements = [r \in Requirement |-> None]
    /\ objects = [k \in Image |-> "new"]
    /\ call = [p \in Proc |-> Idle]
    /\ calls = 0

Goto(p, c) == call' = [call EXCEPT ![p] = c]

Begin(p, c) ==
    /\ call[p] = Idle
    /\ calls < MaxCalls
    /\ calls' = calls + 1
    /\ Goto(p, c)
    /\ UNCHANGED <<shelf, objects>>

\* An id that no row has and no call is about to insert.
Fresh(table, id) ==
    /\ table[id] = None
    /\ \A p \in Proc : call[p] # Idle => call[p].id # id

-----------------------------------------------------------------------------
(* Categories *)

Saving(id, row) == [pc |-> "save", id |-> id, row |-> row]

\* assertSlugFree
SlugFree(slug, c) == \A d \in Category \ {c} : categories[d] # None => categories[d].slug # slug

CreateCategory(p, c, slug) ==
    /\ Fresh(categories, c)
    /\ SlugFree(slug, c)
    /\ Begin(p, Saving(c, [slug |-> slug, active |-> TRUE, order |-> 0]))

UpdateCategory(p, c, slug) ==
    /\ categories[c] # None
    /\ slug # categories[c].slug => SlugFree(slug, c)
    /\ Begin(p, Saving(c, [categories[c] EXCEPT !.slug = slug]))

SetCategoryStatus(p, c, active) ==
    /\ categories[c] # None
    /\ Begin(p, Saving(c, [categories[c] EXCEPT !.active = active]))

SaveCategory_Unindexed(p) ==  \* mutant: no unique index backs assertSlugFree
    /\ call[p].pc = "save"
    /\ call[p].id \in Category
    /\ categories' = [categories EXCEPT ![call[p].id] = call[p].row]
    /\ Goto(p, Idle)
    /\ UNCHANGED <<offers, requirements, objects, calls>>

\* The unique index on slug.
SaveCategory(p) ==
    /\ call[p].pc = "save"
    /\ call[p].id \in Category
    /\ SlugFree(call[p].row.slug, call[p].id)
    /\ categories' = [categories EXCEPT ![call[p].id] = call[p].row]
    /\ Goto(p, Idle)
    /\ UNCHANGED <<offers, requirements, objects, calls>>

ReorderCategories(p, ids) ==
    /\ \A i \in DOMAIN ids : categories[ids[i]] # None
    /\ Begin(p, [pc |-> "order", id |-> None, ids |-> ids, at |-> 1,
                 rows |-> [c \in {ids[i] : i \in DOMAIN ids} |-> categories[c]]])

SaveOrder(p) ==
    /\ call[p].pc = "order"
    /\ LET c == call[p]
           row == [c.rows[c.ids[c.at]] EXCEPT !.order = c.at - 1]
       IN  /\ SlugFree(row.slug, c.ids[c.at])
           /\ categories' = [categories EXCEPT ![c.ids[c.at]] = row]
           /\ Goto(p, IF c.at = Len(c.ids) THEN Idle
                      ELSE [pc |-> "order", id |-> None, ids |-> c.ids, at |-> c.at + 1, rows |-> c.rows])
    /\ UNCHANGED <<offers, requirements, objects, calls>>

Holds(c) == {o \in Offer : offers[o] # None /\ offers[o].category = c}

RemoveCategory(p, c) ==
    /\ categories[c] # None
    /\ Holds(c) = {}
    /\ Begin(p, [pc |-> "delete", id |-> c])

DeleteCategory_Unkeyed(p) ==  \* mutant: the count alone keeps a category that is in use
    /\ call[p].pc = "delete"
    /\ call[p].id \in Category
    /\ categories' = [categories EXCEPT ![call[p].id] = None]
    /\ Goto(p, Idle)
    /\ UNCHANGED <<offers, requirements, objects, calls>>

\* ON DELETE RESTRICT refuses when an offer came in since the count.
DeleteCategory(p) ==
    /\ call[p].pc = "delete"
    /\ call[p].id \in Category
    /\ Holds(call[p].id) = {}
    /\ categories' = [categories EXCEPT ![call[p].id] = None]
    /\ Goto(p, Idle)
    /\ UNCHANGED <<offers, requirements, objects, calls>>

-----------------------------------------------------------------------------
(* Services and packages *)

\* assertActiveCategory
ActiveCategory(c) == categories[c] # None /\ categories[c].active

\* resolveServices
Available(services) == \A s \in services : offers[s] # None /\ offers[s].active

NewOffer(c, active, services) == [category |-> c, active |-> active, image |-> None, services |-> services]

CreateService(p, s, c, active) ==
    /\ Fresh(offers, s)
    /\ ActiveCategory(c)
    /\ Begin(p, Saving(s, NewOffer(c, active, {})))

CreatePackage(p, k, c, services) ==
    /\ Fresh(offers, k)
    /\ ActiveCategory(c)
    /\ Available(services)
    /\ Begin(p, Saving(k, NewOffer(c, TRUE, services)))

\* A service may stay where it is; a package names its category every time.
UpdateService(p, s, c, active) ==
    /\ offers[s] # None
    /\ c # offers[s].category => ActiveCategory(c)
    /\ Begin(p, Saving(s, [offers[s] EXCEPT !.category = c, !.active = active]))

UpdatePackage(p, k, c, services) ==
    /\ offers[k] # None
    /\ ActiveCategory(c)
    /\ Available(services)
    /\ Begin(p, Saving(k, [offers[k] EXCEPT !.category = c, !.services = services]))

SetPackageStatus(p, k, active) ==
    /\ offers[k] # None
    /\ Begin(p, Saving(k, [offers[k] EXCEPT !.active = active]))

\* The foreign key on category_id.
SaveOffer(p) ==
    /\ call[p].pc = "save"
    /\ call[p].id \in Offer
    /\ categories[call[p].row.category] # None
    /\ offers' = [offers EXCEPT ![call[p].id] = call[p].row]
    /\ Goto(p, Idle)
    /\ UNCHANGED <<categories, requirements, objects, calls>>

RemovePackage(p, k) ==
    /\ offers[k] # None
    /\ k \notin Subscribed
    /\ Begin(p, [pc |-> "delete", id |-> k])

DeletePackage(p) ==
    /\ call[p].pc = "delete"
    /\ call[p].id \in Package
    /\ offers' = [offers EXCEPT ![call[p].id] = None]
    /\ Goto(p, Idle)
    /\ UNCHANGED <<categories, requirements, objects, calls>>

-----------------------------------------------------------------------------
(* Their images *)

\* Keys are generated, and none is used twice.
FreshKey(key) ==
    /\ objects[key] = "new"
    /\ \A p \in Proc : call[p].pc \in {"put", "store"} => call[p].key # key

Unlinked(key) == [objects EXCEPT ![key] = "gone"]

\* setImage and setServiceImage store the object under a new key first.
SetImage(p, o, key) ==
    /\ offers[o] # None
    /\ FreshKey(key)
    /\ Begin(p, [pc |-> "put", id |-> o, key |-> key,
                 row |-> [offers[o] EXCEPT !.image = key], previous |-> offers[o].image])

\* saveCatalogObject
PutImage(p) ==
    /\ call[p].pc = "put"
    /\ LET c == call[p]
       IN  /\ objects' = [objects EXCEPT ![c.key] = "stored"]
           /\ Goto(p, [pc |-> "image", id |-> c.id, row |-> c.row, previous |-> c.previous])
    /\ UNCHANGED <<shelf, calls>>

\* removeImage and removeServiceImage
RemoveImage(p, o) ==
    /\ offers[o] # None
    /\ Begin(p, [pc |-> "image", id |-> o, row |-> [offers[o] EXCEPT !.image = None],
                 previous |-> offers[o].image])

SaveImage_AfterUnlink(p) ==  \* mutant: the previous object goes before the row is saved
    /\ call[p].pc = "image"
    /\ LET c == call[p]
           stored == c.previous # None /\ objects[c.previous] = "stored"
       IN  \/ /\ stored
              /\ objects' = Unlinked(c.previous)
              /\ UNCHANGED <<offers, call>>
           \/ /\ ~stored
              /\ offers' = [offers EXCEPT ![c.id] = c.row]
              /\ Goto(p, Idle)
              /\ UNCHANGED objects
    /\ UNCHANGED <<categories, requirements, calls>>

\* The previous object goes once the row is saved.
SaveImage(p) ==
    /\ call[p].pc = "image"
    /\ LET c == call[p]
       IN  /\ categories[c.row.category] # None
           /\ offers' = [offers EXCEPT ![c.id] = c.row]
           /\ Goto(p, IF c.previous = None THEN Idle
                      ELSE [pc |-> "unlink", id |-> c.id, key |-> c.previous])
    /\ UNCHANGED <<categories, requirements, objects, calls>>

\* removeCatalogObject, which swallows its errors
UnlinkImage(p) ==
    /\ call[p].pc = "unlink"
    /\ objects' \in {Unlinked(call[p].key), objects}
    /\ Goto(p, Idle)
    /\ UNCHANGED <<shelf, calls>>

-----------------------------------------------------------------------------
(* What a service asks for *)

CreateRequirement(p, r, s, required) ==
    /\ Fresh(requirements, r)
    /\ offers[s] # None
    /\ Begin(p, Saving(r, [service |-> s, required |-> required]))

UpdateRequirement(p, r, required) ==
    /\ requirements[r] # None
    /\ Begin(p, Saving(r, [requirements[r] EXCEPT !.required = required]))

SaveRequirement(p) ==
    /\ call[p].pc = "save"
    /\ call[p].id \in Requirement
    /\ requirements' = [requirements EXCEPT ![call[p].id] = call[p].row]
    /\ Goto(p, Idle)
    /\ UNCHANGED <<categories, offers, objects, calls>>

RemoveRequirement(p, r) ==
    /\ requirements[r] # None
    /\ Begin(p, [pc |-> "delete", id |-> r])

DeleteRequirement(p) ==
    /\ call[p].pc = "delete"
    /\ call[p].id \in Requirement
    /\ requirements' = [requirements EXCEPT ![call[p].id] = None]
    /\ Goto(p, Idle)
    /\ UNCHANGED <<categories, offers, objects, calls>>

-----------------------------------------------------------------------------
(* What the public site reads *)

\* idForSlug takes one of these, if there is any.
IdsForSlug(slug) == {c \in Category : categories[c] # None /\ categories[c].slug = slug}

\* listServices and listPackages, of the category a slug was resolved to
PublicOffers(table, c) == {o \in table : offers[o] # None /\ offers[o].active /\ offers[o].category = c}

\* The services and packages listPublic counts for each category it shows.
PublicCounts ==
    [c \in {d \in Category : categories[d] # None /\ categories[d].active} |->
        [services |-> Cardinality({o \in Holds(c) : o \in Service /\ offers[o].active}),
         packages |-> Cardinality({o \in Holds(c) : o \in Package /\ offers[o].active})]]

-----------------------------------------------------------------------------

\* A statement fails or is refused, and the request ends with an error.
Fail(p) ==
    /\ call[p] # Idle
    /\ Goto(p, Idle)
    /\ UNCHANGED <<shelf, objects, calls>>

CategoryStep(p) ==
    \/ \E c \in Category, slug \in Slug : CreateCategory(p, c, slug) \/ UpdateCategory(p, c, slug)
    \/ \E c \in Category, active \in BOOLEAN : SetCategoryStatus(p, c, active)
    \/ \E ids \in Order : ReorderCategories(p, ids)
    \/ \E c \in Category : RemoveCategory(p, c)
    \/ SaveCategory(p) \/ SaveOrder(p) \/ DeleteCategory(p)

OfferStep(p) ==
    \/ \E s \in Service, c \in Category, active \in BOOLEAN :
          CreateService(p, s, c, active) \/ UpdateService(p, s, c, active)
    \/ \E k \in Package, c \in Category, services \in SUBSET Service :
          CreatePackage(p, k, c, services) \/ UpdatePackage(p, k, c, services)
    \/ \E k \in Package, active \in BOOLEAN : SetPackageStatus(p, k, active)
    \/ \E k \in Package : RemovePackage(p, k)
    \/ SaveOffer(p) \/ DeletePackage(p)

ImageStep(p) ==
    \/ \E o \in Offer, key \in Image : SetImage(p, o, key)
    \/ \E o \in Offer : RemoveImage(p, o)
    \/ PutImage(p) \/ SaveImage(p) \/ UnlinkImage(p)

RequirementStep(p) ==
    \/ \E r \in Requirement, s \in Service, required \in BOOLEAN : CreateRequirement(p, r, s, required)
    \/ \E r \in Requirement, required \in BOOLEAN : UpdateRequirement(p, r, required)
    \/ \E r \in Requirement : RemoveRequirement(p, r)
    \/ SaveRequirement(p) \/ DeleteRequirement(p)

OffersStep(p) == CategoryStep(p) \/ OfferStep(p) \/ ImageStep(p) \/ RequirementStep(p)
=============================================================================
