------------------------------ MODULE Catalog ------------------------------
(***************************************************************************)
(* The catalog of items with fields of their own and image galleries,      *)
(* beside the offers, whose image store it shares.                         *)
(*                                                                         *)
(* An item is loaded with its values and images and saved with them: save  *)
(* inserts those that are gone, and fails when it would have to detach one *)
(* that came in meanwhile (item_id is NOT NULL).                           *)
(***************************************************************************)
EXTENDS Offers

CONSTANTS
    Branch,  \* ids of catalog categories
    Type, Name, FieldId,  \* types of items, names and ids of fields
    Item

VARIABLES
    branches,  \* catalog_categories: id -> [parent] or None
    fields,    \* catalog_fields: id -> [type, name, required] or None
    items,     \* catalog_items: id -> [type, branch] or None
    values,    \* catalog_field_values: item -> the fields it has a value for
    images     \* catalog_images: storage key -> [item, primary] or None

catalog == <<branches, fields, items, values, images>>
vars == <<shelf, objects, call, calls, catalog>>

BranchRow == [parent : Branch \cup {None}]
FieldRow == [type : Type, name : Name, required : BOOLEAN]
ItemRow == [type : Type, branch : Branch \cup {None}]
ImageRow == [item : Item, primary : BOOLEAN]

ASSUME CatalogAssumption == (Branch \cup FieldId) \cap (Category \cup Offer) = {}

Init ==
    /\ OffersInit
    /\ branches = [b \in Branch |-> None]
    /\ fields = [f \in FieldId |-> None]
    /\ items = [i \in Item |-> None]
    /\ values = [i \in Item |-> {}]
    /\ images = [k \in Image |-> None]

Start(p, c) == Begin(p, c) /\ UNCHANGED catalog

-----------------------------------------------------------------------------
(* Catalog categories and fields *)

\* findCategory
Known(b) == b # None => branches[b] # None

CreateBranch(p, b, parent) ==
    /\ Fresh(branches, b)
    /\ Known(parent)
    /\ Start(p, Saving(b, [parent |-> parent]))

UpdateBranch(p, b, parent) ==
    /\ branches[b] # None
    /\ parent # b
    /\ Known(parent)
    /\ Start(p, Saving(b, [parent |-> parent]))

SaveBranch(p) ==
    /\ call[p].pc = "save"
    /\ call[p].id \in Branch
    /\ Known(call[p].row.parent)
    /\ branches' = [branches EXCEPT ![call[p].id] = call[p].row]
    /\ Goto(p, Idle)
    /\ UNCHANGED <<shelf, objects, calls, fields, items, values, images>>

DeleteBranch(p, b) ==
    /\ branches[b] # None
    /\ Start(p, [pc |-> "delete", id |-> b])

\* ON DELETE SET NULL for children and items.
DropBranch(p) ==
    /\ call[p].pc = "delete"
    /\ call[p].id \in Branch
    /\ LET b == call[p].id
       IN  /\ branches' = [d \in Branch |->
                 IF d = b THEN None
                 ELSE IF branches[d] = [parent |-> b] THEN [parent |-> None] ELSE branches[d]]
           /\ items' = [i \in Item |->
                 IF items[i] # None /\ items[i].branch = b THEN [items[i] EXCEPT !.branch = None]
                 ELSE items[i]]
    /\ Goto(p, Idle)
    /\ UNCHANGED <<shelf, objects, calls, fields, values, images>>

CreateField(p, f, row) ==
    /\ Fresh(fields, f)
    /\ Start(p, Saving(f, row))

UpdateField(p, f, row) ==
    /\ fields[f] # None
    /\ Start(p, Saving(f, row))

\* The unique index (entity_type, field_name).
SaveField(p) ==
    /\ call[p].pc = "save"
    /\ call[p].id \in FieldId
    /\ LET row == call[p].row
       IN  /\ \A f \in FieldId \ {call[p].id} : fields[f] # None =>
                 <<fields[f].type, fields[f].name>> # <<row.type, row.name>>
           /\ fields' = [fields EXCEPT ![call[p].id] = row]
    /\ Goto(p, Idle)
    /\ UNCHANGED <<shelf, objects, calls, branches, items, values, images>>

-----------------------------------------------------------------------------
(* Items *)

Gallery(i) == {k \in Image : images[k] # None /\ images[k].item = i}

CreateItem(p, i, row, given) ==
    /\ Fresh(items, i)
    /\ Known(row.branch)
    /\ Start(p, [pc |-> "item", id |-> i, row |-> row, given |-> given,
                 had |-> {}, gallery |-> [k \in {} |-> None]])

\* Fields left out of the patch are given back the names of the values that were read.
UpdateItem(p, i, row, given) ==
    /\ items[i] # None
    /\ Known(row.branch)
    /\ Start(p, [pc |-> "item", id |-> i, row |-> row,
                 given |-> IF given = None THEN {fields[f].name : f \in values[i]} ELSE given,
                 had |-> values[i], gallery |-> [k \in Gallery(i) |-> images[k]]])

SaveItem(p) ==
    /\ call[p].pc = "item"
    /\ LET c == call[p]
       IN  /\ Known(c.row.branch)
           /\ values[c.id] \subseteq c.had
           /\ Gallery(c.id) \subseteq DOMAIN c.gallery
           /\ items' = [items EXCEPT ![c.id] = c.row]
           /\ values' = [values EXCEPT ![c.id] = c.had]
           /\ images' = [k \in Image |-> IF k \in DOMAIN c.gallery THEN c.gallery[k] ELSE images[k]]
           /\ Goto(p, [pc |-> "check", id |-> c.id, type |-> c.row.type, given |-> c.given])
    /\ UNCHANGED <<shelf, objects, calls, branches, fields>>

Definitions(type) == {f \in FieldId : fields[f] # None /\ fields[f].type = type}

\* validateFields, after the item was saved: a refusal leaves it as it is.
CheckFields(p) ==
    /\ call[p].pc = "check"
    /\ LET c == call[p]
           defined == Definitions(c.type)
       IN  Goto(p, IF /\ c.given \subseteq {fields[f].name : f \in defined}
                      /\ \A f \in defined : fields[f].required => fields[f].name \in c.given
                   THEN [pc |-> "clear", id |-> c.id,
                         given |-> {f \in defined : fields[f].name \in c.given}]
                   ELSE Idle)
    /\ UNCHANGED <<shelf, objects, calls, catalog>>

ClearValues(p) ==
    /\ call[p].pc = "clear"
    /\ values' = [values EXCEPT ![call[p].id] = {}]
    /\ Goto(p, [pc |-> "fill", id |-> call[p].id, given |-> call[p].given])
    /\ UNCHANGED <<shelf, objects, calls, branches, fields, items, images>>

\* The unique index (item_id, field_id) and the foreign key on item_id.
FillValues(p) ==
    /\ call[p].pc = "fill"
    /\ items[call[p].id] # None
    /\ values[call[p].id] \cap call[p].given = {}
    /\ values' = [values EXCEPT ![call[p].id] = @ \cup call[p].given]
    /\ Goto(p, Idle)
    /\ UNCHANGED <<shelf, objects, calls, branches, fields, items, images>>

DeleteItem(p, i) ==
    /\ items[i] # None
    /\ Start(p, [pc |-> "delete", id |-> i])

\* ON DELETE CASCADE for values and images; the objects stay.
DropItem(p) ==
    /\ call[p].pc = "delete"
    /\ call[p].id \in Item
    /\ items' = [items EXCEPT ![call[p].id] = None]
    /\ values' = [values EXCEPT ![call[p].id] = {}]
    /\ images' = [k \in Image |-> IF k \in Gallery(call[p].id) THEN None ELSE images[k]]
    /\ Goto(p, Idle)
    /\ UNCHANGED <<shelf, objects, calls, branches, fields>>

-----------------------------------------------------------------------------
(* Galleries *)

AddImage(p, i, key, primary) ==
    /\ items[i] # None
    /\ FreshKey(key)
    /\ Start(p, [pc |-> "store", id |-> key, key |-> key, row |-> [item |-> i, primary |-> primary]])

StoreImage(p) ==
    /\ call[p].pc = "store"
    /\ objects' = [objects EXCEPT ![call[p].id] = "stored"]
    /\ Goto(p, [pc |-> IF call[p].row.primary THEN "demote" ELSE "insert",
                id |-> call[p].id, row |-> call[p].row])
    /\ UNCHANGED <<shelf, calls, catalog>>

Demote_None(p) ==  \* mutant: a new primary image leaves the old one primary
    /\ call[p].pc = "demote"
    /\ Goto(p, [pc |-> "insert", id |-> call[p].id, row |-> call[p].row])
    /\ UNCHANGED <<shelf, objects, calls, catalog>>

Demote(p) ==
    /\ call[p].pc = "demote"
    /\ images' = [k \in Image |-> IF k \in Gallery(call[p].row.item)
                                  THEN [images[k] EXCEPT !.primary = FALSE] ELSE images[k]]
    /\ Goto(p, [pc |-> "insert", id |-> call[p].id, row |-> call[p].row])
    /\ UNCHANGED <<shelf, objects, calls, branches, fields, items, values>>

InsertImage(p) ==
    /\ call[p].pc = "insert"
    /\ items[call[p].row.item] # None
    /\ images' = [images EXCEPT ![call[p].id] = call[p].row]
    /\ Goto(p, Idle)
    /\ UNCHANGED <<shelf, objects, calls, branches, fields, items, values>>

DeleteImage(p, key) ==
    /\ images[key] # None
    /\ Start(p, [pc |-> "discard", id |-> key])

\* The object goes before the row, if it goes.
DiscardImage(p) ==
    /\ call[p].pc = "discard"
    /\ objects' \in {Unlinked(call[p].id), objects}
    /\ Goto(p, [pc |-> "delete", id |-> call[p].id])
    /\ UNCHANGED <<shelf, calls, catalog>>

DropImage(p) ==
    /\ call[p].pc = "delete"
    /\ call[p].id \in Image
    /\ images' = [images EXCEPT ![call[p].id] = None]
    /\ Goto(p, Idle)
    /\ UNCHANGED <<shelf, objects, calls, branches, fields, items, values>>

-----------------------------------------------------------------------------

CatalogStep(p) ==
    \/ \E b \in Branch, parent \in Branch \cup {None} : CreateBranch(p, b, parent) \/ UpdateBranch(p, b, parent)
    \/ \E b \in Branch : DeleteBranch(p, b)
    \/ \E f \in FieldId, row \in FieldRow : CreateField(p, f, row) \/ UpdateField(p, f, row)
    \/ \E i \in Item, row \in ItemRow :
          \/ \E given \in SUBSET Name : CreateItem(p, i, row, given)
          \/ \E given \in SUBSET Name \cup {None} : UpdateItem(p, i, row, given)
    \/ \E i \in Item : DeleteItem(p, i)
    \/ \E i \in Item, key \in Image, primary \in BOOLEAN : AddImage(p, i, key, primary)
    \/ \E key \in Image : DeleteImage(p, key)
    \/ SaveBranch(p) \/ DropBranch(p) \/ SaveField(p) \/ SaveItem(p) \/ CheckFields(p)
    \/ ClearValues(p) \/ FillValues(p) \/ DropItem(p)
    \/ StoreImage(p) \/ Demote(p) \/ InsertImage(p) \/ DiscardImage(p) \/ DropImage(p)

Next == \E p \in Proc : CatalogStep(p) \/ ((OffersStep(p) \/ Fail(p)) /\ UNCHANGED catalog)

Spec == Init /\ [][Next]_vars
=============================================================================
