--------------------------- MODULE DocumentStatus ---------------------------
(***************************************************************************)
(* The document status machine and the per-role overlay, as pure           *)
(* definitions (modules/documents/document-status.ts).                     *)
(***************************************************************************)

Status ==
    {"pending", "under_review", "approved", "submitted_to_government",
     "rejected", "expiring_soon", "expired"}

Roles == {"customer", "agent", "manager", "admin"}

StaffRoles == {"agent", "manager", "admin"}

\* DOCUMENT_STATUS_FLOW: every move any actor could ever make.
Flow == [s \in Status |->
    CASE s = "pending"                 -> {"under_review"}
      [] s = "under_review"            -> {"approved", "rejected"}
      [] s = "approved"                -> {"submitted_to_government", "expiring_soon"}
      [] s = "submitted_to_government" -> {"approved"}
      [] s = "rejected"                -> {"pending"}
      [] s = "expiring_soon"           -> {"expired"}
      [] s = "expired"                 -> {}]

\* The three staff roles carry the same row of TRANSITIONS_BY_ROLE.
StaffMoves_RejectApproved == [s \in Status |->  \* mutant
    CASE s = "pending"      -> {"under_review"}
      [] s = "under_review" -> {"approved", "rejected"}
      [] s = "approved"     -> {"submitted_to_government", "rejected"}
      [] OTHER              -> {}]
StaffMoves == [s \in Status |->
    CASE s = "pending"                 -> {"under_review"}
      [] s = "under_review"            -> {"approved", "rejected"}
      [] s = "approved"                -> {"submitted_to_government"}
      [] s = "submitted_to_government" -> {"approved"}
      [] OTHER                         -> {}]

CustomerMoves == [s \in Status |-> IF s = "rejected" THEN {"pending"} ELSE {}]

TransitionsByRole == [r \in Roles |-> IF r = "customer" THEN CustomerMoves ELSE StaffMoves]

\* canRoleTransition, and assertDocumentStatusTransition called with a role.
CanRoleTransition(role, from, to) == to \in TransitionsByRole[role][from]

\* canMutateDocumentStatus
MayMutateStatus(role) == role \in StaffRoles
=============================================================================
