------------------------------- MODULE Access -------------------------------
(***************************************************************************)
(* Who may call what: the routers as app.ts mounts them and the gates a    *)
(* request passes before its handler runs.                                 *)
(*                                                                         *)
(* A route is <<mount, name>>, named for the service function it calls. The*)
(* open mounts (auth, public, webhooks, health) are not behind these gates. *)
(***************************************************************************)
Role == {"customer", "agent", "manager", "admin"}
AccountStatus == {"pending_approval", "approved", "suspended"}

\* STAFF_ROLES
Staff == Role \ {"customer"}

-----------------------------------------------------------------------------
(* The routers *)

UserRoutes == {"getCurrentUser", "updateCurrentUser"}

CustomerRoutes ==
    {"getCustomerDashboard", "getCustomerProfile", "getOnboarding", "putOnboarding", "getMyDocuments",
     "getChecklist", "getMySubscriptions", "listInvoices", "getInvoice", "listQuotations", "getQuotation",
     "createQuotation", "acceptQuotation", "rejectQuotation"}

PhaseRoutes == {"createOrReorder", "updatePhase", "createResultIntent", "confirmResult"}
UploadRoutes ==
    {"createUploadTarget", "createVersionIntent", "uploadVersionBytes", "confirmVersion",
     "uploadCustomerVersion"}
ReadRoutes ==
    {"listVersions", "getVersionDownloadTarget", "getVersionForDownload", "getDocument", "history",
     "getDocumentDownloadTarget", "getApprovedDocumentDownloadTarget", "getDocumentLocalPath"}
ReviewRoutes == {"uploadOfficialVersion", "updateDocumentStatus"}
ContractRoutes == {"getStatusContract", "getPhaseStatusContract"}
DocumentRoutes == ContractRoutes \cup PhaseRoutes \cup UploadRoutes \cup ReadRoutes \cup ReviewRoutes

AgentRoutes ==
    {"listQuotations", "staffCreateQuotation", "getQuotation", "transitionQuotation", "listReviewDocuments"}

QuotationRoutes == {"getQuotationPdf", "getQuotation"}

ManagerRoutes == {"listCustomers", "getCustomer", "listAssignments", "assign", "removeAssignment"}

AdminAccountRoutes ==
    {"listUsers", "createUser", "getUser", "updateUser", "setUserStatus",
     "listCustomers", "listManagers", "approve", "suspend", "reactivate", "reassignManager", "sendEmail"}
AdminBillingRoutes ==
    {"listQuotations", "staffCreateQuotation", "getQuotation", "transitionQuotation", "quotationHistory",
     "createFromQuotation", "listInvoices", "getInvoice", "recordPayment", "cancelInvoice"}
AdminOfferRoutes ==
    {"listPackages", "getPackage", "createPackage", "updatePackage", "setPackageStatus", "setPackageImage",
     "removePackageImage", "removePackage", "listServices", "createService", "updateService",
     "deactivateService", "setServiceImage", "removeServiceImage", "listIndustries", "createIndustry",
     "updateIndustry", "deactivateIndustry"}
AdminPricingRoutes ==
    {"listWorkerRanges", "createWorkerRange", "updateWorkerRange", "deactivateWorkerRange",
     "listLocations", "createLocation", "updateLocation", "deactivateLocation", "listSettings", "updateSetting"}
AdminDocumentRoutes ==
    {"listRequirements", "createRequirement", "getRequirement", "updateRequirement", "removeRequirement",
     "listAdminDocuments", "updateDocumentStatusAsAdmin", "listSubscriptions", "analyticsOverview", "analytics"}
AdminCatalogRoutes ==
    {"listCatalogCategories", "createCatalogCategory", "getCatalogCategory", "updateCatalogCategory",
     "deleteCatalogCategory", "listFields", "createField", "updateField", "listItems", "createItem", "getItem",
     "updateItem", "deleteItem", "addImage", "deleteImage", "analyticsSummary"}
AdminCategoryRoutes ==
    {"listCategories", "createCategory", "reorderCategories", "getCategory", "updateCategory",
     "setCategoryStatus", "removeCategory"}
AdminCmsRoutes ==
    {"listHeroSlides", "createHeroSlide", "reorderHeroSlides", "getHeroSlide", "updateHeroSlide",
     "toggleHeroSlide", "deleteHeroSlide", "getCmsSettings", "updateCmsSettings", "listContent",
     "getContentAdmin", "putContent", "setPublished", "contentHistory"}

-----------------------------------------------------------------------------
(* createApp: what each mount asks for *)

\* Behind authenticate: mount -> routes.
Mounted ==
    [users      |-> UserRoutes,
     customers  |-> CustomerRoutes,
     documents  |-> DocumentRoutes,
     agent      |-> AgentRoutes,
     quotations |-> QuotationRoutes,
     manager    |-> ManagerRoutes,
     admin      |-> AdminAccountRoutes \cup AdminBillingRoutes \cup AdminOfferRoutes \cup AdminPricingRoutes
                    \cup AdminDocumentRoutes \cup AdminCatalogRoutes \cup AdminCategoryRoutes \cup AdminCmsRoutes]

MountRoles ==
    [m \in DOMAIN Mounted |->
        CASE m = "customers" -> {"customer"}
          [] m = "manager"   -> {"manager", "admin"}
          [] m = "admin"     -> {"admin"}
          [] OTHER           -> Role]

Gated == {"customers", "documents", "quotations"}

Route == UNION {{m} \X Mounted[m] : m \in DOMAIN Mounted}

-----------------------------------------------------------------------------
(* The gates *)

\* What a route asks on top of its mount.
RouteRoles(route) ==
    CASE route[1] = "agent" -> {"agent", "manager"}
      [] route[1] = "documents" /\ route[2] \in PhaseRoutes  -> {"manager", "admin"}
      [] route[1] = "documents" /\ route[2] \in ReviewRoutes -> Staff
      [] OTHER -> Role

\* authorize, at the mount and at the route.
Authorized(role, route) == role \in MountRoles[route[1]] \cap RouteRoles(route)

\* customerRouter lets these through for every customer.
Exempt == {<<"customers", "getCustomerProfile">>, <<"customers", "getOnboarding">>, <<"customers", "putOnboarding">>}

\* enforceAccountStatus
PassesGate(role, status, route) ==
    \/ role # "customer"
    \/ status = "approved"
    \/ route[1] \notin Gated
    \/ route \in Exempt

\* The routes that let a user of a role and a status through.
Admits == [role \in Role, status \in AccountStatus |->
              {route \in Route : Authorized(role, route) /\ PassesGate(role, status, route)}]
=============================================================================
