# constDocManagment: a verification project

TLA+ models of the back end in `src/apps/api` and `src/apps/worker`: documents and
their approval phases, quotations, invoices, accounts and sessions, mail, prices,
site content and the catalog, on a shared PostgreSQL database with Redis, an object
store and a BullMQ queue beside it. TLC checks the models on small instances, and
TLAPS proves their safety properties for every instance.

The program is an Express/TypeORM API. Few handlers hold a transaction across an
`await`, and only billing holds row locks, so nearly every handler reads rows, waits,
and saves entities that may be stale by then. That, and what is left when a handler
stops half-way, is what the models are about.

Paths below are relative to `src/apps/api/src/` unless they start with `src/`.

## 1. Inventory

| Component | State | Operations | Correct when |
|---|---|---|---|
| Documents (`modules/documents/document.service.ts`, `document-status.ts`) | `documents`, `document_versions`, `document_status_history`, stored objects | upload targets, intents, byte uploads, confirmations, official files, phase results, status changes, admin override, downloads | the files shown are confirmed, of the right kind and the ones confirmed last; no status change without its history row; moves follow the flow |
| Approval phases (`phase.service.ts`, `phase-status.ts`) | `document_phases`, `document_phase_history` | append, reorder, edit, result intent, result confirmation, progress | every status shown was recorded; every result shown was validated; a result is not lost |
| Quotations (`modules/quotations/quotation.service.ts`) | `quotations`, `quotation_status_history` | create, read with lazy expiry, transition | statuses follow the flow and are recorded |
| Invoices, payments (`modules/payments/invoice.service.ts`) | `invoices`, `payments`, `invoice_number_counters` | convert a quotation, read with lazy overdue, record a payment, cancel | one invoice per accepted quotation, gapless numbers, never overpaid |
| Access (`app.ts`, the routers, `middleware/authorize.ts`, `account-status.ts`) | none | the gates before each route | a route is reached by the roles it names, by approved accounts only where it says so |
| Sign-in and sessions (`modules/auth`, `middleware/authenticate.ts`) | `tokens_valid_from`, `refresh_tokens`, Redis mirror, session cache, reset tokens | register, login, refresh, logout, forgot and reset password, authenticate | a reset or suspension ends every session; what was signed out stays out; the cache says what the row says |
| Accounts and assignments (`modules/admin`, `modules/assignments`, `modules/users`) | role, `is_active`, `account_status`; the assignment tables and the manager log | approve, suspend, reactivate, reassign, demote, assign agents, edit a profile | an approved customer has a manager; the log tells who managed whom |
| Notifications, contact, onboarding (`modules/notifications`, `modules/contact`, `modules/customers`) | `notifications_log`, `customer_profiles` | notify, notify of a phase, of an approval, the contact form, the onboarding form | what is logged as queued is settled |
| Worker (`src/apps/worker`) | the BullMQ `email` queue, dead letters, the reminder log | deliver, give up, stalled-job check, daily reminders | a mail goes out once unless its worker died; failed mail is kept |
| Email events (`modules/email-events`) | `email_suppressions` | SES webhook, suppression | reported addresses get nothing more |
| Pricing (`pricing.engine.ts`, `modules/admin/admin-pricing.service.ts`) | worker ranges, locations, industries, services, currency | calculate, edit the lists, price a quotation | one range applies to a worker count; the lines add up to the cent |
| Site content (`modules/cms`) | `site_content`, its history, hero slides, settings, images | draft, publish, withdraw, slides, settings, webhook | nothing blank is published; versions are recorded once; the portal is told |
| Categories, services, packages, requirements | one table each, images | create, edit, reorder, delete, images | no offer without its category; no image without its object |
| Catalog (`modules/catalog`) | items, fields, values, galleries, categories | create, edit, delete, galleries | one primary image |
| Reads, dashboards, analytics, PDF, HTTP shell, configuration, migrations, scripts, deployment | none at run time | - | - |

How they interact:

* Every request passes `authenticate` and the gates of its mount, which read the
  session cache; account administration changes the rows behind that cache.
* A phase result is validated by the document service (`confirmPhaseResultVersion`)
  inside `phaseService.confirmResult`, in a transaction of its own, before the phase
  is completed in another.
* Invoices are raised from accepted quotations under a lock on the quotation row; the
  quotation service's own saves take no lock but wait for that one. Quotations take
  their price from the price list.
* Status changes notify after they have committed. The API and the worker share the
  `email` queue; the worker reads the suppression list that the API's webhook fills.
* Services carry their price for the price list and their category and image for the
  catalogue; an item's gallery shares the image store of the offers.
* The portal (another repository) caches public content until a webhook tells it to
  look again.

The behaviours that are hard to test are under `hazards` in `PROJECT.json`, each at
its line, with the properties that would notice them. They are of five sorts: entities
saved long after they were read; handlers that fail half-way; rules checked at one step
and relied on at another; records that part from what they record; and two stores
(PostgreSQL and Redis, or and the object store) that are written one after the other.

## 2. The modules

| Module | Models | Instance |
|---|---|---|
| `AuditTrail` | abstract specification: a status that moves only together with a history row | through `Documents`, `Phases` |
| `DocumentStatus` | `document-status.ts`: flow, per-role overlay, role checks | - |
| `Documents` | `document.service.ts`, the document reads of the routers | `MCDocuments` |
| `Phases` | `phase.service.ts`, `phase-status.ts` | `MCPhases` |
| `Quotations` | `quotation.service.ts`, `quotation-status.ts` | through `Billing` |
| `Billing` | `invoice.service.ts`, composed with `Quotations` | `MCBilling` |
| `Access` | routers, `authorize`, `requireApprovedAccount` | through `Accounts` |
| `Sessions` | `auth.service.ts`, `session.ts`, `token.ts`, `authenticate.ts`, using `Access` | through `Accounts` |
| `Accounts` | `admin-user`, `admin-customer`, `assignment` and `user` services, composed with `Sessions` | `MCAccounts` |
| `Mail` | `notify.service.ts`, `contact.service.ts`, onboarding, the queue, the worker, the reminder cron, the SES webhook | `MCMail` |
| `Pricing` | `pricing.engine.ts`, `admin-pricing.service.ts`, the price of a quotation | `MCPricing` |
| `Content` | `cms.service.ts` and its helpers | `MCContent` |
| `Offers` | categories, services, packages, requirements and their images | through `Catalog` |
| `Catalog` | `catalog.service.ts`, composed with `Offers` | `MCCatalog` |
| `*Properties`, `*Proofs` | what each is checked for, and the theorems | - |

An API call is a record in `req` or `call`: its `pc` names the step it waits at and
its other fields are what the handler keeps in local variables across the `await`. An
action is the code from one await that matters to the next. The conventions:

* `repository.save(entity)` reads the row again, inserts the entity when the row is
  gone, and otherwise updates the columns that differ from that second read: two saves
  that overlap there leave a mixture of both rows. `Pricing` and `Content` have the two
  statements as two steps (`Reread...`, then a save of `Written`), because ends of a
  range, or text and status, are checked together and saved apart. Elsewhere a save
  overwrites the row in one step: the properties claimed under overlap relate no two
  columns of one save, or locks and keys guard them.
* A transaction without a row lock is one step, its commit. A transaction that begins
  with `SELECT ... FOR UPDATE` is a locking step, which reads and checks, and a
  commit; a lock is held by whichever call stands between the two.
* Unique indexes and foreign keys are guards of the saves they guard; a call that
  meets one ends through `Fail`.
* `Abandon` or `Fail` is any way a call ends early: a refused statement, a database
  error, a process that dies. What was saved before it stays.
* Names, notes, texts and dates are left out, or are model values where a property
  tells them apart. Time is a clock in seconds in `Sessions`; elsewhere it is the sets
  of things whose moment has passed.
* Operators marked `mutant` are faults the runs must notice; nothing uses them.

**Calm.** Much of what the services mean to keep holds only while calls are served one
after the other, and some of it only while nothing fails. Where that is so, the
property module adds a history variable to the specification: `calm` (no two calls
have overlapped; in `Accounts` and `Mail` also nothing has failed), or a weaker one
where calls may overlap but for two sorts of them: `alone` in `Pricing` (no two calls
that edit worker ranges have overlapped), `apart` in `Content` (no call that empties a
key has overlapped one that publishes it), `served` in `Content` (no call has failed or
told the portal in vain, and no draft has withdrawn published copy). `Phases` also
remembers which results were `validated` and whether bytes were `received` by the
service itself. A property `calm => ...` is then checked along with those that hold
however calls overlap, in one state space. It covers every sequence of whole calls and
every place a call can stop; the section on observed divergences says what overlap does.

Per model:

* **Documents.** `doc`, `ver` and `hist` are the three tables. `stored` is the set of
  versions whose object passes the HEAD, size and magic-byte checks. With S3 the client
  stores the object (`PutObject`); with `LocalUploads` the API does, and saves the
  version row it read (`ReceiveBytes`). `OverrideTo` bounds what the admin override is
  used for. Roles and assignments are constants (`RoleOf`, `Serves`).
* **Phases.** All callers are equal once past `assertCanManagePhases`. A request with
  both new phases and an order is the two one after the other; orders that repeat an id
  are not enumerated. A result file's validation is the one step from `intent` to
  `ready`; `uploadVersionBytes` (local uploads) saves a version it read as an intent,
  and so can take a file that is `ready` by then back to `intent` (`BeginUploadBytes`,
  `ReceiveBytes`).
* **Quotations, Billing.** Reading a quotation past its `expiresAt` saves it as expired,
  as the code does in every status but `expired`. Payments are their sum; amounts are
  positive cents. One year of invoice numbers is modelled.
* **Sessions, Accounts.** A `Token` is one sign-in: the refresh token, its row and the
  access token signed in the same instant. The Redis mirror and the table are separate
  state, written one after the other. The session cache is filled with what a step read
  before. Fail-open paths of Redis (a `del` or `set` that is lost) are `Faulty` steps.
  The composition starts every administrative handler where `authenticate` and the gates
  of `Access` let its caller through, and reads the cache as they do.
* **Mail.** A mail is a notification and a place in its list of recipients: one job. The
  list has at most three entries and may repeat an address; nothing removes the second.
  `notify` races its enqueue against a timer of two seconds; the loser goes on. A worker
  that dies with a job in hand leaves it to BullMQ's stalled-job check (external).
  `profile` is what the onboarding form saves, and what the recipients of phase mail are
  resolved from.
* **Pricing.** Money is integer cents; multipliers are integers over `Unit`, so the
  rounding to cents is exact and can be off by half. The public calculator and the two
  ways to quote read the tables one by one. The overlap check, the second read of a
  save and its update are three steps.
* **Content, Offers, Catalog.** Calls are sequences of statements with no transaction.
  The bag of history rows is a bag because nothing in the table forbids a repetition.

## 3. The runs

| Run | Question | Instance |
|---|---|---|
| `documents_serial` | types, version numbers, the road of an official file, the files a document shows, flow and chained history, one call at a time | one document, two versions, local uploads |
| `documents_official` | pointers, official files on record, the audit trail, when two requests overlap | one document and version, S3, one admin overriding to `submitted_to_government` |
| `phases` | what stale saves and late bytes may show; the trail, the flow and the results kept, one call at a time | 2 phases, 1 result, 2 calls, 3 history rows |
| `billing` | types, balance, numbers, one invoice per accepted quotation | 2 quotations, 2 invoices, 2 calls |
| `billing_live` | no call hangs; statuses get their history row | 1 quotation, 1 invoice, 2 calls, all statuses |
| `accounts_sessions` | types, cache, cut-off, signed-out tokens | an admin, a customer, a newcomer, 4 tokens, 2 calls, 2 writes |
| `accounts_admin` | the manager log; a manager before approval | an admin, 2 managers, a customer, 2 calls, 3 writes |
| `mail` | duplicates, dead letters, suppression, reminders, settling | 1 notification to the login address or twice to another, 3 webhook events (one forged), 2 subscriptions, 2 deaths, 1 Redis outage |
| `pricing` | exact quotations, ranges in order and apart, one price list | 3 ranges, 3 edits, 1 quotation, 2 calls |
| `content` | nothing blank published, versions, the portal told | 1 key in 2 languages, 2 slides, 1 setting, 4 calls |
| `catalogue` | categories kept, images stored, one primary image | 2 categories, 1 service, 2 packages, 1 item, 2 images, 4 calls |
| `documents_guarded` | a violation: two reviewers give the same `fromStatus` and both succeed, the guard reads a copy (`findings`) | 1 document, 1 reviewer, 2 calls |

**Bounds.** `MaxHistory`, `MaxWrites`, `MaxStarts`, `MaxDeaths`, `MaxOutages`,
`MaxEdits`, `MaxQuotes`, `MaxCalls` and `MaxTime` cap what would grow, in the guards of
the actions that grow it; `Asked`, `OverrideTo` and `Offered` restrict which calls are
made. Two calls in flight are enough for the hazards listed: each is one call's read,
another's whole commit, the first call's save. Two rows, two addresses, two languages
are the least for one to be done and the other not. Ids are symmetric where nothing
orders them. `CHECK_DEADLOCK FALSE` stands where a run ends when its calls are used up.

**Fairness.** `FairSpec` in `Billing`: strong fairness of the later steps of each call.
PostgreSQL executes what it was sent, and callers waiting for a row lock get it in turn.
Nothing obliges a client to call, an offer to lapse or a call to fail. `HistoryFails` is
FALSE there: with it a call may die between the status and its history row, and
`StatusGetsRecorded` is lost, as it is in the code. `MailSpec`: weak fairness of the
steps of each call, each mail, each event and the cron, and of Redis coming back; the
processes run on and BullMQ checks for stalled jobs. Deaths are never obliged; `Settled`
excuses behaviours with one, since a process that dies before its enqueue leaves a row
`queued` for ever.

Every property has a mutant in `PROJECT.json`: a plausible fault in a definition that
makes the run fail.

## 4. The proofs

Every safety invariant, action property and refinement that a passing run checks is
also a theorem, proved by TLAPS for every set of documents, versions, phases, users,
tokens, quotations, invoices, price lists, texts, offers, items, notifications,
addresses and calls, and every bound. What is assumed:

* The `ASSUME`s of the modules, which TLC evaluates on every run: types of the
  constants, ids that are told apart, a null that is no row, positive amounts, finite
  sets of phases, users and services, reorderings that name at least one row. Four say
  something of the data: no user starts with a cut-off ahead of the clock (`Accounts`);
  request bodies are what the schemas let through, and the price list starts in order
  with its active ranges apart (`BodiesAssumption`, `StockAssumption` of `Pricing`);
  `None` is no row of copy (`Content`).
* Three hypotheses in theorems of `DocumentsProofs`, which say what `documents_serial`
  is an instance of. `OneAtATime`: one call stands for all, each served or broken off
  before the next. `OverrideTo = {}`: the admin override, which ignores the flow by
  design, is not used. `OwnersAreCustomers`: a document belongs to a customer.
* `calm`, `alone`, `apart` and `served` are not hypotheses: the property itself says "as
  long as", and the theorem holds of the whole specification, overlaps included.

Nearly every property needs the same kind of strengthening. A row is saved from a copy,
so an invariant of the tables is inductive only together with what each call in flight
*carries*: what it read, what it checked, what it still owes. Each proof states that as
a predicate of a call's record, shows in one lemma per action that the action gives its
own call a record that satisfies it, and in another that it takes it from no other call.

* `DocumentsProofs`. `TypeCorrect`; `FilePointers` (`PointersSound`) from `HeldSound`:
  a row a request read is sound, a version it means to save keeps document and kind.
  `DocumentsAudited`: the tables implement `AuditTrail!Spec`, step by step.
  `OfficialFiles` (`OfficialOnRecord`), under any overlap: `Cleared` says that a request
  that may still confirm an official file carries the move to approved, and that stale
  byte uploads and phase results carry none. The rest has requests one at a time:
  `SerialInv` says what a request remembers is what the tables hold and the number it
  has taken is above every other, and gives `NumbersDistinct` and `HistoryChained`;
  with the moves a waiting request may still make (`MovesBy`) it gives `FlowFollowed`.
  `FromGovernment` adds that a request about to add an official version found its
  document at the government (`Applied`), and that a document with one is still there
  or approved (`Governed`). `ShownOnRecord` (`FilesOnRecord`) adds that the current and
  approved files are those of the last rows of their kinds.
* `PhasesProofs`. `PhaseTypeCorrect`; `PhasesVouched`: a stale row is vouched for by
  history and validations that only grow (`CallsVouched`, `Grows`). The file a phase
  shows was validated whatever overlaps; that it is still ready is claimed unless bytes
  were received locally while calls overlapped (`Good`), and needs that, served one by
  one, bytes are received only for a version that awaits them (`Receiving`).
  `PhasesAuditedTheorem`, that calm phases implement the trail whose entries say where a
  phase was, and `PhaseMovesTheorem` (`PhaseMoves`), both from `CalmInv`: while calm,
  the row a call holds is the row in the table. The latter also counts: the finite sets
  before and after a step are compared by inclusion.
* `BillingProofs`. `BillingTypeCorrect`, `BalanceTheorem`, `NumbersTheorem`,
  `InvoicingTheorem`, all from `Safety`. Its invariant adds `LocksExclusive` (two calls
  never hold the same quotation, invoice or counter) and `ReadsHold` (what a transaction
  read under its lock is still so).
* `AccountsProofs`, about `Sessions` and `Accounts` composed. `AccountsTypes`.
  `SignedOutTheorem` (an action property and what a logout leaves): a token is `Dead`
  once it left the mirror and is revoked, and no step in flight can mint it again.
  `ApprovedTheorem` and `ManagersTheorem` from `ManagersInv`: a call about to flip an
  account has assigned a manager, whatever was reassigned since; what a call read of a
  manager is on the log; one at a time, it is the last entry. `CutOffTheorem` and
  `CacheTheorem` from `InStep`: the cut-off of a row about to be saved is that of the
  table, what is about to be cut off is revoked, and a cached state that differs from
  its row has a call on its way to drop it (`Dropping`). That the clock ticks for every
  cut-off is needed too: a cut-off never lies ahead of it.
* `MailProofs`. `SentOnceTheorem` (`SentOncePerDeath`), per entry of a list of
  recipients, since an address the list repeats is mailed once for each: `Spent` says,
  for each place a job can be in, how often its mail may have gone out and stalled by
  then, and no notification issues its jobs twice. `DeadLettersTheorem`,
  `SuppressedStaysTheorem` (an action property), `EventAbsorbedTheorem`: an event's call
  carries the addresses it has still to suppress, and all it reported are in that list
  or suppressed already, for lists of any length. `RemindersTheorem`: what a run has not
  reminded is still before it.
* `PricingProofs`. `QuotesAddUpTheorem`, under any overlap: both amounts of a quotation
  are rounded from the same reads, so they differ by the fee but for a cent
  (`RoundedApart`), and the sum over the services is a number. `RangesTheorem`, while no
  two calls edit ranges: a range that passed the overlap check still fits when it is
  saved, the row the save reads again is still the row it changes, so all columns of the
  checked row arrive (`Steady`, `WrittenSame`), and apart is the same from either side
  although the check is not symmetric (`FitsBoth`).
  `QuotedTheorem`, an action property: while calm the five reads of a quotation are
  what the lists still say, of the ranges apart exactly one covers the workers
  (`OneCovers`), and the sum over the rows that were read is the sum over the list.
  That sum is `MapThenSumSet`, a fold defined by recursion on sets. The library's
  induction theorems are of no use here, but a least counterexample is: `Least` comes
  from the well-foundedness of the naturals, and `AddsExist` and `AddsAgree` take the
  smallest set for which the fold has no value, or two lists that agree have different
  sums.
* `ContentProofs`. `NoBlankTheorem` (`NoBlankPublished`) from `BlankInv`, while `apart`:
  a row about to be saved is not blank if it is to be published, and the columns its
  update leaves alone are no worse than the save read them: no text has become blank
  under a call that publishes, no row public under one that empties (`Sound`, `Stands`).
  `PortalToldTheorem`: as long as the portal has not been told of a change, some call
  `Owes` the telling; calls overlap freely. `HistoryTheorem` (`HistoryNumbered`): while
  calm, the version a call is about to log is not on the history yet and not ahead of
  the row.
* `CatalogProofs`. `CategoryTheorem` (`CategoryKept`): the counts of
  `CategoryService.remove` and the check of `assertActiveCategory` are both stale when
  used, so neither proves it; the foreign key does, tested where the statement commits.
  `ShelfInv` is that (`Keyed`) and that the rows calls hold are rows (`Shaped`).
  `LiveImageTheorem` and `PrimaryTheorem` from `ServedInv`: the image of an offer is in
  the store (`Stored`), and `Steady` says of a call between its statements which object
  is already there, which is no longer shown, and whether the others are demoted.

Only model-checked: `Settled`, `CallsEnd` and `StatusGetsRecorded`. They are liveness
under fairness, and the prover handles neither fairness nor ENABLED. `GuardedMoveHolds`
does not hold (section 5).

## 5. Observed divergences

`documents_guarded` is the one sentence that has a run of its own. The others were met
while modelling; each is a behaviour of a model here, excluded from a property by
`calm`, `alone`, `apart`, `served`, `HistoryFails` or by what the property claims.

* `quotation.service.ts:75`: reading a converted quotation past its validity turns it
  expired. `src/docs/decision-log.md:344`: "Once converted or cancelled, further
  transitions are disallowed."
* `invoice.service.ts:45`: a read that began before a payment saves the settled invoice
  as overdue. `src/docs/build-audit-2026-10-14.md:324`: a payment "flips the invoice to
  `paid`/`partially_paid`".
* `invoice.service.ts:103`: a conversion sets the quotation's status and writes no
  history row.
* `document.service.ts:608`: an intent taken while pending is confirmed under review and
  replaces the file. `src/docs/decision-log.md:745`: "A customer may add a version only while
  `pending` or `rejected`".
* `document-status.ts:59`: a plain status change brings a document back from the
  government with no file; lines 48-49 say that move "is performed by the official-file
  upload, not a bare status PATCH".
* `document.service.ts:592` against 305: staff can start but never finish the
  resubmission of a rejected document.
* `document.service.ts:945`: the services of a customer's checklist come from accepted
  quotations only; converting one takes its services off.
* `document.service.ts:582`: the ordinary confirmation takes a `phase_result` version
  too, and makes it the current file.
* `document.service.ts:550`: with local uploads, bytes whose upload began before the
  confirmation are stored over the validated file, and the saved row is an intent again,
  for a phase result too.
* `phase.service.ts:162`: an edit that began before a status change puts the old status
  back. `document-phase-history.entity.ts:5`: "so a phase never moves without a history
  row". Positions may tie: the index on them is not unique.
* `auth.service.ts:286`, `403`: a refresh that read the user before a reset survives it;
  a reset that read the user before a suspension undoes it.
* `admin-user.service.ts:174`: two administrators demoted at once leave none; its message
  says "At least one active administrator must remain".
* `admin-customer.service.ts:157`: reactivating a customer who was suspended before being
  approved approves them without a manager.
* `notify.service.ts:194`: phase mail waits for the queue without a timeout while Redis
  is away. `src/docs/decision-log.md:365`: "Email delivery must not block or fail an API request".
* `notify.service.ts:194`: one mail is queued per entry of the recipient list, and
  `modules/customers/customer.schema.ts:16` lets the list repeat an address.
* `src/apps/worker/src/crons/renewal.cron.ts:28`: reminders ignore the suppression list.
* `admin-pricing.service.ts:98`: the advisory lock of the overlap check is released
  before the range is saved, so two edits at once leave ranges that overlap. The save at
  line 408 updates only what differs: a new minimum and a new maximum, set at once, each
  in order with the old other end, can leave an active range with min above max.
* `cms.service.ts:365`: publishing through the status route writes no history row.
  `site-content.entity.ts:52`: "A new row is written every time a key/locale is
  published." `cms.service.ts:367`: the saves update only what differs, so an empty draft
  saved while its key is published (or a withdrawal that read empty copy) can leave it
  published and empty; line 362 says "Both English and Spanish are
  required to publish". `cms.service.ts:344`: a draft over published copy withdraws it and sends no
  webhook.
* `customer.service.ts:136`: the dashboard counts cancelled invoices as unpaid.

## 6. Not modelled

* Lists, filters, paging, serialisation, dashboards and analytics: they change nothing.
  The reads a property is about (downloads, the versions list, progress, the public
  lists) are operators of the models.
* Input schemas and their messages; the models' inputs are what passes them.
* File contents: magic bytes and sizes are the one verdict `stored`; the PDF is layout.
* The document, renewal and expiry processors, the backup cron, subscriptions and the
  payment router are stubs in this commit.
* Configuration, connections, migrations, containers and the backup script run at
  start-up or by hand; the keys and indexes the migrations make are guards here.
* `scripts/seed-demo.ts`, `purge-demo.ts`, `smoke.ts`, `create-admin.ts` are run by hand,
  one at a time, on a system nobody else uses. What could be said of the purge is that
  it removes what the seed made and nothing else, and it does not: rows the application
  made for demo users carry no flag and go by `ON DELETE CASCADE`, and the seed takes
  over categories by slug and services by name.
* Proofs of liveness (section 4).
