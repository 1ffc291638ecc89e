-------------------------------- MODULE Mail --------------------------------
(***************************************************************************)
(* Outgoing mail: the notifications of the API, the BullMQ queue between   *)
(* API and worker, the worker's processor and its renewal reminders, and   *)
(* the suppression list the SES webhook fills.                             *)
(*                                                                         *)
(* A mail is a pair <<note, place>>: one job of the "email" queue for each *)
(* entry of the list of recipients, whoever the entry names.               *)
(***************************************************************************)
EXTENDS Naturals, Sequences, FiniteSets

CONSTANTS
    Note,         \* calls that notify
    User, Address, Subscription,
    Event,        \* messages posted to the SES webhook
    None,
    Login,        \* user -> address of the account
    AddressLists, \* the notification_emails an onboarding form may give, repetitions too
    Company,      \* contact_recipient_email
    Reported,     \* event -> sequence of bounced or complaining addresses
    Genuine,      \* the events whose SNS signature verifies
    Subscriber,   \* subscription about to end -> user
    Concurrency,  \* jobs the worker has in hand at once
    MaxStalled,   \* BullMQ: stalls before a job fails
    MaxStarts, MaxDeaths, MaxOutages  \* bounds: calls, process deaths, Redis outages

VARIABLES
    notes,       \* note -> call of notify, notifyPhase, notifyAccountApproved or contact
    log,         \* notifications_log: note -> status or None
    profile,     \* customer_profiles: user -> notification_emails, None without a row
    forms,       \* onboarding forms read and not yet saved
    jobs,        \* mail -> where its job is
    stalls,      \* mail -> times its worker died on it
    sent,        \* mail -> times SES took it
    dead,        \* email-dead-letter
    suppressed,  \* email_suppressions
    events,      \* event -> its webhook call
    cron,        \* the run of sendRenewalReminders
    reminded,    \* subscriptions mailed today
    logged,      \* users with today's subscription_renewal_reminder row
    redis,       \* is Redis reachable
    counts       \* what the bounds count

queue == <<jobs, stalls, sent, dead>>
webhook == <<suppressed, events>>
reminders == <<cron, reminded, logged>>
api == <<notes, log, profile, forms>>
vars == <<api, queue, webhook, reminders, redis, counts>>

\* The places of a list of recipients: the form takes three addresses at most.
Place == 1..3

Mail == Note \X Place

\* Whom a mail is for.
To(m) == notes[m[1]].to[m[2]]

\* notify with and without a template, notifyPhase, notifyAccountApproved, contact form.
Kind == {"event", "record", "phase", "account", "contact"}

\* eventEmail: the notifications a template goes with.
Emailed(kind) == kind # "record"

LogStatus == {"queued", "recorded", "failed"}

\* verifySnsMessage, and the suppression list as the worker asks it.
Verified(e) == e \in Genuine
IsSuppressed(a) == a \in suppressed

ASSUME MailAssumption ==
    /\ Login \in [User -> Address]
    /\ \A list \in AddressLists : list \in Seq(Address) /\ DOMAIN list \subseteq Place
    /\ Company \in Address
    /\ Subscriber \in [Subscription -> User]
    /\ \A e \in Event : Reported[e] \in Seq(Address)
    /\ Genuine \subseteq Event
    /\ {Concurrency, MaxStalled, MaxStarts, MaxDeaths, MaxOutages} \subseteq Nat

Init ==
    /\ notes = [n \in Note |-> [pc |-> "idle", kind |-> None, user |-> None, to |-> <<>>]]
    /\ log = [n \in Note |-> None]
    /\ profile = [u \in User |-> None]
    /\ forms = {}
    /\ jobs = [m \in Mail |-> "none"]
    /\ stalls = [m \in Mail |-> 0]
    /\ sent = [m \in Mail |-> 0]
    /\ dead = {}
    /\ suppressed = {}
    /\ events = [e \in Event |-> [pc |-> "idle"]]
    /\ cron = [pc |-> "idle", rows |-> {}]
    /\ reminded = {}
    /\ logged = {}
    /\ redis = TRUE
    /\ counts = [starts |-> 0, deaths |-> 0, outages |-> 0]

Count(what, max) == counts[what] < max /\ counts' = [counts EXCEPT ![what] = @ + 1]

-----------------------------------------------------------------------------
(* The API: a call writes its log row, resolves its recipients, enqueues;  *)
(* the customer edits the addresses phase mail goes to.                    *)

\* resolveCustomerEmailContext falls back on the login address.
Recipients(c) ==
    CASE c.kind = "phase" /\ profile[c.user] \notin {None, <<>>} -> profile[c.user]
      [] OTHER -> <<Login[c.user]>>

Enter(n, label) == notes' = [notes EXCEPT ![n].pc = label]

\* queue.add was issued for every entry; ioredis holds the commands while Redis is away.
Issue(n, to) ==
    jobs' = [m \in Mail |-> IF m[1] = n /\ m[2] \in DOMAIN to THEN "pending" ELSE jobs[m]]

Call(n, kind, u) ==
    /\ notes[n].pc = "idle"
    /\ Count("starts", MaxStarts)
    /\ notes' = [notes EXCEPT ![n] = [pc |-> "log", kind |-> kind, user |-> u, to |-> <<>>]]
    /\ UNCHANGED <<log, profile, forms, queue, webhook, reminders, redis>>

Notify(n, u) == Call(n, "event", u) \/ Call(n, "record", u)
NotifyPhase(n, u) == Call(n, "phase", u)
NotifyAccountApproved(n, u) == Call(n, "account", u)

\* contactService.submit has no log row.
Contact(n, u) ==
    /\ notes[n].pc = "idle"
    /\ Count("starts", MaxStarts)
    /\ notes' = [notes EXCEPT ![n] = [pc |-> "enqueue", kind |-> "contact", user |-> u, to |-> <<Company>>]]
    /\ Issue(n, <<Company>>)
    /\ UNCHANGED <<log, profile, forms, stalls, sent, dead, webhook, reminders, redis>>

\* createLog; a notification without a template ends here.
WriteLog(n) ==
    /\ notes[n].pc = "log"
    /\ log' = [log EXCEPT ![n] = IF Emailed(notes[n].kind) THEN "queued" ELSE "recorded"]
    /\ Enter(n, IF Emailed(notes[n].kind) THEN "recipient" ELSE "done")
    /\ UNCHANGED <<profile, forms, queue, webhook, reminders, redis, counts>>

LogFails(n) ==
    /\ notes[n].pc = "log"
    /\ Enter(n, "done")
    /\ UNCHANGED <<log, profile, forms, queue, webhook, reminders, redis, counts>>

Resolve(n) ==
    /\ notes[n].pc = "recipient"
    /\ Issue(n, Recipients(notes[n]))
    /\ notes' = [notes EXCEPT ![n].pc = "enqueue", ![n].to = Recipients(notes[n])]
    /\ UNCHANGED <<log, profile, forms, stalls, sent, dead, webhook, reminders, redis, counts>>

\* Only notify marks its row.
ResolveFails(n) ==
    /\ notes[n].pc = "recipient"
    /\ Enter(n, IF notes[n].kind = "event" THEN "mark" ELSE "done")
    /\ UNCHANGED <<log, profile, forms, queue, webhook, reminders, redis, counts>>

Pending(n) == \E i \in Place : jobs[<<n, i>>] = "pending"

\* Every add was answered.
Enqueued(n) ==
    /\ notes[n].pc = "enqueue"
    /\ ~Pending(n)
    /\ Enter(n, "done")
    /\ UNCHANGED <<log, profile, forms, queue, webhook, reminders, redis, counts>>

\* notify waits 2 s at most; the add it gave up on stays issued.
TimeOut(n) ==
    /\ notes[n].pc = "enqueue"
    /\ notes[n].kind = "event"
    /\ Pending(n)
    /\ Enter(n, "mark")
    /\ UNCHANGED <<log, profile, forms, queue, webhook, reminders, redis, counts>>

MarkFailed(n) ==
    /\ notes[n].pc = "mark"
    /\ log' = [log EXCEPT ![n] = "failed"]
    /\ Enter(n, "done")
    /\ UNCHANGED <<profile, forms, queue, webhook, reminders, redis, counts>>

MarkFails(n) ==
    /\ notes[n].pc = "mark"
    /\ Enter(n, "done")
    /\ UNCHANGED <<log, profile, forms, queue, webhook, reminders, redis, counts>>

\* The process goes, with the calls under way and the commands Redis has not seen.
ApiDies ==
    /\ Count("deaths", MaxDeaths)
    /\ notes' = [n \in Note |-> [notes[n] EXCEPT !.pc = IF @ = "idle" THEN @ ELSE "done"]]
    /\ jobs' = [m \in Mail |-> IF jobs[m] = "pending" THEN "none" ELSE jobs[m]]
    /\ events' = [e \in Event |-> IF events[e].pc = "idle" THEN events[e] ELSE [pc |-> "done"]]
    /\ forms' = {}
    /\ UNCHANGED <<log, profile, stalls, sent, dead, suppressed, reminders, redis>>

\* putOnboarding reads the profile; a form without addresses keeps those it read ...
PutOnboarding(u, given) ==
    /\ Count("starts", MaxStarts)
    /\ forms' = forms \cup {[user |-> u, fresh |-> profile[u] = None,
                             emails |-> IF given # None THEN given
                                        ELSE IF profile[u] = None THEN <<>> ELSE profile[u]]}
    /\ UNCHANGED <<notes, log, profile, queue, webhook, reminders, redis>>

\* ... and saves the whole row; a customer's second first row is refused by the index.
SaveProfile(f) ==
    /\ f \in forms
    /\ forms' = forms \ {f}
    /\ profile' = IF f.fresh /\ profile[f.user] # None THEN profile
                  ELSE [profile EXCEPT ![f.user] = f.emails]
    /\ UNCHANGED <<notes, log, queue, webhook, reminders, redis, counts>>

-----------------------------------------------------------------------------
(* The queue and the worker's processor *)

MoveJob(m, from, to) == redis /\ jobs[m] = from /\ jobs' = [jobs EXCEPT ![m] = to]

Add(m) ==
    /\ MoveJob(m, "pending", "waiting")
    /\ UNCHANGED <<api, stalls, sent, dead, webhook, reminders, redis, counts>>

InHand == {m \in Mail : jobs[m] \in {"checking", "sending", "delivered", "failing"}}

Take_Unchecked(m) ==  \* mutant: isSuppressed is not asked
    /\ Cardinality(InHand) < Concurrency
    /\ MoveJob(m, "waiting", "sending")
    /\ UNCHANGED <<api, stalls, sent, dead, webhook, reminders, redis, counts>>

Take(m) ==
    /\ Cardinality(InHand) < Concurrency
    /\ MoveJob(m, "waiting", "checking")
    /\ UNCHANGED <<api, stalls, sent, dead, webhook, reminders, redis, counts>>

\* isSuppressed: a suppressed recipient is skipped, which completes the job.
CheckSuppressed(m) ==
    /\ jobs[m] = "checking"
    /\ jobs' = [jobs EXCEPT ![m] = IF IsSuppressed(To(m)) THEN "delivered" ELSE "sending"]
    /\ UNCHANGED <<api, stalls, sent, dead, webhook, reminders, redis, counts>>

\* A failed read lets the mail through.
CheckFails(m) ==
    /\ jobs[m] = "checking"
    /\ jobs' = [jobs EXCEPT ![m] = "sending"]
    /\ UNCHANGED <<api, stalls, sent, dead, webhook, reminders, redis, counts>>

\* sendEmail
Send(m) ==
    /\ jobs[m] = "sending"
    /\ jobs' = [jobs EXCEPT ![m] = "delivered"]
    /\ sent' = [sent EXCEPT ![m] = @ + 1]
    /\ UNCHANGED <<api, stalls, dead, webhook, reminders, redis, counts>>

SendFails_Retries(m) ==  \* mutant: a failed job goes back, without a limit
    /\ MoveJob(m, "sending", "waiting")
    /\ UNCHANGED <<api, stalls, sent, dead, webhook, reminders, redis, counts>>

\* The template does not render, or SES refuses.
SendFails(m) ==
    /\ jobs[m] = "sending"
    /\ jobs' = [jobs EXCEPT ![m] = "failing"]
    /\ UNCHANGED <<api, stalls, sent, dead, webhook, reminders, redis, counts>>

Complete(m) ==
    /\ MoveJob(m, "delivered", "completed")
    /\ UNCHANGED <<api, stalls, sent, dead, webhook, reminders, redis, counts>>

Fail_Silent(m) ==  \* mutant: no failed handler
    /\ MoveJob(m, "failing", "failed")
    /\ UNCHANGED <<api, stalls, sent, dead, webhook, reminders, redis, counts>>

\* The API adds jobs with one attempt: the first failure is the last ...
Fail(m) ==
    /\ MoveJob(m, "failing", "burying")
    /\ UNCHANGED <<api, stalls, sent, dead, webhook, reminders, redis, counts>>

\* ... and the failed handler adds the dead letter.
Bury(m) ==
    /\ MoveJob(m, "burying", "failed")
    /\ dead' = dead \cup {m}
    /\ UNCHANGED <<api, stalls, sent, webhook, reminders, redis, counts>>

\* The worker dies: its jobs stall, its handlers and its reminder run are gone.
WorkerDies ==
    /\ Count("deaths", MaxDeaths)
    /\ jobs' = [m \in Mail |-> CASE m \in InHand -> "stalled" [] jobs[m] = "burying" -> "failed" [] OTHER -> jobs[m]]
    /\ stalls' = [m \in Mail |-> IF m \in InHand THEN stalls[m] + 1 ELSE stalls[m]]
    /\ cron' = [pc |-> "idle", rows |-> {}]
    /\ UNCHANGED <<api, sent, dead, webhook, reminded, logged, redis>>

Recover_Unlimited(m) ==  \* mutant: no maxStalledCount
    /\ MoveJob(m, "stalled", "waiting")
    /\ UNCHANGED <<api, stalls, sent, dead, webhook, reminders, redis, counts>>

\* BullMQ puts a stalled job back, or fails it; then the handler may count no attempt.
Recover(m) ==
    /\ \/ stalls[m] <= MaxStalled /\ MoveJob(m, "stalled", "waiting")
       \/ stalls[m] > MaxStalled /\ (MoveJob(m, "stalled", "burying") \/ MoveJob(m, "stalled", "failed"))
    /\ UNCHANGED <<api, stalls, sent, dead, webhook, reminders, redis, counts>>

RedisDown ==
    /\ redis
    /\ Count("outages", MaxOutages)
    /\ redis' = FALSE
    /\ UNCHANGED <<api, queue, webhook, reminders>>

RedisUp ==
    /\ ~redis
    /\ redis' = TRUE
    /\ UNCHANGED <<api, queue, webhook, reminders, counts>>

-----------------------------------------------------------------------------
(* The webhook: each address an event reports is suppressed in turn *)

Step(e, c) == events' = [events EXCEPT ![e] = c]

Receive(e) ==
    /\ events[e].pc = "idle"
    /\ Count("starts", MaxStarts)
    /\ Step(e, IF Verified(e) THEN [pc |-> "find", rest |-> Reported[e]] ELSE [pc |-> "done"])
    /\ UNCHANGED <<api, queue, suppressed, reminders, redis>>

FindRow_FirstOnly(e) ==  \* mutant: one address per event
    /\ events[e].pc = "find"
    /\ LET c == events[e]
       IN  Step(e, IF c.rest = <<>> THEN [pc |-> "done"]
                   ELSE [pc |-> "save", rest |-> <<Head(c.rest)>>, found |-> IsSuppressed(Head(c.rest))])
    /\ UNCHANGED <<api, queue, suppressed, reminders, redis, counts>>

\* suppress looks for the row ...
FindRow(e) ==
    /\ events[e].pc = "find"
    /\ LET c == events[e]
       IN  Step(e, IF c.rest = <<>> THEN [pc |-> "done"]
                   ELSE [pc |-> "save", rest |-> c.rest, found |-> IsSuppressed(Head(c.rest))])
    /\ UNCHANGED <<api, queue, suppressed, reminders, redis, counts>>

\* ... and saves it: a second insert of an address is refused, which ends the event.
SaveRow(e) ==
    /\ events[e].pc = "save"
    /\ LET c == events[e]
       IN  /\ suppressed' = suppressed \cup {Head(c.rest)}
           /\ Step(e, IF c.found \/ Head(c.rest) \notin suppressed THEN [pc |-> "find", rest |-> Tail(c.rest)]
                                                                  ELSE [pc |-> "done"])
    /\ UNCHANGED <<api, queue, reminders, redis, counts>>

\* The database errs; the answer is 200 all the same, and SNS does not come back.
SaveFails(e) ==
    /\ events[e].pc = "save"
    /\ Step(e, [pc |-> "done"])
    /\ UNCHANGED <<api, queue, suppressed, reminders, redis, counts>>

-----------------------------------------------------------------------------
(* sendRenewalReminders, once a day *)

StartRun ==
    /\ cron.pc = "idle"
    /\ Count("starts", MaxStarts)
    /\ cron' = [pc |-> "send", rows |-> {s \in Subscription : Subscriber[s] \notin logged}]
    /\ UNCHANGED <<api, queue, webhook, reminded, logged, redis>>

\* The mail leaves, or does not: the row is logged as sent either way.
Remind(s) ==
    /\ cron.pc = "send"
    /\ s \in cron.rows
    /\ reminded' = reminded \cup {s}
    /\ cron' = [pc |-> "insert", rows |-> cron.rows, row |-> s]
    /\ UNCHANGED <<api, queue, webhook, logged, redis, counts>>

LogReminder_PerUser ==  \* mutant: one reminder per customer
    /\ cron.pc = "insert"
    /\ logged' = logged \cup {Subscriber[cron.row]}
    /\ cron' = [pc |-> "send", rows |-> {s \in cron.rows : Subscriber[s] # Subscriber[cron.row]}]
    /\ UNCHANGED <<api, queue, webhook, reminded, redis, counts>>

LogReminder ==
    /\ cron.pc = "insert"
    /\ logged' = logged \cup {Subscriber[cron.row]}
    /\ cron' = [pc |-> "send", rows |-> cron.rows \ {cron.row}]
    /\ UNCHANGED <<api, queue, webhook, reminded, redis, counts>>

\* An insert that fails ends the run.
LogReminderFails ==
    /\ cron.pc = "insert"
    /\ cron' = [pc |-> "idle", rows |-> {}]
    /\ UNCHANGED <<api, queue, webhook, reminded, logged, redis, counts>>

EndRun ==
    /\ cron.pc = "send"
    /\ cron.rows = {}
    /\ cron' = [pc |-> "idle", rows |-> {}]
    /\ UNCHANGED <<api, queue, webhook, reminded, logged, redis, counts>>

NextDay ==
    /\ cron.pc = "idle"
    /\ reminded # {}
    /\ reminded' = {}
    /\ logged' = {}
    /\ UNCHANGED <<api, queue, webhook, cron, redis, counts>>

-----------------------------------------------------------------------------

\* What runs on by itself once started.
NoteStep(n) == WriteLog(n) \/ Resolve(n) \/ Enqueued(n) \/ TimeOut(n) \/ MarkFailed(n)
MailStep(m) ==
    \/ Add(m) \/ Take(m) \/ CheckSuppressed(m) \/ Send(m) \/ SendFails(m)
    \/ Complete(m) \/ Fail(m) \/ Bury(m) \/ Recover(m)
EventStep(e) == FindRow(e) \/ SaveRow(e)
CronStep == (\E s \in Subscription : Remind(s)) \/ LogReminder \/ EndRun

Work ==
    \/ \E n \in Note, u \in User :
          Notify(n, u) \/ NotifyPhase(n, u) \/ NotifyAccountApproved(n, u) \/ Contact(n, u)
    \/ \E u \in User, given \in AddressLists \cup {None} : PutOnboarding(u, given)
    \/ \E f \in forms : SaveProfile(f)
    \/ \E n \in Note : NoteStep(n)
    \/ \E m \in Mail : MailStep(m)
    \/ \E e \in Event : Receive(e) \/ EventStep(e)
    \/ StartRun \/ CronStep \/ NextDay
    \/ RedisDown \/ RedisUp

\* What goes wrong outside the code.
Fault ==
    \/ \E n \in Note : LogFails(n) \/ ResolveFails(n) \/ MarkFails(n)
    \/ \E m \in Mail : CheckFails(m)
    \/ \E e \in Event : SaveFails(e)
    \/ LogReminderFails \/ ApiDies \/ WorkerDies

Next == Work \/ Fault

Spec == Init /\ [][Next]_vars
=============================================================================
