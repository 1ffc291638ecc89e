----------------------------- MODULE MailProofs -----------------------------
(***************************************************************************)
(* Outgoing mail, for every set of notifications, addresses, subscriptions *)
(* and webhook events, whatever dies and whatever is out of reach.         *)
(***************************************************************************)
EXTENDS MailProperties, TLAPS

JobState ==
    {"none", "pending", "waiting", "checking", "sending", "delivered", "completed",
     "failing", "burying", "failed", "stalled"}

\* What a job may have been through where it is.
Spent(job, n, k) ==
    /\ job \in {"none", "pending"} => n = 0 /\ k = 0
    /\ job \in {"waiting", "checking", "sending", "failing"} => n <= k /\ k <= MaxStalled
    /\ job = "delivered" => n <= 1 + k /\ k <= MaxStalled
    /\ job = "stalled" => n <= k /\ k <= 1 + MaxStalled
    /\ job \in {"completed", "burying", "failed"} => n <= 1 + k /\ n <= 1 + MaxStalled

\* A note is a record with a program counter, whatever else it holds.
IsNote(c) == "pc" \in DOMAIN c

\* Why SentOncePerDeath holds: each time a job comes back its worker has died once more,
\* and a notification issues its jobs once.
QueueInv ==
    /\ jobs \in [Mail -> JobState]
    /\ sent \in [Mail -> Nat]
    /\ stalls \in [Mail -> Nat]
    /\ \A m \in Mail : Spent(jobs[m], sent[m], stalls[m])
    /\ DOMAIN notes = Note
    /\ \A n \in Note : IsNote(notes[n])
    /\ \A n \in Note : notes[n].pc \in {"idle", "log", "recipient"} =>
          \A i \in Place : jobs[<<n, i>>] = "none"

-----------------------------------------------------------------------------

\* A step of the worker moves one job that was issued before.
LEMMA JobMoved ==
    ASSUME QueueInv, NEW m \in Mail, jobs[m] # "none", NEW to \in JobState,
           NEW n \in Nat, Spent(to, n, stalls[m]),
           jobs' = [jobs EXCEPT ![m] = to],
           sent' = [sent EXCEPT ![m] = n],
           UNCHANGED <<stalls, notes>>
    PROVE  QueueInv'
  <1>1. jobs' \in [Mail -> JobState] /\ sent' \in [Mail -> Nat] /\ stalls' \in [Mail -> Nat]
      BY DEF QueueInv
  <1>2. \A x \in Mail : Spent(jobs'[x], sent'[x], stalls'[x])
      BY DEF QueueInv
  <1>3. \A x \in Note : notes[x].pc \in {"idle", "log", "recipient"} =>
            \A i \in Place : jobs'[<<x, i>>] = "none"
      BY DEF QueueInv, Mail
  <1> QED  BY <1>1, <1>2, <1>3 DEF QueueInv, Spent

LEMMA JobMovedOnly ==
    ASSUME QueueInv, NEW m \in Mail, jobs[m] # "none", NEW to \in JobState,
           Spent(to, sent[m], stalls[m]),
           jobs' = [jobs EXCEPT ![m] = to], UNCHANGED <<sent, stalls, notes>>
    PROVE  QueueInv'
  <1>1. sent' = [sent EXCEPT ![m] = sent[m]] /\ sent[m] \in Nat
      BY DEF QueueInv
  <1> QED  BY <1>1, JobMoved

LEMMA MailKeeps ==
    ASSUME QueueInv, NEW m \in Mail, MailStep(m) \/ CheckFails(m)
    PROVE  QueueInv'
  <1> USE DEF MoveJob, api
  <1>1. /\ jobs[m] \in JobState /\ sent[m] \in Nat /\ stalls[m] \in Nat /\ MaxStalled \in Nat
        /\ Spent(jobs[m], sent[m], stalls[m])
      BY MailAssumption DEF QueueInv
  <1>2. {"waiting", "checking", "sending", "delivered", "completed", "failing", "burying", "failed"}
            \subseteq JobState
      BY DEF JobState
  <1>3. CASE Send(m)
    <2>1. Spent("delivered", sent[m] + 1, stalls[m]) /\ sent[m] + 1 \in Nat
        BY <1>1, <1>3 DEF Send, Spent
    <2>2. /\ jobs[m] # "none" /\ UNCHANGED <<stalls, notes>>
          /\ jobs' = [jobs EXCEPT ![m] = "delivered"]
          /\ sent' = [sent EXCEPT ![m] = sent[m] + 1]
        BY <1>3 DEF Send
    <2> QED  BY <1>2, <2>1, <2>2, JobMoved
  <1>4. CASE Add(m) \/ Take(m)
      BY <1>1, <1>2, JobMovedOnly, <1>4 DEF Add, Take, Spent
  <1>5. CASE CheckSuppressed(m) \/ CheckFails(m)
      BY <1>1, <1>2, JobMovedOnly, <1>5 DEF CheckSuppressed, CheckFails, Spent
  <1>6. CASE SendFails(m) \/ Complete(m)
      BY <1>1, <1>2, JobMovedOnly, <1>6 DEF SendFails, Complete, Spent
  <1>7. CASE Fail(m) \/ Bury(m)
      BY <1>1, <1>2, JobMovedOnly, <1>7 DEF Fail, Bury, Spent
  <1>8. CASE Recover(m)
      BY <1>1, <1>2, JobMovedOnly, <1>8 DEF Recover, Spent
  <1> QED  BY <1>3, <1>4, <1>5, <1>6, <1>7, <1>8 DEF MailStep

\* A note's jobs are issued where none was.
Issues(n) ==
    /\ notes[n].pc \in {"idle", "log", "recipient"}
    /\ DOMAIN notes' = Note
    /\ IsNote(notes'[n]) /\ notes'[n].pc = "enqueue"
    /\ \A x \in Note \ {n} : notes'[x] = notes[x]
    /\ jobs' \in [Mail -> JobState]
    /\ \A m \in Mail : jobs'[m] = jobs[m] \/ (m[1] = n /\ jobs'[m] = "pending")
    /\ UNCHANGED <<sent, stalls>>

LEMMA IssueKeeps ==
    ASSUME QueueInv, NEW n \in Note, Issues(n)
    PROVE  QueueInv'
  <1>1. ASSUME NEW m \in Mail
        PROVE  Spent(jobs'[m], sent'[m], stalls'[m])
    <2>1. m[1] \in Note /\ m[2] \in Place /\ m = <<m[1], m[2]>>
        BY DEF Mail
    <2>2. m[1] = n => jobs[m] = "none"
        BY <2>1 DEF QueueInv, Issues
    <2>3. jobs'[m] = jobs[m] \/ (m[1] = n /\ jobs'[m] = "pending")
        BY DEF Issues
    <2>4. Spent(jobs[m], sent[m], stalls[m]) /\ UNCHANGED <<sent, stalls>>
        BY DEF QueueInv, Issues
    <2> QED  BY <2>2, <2>3, <2>4 DEF Spent
  <1>2. ASSUME NEW x \in Note, notes'[x].pc \in {"idle", "log", "recipient"}, NEW i \in Place
        PROVE  jobs'[<<x, i>>] = "none"
    <2>1. x # n
        BY <1>2 DEF Issues
    <2>2. notes'[x] = notes[x]
        BY <2>1 DEF Issues
    <2>3. <<x, i>> \in Mail /\ <<x, i>>[1] = x
        BY DEF Mail
    <2>4. jobs'[<<x, i>>] = jobs[<<x, i>>]
        BY <2>1, <2>3 DEF Issues
    <2> QED  BY <1>2, <2>2, <2>4 DEF QueueInv
  <1>3. \A x \in Note : IsNote(notes'[x])
    <2> TAKE x \in Note
    <2> QED  BY DEF QueueInv, Issues
  <1> QED  BY <1>1, <1>2, <1>3 DEF QueueInv, Issues, Spent

\* A note that issues nothing moves on, and never back.
LEMMA NoteMoved ==
    ASSUME QueueInv, NEW n \in Note, NEW c, IsNote(c),
           c.pc \in {"idle", "log", "recipient"} => notes[n].pc \in {"idle", "log", "recipient"},
           notes' = [notes EXCEPT ![n] = c], UNCHANGED <<jobs, sent, stalls>>
    PROVE  QueueInv'
  BY DEF QueueInv, Spent

LEMMA NoteTurns ==
    ASSUME NEW c, IsNote(c), NEW label
    PROVE  [c EXCEPT !.pc = label].pc = label /\ IsNote([c EXCEPT !.pc = label])
  BY DEF IsNote

LEMMA NoteEnters ==
    ASSUME QueueInv, NEW n \in Note, NEW label, Enter(n, label), UNCHANGED <<jobs, sent, stalls>>,
           label \in {"idle", "log", "recipient"} => notes[n].pc \in {"idle", "log", "recipient"}
    PROVE  QueueInv'
  <1> DEFINE c == [notes[n] EXCEPT !.pc = label]
  <1>1. IsNote(c) /\ c.pc = label
      BY NoteTurns DEF QueueInv
  <1>2. notes' = [notes EXCEPT ![n] = c]
      BY DEF Enter
  <1> HIDE DEF c
  <1> QED  BY <1>1, <1>2, NoteMoved

LEMMA NoteKeeps ==
    ASSUME QueueInv, NEW n \in Note,
           \/ \E u \in User :
                 Notify(n, u) \/ NotifyPhase(n, u) \/ NotifyAccountApproved(n, u) \/ Contact(n, u)
           \/ NoteStep(n) \/ LogFails(n) \/ ResolveFails(n) \/ MarkFails(n)
    PROVE  QueueInv'
  <1> USE DEF queue
  <1>1. ASSUME NEW kind, NEW u \in User, Call(n, kind, u)
        PROVE  QueueInv'
    <2> DEFINE c == [pc |-> "log", kind |-> kind, user |-> u, to |-> <<>>]
    <2>1. IsNote(c) /\ c.pc = "log"
        BY DEF IsNote
    <2>2. notes[n].pc = "idle" /\ notes' = [notes EXCEPT ![n] = c] /\ UNCHANGED <<jobs, sent, stalls>>
        BY <1>1 DEF Call
    <2> HIDE DEF c
    <2> QED  BY <2>1, <2>2, NoteMoved
  <1>2. ASSUME NEW to, Issue(n, to)
        PROVE  /\ jobs' \in [Mail -> JobState]
               /\ \A m \in Mail : jobs'[m] = jobs[m] \/ (m[1] = n /\ jobs'[m] = "pending")
      BY <1>2 DEF QueueInv, Issue, JobState
  <1>3. CASE \E u \in User : Contact(n, u)
    <2>1. PICK u \in User : Contact(n, u)
        BY <1>3
    <2>2. /\ notes[n].pc = "idle"
          /\ notes' = [notes EXCEPT ![n] = [pc |-> "enqueue", kind |-> "contact", user |-> u, to |-> <<Company>>]]
          /\ Issue(n, <<Company>>) /\ UNCHANGED <<sent, stalls>>
        BY <2>1 DEF Contact
    <2>3. Issues(n)
        BY <1>2, <2>2 DEF QueueInv, Issues, IsNote
    <2> QED  BY <2>3, IssueKeeps
  <1>4. CASE Resolve(n)
    <2>1. /\ notes[n].pc = "recipient"
          /\ notes' = [notes EXCEPT ![n].pc = "enqueue", ![n].to = Recipients(notes[n])]
          /\ Issue(n, Recipients(notes[n])) /\ UNCHANGED <<sent, stalls>>
        BY <1>4 DEF Resolve
    <2>2. IsNote(notes'[n]) /\ notes'[n].pc = "enqueue" /\ DOMAIN notes' = Note
        BY <2>1 DEF QueueInv, IsNote
    <2>3. Issues(n)
        BY <1>2, <2>1, <2>2 DEF QueueInv, Issues
    <2> QED  BY <2>3, IssueKeeps
  <1>5. CASE WriteLog(n)
      BY <1>5, NoteEnters DEF WriteLog
  <1>6. CASE Enqueued(n) \/ TimeOut(n) \/ MarkFailed(n)
      BY <1>6, NoteEnters DEF Enqueued, TimeOut, MarkFailed
  <1>7. CASE LogFails(n) \/ ResolveFails(n) \/ MarkFails(n)
      BY <1>7, NoteEnters DEF LogFails, ResolveFails, MarkFails
  <1> QED  BY <1>1, <1>3, <1>4, <1>5, <1>6, <1>7 DEF NoteStep, Notify, NotifyPhase, NotifyAccountApproved

LEMMA ApiDeathKeeps ==
    ASSUME QueueInv, ApiDies
    PROVE  QueueInv'
  <1>1. jobs' = [m \in Mail |-> IF jobs[m] = "pending" THEN "none" ELSE jobs[m]]
        /\ UNCHANGED <<sent, stalls>>
      BY DEF ApiDies
  <1>2. jobs' \in [Mail -> JobState] /\ \A m \in Mail : Spent(jobs'[m], sent[m], stalls[m])
      BY <1>1 DEF QueueInv, Spent, JobState
  <1>3. ASSUME NEW n \in Note
        PROVE  /\ IsNote(notes'[n])
               /\ notes'[n].pc \in {"idle", "log", "recipient"} => notes[n].pc = "idle"
    <2> DEFINE label == IF notes[n].pc = "idle" THEN notes[n].pc ELSE "done"
    <2>1. notes'[n] = [notes[n] EXCEPT !.pc = label]
        BY DEF ApiDies
    <2>2. label \in {"idle", "log", "recipient"} => notes[n].pc = "idle"
        OBVIOUS
    <2> HIDE DEF label
    <2>3. IsNote([notes[n] EXCEPT !.pc = label]) /\ [notes[n] EXCEPT !.pc = label].pc = label
        BY NoteTurns DEF QueueInv
    <2> QED  BY <2>1, <2>2, <2>3
  <1>4. DOMAIN notes' = Note
      BY DEF ApiDies
  <1>5. \A n \in Note, i \in Place : jobs[<<n, i>>] = "none" => jobs'[<<n, i>>] = "none"
      BY <1>1 DEF Mail
  <1> QED  BY <1>1, <1>2, <1>3, <1>4, <1>5 DEF QueueInv, Spent

LEMMA WorkerDeathKeeps ==
    ASSUME QueueInv, WorkerDies
    PROVE  QueueInv'
  <1>1. /\ jobs' = [m \in Mail |-> CASE m \in InHand -> "stalled" [] jobs[m] = "burying" -> "failed" [] OTHER -> jobs[m]]
        /\ stalls' = [m \in Mail |-> IF m \in InHand THEN stalls[m] + 1 ELSE stalls[m]]
        /\ UNCHANGED <<sent, notes>>
      BY DEF WorkerDies, api
  <1>2. ASSUME NEW m \in Mail
        PROVE  /\ jobs'[m] \in JobState /\ stalls'[m] \in Nat
               /\ Spent(jobs'[m], sent[m], stalls'[m])
    <2>1. /\ jobs[m] \in JobState /\ sent[m] \in Nat /\ stalls[m] \in Nat /\ MaxStalled \in Nat
          /\ Spent(jobs[m], sent[m], stalls[m])
        BY MailAssumption DEF QueueInv
    <2>2. CASE m \in InHand
      <3>1. jobs'[m] = "stalled" /\ stalls'[m] = stalls[m] + 1
          BY <1>1, <2>2 DEF InHand
      <3> QED  BY <2>1, <2>2, <3>1 DEF InHand, Spent, JobState
    <2>3. CASE m \notin InHand
      <3>1. stalls'[m] = stalls[m] /\ jobs'[m] = IF jobs[m] = "burying" THEN "failed" ELSE jobs[m]
          BY <1>1, <2>3
      <3> QED  BY <2>1, <3>1 DEF Spent, JobState
    <2> QED  BY <2>2, <2>3
  <1>3. jobs' \in [Mail -> JobState] /\ stalls' \in [Mail -> Nat]
      BY <1>1, <1>2
  <1>4. \A n \in Note, i \in Place : jobs[<<n, i>>] = "none" => jobs'[<<n, i>>] = "none"
    <2> TAKE n \in Note, i \in Place
    <2>1. <<n, i>> \in Mail
        BY DEF Mail
    <2> QED  BY <1>1, <2>1 DEF InHand
  <1> QED  BY <1>1, <1>2, <1>3, <1>4 DEF QueueInv, Spent

LEMMA OthersKeep ==
    ASSUME QueueInv, UNCHANGED <<notes, jobs, sent, stalls>>
    PROVE  QueueInv'
  BY DEF QueueInv, Spent

-----------------------------------------------------------------------------

\* Every step of the system keeps it.
LEMMA QueueKept ==
    ASSUME QueueInv, [CalmNext]_calmVars
    PROVE  QueueInv'
  <1> USE DEF api, queue
  <1>1. CASE UNCHANGED calmVars
      BY <1>1, OthersKeep DEF calmVars, vars
  <1>2. CASE Work
    <2>1. CASE \E n \in Note, u \in User :
                  Notify(n, u) \/ NotifyPhase(n, u) \/ NotifyAccountApproved(n, u) \/ Contact(n, u)
        BY <2>1, NoteKeeps
    <2>2. CASE \/ \E u \in User, given \in AddressLists \cup {None} : PutOnboarding(u, given)
               \/ \E f \in forms : SaveProfile(f)
        BY <2>2, OthersKeep DEF PutOnboarding, SaveProfile
    <2>3. CASE \E n \in Note : NoteStep(n)
        BY <2>3, NoteKeeps
    <2>4. CASE \E m \in Mail : MailStep(m)
        BY <2>4, MailKeeps
    <2>5. CASE \E e \in Event : Receive(e) \/ EventStep(e)
        BY <2>5, OthersKeep DEF Receive, EventStep, FindRow, SaveRow
    <2>6. CASE StartRun \/ CronStep \/ NextDay \/ RedisDown \/ RedisUp
        BY <2>6, OthersKeep DEF StartRun, CronStep, Remind, LogReminder, EndRun, NextDay, RedisDown, RedisUp
    <2> QED  BY <1>2, <2>1, <2>2, <2>3, <2>4, <2>5, <2>6 DEF Work
  <1>3. CASE Fault
    <2>1. CASE \E n \in Note : LogFails(n) \/ ResolveFails(n) \/ MarkFails(n)
        BY <2>1, NoteKeeps
    <2>2. CASE \E m \in Mail : CheckFails(m)
        BY <2>2, MailKeeps
    <2>3. CASE (\E e \in Event : SaveFails(e)) \/ LogReminderFails
        BY <2>3, OthersKeep DEF SaveFails, LogReminderFails
    <2> QED  BY <1>3, <2>1, <2>2, <2>3, ApiDeathKeeps, WorkerDeathKeeps DEF Fault
  <1> QED  BY <1>1, <1>2, <1>3 DEF CalmNext

\* The mail for an entry of a list of recipients goes out again only after its worker died
\* with it in hand, and never more often than BullMQ puts stalled jobs back
\* (email.processor.ts; notify.service.ts adds one job per entry, once). An address in two
\* entries gets two mails.
THEOREM SentOnceTheorem == MailSpec => []SentOncePerDeath
  <1>1. CalmInit => QueueInv
      BY DEF CalmInit, Init, QueueInv, IsNote, Spent, JobState, Mail
  <1>2. QueueInv => SentOncePerDeath
    <2> SUFFICES ASSUME QueueInv, NEW m \in Mail
                 PROVE  sent[m] <= 1 + stalls[m] /\ sent[m] <= 1 + MaxStalled
        BY DEF SentOncePerDeath
    <2>1. /\ jobs[m] \in JobState /\ sent[m] \in Nat /\ stalls[m] \in Nat /\ MaxStalled \in Nat
          /\ Spent(jobs[m], sent[m], stalls[m])
        BY MailAssumption DEF QueueInv
    <2> QED  BY <2>1 DEF Spent, JobState
  <1> QED  BY <1>1, <1>2, QueueKept, PTL DEF MailSpec

-----------------------------------------------------------------------------
(* Dead letters *)

\* What is true of a job, its mail's count, its stalls, whether it is a dead letter, and
\* calm: only a mail whose worker died on it is buried after it went out, and a job stalls
\* only when a worker dies.
Buried(job, n, k, letter, still) ==
    /\ letter => job = "failed"
    /\ letter \/ job = "burying" => (n > 0 => k > 0)
    /\ still => job # "stalled" /\ (job = "failed" => letter)

LettersInv ==
    /\ QueueInv
    /\ calm \in BOOLEAN
    /\ \A m \in Mail : Buried(jobs[m], sent[m], stalls[m], m \in dead, calm)

\* Calm never comes back.
LEMMA CalmFades ==
    ASSUME calm \in BOOLEAN, [CalmNext]_calmVars
    PROVE  calm' \in BOOLEAN /\ (calm' => calm)
  <1>1. CASE UNCHANGED calmVars
      BY <1>1 DEF calmVars
  <1>2. CASE calm' = (calm /\ OneEvent')
      BY <1>2
  <1>3. CASE calm' = FALSE
      BY <1>3
  <1> QED  BY <1>1, <1>2, <1>3 DEF CalmNext

LEMMA LettersUntouched ==
    ASSUME LettersInv, UNCHANGED queue, calm' => calm
    PROVE  \A m \in Mail : Buried(jobs'[m], sent'[m], stalls'[m], m \in dead', calm')
  BY DEF LettersInv, queue, Buried

\* A job moves: what is true of its new place is all there is to show.
LEMMA LetterMoved ==
    ASSUME LettersInv, calm' => calm, NEW m \in Mail,
           \A x \in Mail \ {m} : /\ jobs'[x] = jobs[x] /\ sent'[x] = sent[x]
                                 /\ stalls'[x] = stalls[x] /\ (x \in dead' <=> x \in dead),
           Buried(jobs'[m], sent'[m], stalls'[m], m \in dead', calm')
    PROVE  \A x \in Mail : Buried(jobs'[x], sent'[x], stalls'[x], x \in dead', calm')
  BY DEF LettersInv, Buried

LEMMA MailBuries ==
    ASSUME LettersInv, calm' => calm, NEW m \in Mail, MailStep(m) \/ CheckFails(m)
    PROVE  \A x \in Mail : Buried(jobs'[x], sent'[x], stalls'[x], x \in dead', calm')
  <1> USE DEF MoveJob
  <1>1. /\ jobs[m] \in JobState /\ sent[m] \in Nat /\ stalls[m] \in Nat /\ MaxStalled \in Nat
        /\ Spent(jobs[m], sent[m], stalls[m])
        /\ Buried(jobs[m], sent[m], stalls[m], m \in dead, calm)
      BY MailAssumption DEF LettersInv, QueueInv
  <1>2. \A x \in Mail \ {m} : /\ jobs'[x] = jobs[x] /\ sent'[x] = sent[x]
                              /\ stalls'[x] = stalls[x] /\ (x \in dead' <=> x \in dead)
      BY DEF LettersInv, QueueInv, MailStep, Add, Take, CheckSuppressed, CheckFails, Send,
             SendFails, Complete, Fail, Bury, Recover
  <1>3. CASE \/ Add(m) \/ Take(m) \/ CheckSuppressed(m) \/ CheckFails(m) \/ Send(m)
             \/ SendFails(m) \/ Complete(m)
    <2>1. jobs'[m] \in {"waiting", "checking", "sending", "delivered", "completed", "failing"}
          /\ jobs[m] # "failed" /\ (m \in dead' <=> m \in dead)
        BY <1>3 DEF LettersInv, QueueInv, Add, Take, CheckSuppressed, CheckFails, Send,
                    SendFails, Complete
    <2>2. Buried(jobs'[m], sent'[m], stalls'[m], m \in dead', calm')
        BY <1>1, <2>1 DEF Buried
    <2> QED  BY <1>2, <2>2, LetterMoved
  <1>4. CASE Fail(m)
    <2>1. jobs[m] = "failing" /\ jobs'[m] = "burying" /\ UNCHANGED <<sent, stalls, dead>>
        BY <1>4 DEF LettersInv, QueueInv, Fail
    <2>2. Buried(jobs'[m], sent'[m], stalls'[m], m \in dead', calm')
        BY <1>1, <2>1 DEF Buried, Spent
    <2> QED  BY <1>2, <2>2, LetterMoved
  <1>5. CASE Bury(m)
    <2>1. jobs[m] = "burying" /\ jobs'[m] = "failed" /\ m \in dead' /\ UNCHANGED <<sent, stalls>>
        BY <1>5 DEF LettersInv, QueueInv, Bury
    <2>2. Buried(jobs'[m], sent'[m], stalls'[m], m \in dead', calm')
        BY <1>1, <2>1 DEF Buried
    <2> QED  BY <1>2, <2>2, LetterMoved
  <1>6. CASE Recover(m)
    <2>1. /\ jobs[m] = "stalled" /\ UNCHANGED <<sent, stalls, dead>>
          /\ \/ jobs'[m] = "waiting"
             \/ stalls[m] > MaxStalled /\ jobs'[m] \in {"burying", "failed"}
        BY <1>6 DEF LettersInv, QueueInv, Recover
    <2>2. Buried(jobs'[m], sent'[m], stalls'[m], m \in dead', calm')
        BY <1>1, <2>1 DEF Buried
    <2> QED  BY <1>2, <2>2, LetterMoved
  <1> QED  BY <1>3, <1>4, <1>5, <1>6 DEF MailStep

LEMMA IssueBuries ==
    ASSUME LettersInv, calm' => calm, NEW n \in Note, NEW to, Issue(n, to),
           notes[n].pc \in {"idle", "recipient"}, UNCHANGED <<stalls, sent, dead>>
    PROVE  \A m \in Mail : Buried(jobs'[m], sent'[m], stalls'[m], m \in dead', calm')
  <1> TAKE m \in Mail
  <1>1. m[1] \in Note /\ m[2] \in Place /\ m = <<m[1], m[2]>>
      BY DEF Mail
  <1>2. m[1] = n => jobs[m] = "none"
      BY <1>1 DEF LettersInv, QueueInv
  <1>3. jobs'[m] = jobs[m] \/ (jobs[m] = "none" /\ jobs'[m] = "pending")
      BY <1>2 DEF Issue
  <1> QED  BY <1>3 DEF LettersInv, Buried

LEMMA ApiDeathBuries ==
    ASSUME LettersInv, ApiDies, calm' => calm
    PROVE  \A m \in Mail : Buried(jobs'[m], sent'[m], stalls'[m], m \in dead', calm')
  <1> TAKE m \in Mail
  <1>1. /\ jobs'[m] = jobs[m] \/ (jobs[m] = "pending" /\ jobs'[m] = "none")
        /\ UNCHANGED <<stalls, sent, dead>>
      BY DEF ApiDies
  <1> QED  BY <1>1 DEF LettersInv, Buried

LEMMA WorkerDeathBuries ==
    ASSUME LettersInv, WorkerDies, calm' = FALSE
    PROVE  \A m \in Mail : Buried(jobs'[m], sent'[m], stalls'[m], m \in dead', calm')
  <1> TAKE m \in Mail
  <1>1. /\ Buried(jobs[m], sent[m], stalls[m], m \in dead, calm)
        /\ sent[m] \in Nat /\ stalls[m] \in Nat /\ UNCHANGED <<sent, dead>>
      BY DEF LettersInv, QueueInv, WorkerDies
  <1>2. CASE m \in InHand
    <2>1. jobs'[m] = "stalled" /\ jobs[m] # "failed"
        BY <1>2 DEF WorkerDies, InHand
    <2> QED  BY <1>1, <2>1 DEF Buried
  <1>3. CASE m \notin InHand
    <2>1. stalls'[m] = stalls[m] /\ jobs'[m] = IF jobs[m] = "burying" THEN "failed" ELSE jobs[m]
        BY <1>3 DEF WorkerDies
    <2> QED  BY <1>1, <2>1 DEF Buried
  <1> QED  BY <1>2, <1>3

LEMMA NoteBuries ==
    ASSUME LettersInv, calm' => calm, NEW n \in Note,
           \/ \E u \in User :
                 Notify(n, u) \/ NotifyPhase(n, u) \/ NotifyAccountApproved(n, u) \/ Contact(n, u)
           \/ NoteStep(n) \/ LogFails(n) \/ ResolveFails(n) \/ MarkFails(n)
    PROVE  \A m \in Mail : Buried(jobs'[m], sent'[m], stalls'[m], m \in dead', calm')
  <1>1. CASE \E u \in User : Contact(n, u)
      BY <1>1, IssueBuries DEF Contact
  <1>2. CASE Resolve(n)
      BY <1>2, IssueBuries DEF Resolve
  <1>3. CASE \E u \in User : Notify(n, u) \/ NotifyPhase(n, u) \/ NotifyAccountApproved(n, u)
      BY <1>3, LettersUntouched DEF Notify, NotifyPhase, NotifyAccountApproved, Call
  <1>4. CASE WriteLog(n) \/ Enqueued(n) \/ TimeOut(n) \/ MarkFailed(n)
      BY <1>4, LettersUntouched DEF WriteLog, Enqueued, TimeOut, MarkFailed
  <1>5. CASE LogFails(n) \/ ResolveFails(n) \/ MarkFails(n)
      BY <1>5, LettersUntouched DEF LogFails, ResolveFails, MarkFails
  <1> QED  BY <1>1, <1>2, <1>3, <1>4, <1>5 DEF NoteStep

LEMMA LettersKept ==
    ASSUME LettersInv, [CalmNext]_calmVars
    PROVE  LettersInv'
  <1>1. QueueInv' /\ calm' \in BOOLEAN /\ (calm' => calm)
      BY QueueKept, CalmFades DEF LettersInv
  <1>2. \A m \in Mail : Buried(jobs'[m], sent'[m], stalls'[m], m \in dead', calm')
    <2>1. CASE UNCHANGED calmVars
        BY <1>1, <2>1, LettersUntouched DEF calmVars, vars
    <2>2. CASE Work
      <3>1. CASE \E n \in Note, u \in User :
                    Notify(n, u) \/ NotifyPhase(n, u) \/ NotifyAccountApproved(n, u) \/ Contact(n, u)
          BY <1>1, <3>1, NoteBuries
      <3>2. CASE \/ \E u \in User, given \in AddressLists \cup {None} : PutOnboarding(u, given)
                 \/ \E f \in forms : SaveProfile(f)
          BY <1>1, <3>2, LettersUntouched DEF PutOnboarding, SaveProfile
      <3>3. CASE \E n \in Note : NoteStep(n)
          BY <1>1, <3>3, NoteBuries
      <3>4. CASE \E m \in Mail : MailStep(m)
          BY <1>1, <3>4, MailBuries
      <3>5. CASE \E e \in Event : Receive(e) \/ EventStep(e)
          BY <1>1, <3>5, LettersUntouched DEF Receive, EventStep, FindRow, SaveRow
      <3>6. CASE StartRun \/ CronStep \/ NextDay \/ RedisDown \/ RedisUp
          BY <1>1, <3>6, LettersUntouched DEF StartRun, CronStep, Remind, LogReminder, EndRun, NextDay, RedisDown, RedisUp
      <3> QED  BY <2>2, <3>1, <3>2, <3>3, <3>4, <3>5, <3>6 DEF Work
    <2>3. CASE Fault /\ calm' = FALSE
      <3>1. CASE \E n \in Note : LogFails(n) \/ ResolveFails(n) \/ MarkFails(n)
          BY <1>1, <3>1, NoteBuries
      <3>2. CASE \E m \in Mail : CheckFails(m)
          BY <1>1, <3>2, MailBuries
      <3>3. CASE (\E e \in Event : SaveFails(e)) \/ LogReminderFails
          BY <1>1, <3>3, LettersUntouched DEF SaveFails, LogReminderFails
      <3> QED  BY <1>1, <2>3, <3>1, <3>2, <3>3, ApiDeathBuries, WorkerDeathBuries DEF Fault
    <2> QED  BY <2>1, <2>2, <2>3 DEF CalmNext
  <1> QED  BY <1>1, <1>2 DEF LettersInv

\* A dead letter is of a mail that failed and can be sent again by hand, and while nothing
\* outside fails every failed mail is one (the "failed" handler in email.processor.ts).
THEOREM DeadLettersTheorem == MailSpec => []DeadLetters
  <1>1. CalmInit => LettersInv
    <2> SUFFICES ASSUME CalmInit PROVE LettersInv
        OBVIOUS
    <2>1. QueueInv
        BY DEF CalmInit, Init, QueueInv, IsNote, Spent, JobState, Mail
    <2> QED  BY <2>1 DEF CalmInit, Init, LettersInv, Buried
  <1>2. LettersInv => DeadLetters
    <2> SUFFICES ASSUME LettersInv, NEW m \in Mail
                 PROVE  /\ m \in dead => jobs[m] = "failed" /\ (sent[m] > 0 => stalls[m] > 0)
                        /\ calm /\ jobs[m] = "failed" => m \in dead
        BY DEF DeadLetters
    <2> QED  BY DEF LettersInv, Buried
  <1> QED  BY <1>1, <1>2, LettersKept, PTL DEF MailSpec

-----------------------------------------------------------------------------
(* Suppressed addresses *)

\* While nothing outside fails, a mail leaves for sending only past the suppression list
\* (isSuppressed in email.processor.ts lets a mail through when it cannot ask).
THEOREM SuppressedStaysTheorem == MailSpec => SuppressedStays
  <1>1. CalmInit => QueueInv
      BY DEF CalmInit, Init, QueueInv, IsNote, Spent, JobState, Mail
  <1>2. ASSUME QueueInv, [CalmNext]_calmVars, calm', NEW m \in Mail,
               jobs'[m] = "sending", jobs[m] # "sending"
        PROVE  To(m) \notin suppressed
    <2> USE DEF api, queue
    <2>1. jobs' # jobs /\ Work
        BY <1>2 DEF CalmNext, calmVars, vars
    <2>2. \A n \in Note : \A to : ~Issue(n, to)
        BY <1>2 DEF Issue
    <2>3. PICK x \in Mail : MailStep(x)
        BY <2>1, <2>2 DEF Work, Notify, NotifyPhase, NotifyAccountApproved, Call, Contact,
              NoteStep, WriteLog, Resolve, Enqueued, TimeOut, MarkFailed, PutOnboarding,
              SaveProfile, Receive, EventStep, FindRow, SaveRow, StartRun, CronStep, Remind,
              LogReminder, EndRun, NextDay, RedisDown, RedisUp
    <2>4. x = m /\ CheckSuppressed(m)
        BY <1>2, <2>3 DEF QueueInv, MailStep, MoveJob, Add, Take, CheckSuppressed, Send,
              SendFails, Complete, Fail, Bury, Recover
    <2> QED  BY <1>2, <2>4 DEF QueueInv, CheckSuppressed, IsSuppressed
  <1>3. QueueInv /\ [CalmNext]_calmVars =>
          [calm' => \A m \in Mail : jobs'[m] = "sending" /\ jobs[m] # "sending" => To(m) \notin suppressed]_calmVars
      BY <1>2
  <1> QED  BY <1>1, <1>3, QueueKept, PTL DEF MailSpec, SuppressedStays

\* Each address an event reports is suppressed, or still among the rest.
Owed(e, rest, list) ==
    \A i \in DOMAIN Reported[e] :
        Reported[e][i] \in list \/ \E j \in DOMAIN rest : rest[j] = Reported[e][i]

\* The webhook call of an event, given the suppression list and calm. A row that is saved
\* was looked for on the list as it is, since no other event is at work.
Absorbing(e, c, list, still) ==
    /\ "pc" \in DOMAIN c /\ c.pc \in {"idle", "find", "save", "done"}
    /\ c.pc \in {"find", "save"} => c.rest \in Seq(Address) /\ Owed(e, c.rest, list)
    /\ c.pc = "save" => c.rest # <<>> /\ (still => (c.found <=> Head(c.rest) \in list))
    /\ still /\ c.pc = "done" /\ e \in Genuine => Owed(e, <<>>, list)

EventsInv ==
    /\ calm \in BOOLEAN
    /\ calm => OneEvent
    /\ DOMAIN events = Event
    /\ \A e \in Event : Absorbing(e, events[e], suppressed, calm)

\* A longer list owes no more; the other events are not saving while calm lasts.
LEMMA EventMoved ==
    ASSUME EventsInv, NEW e \in Event, NEW c, events' = [events EXCEPT ![e] = c],
           calm' \in BOOLEAN, calm' => calm /\ OneEvent',
           suppressed \subseteq suppressed', suppressed' # suppressed => events[e].pc = "save",
           Absorbing(e, c, suppressed', calm')
    PROVE  EventsInv'
  <1>1. ASSUME NEW f \in Event, f # e
        PROVE  Absorbing(f, events'[f], suppressed', calm')
    <2>1. events'[f] = events[f] /\ Absorbing(f, events[f], suppressed, calm)
        BY <1>1 DEF EventsInv
    <2>2. \A rest : Owed(f, rest, suppressed) => Owed(f, rest, suppressed')
        BY DEF Owed
    <2>3. calm /\ events[f].pc = "save" => suppressed' = suppressed
        BY <1>1 DEF EventsInv, OneEvent
    <2> QED  BY <2>1, <2>2, <2>3 DEF Absorbing
  <1>2. events'[e] = c /\ DOMAIN events' = Event
      BY DEF EventsInv
  <1> QED  BY <1>1, <1>2 DEF EventsInv

LEMMA FirstAndRest ==
    ASSUME NEW q \in Seq(Address), q # <<>>
    PROVE  /\ Head(q) \in Address /\ Tail(q) \in Seq(Address)
           /\ \A j \in DOMAIN q : q[j] = Head(q) \/ \E k \in DOMAIN Tail(q) : Tail(q)[k] = q[j]
  <1>1. Head(q) = q[1] /\ Head(q) \in Address /\ Tail(q) \in Seq(Address)
      OBVIOUS
  <1>2. ASSUME NEW j \in DOMAIN q, j # 1
        PROVE  j - 1 \in DOMAIN Tail(q) /\ Tail(q)[j - 1] = q[j]
      BY <1>2
  <1> QED  BY <1>1, <1>2

LEMMA EventKeeps ==
    ASSUME EventsInv, NEW e \in Event, calm' \in BOOLEAN, calm' => calm /\ OneEvent',
           Receive(e) \/ EventStep(e) \/ (SaveFails(e) /\ calm' = FALSE)
    PROVE  EventsInv'
  <1> DEFINE c == events[e]
  <1>1. Absorbing(e, c, suppressed, calm) /\ Reported[e] \in Seq(Address)
      BY MailAssumption DEF EventsInv
  <1>2. CASE Receive(e)
    <2> DEFINE d == IF Verified(e) THEN [pc |-> "find", rest |-> Reported[e]] ELSE [pc |-> "done"]
    <2>1. events' = [events EXCEPT ![e] = d] /\ suppressed' = suppressed
        BY <1>2 DEF Receive, Step
    <2>2. Absorbing(e, d, suppressed', calm')
        BY <1>1, <2>1 DEF Absorbing, Owed, Verified
    <2> HIDE DEF d
    <2> QED  BY <2>1, <2>2, EventMoved
  <1>3. CASE FindRow(e) /\ c.rest = <<>>
    <2> DEFINE d == [pc |-> "done"]
    <2>1. events' = [events EXCEPT ![e] = d] /\ suppressed' = suppressed /\ c.pc = "find"
        BY <1>3 DEF FindRow, Step
    <2>2. Absorbing(e, d, suppressed', calm')
        BY <1>1, <1>3, <2>1 DEF Absorbing
    <2> HIDE DEF d
    <2> QED  BY <2>1, <2>2, EventMoved
  <1>4. CASE FindRow(e) /\ c.rest # <<>>
    <2> DEFINE d == [pc |-> "save", rest |-> c.rest, found |-> IsSuppressed(Head(c.rest))]
    <2>1. events' = [events EXCEPT ![e] = d] /\ suppressed' = suppressed /\ c.pc = "find"
        BY <1>4 DEF FindRow, Step
    <2>2. Absorbing(e, d, suppressed', calm')
        BY <1>1, <1>4, <2>1 DEF Absorbing, IsSuppressed
    <2> HIDE DEF d
    <2> QED  BY <2>1, <2>2, EventMoved
  <1>5. CASE SaveRow(e)
    <2> DEFINE first == Head(c.rest)
               d == IF c.found \/ first \notin suppressed
                    THEN [pc |-> "find", rest |-> Tail(c.rest)] ELSE [pc |-> "done"]
    <2>1. /\ events' = [events EXCEPT ![e] = d]
          /\ suppressed' = suppressed \cup {first} /\ c.pc = "save"
        BY <1>5 DEF SaveRow, Step
    <2>2. c.rest \in Seq(Address) /\ c.rest # <<>> /\ Owed(e, c.rest, suppressed)
          /\ (calm' => c.found \/ first \notin suppressed)
        BY <1>1, <2>1 DEF Absorbing
    <2>3. Tail(c.rest) \in Seq(Address) /\ Owed(e, Tail(c.rest), suppressed')
        BY <2>1, <2>2, FirstAndRest DEF Owed
    <2>4. CASE c.found \/ first \notin suppressed
      <3>1. d = [pc |-> "find", rest |-> Tail(c.rest)]
          BY <2>4
      <3>2. Absorbing(e, d, suppressed', calm')
          BY <2>3, <3>1 DEF Absorbing
      <3> HIDE DEF d
      <3> QED  BY <2>1, <3>2, EventMoved
    <2>5. CASE ~(c.found \/ first \notin suppressed)
      <3>1. d = [pc |-> "done"] /\ ~calm'
          BY <2>2, <2>5
      <3>2. Absorbing(e, d, suppressed', calm')
          BY <3>1 DEF Absorbing
      <3> HIDE DEF d
      <3> QED  BY <2>1, <3>2, EventMoved
    <2> QED  BY <2>4, <2>5
  <1>6. CASE SaveFails(e) /\ calm' = FALSE
    <2> DEFINE d == [pc |-> "done"]
    <2>1. events' = [events EXCEPT ![e] = d] /\ suppressed' = suppressed
        BY <1>6 DEF SaveFails, Step
    <2>2. Absorbing(e, d, suppressed', calm')
        BY <1>6 DEF Absorbing
    <2> HIDE DEF d
    <2> QED  BY <2>1, <2>2, EventMoved
  <1> QED  BY <1>2, <1>3, <1>4, <1>5, <1>6 DEF EventStep

LEMMA EventsDie ==
    ASSUME EventsInv, ApiDies, calm' = FALSE
    PROVE  EventsInv'
  <1>1. /\ events' = [e \in Event |-> IF events[e].pc = "idle" THEN events[e] ELSE [pc |-> "done"]]
        /\ suppressed' = suppressed
      BY DEF ApiDies
  <1>2. ASSUME NEW e \in Event
        PROVE  Absorbing(e, events'[e], suppressed', calm')
    <2>1. Absorbing(e, events[e], suppressed, calm)
        BY DEF EventsInv
    <2>2. CASE events[e].pc = "idle"
        BY <1>1, <2>1, <2>2 DEF Absorbing
    <2>3. CASE events[e].pc # "idle"
      <3>1. events'[e] = [pc |-> "done"]
          BY <1>1, <2>3
      <3> QED  BY <3>1 DEF Absorbing
    <2> QED  BY <2>2, <2>3
  <1> QED  BY <1>1, <1>2 DEF EventsInv

LEMMA EventsUntouched ==
    ASSUME EventsInv, UNCHANGED webhook, calm' \in BOOLEAN, calm' => calm
    PROVE  EventsInv'
  BY DEF EventsInv, webhook, OneEvent, Absorbing

LEMMA EventsKept ==
    ASSUME EventsInv, [CalmNext]_calmVars
    PROVE  EventsInv'
  <1>1. calm' \in BOOLEAN /\ (calm' => calm)
      BY CalmFades DEF EventsInv
  <1>2. CASE UNCHANGED calmVars
      BY <1>1, <1>2, EventsUntouched DEF calmVars, vars
  <1>3. CASE Work /\ calm' = (calm /\ OneEvent')
    <2>1. calm' => calm /\ OneEvent'
        BY <1>3
    <2>2. CASE \E e \in Event : Receive(e) \/ EventStep(e)
        BY <1>1, <2>1, <2>2, EventKeeps
    <2>3. CASE UNCHANGED webhook
        BY <1>1, <2>3, EventsUntouched
    <2>4. (\E e \in Event : Receive(e) \/ EventStep(e)) \/ UNCHANGED webhook
        BY <1>3 DEF Work, Notify, NotifyPhase, NotifyAccountApproved, Call, Contact,
              NoteStep, WriteLog, Resolve, Enqueued, TimeOut, MarkFailed, PutOnboarding,
              SaveProfile, MailStep, MoveJob, Add, Take, CheckSuppressed, Send, SendFails,
              Complete, Fail, Bury, Recover, StartRun, CronStep, Remind, LogReminder, EndRun,
              NextDay, RedisDown, RedisUp
    <2> QED  BY <2>2, <2>3, <2>4
  <1>4. CASE Fault /\ calm' = FALSE
    <2>1. CASE \E e \in Event : SaveFails(e)
        BY <1>4, <2>1, EventKeeps
    <2>2. CASE ApiDies
        BY <1>4, <2>2, EventsDie
    <2>3. CASE UNCHANGED webhook
        BY <1>1, <2>3, EventsUntouched
    <2> QED  BY <1>4, <2>1, <2>2, <2>3 DEF Fault, LogFails, ResolveFails, MarkFails, CheckFails,
                 LogReminderFails, WorkerDies
  <1> QED  BY <1>2, <1>3, <1>4 DEF CalmNext

\* While nothing outside fails and webhook calls do not overlap, an event that was answered
\* left every address it reported suppressed, however many it reports
\* (handleSesEvent in ses-webhook.router.ts).
THEOREM EventAbsorbedTheorem == MailSpec => []EventAbsorbed
  <1>1. CalmInit => EventsInv
      BY DEF CalmInit, Init, EventsInv, OneEvent, Absorbing
  <1>2. EventsInv => EventAbsorbed
    <2> SUFFICES ASSUME EventsInv, calm, NEW e \in Genuine, events[e].pc = "done",
                        NEW i \in DOMAIN Reported[e]
                 PROVE  Reported[e][i] \in suppressed
        BY DEF EventAbsorbed
    <2>1. Absorbing(e, events[e], suppressed, calm)
        BY MailAssumption DEF EventsInv
    <2>2. Owed(e, <<>>, suppressed)
        BY <2>1 DEF Absorbing
    <2> QED  BY <2>2 DEF Owed
  <1> QED  BY <1>1, <1>2, EventsKept, PTL DEF MailSpec

-----------------------------------------------------------------------------
(* Reminders *)

\* The row a run is about to log is of a subscription it has just reminded of; what it has
\* not reminded of yet is among its rows.
RemindersInv ==
    /\ calm \in BOOLEAN
    /\ "pc" \in DOMAIN cron /\ "rows" \in DOMAIN cron
    /\ cron.pc \in {"idle", "send", "insert"}
    /\ cron.rows \subseteq Subscription /\ reminded \subseteq Subscription
    /\ cron.pc = "insert" => cron.row \in cron.rows \cap reminded
    /\ \A u \in logged : \E s \in reminded : Subscriber[s] = u
    /\ calm => IF cron.pc = "idle" THEN reminded \in {{}, Subscription}
                                   ELSE reminded \cup cron.rows = Subscription

LEMMA RemindersUntouched ==
    ASSUME RemindersInv, UNCHANGED reminders, calm' \in BOOLEAN, calm' => calm
    PROVE  RemindersInv'
  BY DEF RemindersInv, reminders

LEMMA RunKeeps ==
    ASSUME RemindersInv, calm' \in BOOLEAN, calm' => calm, StartRun \/ CronStep \/ NextDay
    PROVE  RemindersInv'
  <1>1. CASE StartRun
    <2>1. /\ cron.pc = "idle" /\ UNCHANGED <<reminded, logged>>
          /\ cron' = [pc |-> "send", rows |-> {s \in Subscription : Subscriber[s] \notin logged}]
        BY <1>1 DEF StartRun
    <2>2. reminded = {} => logged = {}
        BY DEF RemindersInv
    <2> QED  BY <2>1, <2>2 DEF RemindersInv
  <1>2. ASSUME NEW s \in Subscription, Remind(s)
        PROVE  RemindersInv'
      BY <1>2 DEF Remind, RemindersInv
  <1>3. CASE LogReminder
      BY <1>3 DEF LogReminder, RemindersInv
  <1>4. CASE EndRun
      BY <1>4 DEF EndRun, RemindersInv
  <1>5. CASE NextDay
      BY <1>5 DEF NextDay, RemindersInv
  <1> QED  BY <1>1, <1>2, <1>3, <1>4, <1>5 DEF CronStep

LEMMA RunBreaks ==
    ASSUME RemindersInv, calm' = FALSE, LogReminderFails \/ WorkerDies
    PROVE  RemindersInv'
  <1>1. cron' = [pc |-> "idle", rows |-> {}] /\ UNCHANGED <<reminded, logged>>
      BY DEF LogReminderFails, WorkerDies
  <1>2. cron'.pc = "idle" /\ cron'.rows = {} /\ "pc" \in DOMAIN cron' /\ "rows" \in DOMAIN cron'
      BY <1>1
  <1> QED  BY <1>1, <1>2 DEF RemindersInv

LEMMA RemindersKept ==
    ASSUME RemindersInv, [CalmNext]_calmVars
    PROVE  RemindersInv'
  <1>1. calm' \in BOOLEAN /\ (calm' => calm)
      BY CalmFades DEF RemindersInv
  <1>2. CASE StartRun \/ CronStep \/ NextDay
      BY <1>1, <1>2, RunKeeps
  <1>3. CASE (LogReminderFails \/ WorkerDies) /\ calm' = FALSE
      BY <1>3, RunBreaks
  <1>4. CASE UNCHANGED reminders
      BY <1>1, <1>4, RemindersUntouched
  <1>5. CASE UNCHANGED calmVars
      BY <1>4, <1>5 DEF calmVars, vars
  <1>6. CASE Work
    <2>1. StartRun \/ CronStep \/ NextDay \/ UNCHANGED reminders
        BY <1>6 DEF Work, Notify, NotifyPhase, NotifyAccountApproved, Call, Contact,
              NoteStep, WriteLog, Resolve, Enqueued, TimeOut, MarkFailed, PutOnboarding,
              SaveProfile, MailStep, MoveJob, Add, Take, CheckSuppressed, Send, SendFails,
              Complete, Fail, Bury, Recover, Receive, EventStep, FindRow, SaveRow,
              RedisDown, RedisUp
    <2> QED  BY <1>2, <1>4, <2>1
  <1>7. CASE Fault /\ calm' = FALSE
    <2>1. LogReminderFails \/ WorkerDies \/ UNCHANGED reminders
        BY <1>7 DEF Fault, LogFails, ResolveFails, MarkFails, CheckFails, SaveFails, ApiDies
    <2> QED  BY <1>3, <1>4, <1>7, <2>1
  <1> QED  BY <1>5, <1>6, <1>7 DEF CalmNext

\* A run that nothing broke reminds of every subscription about to end, and whatever breaks,
\* a logged reminder was attempted (sendRenewalReminders in renewal.cron.ts).
THEOREM RemindersTheorem == MailSpec => []RemindersGoOut
  <1>1. CalmInit => RemindersInv
      BY DEF CalmInit, Init, RemindersInv
  <1>2. RemindersInv => RemindersGoOut
      BY DEF RemindersInv, RemindersGoOut
  <1> QED  BY <1>1, <1>2, RemindersKept, PTL DEF MailSpec
=============================================================================
