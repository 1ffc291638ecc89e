--------------------------- MODULE MailProperties ---------------------------
(***************************************************************************)
(* What Mail is checked for. calm holds until something outside the code   *)
(* fails or dies, or two webhook calls overlap; Redis may be away.         *)
(***************************************************************************)
EXTENDS Mail

-----------------------------------------------------------------------------
(* Whatever fails *)

\* The queue delivers at least once: the mail for an entry of the list goes out again
\* only after the worker died with it in hand, and no more often than the stalls BullMQ
\* allows. An address the list names twice has two entries, and two mails.
SentOncePerDeath == \A m \in Mail : sent[m] <= 1 + stalls[m] /\ sent[m] <= 1 + MaxStalled

-----------------------------------------------------------------------------
(* As long as nothing outside fails *)

VARIABLE calm

OneEvent ==
    \A e, f \in Event : {events[e].pc, events[f].pc} \subseteq {"find", "save"} => e = f

CalmInit == Init /\ calm = TRUE
CalmNext ==
    \/ Work /\ calm' = (calm /\ OneEvent')
    \/ Fault /\ calm' = FALSE

calmVars == <<vars, calm>>

\* The processes run on, Redis comes back, the stalled-job check runs.
Fairness ==
    /\ \A n \in Note : WF_calmVars(NoteStep(n) /\ calm' = (calm /\ OneEvent'))
    /\ \A m \in Mail : WF_calmVars(MailStep(m) /\ calm' = (calm /\ OneEvent'))
    /\ \A e \in Event : WF_calmVars(EventStep(e) /\ calm' = (calm /\ OneEvent'))
    /\ WF_calmVars(CronStep /\ calm' = (calm /\ OneEvent'))
    /\ WF_calmVars(RedisUp /\ calm' = (calm /\ OneEvent'))

MailSpec == CalmInit /\ [][CalmNext]_calmVars /\ Fairness

\* A dead letter is of a mail that failed and may be sent again by hand: it went out
\* before only if the worker died on it. Every failed mail is there.
DeadLetters ==
    \A m \in Mail :
        /\ m \in dead => jobs[m] = "failed" /\ (sent[m] > 0 => stalls[m] > 0)
        /\ calm /\ jobs[m] = "failed" => m \in dead

\* An event that was answered left every address it reported suppressed.
EventAbsorbed ==
    calm => \A e \in Genuine : events[e].pc = "done" =>
                \A i \in DOMAIN Reported[e] : Reported[e][i] \in suppressed

\* A run reminds of every subscription about to end, of two of one customer as well; a
\* reminder on the log was attempted that day: a run that dies leaves the mail without its
\* row, never the row without its mail.
RemindersGoOut ==
    /\ calm /\ cron.pc = "idle" /\ reminded # {} => reminded = Subscription
    /\ \A u \in logged : \E s \in reminded : Subscriber[s] = u

\* A mail is cleared for sending only while its address is not suppressed; it leaves to a
\* suppressed address only when that was reported after the check.
SuppressedStays ==
    [][calm' => \A m \in Mail : jobs'[m] = "sending" /\ jobs[m] # "sending" => To(m) \notin suppressed]_calmVars

\* What the log calls queued is sent, skipped or dead, or marked failed in the end.
Settled ==
    \A n \in Note :
        log[n] = "queued" ~> \/ ~calm \/ log[n] = "failed"
                             \/ /\ notes[n].to # <<>>
                                /\ \A i \in DOMAIN notes[n].to : jobs[<<n, i>>] \in {"completed", "failed"}
=============================================================================
