---------------------------- MODULE EmailOutbox ----------------------------
(***************************************************************************)
(* The e-mail queue.  Every e-mail is a row of the outbox, written with    *)
(* what it tells about; the thread that wrote it sends it when the         *)
(* transaction has committed, and the cron job sends what is still         *)
(* waiting, oldest first, a limited number at a time.  A sender works on   *)
(* the copy of the row it has read, and saves that copy.                   *)
(***************************************************************************)
EXTENDS Queues, SequencesExt

CONSTANTS
    Mails,          \* rows are 1 .. Mails, in order of creation
    MAX_ATTEMPTS,
    BatchLimit,     \* rows the cron job takes at a time
    MaxMailFaults   \* senders that die, answers of the SMTP server that are lost

ASSUME MailAssumption ==
    /\ Mails \in Nat /\ MAX_ATTEMPTS \in Nat \ {0}
    /\ BatchLimit \in Nat \ {0} /\ MaxMailFaults \in Nat

Mail == 1..Mails
Sender == {"web", "cron"}
MailStatus == {"NONE", "PENDING", "SENT", "FAILED"}

VARIABLES
    mail,           \* the rows: status and attempts
    sender,         \* what each sender is doing, and its copies of rows
    delivered,      \* times the SMTP server accepted the e-mail
    raced,          \* history: e-mails hit by a fault, or held by both senders
    mail_faults

mailVars == <<mail, sender, delivered, raced, mail_faults>>

Waiting(m) == mail[m].status = "PENDING" /\ mail[m].attempts < MAX_ATTEMPTS
Resting == [pc |-> "idle", queue |-> <<>>]

\* A copy of a row: its number and the attempts it had.
Copies(q) == [i \in DOMAIN q |-> [id |-> q[i], attempts |-> mail[q[i]].attempts]]

MailInit ==
    /\ mail = [m \in Mail |-> [status |-> "NONE", attempts |-> 0]]
    /\ sender = [s \in Sender |-> Resting]
    /\ delivered = [m \in Mail |-> 0]
    /\ raced = {}
    /\ mail_faults = 0

Held(s) == {c.id : c \in ToSet(sender[s].queue)}
Head1(s) == Head(sender[s].queue)
Finished(s) == LET rest == Tail(sender[s].queue) IN
    sender' = [sender EXCEPT ![s] = [pc |-> IF rest = <<>> THEN "idle" ELSE "send",
                                     queue |-> rest]]

\* _queue_email: the row is committed, the thread is about to send it.
_queue_email(m) ==
    /\ sender["web"].pc = "idle"
    /\ \A k \in Mail : mail[k].status = "NONE" <=> k >= m
    /\ mail' = [mail EXCEPT ![m] = [status |-> "PENDING", attempts |-> 0]]
    /\ sender' = [sender EXCEPT !["web"].pc = "read",
                                !["web"].queue = <<[id |-> m, attempts |-> 0]>>]
    /\ UNCHANGED <<delivered, raced, mail_faults>>

\* Slip: the row is sent whatever became of it since.
send_now_blindly ==
    /\ sender["web"].pc = "read"
    /\ sender' = [sender EXCEPT !["web"].pc = "send"]
    /\ UNCHANGED <<mail, delivered, raced, mail_faults>>

\* send_now reads the row; the cron job may have dealt with it already.
send_now ==
    LET m == Head1("web").id IN
    /\ sender["web"].pc = "read"
    /\ IF Waiting(m)
       THEN /\ sender' = [sender EXCEPT !["web"].pc = "send",
                                        !["web"].queue = Copies(<<m>>)]
            /\ raced' = IF m \in Held("cron") THEN raced \cup {m} ELSE raced
       ELSE /\ sender' = [sender EXCEPT !["web"] = Resting]
            /\ UNCHANGED raced
    /\ UNCHANGED <<mail, delivered, mail_faults>>

Oldest(rows) ==
    SubSeq(InOrder(rows), 1, IF Cardinality(rows) < BatchLimit THEN Cardinality(rows) ELSE BatchLimit)

\* Slip: rows of any status are taken.
BatchOfAll == Oldest({m \in Mail : mail[m].status # "NONE"})

\* The oldest rows still waiting, up to the limit.
Batch == Oldest({m \in Mail : Waiting(m)})

\* send_pending_emails reads them once.
send_pending_emails ==
    /\ sender["cron"].pc = "idle" /\ Batch # <<>>
    /\ sender' = [sender EXCEPT !["cron"].pc = "send", !["cron"].queue = Copies(Batch)]
    /\ raced' = raced \cup (ToSet(Batch) \cap (IF sender["web"].pc = "read" THEN {}
                                               ELSE Held("web")))
    /\ UNCHANGED <<mail, delivered, mail_faults>>

\* _send_item: the server accepts the e-mail, refuses it, or accepts it and
\* the answer is lost ...
Send(s) ==
    LET m == Head1(s).id IN
    /\ sender[s].pc = "send"
    /\ \E accepted, answered \in BOOLEAN :
          /\ ~answered => accepted /\ mail_faults < MaxMailFaults
          /\ mail_faults' = IF answered THEN mail_faults ELSE mail_faults + 1
          /\ raced' = IF answered THEN raced ELSE raced \cup {m}
          /\ delivered' = IF accepted THEN [delivered EXCEPT ![m] = @ + 1] ELSE delivered
          /\ sender' = [sender EXCEPT ![s].pc = IF accepted /\ answered THEN "sent" ELSE "unsent"]
    /\ UNCHANGED mail

\* ... and the copy is saved, over whatever the row says by now.
SaveSent(s) ==
    /\ sender[s].pc = "sent"
    /\ mail' = [mail EXCEPT ![Head1(s).id] = [status |-> "SENT", attempts |-> Head1(s).attempts + 1]]
    /\ Finished(s)
    /\ UNCHANGED <<delivered, raced, mail_faults>>

\* Slip: the attempt is not counted.
SaveUncounted(s) ==
    /\ sender[s].pc = "unsent"
    /\ mail' = [mail EXCEPT ![Head1(s).id] = [status |-> "PENDING", attempts |-> Head1(s).attempts]]
    /\ Finished(s)
    /\ UNCHANGED <<delivered, raced, mail_faults>>

SaveUnsent(s) ==
    LET attempts == Head1(s).attempts + 1 IN
    /\ sender[s].pc = "unsent"
    /\ mail' = [mail EXCEPT ![Head1(s).id] =
           [status |-> IF attempts >= MAX_ATTEMPTS THEN "FAILED" ELSE "PENDING",
            attempts |-> attempts]]
    /\ Finished(s)
    /\ UNCHANGED <<delivered, raced, mail_faults>>

\* The process dies; what it had delivered and not saved is sent again.
LoseSender(s) ==
    /\ sender[s].pc # "idle" /\ mail_faults < MaxMailFaults
    /\ mail_faults' = mail_faults + 1
    /\ raced' = IF sender[s].pc = "sent" THEN raced \cup {Head1(s).id} ELSE raced
    /\ sender' = [sender EXCEPT ![s] = Resting]
    /\ UNCHANGED <<mail, delivered>>

SenderStep(s) == Send(s) \/ SaveSent(s) \/ SaveUnsent(s) \/ (s = "web" /\ send_now)

MailNext ==
    \/ \E m \in Mail : _queue_email(m)
    \/ send_pending_emails
    \/ \E s \in Sender : SenderStep(s) \/ LoseSender(s)

MailSpec == MailInit /\ [][MailNext]_mailVars

\* The cron loop comes round every minute, and both senders run on.
MailFairness == /\ WF_mailVars(send_pending_emails)
                /\ \A s \in Sender : WF_mailVars(SenderStep(s))

-----------------------------------------------------------------------------

\* No interleaving of the two senders, whose copies overwrite each other's
\* counts, tries an e-mail more often than MAX_ATTEMPTS or forgets a status.
MailTypeOK ==
    /\ \A m \in Mail : /\ mail[m].status \in MailStatus
                       /\ mail[m].attempts \in 0..MAX_ATTEMPTS
                       /\ mail[m].status = "FAILED" => mail[m].attempts = MAX_ATTEMPTS
    /\ \A s \in Sender : sender[s].pc \in {"idle", "read", "send", "sent", "unsent"}
    /\ mail_faults \in 0..MaxMailFaults

\* The buyer gets an e-mail once, although it is sent outside any transaction
\* and by two senders: a second copy needs both of them to hold the row at the
\* same time, a sender that dies before saving, or a lost answer; and without
\* one of these a delivered e-mail is never set back to PENDING.
OneCopy ==
    \A m \in Mail \ raced :
        /\ delivered[m] <= 1
        /\ mail[m].status = "SENT" => delivered[m] = 1
        /\ delivered[m] = 1 => mail[m].status = "SENT"
                               \/ \E s \in Sender : sender[s].pc = "sent" /\ Head1(s).id = m
=============================================================================
