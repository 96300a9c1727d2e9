----------------------------------- MODULE Mail -----------------------------------
(***************************************************************************)
(* sendEmail with its EmailQueue rows, and two who call it: the contact    *)
(* form (ContactService), which mails the admin and then the visitor       *)
(* behind its answer, and NotificationService.send, which mails a user     *)
(* after a row for the user's list; and EmailQueueCleanup, which deletes   *)
(* old rows when its script is run.  What the mail server did, when its    *)
(* answer is lost, is a choice.                                            *)
(***************************************************************************)
EXTENDS Integers, FiniteSets

CONSTANTS
  Submissions,      \* messages through the contact form
  Visitors,         \* e-mail addresses of their senders
  NoVisitor,        \* not an address
  Notices           \* notifications

ASSUME MailAssumption == NoVisitor \notin Visitors /\ Submissions \cap Notices = {}

VARIABLES
  mail,         \* mail[x][k]: status of x's EmailQueue row to k, "none" before it
  mailPc,       \* mailPc[x]: the step that x's request or background task takes next
  mailTo,       \* mailTo[x]: whom x mails at present
  submission,   \* submission[c]: the ContactSubmission row: visitor, whether it is
                \* younger than 10 minutes, emailSent
  notice,       \* notice[n]: the Notification row
  delivered,    \* delivered[x]: whom the mail server took x's mail for (history)
  unsure,       \* <<x, k>> whose row tells what could not be known or recorded (history)
  crowded       \* visitors of whom two submissions overlapped their checks (history)

mailVars ==
  <<mail, mailPc, mailTo, submission, notice, delivered, unsure, crowded>>

Senders == Submissions \cup Notices
Receivers == {"admin", "user"}
NoSubmission == [visitor |-> NoVisitor, stored |-> FALSE, recent |-> FALSE,
                 emailSent |-> FALSE]

MailTypeOK ==
  /\ mail \in [Senders -> [Receivers ->
                        {"none", "queued", "sent", "failed", "deleted"}]]
  /\ mailPc \in [Senders -> {"new", "store", "prepare", "queue", "smtp", "sent",
                             "failed", "sentAll", "done"}]
  /\ mailTo \in [Senders -> Receivers]
  /\ submission \in [Submissions -> [visitor : Visitors \cup {NoVisitor},
                       stored : BOOLEAN, recent : BOOLEAN, emailSent : BOOLEAN]]
  /\ notice \in [Notices -> {"none", "unread", "read", "deleted"}]
  /\ delivered \in [Senders -> SUBSET Receivers]
  /\ unsure \subseteq Senders \X Receivers /\ crowded \subseteq Visitors

MailInit ==
  /\ mail = [x \in Senders |-> [k \in Receivers |-> "none"]]
  /\ mailPc = [x \in Senders |-> "new"]
  /\ mailTo = [x \in Senders |-> IF x \in Submissions THEN "admin" ELSE "user"]
  /\ submission = [c \in Submissions |-> NoSubmission]
  /\ notice = [n \in Notices |-> "none"]
  /\ delivered = [x \in Senders |-> {}] /\ unsure = {} /\ crowded = {}

MailGoto(x, next) == mailPc' = [mailPc EXCEPT ![x] = next] /\ UNCHANGED mailTo
-------------------------------------------------------------------------------
(* The contact form and the notification, up to their mails. *)

RecentOf(v) == {c \in Submissions : submission[c].visitor = v /\ submission[c].recent}
Submitting(v) == {c \in Submissions : submission[c].visitor = v /\ mailPc[c] = "store"}

CheckRecent(c, v) ==
  /\ mailPc[c] = "new"
  /\ RecentOf(v) = {}
  /\ submission' = [submission EXCEPT ![c].visitor = v]
  /\ crowded' = IF Submitting(v) # {} THEN crowded \cup {v} ELSE crowded
  /\ MailGoto(c, "store")
  /\ UNCHANGED <<mail, notice, delivered, unsure>>

\* The row is there, and the visitor has the answer; the mails follow.
StoreSubmission(c) ==
  /\ mailPc[c] = "store" /\ c \in Submissions
  /\ submission' = [submission EXCEPT ![c].stored = TRUE, ![c].recent = TRUE]
  /\ MailGoto(c, "queue")
  /\ UNCHANGED <<mail, notice, delivered, unsure, crowded>>

TenMinutesPass(c) ==
  /\ submission[c].recent
  /\ submission' = [submission EXCEPT ![c].recent = FALSE]
  /\ UNCHANGED <<mail, mailPc, mailTo, notice, delivered, unsure, crowded>>

StoreNotice(n) ==
  /\ mailPc[n] = "new"
  /\ notice' = [notice EXCEPT ![n] = "unread"]
  /\ MailGoto(n, "prepare")
  /\ UNCHANGED <<mail, submission, delivered, unsure, crowded>>

\* A mail follows unless the user's preferences forbid it or the notification's
\* type has no template.
PrepareMail(n) ==
  /\ mailPc[n] = "prepare"
  /\ \E next \in {"queue", "done"} : MailGoto(n, next)
  /\ UNCHANGED <<mail, submission, notice, delivered, unsure, crowded>>

MarkRead(n) ==
  /\ notice[n] = "unread"
  /\ notice' = [notice EXCEPT ![n] = "read"]
  /\ UNCHANGED <<mail, mailPc, mailTo, submission, delivered, unsure, crowded>>

MarkAllRead ==
  /\ \E n \in Notices : notice[n] = "unread"
  /\ notice' = [n \in Notices |-> IF notice[n] = "unread" THEN "read" ELSE notice[n]]
  /\ UNCHANGED <<mail, mailPc, mailTo, submission, delivered, unsure, crowded>>

DeleteNotice(n) ==
  /\ notice[n] \in {"unread", "read"}
  /\ notice' = [notice EXCEPT ![n] = "deleted"]
  /\ UNCHANGED <<mail, mailPc, mailTo, submission, delivered, unsure, crowded>>
-------------------------------------------------------------------------------
(* sendEmail: a queued row, the mail server, the row's status. *)

QueueMail(x) ==
  /\ mailPc[x] = "queue"
  /\ mail' = [mail EXCEPT ![x][mailTo[x]] = "queued"]
  /\ MailGoto(x, "smtp")
  /\ UNCHANGED <<submission, notice, delivered, unsure, crowded>>

\* The server takes the mail, refuses it, or takes it and its answer is lost.
SendMail(x) ==
  /\ mailPc[x] = "smtp"
  /\ \E taken, answered \in BOOLEAN :
       /\ delivered' = IF taken THEN [delivered EXCEPT ![x] = @ \cup {mailTo[x]}]
                       ELSE delivered
       /\ unsure' = IF taken /\ ~answered THEN unsure \cup {<<x, mailTo[x]>>} ELSE unsure
       /\ MailGoto(x, IF taken /\ answered THEN "sent" ELSE "failed")
  /\ UNCHANGED <<mail, submission, notice, crowded>>

\* Who mails the admin goes on to the visitor; who mailed the visitor is done.
Continue(x) ==
  /\ mailPc' = [mailPc EXCEPT ![x] = IF x \in Notices THEN "done"
                                     ELSE IF mailTo[x] = "admin" THEN "queue"
                                     ELSE "sentAll"]
  /\ mailTo' = [mailTo EXCEPT ![x] = "user"]

MarkSent(x) ==
  /\ mailPc[x] = "sent"
  /\ \/ /\ mail' = [mail EXCEPT ![x][mailTo[x]] = "sent"]
        /\ Continue(x)
        /\ UNCHANGED unsure
     \/ /\ unsure' = unsure \cup {<<x, mailTo[x]>>}
        /\ MailGoto(x, "failed")
        /\ UNCHANGED mail
  /\ UNCHANGED <<submission, notice, delivered, crowded>>

\* Mutant of MarkFailed: sendEmail does not rethrow.
MarkFailedAndContinue(x) ==
  /\ mailPc[x] = "failed"
  /\ mail' = [mail EXCEPT ![x][mailTo[x]] = "failed"]
  /\ Continue(x)
  /\ UNCHANGED <<submission, notice, delivered, unsure, crowded>>

\* The error is thrown again, and ends the caller: the contact form's own
\* handler builds an update that it never executes.
MarkFailed(x) ==
  /\ mailPc[x] = "failed"
  /\ \/ mail' = [mail EXCEPT ![x][mailTo[x]] = "failed"] /\ UNCHANGED unsure
     \/ unsure' = unsure \cup {<<x, mailTo[x]>>} /\ UNCHANGED mail
  /\ MailGoto(x, "done")
  /\ UNCHANGED <<submission, notice, delivered, crowded>>

MarkEmailSent(c) ==
  /\ mailPc[c] = "sentAll"
  /\ submission' = [submission EXCEPT ![c].emailSent = TRUE]
  /\ MailGoto(c, "done")
  /\ UNCHANGED <<mail, notice, delivered, unsure, crowded>>

\* Senders whose rows may be days old: nothing of their requests is under way.
Settled == {x \in Senders :
              mailPc[x] = "done" /\ (x \in Submissions => ~submission[x].recent)}

DeleteRows(old, statuses) ==
  /\ mail' = [x \in Senders |-> [k \in Receivers |->
                IF x \in old /\ mail[x][k] \in statuses THEN "deleted" ELSE mail[x][k]]]
  /\ mail' # mail
  /\ UNCHANGED <<mailPc, mailTo, submission, notice, delivered, unsure, crowded>>

\* Rows older than 30 days; those that are still queued stay.
CleanupOldRecords(old) == DeleteRows(old, {"sent", "failed"})

\* Failed rows older than a day.
CleanupFailedRecords(old) == DeleteRows(old, {"failed"})

\* A database error outside sendEmail, or a crash anywhere.
MailAbort(x) ==
  /\ mailPc[x] \notin {"new", "done"}
  /\ unsure' = IF mailPc[x] \in {"smtp", "sent", "failed"}
               THEN unsure \cup {<<x, mailTo[x]>>} ELSE unsure
  /\ MailGoto(x, "done")
  /\ UNCHANGED <<mail, submission, notice, delivered, crowded>>

MailNext ==
  \/ \E c \in Submissions :
       \/ \E v \in Visitors : CheckRecent(c, v)
       \/ StoreSubmission(c) \/ TenMinutesPass(c) \/ MarkEmailSent(c)
  \/ \E n \in Notices : StoreNotice(n) \/ PrepareMail(n) \/ MarkRead(n) \/ DeleteNotice(n)
  \/ MarkAllRead
  \/ \E old \in SUBSET Settled : CleanupOldRecords(old) \/ CleanupFailedRecords(old)
  \/ \E x \in Senders :
       QueueMail(x) \/ SendMail(x) \/ MarkSent(x) \/ MarkFailed(x) \/ MailAbort(x)

MailSpec == MailInit /\ [][MailNext]_mailVars
-------------------------------------------------------------------------------
\* A row of the mail queue tells what happened: sent if the server took the
\* mail, failed if not, queued while it is under way; only a lost answer, a lost
\* update or a crash leaves a row that does not.  A row is deleted only when its
\* mail is settled: a queued one, after a crash or a lost update, stays for good.
QueueTellsTruth ==
  \A x \in Senders, k \in Receivers : <<x, k>> \in unsure \/
    CASE mail[x][k] = "sent"   -> k \in delivered[x]
      [] mail[x][k] = "queued" -> mailTo[x] = k /\ mailPc[x] \in {"smtp", "sent", "failed"}
      [] mail[x][k] = "deleted" -> x \in Settled
      [] OTHER                 -> k \notin delivered[x]

\* Of a submission marked as mailed, both mails went out, and the admin's before
\* the visitor's; every mail belongs to a submission or a notification that is
\* on record, and within ten minutes a visitor has one submission, unless two
\* were checked at once.
MailsBelongToRecords ==
  /\ \A c \in Submissions :
       /\ submission[c].emailSent => delivered[c] = Receivers
       /\ "user" \in delivered[c] => "admin" \in delivered[c]
       /\ delivered[c] # {} => submission[c].stored
  /\ \A n \in Notices : delivered[n] # {} => notice[n] # "none"
  /\ \A v \in Visitors : v \in crowded \/ Cardinality(RecentOf(v)) <= 1

MailMatchesRecords == QueueTellsTruth /\ MailsBelongToRecords
====================================================================================
