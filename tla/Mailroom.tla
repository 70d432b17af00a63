------------------------------ MODULE Mailroom ------------------------------
(***************************************************************************)
(* What the requests of registration and of access are made of: one        *)
(* READ COMMITTED transaction after another, the rows and unique keys each *)
(* holds until it ends, and the e-mail that most of them send before they  *)
(* commit, or right after.  Whatever a request creates (a row, a link, a   *)
(* code, a password) bears the name of the request.                        *)
(***************************************************************************)
EXTENDS Naturals

CONSTANTS
    Calls,       \* requests
    Tasks,       \* what a request may ask for: its kind, an address, and what it is about
    Past,        \* what was created before the requests
    None,        \* no row, no lock, no value
    Scenarios    \* what requests arrive together

Ids == Calls \cup Past

ASSUME CallsAreNew == Calls \cap Past = {} /\ None \notin Ids
ASSUME NoneIsNoLock == None \notin {"member", "link", "request"} \X Ids
ASSUME ScenariosAreTasks == Scenarios \subseteq [Calls -> Tasks \cup {None}]

\* Those e-mailed from inside the transaction, those after it, and those whose e-mail
\* goes to the approver when the recipient is refused.
MailBeforeCommit == {"register", "resend", "verify", "approve", "addMember", "newDevice", "reissue"}
MailAfterCommit == {"invite", "askEmail"}
WithFallback == {"approve", "addMember", "newDevice", "reissue"}

VARIABLES
    task,      \* what each request asks for
    pc,        \* where the handler of each request is
    held,      \* the rows and keys its transaction has locked
    wants,     \* the one it waits for
    seen,      \* what it has read and goes by
    answer,
    post,      \* its e-mail: on the wire, forwarded to the approver, or given up
    mailbox    \* the requests whose e-mail (or whose answer, with a code in it) arrived

callVars == <<task, pc, held, wants, seen, answer>>
mailVars == <<post, mailbox>>

-----------------------------------------------------------------------------
Kind(c) == task[c].kind
Address(c) == task[c].address
On(c) == task[c].on

Free(c, lock) == \A d \in Calls \ {c} : lock \notin held[d]
Granted(c) == wants[c] = None \/ Free(c, wants[c])
At(c, where) == pc[c] = where /\ Granted(c)

\* The handler goes on, with what it waited for, and asks for the next lock.
Proceed(c, where, lock) ==
    /\ held' = [held EXCEPT ![c] = @ \cup ({wants[c]} \ {None})]
    /\ wants' = [wants EXCEPT ![c] = lock]
    /\ pc' = [pc EXCEPT ![c] = where]
    /\ UNCHANGED <<task, answer>>

Goto(c, where, lock) == Proceed(c, where, lock) /\ UNCHANGED seen
GotoSeeing(c, where, lock, value) == Proceed(c, where, lock) /\ seen' = [seen EXCEPT ![c] = value]

\* The transaction ends: its locks are released.
End(c, where, a) ==
    /\ held' = [held EXCEPT ![c] = {}]
    /\ wants' = [wants EXCEPT ![c] = None]
    /\ pc' = [pc EXCEPT ![c] = where]
    /\ answer' = [answer EXCEPT ![c] = a]
    /\ UNCHANGED <<task, seen>>

Answer(c, a) == End(c, "done", a)
Restart(c, where) == End(c, where, "none")

Send(c) == post' = [post EXCEPT ![c] = "wire"] /\ UNCHANGED mailbox

\* Postgres breaks a cycle of two transactions that wait for each other.
Deadlocked(c) ==
    /\ \E d \in Calls : wants[c] \in held[d] /\ wants[d] \in held[c]
    /\ Answer(c, "500")
    /\ UNCHANGED mailVars

-----------------------------------------------------------------------------
Delivered(c) ==
    /\ pc[c] = "mail" /\ post[c] \in {"wire", "backup"}
    /\ post' = [post EXCEPT ![c] = "none"]
    /\ mailbox' = mailbox \cup {c}
    /\ IF Kind(c) \in MailBeforeCommit THEN Goto(c, "commit", None) ELSE Answer(c, "ok")

\* Resend's test mode refuses the recipient: the approver gets the same e-mail.
Forward(c) ==
    /\ pc[c] = "mail" /\ post[c] = "wire" /\ Kind(c) \in WithFallback
    /\ post' = [post EXCEPT ![c] = "backup"]
    /\ UNCHANGED <<mailbox, callVars>>

\* Mutant: the failure is logged and the transaction goes on.
NotSentMutant(c) == IF Kind(c) \in MailBeforeCommit THEN Goto(c, "commit", None) ELSE Goto(c, "retire", None)

\* The transaction is rolled back; a link already committed must be retired.
NotSent(c) == IF Kind(c) \in MailBeforeCommit THEN Answer(c, "502") ELSE Goto(c, "retire", None)

Rejected(c) ==
    /\ pc[c] = "mail" /\ post[c] \in {"wire", "backup"}
    /\ post' = [post EXCEPT ![c] = "none"]
    /\ NotSent(c)
    /\ UNCHANGED mailbox

\* Mutant: nobody watches the clock.
GiveUpMutant(c) == FALSE /\ UNCHANGED <<mailVars, callVars>>

\* The deadline passes.  The e-mail may arrive all the same.
GiveUp(c) ==
    /\ pc[c] = "mail" /\ post[c] \in {"wire", "backup"}
    /\ post' = [post EXCEPT ![c] = "stray"]
    /\ NotSent(c)
    /\ UNCHANGED mailbox

\* It does, or is rejected: after the deadline nothing is forwarded.
Stray(c) ==
    /\ post[c] = "stray"
    /\ post' = [post EXCEPT ![c] = "none"]
    /\ mailbox' \in {mailbox, mailbox \cup {c}}
    /\ UNCHANGED callVars

Deliver(c) == Delivered(c) \/ Forward(c) \/ Rejected(c)

\* The transaction outlives its timeout, or its commit fails.
ExpireTx(c) ==
    /\ pc[c] = "commit"
    /\ Answer(c, "502")
    /\ UNCHANGED mailVars

Running(c) == pc[c] \notin {"away", "idle", "done"}

\* The process stops: what was not committed is undone, what is on the wire is not.
Crash ==
    /\ \E c \in Calls : Running(c)
    /\ pc' = [c \in Calls |-> IF Running(c) THEN "done" ELSE pc[c]]
    /\ answer' = [c \in Calls |-> IF Running(c) THEN "lost" ELSE answer[c]]
    /\ held' = [c \in Calls |-> {}]
    /\ wants' = [c \in Calls |-> None]
    /\ post' = [c \in Calls |-> IF post[c] = "none" THEN "none" ELSE "stray"]
    /\ UNCHANGED <<task, seen, mailbox>>

CallsInit(tasks, sent) ==
    /\ task = tasks
    /\ pc = [c \in Calls |-> IF tasks[c] = None THEN "away" ELSE "idle"]
    /\ held = [c \in Calls |-> {}]
    /\ wants = [c \in Calls |-> None]
    /\ seen = [c \in Calls |-> None]
    /\ answer = [c \in Calls |-> "none"]
    /\ post = [c \in Calls |-> "none"]
    /\ mailbox = sent
=============================================================================
