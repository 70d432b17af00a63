---------------------------- MODULE Registration ----------------------------
(***************************************************************************)
(* Public registration of a business: the request, the confirmation of its *)
(* address, the approval that founds the business, the rejection, and the  *)
(* cleanup of old requests.                                                *)
(***************************************************************************)
EXTENDS Access, Sequences

CONSTANTS
    FirstRequests,    \* the table of requests at the start
    MaxEmails,        \* verification e-mails per request, and per address and hour
    MaxEvents         \* bound: how often time passes or the process stops

Statuses == {"pendiente_correo", "pendiente", "aprobado", "rechazado"}
\* link: the verification or approval link in force.  recent: an e-mail went out this
\* minute.  lapsed: the link expired.  old: the cleanup may delete the request.
RequestRow == [correo : Addresses, status : Statuses, link : Ids, sent : Nat, business : Ids \cup {None},
               recent : BOOLEAN, lapsed : BOOLEAN, old : BOOLEAN]

ASSUME FirstRequestsAreRequests == FirstRequests \in [Ids -> RequestRow \cup {None}]
ASSUME RegistrationBounds == MaxEmails \in Nat \ {0} /\ MaxEvents \in Nat

ASSUME NoneIsNoRequest == None \notin RequestRow \cup [row : Ids, sent : Nat]

\* Tokens are random: a link is of one request.  A founder at the start has one login, and
\* the request is answered or gone.
ASSUME FirstRequestsArePast ==
    /\ \A c \in Calls : FirstRequests[c] = None
    /\ \A q \in Past : FirstRequests[q] # None =>
           /\ FirstRequests[q].link \in Past
           /\ \A p \in Past : FirstRequests[p] # None /\ FirstRequests[p].link = FirstRequests[q].link => p = q
    /\ \A m \in Past : FirstMembers[m] # None /\ FirstMembers[m].of # None =>
           LET q == FirstMembers[m].of
           IN  /\ q \in Past /\ (FirstRequests[q] = None \/ FirstRequests[q].status \in {"aprobado", "rechazado"})
               /\ \E l \in Past : FirstLogins[l] # None /\ FirstLogins[l].member = m
               /\ \A n \in Past : FirstMembers[n] # None /\ FirstMembers[n].of = q => n = m

VARIABLES
    requests,
    hits,       \* verification e-mails counted this hour by the limiter of the process
    events

vars == <<callVars, mailVars, accessVars, requests, hits, events>>
rest == <<accessVars, requests, hits>>

-----------------------------------------------------------------------------
\* findLiveRequest: at most one, by the partial unique index.
LiveRequests(a) ==
    {q \in Ids : requests[q] # None /\ requests[q].correo = a /\ requests[q].status # "rechazado"}

Resendable(q) ==
    requests[q].status = "pendiente_correo" /\ requests[q].sent < MaxEmails /\ ~requests[q].recent

\* Mutant: one e-mail too many.
AllowedMutant(a) == hits[a] <= MaxEmails

\* allowVerificationEmail counts the e-mail before it is sent.
Allowed(a) == hits[a] < MaxEmails
Count(a) == hits' = [hits EXCEPT ![a] = @ + 1]

\* The honeypot, and the answer of Turnstile.
Challenge(c) ==
    /\ At(c, "idle") /\ Kind(c) \in {"register", "resend"}
    /\ \/ Kind(c) = "register" /\ \E a \in {"ok", "400", "503"} : Answer(c, a)
       \/ Goto(c, "find", None)
    /\ UNCHANGED <<mailVars, rest>>

\* The first transaction of create, and resendByCorreo.
FindRequest(c) ==
    /\ At(c, "find") \/ At(c, "again")
    /\ LET a == Address(c)
           live == LiveRequests(a)
       IN  \/ /\ live = {} /\ (Kind(c) = "resend" \/ pc[c] = "again" \/ ~Allowed(a))
              /\ Answer(c, "ok") /\ UNCHANGED hits
           \/ /\ live = {} /\ Kind(c) = "register" /\ pc[c] = "find" /\ Allowed(a)
              /\ Count(a) /\ Goto(c, "insert", <<"request of", a>>)
           \/ \E q \in live :
                 \/ ~(Resendable(q) /\ Allowed(a)) /\ Answer(c, "ok") /\ UNCHANGED hits
                 \/ /\ Resendable(q) /\ Allowed(a)
                    /\ Count(a) /\ GotoSeeing(c, "claim", <<"request", q>>, [row |-> q, sent |-> requests[q].sent])
    /\ UNCHANGED <<mailVars, accessVars, requests>>

\* Another submission won the race for the address: this one is a resend.
InsertRequest(c) ==
    /\ At(c, "insert")
    /\ \/ LiveRequests(Address(c)) # {} /\ Restart(c, "again") /\ UNCHANGED mailVars
       \/ LiveRequests(Address(c)) = {} /\ Goto(c, "mail", None) /\ Send(c)
    /\ UNCHANGED rest

\* The optimistic claim of resendVerification.
ClaimResend(c) ==
    /\ At(c, "claim") /\ Kind(c) \in {"register", "resend"}
    /\ LET row == requests[seen[c].row]
           mine == row # None /\ Resendable(seen[c].row) /\ row.sent = seen[c].sent
       IN  \/ ~mine /\ Answer(c, "ok") /\ UNCHANGED mailVars
           \/ mine /\ Goto(c, "mail", None) /\ Send(c)
    /\ UNCHANGED rest

CommitVerification(c) ==
    /\ At(c, "commit") /\ Kind(c) \in {"register", "resend"}
    /\ requests' =
          IF seen[c] = None
          THEN [requests EXCEPT ![c] = [correo |-> Address(c), status |-> "pendiente_correo", link |-> c, sent |-> 1,
                                        business |-> None, recent |-> TRUE, lapsed |-> FALSE, old |-> FALSE]]
          ELSE LET row == requests[seen[c].row]
               IN  [requests EXCEPT ![seen[c].row] =
                       [row EXCEPT !.link = c, !.sent = row.sent + 1, !.recent = TRUE, !.lapsed = FALSE]]
    /\ Answer(c, "ok")
    /\ UNCHANGED <<mailVars, accessVars, hits>>

-----------------------------------------------------------------------------
\* The link of a verification e-mail is pressed: the row that has it is claimed.
OpenVerification(c) ==
    /\ At(c, "idle") /\ Kind(c) = "verify"
    /\ \E l \in mailbox :
          LET found == {q \in Ids : requests[q] # None /\ requests[q].link = l /\ requests[q].status = "pendiente_correo"}
          IN  \/ found = {} /\ Answer(c, "400")
              \/ \E q \in found : GotoSeeing(c, "claim", <<"request", q>>, [row |-> q, link |-> l])
    /\ UNCHANGED <<mailVars, rest>>

ClaimVerification(c) ==
    /\ At(c, "claim") /\ Kind(c) = "verify"
    /\ LET row == requests[seen[c].row]
           mine == row # None /\ row.link = seen[c].link /\ row.status = "pendiente_correo" /\ ~row.lapsed
       IN  \/ ~mine /\ Answer(c, "400") /\ UNCHANGED mailVars
           \/ mine /\ Goto(c, "mail", None) /\ Send(c)
    /\ UNCHANGED rest

CommitConfirmation(c) ==
    /\ At(c, "commit") /\ Kind(c) = "verify"
    /\ requests' = [requests EXCEPT ![seen[c].row] =
                       [@ EXCEPT !.status = "pendiente", !.link = c, !.lapsed = FALSE, !.old = FALSE]]
    /\ Answer(c, "ok")
    /\ UNCHANGED <<mailVars, accessVars, hits>>

-----------------------------------------------------------------------------
\* resolve looks the request up and checks it outside the transaction.
Resolve(c) ==
    /\ At(c, "idle") /\ Kind(c) \in {"approve", "reject"}
    /\ \E k \in mailbox :
          LET found == {q \in Ids : requests[q] # None /\ requests[q].link = k /\ requests[q].status # "pendiente_correo"}
          IN  \/ found = {} /\ Answer(c, "404")
              \/ \E q \in found :
                    \/ requests[q].status # "pendiente" /\ Answer(c, "already")
                    \/ requests[q].status = "pendiente" /\ requests[q].lapsed /\ Answer(c, "expired")
                    \/ /\ requests[q].status = "pendiente" /\ ~requests[q].lapsed
                       /\ GotoSeeing(c, "claim", <<"request", q>>, [row |-> q])
    /\ UNCHANGED <<mailVars, rest>>

Username(c, a) == IF Taken(a) THEN c ELSE a

\* Mutant: the claim does not ask for the status.
ClaimApprovalMutant(c) ==
    /\ At(c, "claim") /\ Kind(c) = "approve"
    /\ LET q == seen[c].row
       IN  \/ requests[q] = None /\ Answer(c, "already")
           \/ /\ requests[q] # None
              /\ LET name == Username(c, requests[q].correo)
                 IN  GotoSeeing(c, "founder", <<"login", name>>, [row |-> q, name |-> name])
    /\ UNCHANGED <<mailVars, rest>>

\* approveInTransaction: the row is claimed, then a username is chosen.
ClaimApproval(c) ==
    /\ At(c, "claim") /\ Kind(c) = "approve"
    /\ LET q == seen[c].row
           mine == requests[q] # None /\ requests[q].status = "pendiente"
       IN  \/ ~mine /\ Answer(c, "already")
           \/ /\ mine
              /\ LET name == Username(c, requests[q].correo)
                 IN  GotoSeeing(c, "founder", <<"login", name>>, [row |-> q, name |-> name])
    /\ UNCHANGED <<mailVars, rest>>

\* The login of the founder.
InsertFounder(c) ==
    /\ At(c, "founder")
    /\ \/ Taken(seen[c].name) /\ Answer(c, "502")
       \/ ~Taken(seen[c].name) /\ Goto(c, "address", None)
    /\ UNCHANGED <<mailVars, rest>>

SendCredentials(c, a) ==
    GotoSeeing(c, "mail", None, [row |-> seen[c].row, name |-> seen[c].name, correo |-> a]) /\ Send(c)

\* member_correo_taken: whoever has the address keeps it, and the founder goes without.
FindAddress(c) ==
    LET a == requests[seen[c].row].correo
    IN  /\ At(c, "address")
        /\ \/ AddressTaken(a) /\ SendCredentials(c, None)
           \/ ~AddressTaken(a) /\ Goto(c, "give", <<"address", a>>) /\ UNCHANGED mailVars
        /\ UNCHANGED rest

\* An address that was taken since then breaks the unique index: the approval is undone.
GiveAddress(c) ==
    LET a == requests[seen[c].row].correo
    IN  /\ At(c, "give")
        /\ \/ AddressTaken(a) /\ Answer(c, "500") /\ UNCHANGED mailVars
           \/ ~AddressTaken(a) /\ SendCredentials(c, a)
        /\ UNCHANGED rest

CommitApproval(c) ==
    /\ At(c, "commit") /\ Kind(c) = "approve"
    /\ requests' = [requests EXCEPT ![seen[c].row] = [@ EXCEPT !.status = "aprobado", !.business = c, !.old = FALSE]]
    /\ members' = [members EXCEPT ![c] = [role |-> "socio", active |-> TRUE, correo |-> seen[c].correo, of |-> seen[c].row]]
    /\ logins' = [logins EXCEPT ![c] = [name |-> seen[c].name, member |-> c, password |-> c]]
    /\ devices' = [devices EXCEPT ![c] = [code |-> c, token |-> None, status |-> "activo"]]
    /\ Answer(c, "ok")
    /\ UNCHANGED <<mailVars, links, hits>>

\* reject updates the row by its id alone.
Reject(c) ==
    /\ At(c, "claim") /\ Kind(c) = "reject"
    /\ LET q == seen[c].row
       IN  \/ requests[q] = None /\ Answer(c, "500") /\ UNCHANGED requests
           \/ /\ requests[q] # None
              /\ requests' = [requests EXCEPT ![q] = [@ EXCEPT !.status = "rechazado", !.old = FALSE]]
              /\ Answer(c, "ok")
    /\ UNCHANGED <<mailVars, accessVars, hits>>

-----------------------------------------------------------------------------
\* runBatch, at startup and with every registration: one category after another, the
\* rows are selected first and deleted by id in a second statement.
Categories == <<"pendiente_correo", "rechazado", "pendiente">>

Select(c, i) ==
    IF i > Len(Categories) THEN Answer(c, "ok")
    ELSE GotoSeeing(c, "delete", None,
            [category |-> i, rows |-> {q \in Ids : requests[q] # None /\ requests[q].status = Categories[i] /\ requests[q].old}])

StartCleanup(c) ==
    /\ At(c, "idle") /\ Kind(c) = "cleanup"
    /\ Select(c, 1)
    /\ UNCHANGED <<mailVars, rest>>

Delete(c) ==
    /\ At(c, "delete")
    /\ \A q \in seen[c].rows : Free(c, <<"request", q>>)
    /\ requests' = [q \in Ids |-> IF q \in seen[c].rows THEN None ELSE requests[q]]
    /\ Select(c, seen[c].category + 1)
    /\ UNCHANGED <<mailVars, accessVars, hits>>

-----------------------------------------------------------------------------
RegistrationStep(c) ==
    \/ Challenge(c) \/ FindRequest(c) \/ InsertRequest(c) \/ ClaimResend(c) \/ CommitVerification(c)
    \/ OpenVerification(c) \/ ClaimVerification(c) \/ CommitConfirmation(c)
    \/ Resolve(c) \/ ClaimApproval(c) \/ InsertFounder(c) \/ FindAddress(c) \/ GiveAddress(c) \/ CommitApproval(c)
    \/ Reject(c) \/ StartCleanup(c) \/ Delete(c)

\* A minute, two or thirty days, and the time a request is kept.
RequestAges(q) ==
    LET row == requests[q]
    IN  /\ row # None
        /\ \/ row.recent /\ requests' = [requests EXCEPT ![q].recent = FALSE]
           \/ /\ row.status \in {"pendiente_correo", "pendiente"} /\ ~row.lapsed
              /\ requests' = [requests EXCEPT ![q].lapsed = TRUE]
           \/ /\ ~row.old /\ (row.status \in {"pendiente_correo", "rechazado"} \/ (row.status = "pendiente" /\ row.lapsed))
              /\ requests' = [requests EXCEPT ![q].old = TRUE]
        /\ UNCHANGED <<callVars, mailVars, accessVars, hits>>

HourPasses ==
    /\ \E a \in Addresses : hits[a] > 0
    /\ hits' = [a \in Addresses |-> 0]
    /\ UNCHANGED <<callVars, mailVars, accessVars, requests>>

\* The counts of the limiter are in the memory of the process.
Stop ==
    /\ Crash
    /\ hits' = [a \in Addresses |-> 0]
    /\ UNCHANGED <<accessVars, requests>>

RegistrationInit ==
    /\ requests = FirstRequests
    /\ hits = [a \in Addresses |-> 0]
    /\ events = 0
=============================================================================
