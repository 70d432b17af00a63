------------------------------- MODULE Office -------------------------------
(***************************************************************************)
(* Registration and access on the same people and logins: their requests   *)
(* interleave, their e-mails are late or lost, the process stops.          *)
(***************************************************************************)
EXTENDS Registration

Init ==
    /\ \E s \in Scenarios :
          CallsInit(s, {i \in Past : \/ \E q \in Ids : FirstRequests[q] # None /\ FirstRequests[q].link = i
                                     \/ \E d \in Ids : FirstDevices[d] # None /\ FirstDevices[d].code = i})
    /\ AccessInit
    /\ RegistrationInit

MailStep(c) ==
    /\ Deliver(c) \/ GiveUp(c) \/ Stray(c) \/ ExpireTx(c) \/ Deadlocked(c)
    /\ UNCHANGED rest

Handle(c) == (AccessStep(c) /\ UNCHANGED <<requests, hits>>) \/ RegistrationStep(c)

Around ==
    \/ \E q \in Ids : RequestAges(q)
    \/ \E l \in Ids : LinkAges(l) /\ UNCHANGED <<requests, hits>>
    \/ HourPasses
    \/ Stop

Event == events < MaxEvents /\ Around /\ events' = events + 1

\* Who never got a link does not open it.
AllDone == \A c \in Calls : pc[c] \in {"away", "done"} \/ (pc[c] = "idle" /\ Kind(c) \in {"accept", "confirm"})
Finished == AllDone /\ UNCHANGED vars

Next ==
    \/ \E c \in Calls : (Handle(c) \/ MailStep(c)) /\ UNCHANGED events
    \/ Event
    \/ Finished

Spec == Init /\ [][Next]_vars

\* Handlers go on, deadlocks are broken and deadlines pass; Resend need not answer.
Proceeds(c) == Handle(c) \/ ((Deadlocked(c) \/ GiveUp(c)) /\ UNCHANGED rest)
FairSpec == Spec /\ \A c \in Calls : WF_vars(Proceeds(c) /\ UNCHANGED events)

ASSUME CallsAreFinite == IsFiniteSet(Calls)

-----------------------------------------------------------------------------
TypeOK ==
    /\ members \in [Ids -> MemberRow \cup {None}]
    /\ logins \in [Ids -> LoginRow \cup {None}]
    /\ devices \in [Ids -> DeviceRow \cup {None}]
    /\ links \in [Ids -> LinkRow \cup {None}]
    /\ requests \in [Ids -> RequestRow \cup {None}]
    /\ hits \in [Addresses -> 0..MaxEmails]
    /\ mailbox \subseteq Ids

(***************************************************************************)
(* Every secret that a committed row goes by has been delivered: the link  *)
(* of a request that waits for an answer, the first password of a founder  *)
(* or of a person who was added, the code of a device that waits to be     *)
(* activated.  Nobody waits for an e-mail that was never sent, and nobody  *)
(* is locked out of a login that exists, although e-mails time out,        *)
(* transactions expire after them and the process stops in between.        *)
(***************************************************************************)
CommittedSecretsAreDelivered ==
    /\ \A q \in Ids : requests[q] # None /\ requests[q].status \in {"pendiente_correo", "pendiente"}
                         => requests[q].link \in mailbox
    /\ \A l \in Calls : logins[l] # None /\ Kind(l) \in {"approve", "addMember"} => l \in mailbox
    /\ \A d \in Ids : devices[d] # None /\ devices[d].status = "pendiente" => devices[d].code \in mailbox

(***************************************************************************)
(* A request founds at most one business, whatever approvals, rejections   *)
(* and cleanups overlap, and a founder can log in: exactly one login is    *)
(* theirs.                                                                 *)
(***************************************************************************)
OneBusinessPerRequest ==
    LET Founded(m) == members[m] # None /\ members[m].of # None
    IN  \A m \in Ids : Founded(m) =>
            /\ \A n \in Ids : Founded(n) /\ members[n].of = members[m].of => n = m
            /\ \E l \in Ids : logins[l] # None /\ logins[l].member = m
            /\ \A l, k \in Ids :
                  logins[l] # None /\ logins[l].member = m /\ logins[k] # None /\ logins[k].member = m => l = k

(***************************************************************************)
(* Of the invitations of a member at most one can be accepted, and of the  *)
(* confirmations of their address at most one confirmed, also when two     *)
(* were asked for at the same time.                                        *)
(***************************************************************************)
OneLiveLink ==
    \A l, k \in Calls :
        /\ Live(l) /\ Live(k) /\ Kind(l) = Kind(k) /\ links[l].member = links[k].member
        => l = k

(***************************************************************************)
(* What may be used once is used once: no two requests are told that they  *)
(* confirmed a request or an address with the same link, opened a login    *)
(* with the same invitation, changed the same password or approved by the  *)
(* same link.  A device is activated once, and once more for every code it *)
(* is given again: identify claims the row by its status and not by the    *)
(* code, so an activation that read the old code may use up the new one,   *)
(* but then it takes the place of the activation by the new one.           *)
(***************************************************************************)
UsedSecret(c) ==
    CASE Kind(c) = "verify"  -> seen[c].link
      [] Kind(c) = "approve" -> seen[c].row
      [] OTHER               -> seen[c]

Activations(t) == {c \in Calls : answer[c] = "ok" /\ Kind(c) = "activate" /\ seen[c].device = t}
Reissues(t) == {c \in Calls : answer[c] = "ok" /\ Kind(c) = "reissue" /\ On(c) = t}

SecretsWorkOnce ==
    /\ \A c, d \in Calls :
          /\ answer[c] = "ok" /\ answer[d] = "ok" /\ Kind(c) = Kind(d)
          /\ Kind(c) \in {"verify", "approve", "accept", "confirm", "password"}
          /\ UsedSecret(c) = UsedSecret(d)
          => c = d
    /\ \A t \in Ids : Cardinality(Activations(t)) <= 1 + Cardinality(Reissues(t))

(***************************************************************************)
(* Every request is answered, although Resend may never answer: deadlines, *)
(* not replies, release the rows that a transaction holds.                 *)
(***************************************************************************)
EveryCallEnds == <>[]AllDone
=============================================================================
