---------------------------- MODULE Office_proofs ----------------------------
(***************************************************************************)
(* For any people, requests, links and e-mails: what is used once stays    *)
(* used, and what is committed has been delivered.                         *)
(***************************************************************************)
EXTENDS Office, FiniteSetTheorems, TLAPS

-----------------------------------------------------------------------------
(* Where a request may be, by what it asks for, and what it waits for. *)

Stops == {"away", "idle", "done", "look", "person", "login", "member", "issue", "retire", "use", "open", "apply",
          "device", "activate", "password", "find", "insert", "again", "claim", "founder", "address",
          "give", "delete", "mail", "commit"}

Fits(k, where, lock) ==
    /\ where \in {"idle", "done", "look", "retire", "password", "find", "again", "delete", "mail", "commit"} => lock = None
    /\ where \in {"look", "person", "login"} => k = "addMember"
    /\ where = "member" => k \in {"deactivate", "reactivate"} \cup MailAfterCommit
    /\ where \in {"issue", "retire"} => k \in MailAfterCommit
    /\ where \in {"use", "apply"} => k \in {"accept", "confirm"}
    /\ where = "open" => k = "accept"
    /\ where = "device" => k \in {"newDevice", "revoke", "reissue"}
    /\ where = "activate" => k = "activate"
    /\ where = "password" => k = "password"
    /\ where = "find" => k \in {"register", "resend"}
    /\ where \in {"insert", "again"} => k = "register"
    /\ where = "claim" => k \in {"register", "resend", "verify", "approve", "reject"}
    /\ where \in {"founder", "address", "give"} => k = "approve"
    /\ where = "delete" => k = "cleanup"
    /\ where = "mail" => k \in MailBeforeCommit \cup MailAfterCommit
    /\ where = "commit" => k \in MailBeforeCommit

Stays(c) ==
    /\ pc[c] # "away" => task[c] \in Tasks /\ Fits(Kind(c), pc[c], wants[c])
    /\ pc[c] = "away" => wants[c] = None
    /\ answer[c] # "none" => pc[c] = "done"
    /\ None \notin held[c]

Base ==
    /\ task \in [Calls -> Tasks \cup {None}] /\ pc \in [Calls -> Stops]
    /\ DOMAIN held = Calls /\ DOMAIN wants = Calls /\ DOMAIN seen = Calls /\ DOMAIN answer = Calls
    /\ \A c \in Calls : Stays(c)
    /\ \A c, d \in Calls : c # d => held[c] \cap held[d] = {}

\* A call is past: what bears its name exists already, or never will.
Old(i) == i \in Past \/ (i \in Calls /\ pc[i] = "done")

Succeeded(c, kinds) == answer[c] = "ok" /\ Kind(c) \in kinds

-----------------------------------------------------------------------------
(* Links. *)
IsPending(l) == links[l] # None /\ ~links[l].used /\ ~links[l].dead
Alike(l, k) == Kind(l) = Kind(k) /\ On(l) = On(k)

LinkKnows(c) ==
    /\ Kind(c) \in MailAfterCommit =>
          /\ pc[c] = "member" => wants[c] = <<"member", On(c)>>
          /\ pc[c] = "issue" => /\ <<"member", On(c)>> \in held[c]
                                /\ \A l \in seen[c] : l \in Calls /\ links[l] # None
                                /\ \A l \in Calls : IsPending(l) /\ Alike(l, c) => l \in seen[c]
          /\ pc[c] \in {"mail", "retire"} => links[c] # None
    /\ Kind(c) \in {"accept", "confirm"} =>
          /\ pc[c] \in {"use", "open", "apply"} \/ answer[c] = "ok" =>
                seen[c] \in Calls /\ links[seen[c]] # None /\ Kind(seen[c]) = Uses(c)
          /\ pc[c] = "use" => wants[c] = <<"link", seen[c]>>
          /\ pc[c] \in {"open", "apply"} => <<"link", seen[c]>> \in held[c] /\ ~links[seen[c]].used
          /\ answer[c] = "ok" => links[seen[c]].used

LinksInd ==
    /\ links \in [Ids -> LinkRow \cup {None}]
    /\ \A l \in Ids : links[l] # None =>
           /\ l \in Calls /\ pc[l] \in {"mail", "retire", "done"}
           /\ Kind(l) \in MailAfterCommit /\ links[l].member = On(l)
    /\ \A l, k \in Calls : IsPending(l) /\ IsPending(k) /\ Alike(l, k) => l = k
    /\ \A c \in Calls : LinkKnows(c)
    /\ \A c, d \in Calls :
           Succeeded(c, {"accept", "confirm"}) /\ Succeeded(d, {Kind(c)}) /\ seen[c] = seen[d] => c = d

-----------------------------------------------------------------------------
(* Requests of registration. *)
RowLock(q) == <<"request", q>>
HoldsRow(c) == seen[c].row \in Ids /\ RowLock(seen[c].row) \in held[c] /\ requests[seen[c].row] # None
Closed(q) == requests[q] = None \/ requests[q].status \in {"aprobado", "rechazado"}
Resends(c) == seen[c] \in [row : Ids, sent : Nat]

RegisterKnows(c) ==
    Kind(c) \in {"register", "resend"} =>
        /\ pc[c] \in {"idle", "find", "insert", "again"} => seen[c] = None
        /\ pc[c] = "claim" => Resends(c)
        /\ pc[c] \in {"mail", "commit"} => seen[c] = None \/ (Resends(c) /\ HoldsRow(c))

VerifyKnows(c) ==
    Kind(c) = "verify" =>
        /\ pc[c] = "claim" => Old(seen[c].link)
        /\ pc[c] \in {"mail", "commit"} =>
              /\ HoldsRow(c) /\ Old(seen[c].link)
              /\ requests[seen[c].row].link = seen[c].link /\ requests[seen[c].row].status = "pendiente_correo"
        /\ answer[c] = "ok" =>
              Old(seen[c].link) /\ \A q \in Ids : requests[q] # None => requests[q].link # seen[c].link

ApproveKnows(c) ==
    Kind(c) = "approve" =>
        /\ pc[c] = "claim" => Old(seen[c].row)
        /\ pc[c] \in {"founder", "address", "give", "mail", "commit"} =>
              /\ HoldsRow(c) /\ Old(seen[c].row) /\ requests[seen[c].row].status = "pendiente"
              /\ seen[c].name \in Addresses \cup Ids
        /\ pc[c] \in {"mail", "commit"} => seen[c].correo \in Addresses \cup {None}
        /\ answer[c] = "ok" => Old(seen[c].row) /\ seen[c].row \in Ids /\ Closed(seen[c].row)

RowKnows(c) ==
    /\ RegisterKnows(c) /\ VerifyKnows(c) /\ ApproveKnows(c)
    /\ pc[c] = "claim" => wants[c] = RowLock(seen[c].row) /\ seen[c].row \in Ids

RowsInd ==
    /\ requests \in [Ids -> RequestRow \cup {None}]
    /\ hits \in [Addresses -> 0..MaxEmails]
    /\ \A q \in Ids : requests[q] # None => Old(q) /\ Old(requests[q].link)
    /\ \A p, q \in Ids : requests[p] # None /\ requests[q] # None /\ requests[p].link = requests[q].link => p = q
    /\ \A c \in Calls : RowKnows(c)
    /\ \A c, d \in Calls :
           Succeeded(c, {"verify"}) /\ Succeeded(d, {"verify"}) /\ seen[c].link = seen[d].link => c = d
    /\ \A c, d \in Calls :
           Succeeded(c, {"approve"}) /\ Succeeded(d, {"approve"}) /\ seen[c].row = seen[d].row => c = d

-----------------------------------------------------------------------------
(* Devices. *)
Waiting(t) == IF devices[t] # None /\ devices[t].status = "pendiente" THEN 1 ELSE 0
DeviceKnows(c) ==
    Kind(c) = "activate" /\ (pc[c] = "activate" \/ answer[c] = "ok") =>
        seen[c].device \in Ids /\ devices[seen[c].device] # None

DevicesInd ==
    /\ devices \in [Ids -> DeviceRow \cup {None}]
    /\ \A d \in Ids : devices[d] # None => Old(d)
    /\ \A d \in Past : FirstDevices[d] # None => devices[d] # None
    /\ \A c \in Calls : DeviceKnows(c)
    /\ \A t \in Ids : Cardinality(Activations(t)) + Waiting(t) <= 1 + Cardinality(Reissues(t))

-----------------------------------------------------------------------------
(* People and logins. *)
PasswordKnows(c) ==
    Kind(c) = "password" =>
        /\ pc[c] = "password" \/ answer[c] = "ok" => seen[c] = On(c)
        /\ answer[c] = "ok" => On(c) \in Ids /\ logins[On(c)] # None /\ logins[On(c)].password \in Calls

PeopleInd ==
    /\ members \in [Ids -> MemberRow \cup {None}] /\ logins \in [Ids -> LoginRow \cup {None}]
    /\ \A i \in Ids : members[i] # None \/ logins[i] # None => Old(i)
    /\ \A m \in Past : /\ FirstMembers[m] # None => members[m] # None
                       /\ FirstLogins[m] # None => logins[m] # None
    /\ \A l, k \in Ids : logins[l] # None /\ logins[k] # None /\ logins[l].member = logins[k].member => l = k
    /\ \A l \in Ids : logins[l] # None => Old(logins[l].member)
    /\ \A c \in Calls : PasswordKnows(c)
    /\ \A c, d \in Calls :
           Succeeded(c, {"password"}) /\ Succeeded(d, {"password"}) /\ On(c) = On(d) => c = d
    /\ \A m \in Ids : members[m] # None /\ members[m].of # None =>
           /\ Old(members[m].of) /\ Closed(members[m].of)
           /\ \E l \in Ids : logins[l] # None /\ logins[l].member = m
           /\ \A n \in Ids : members[n] # None /\ members[n].of = members[m].of => n = m

-----------------------------------------------------------------------------
(* E-mails. *)
MailKnows(c) ==
    /\ pc[c] = "commit" => c \in mailbox \/ (Kind(c) \in {"newDevice", "reissue"} /\ seen[c] = "revealed")

MailInd ==
    /\ mailbox \subseteq Ids
    /\ \A c \in Calls : MailKnows(c)
    /\ CommittedSecretsAreDelivered

-----------------------------------------------------------------------------
(* What a step of one request leaves alone, and what a stop of the process does. *)

Moves(c) ==
    /\ pc[c] \notin {"away", "done"} /\ UNCHANGED task
    /\ \A d \in Calls \ {c} : /\ pc'[d] = pc[d] /\ held'[d] = held[d] /\ wants'[d] = wants[d]
                             /\ seen'[d] = seen[d] /\ answer'[d] = answer[d]

Rests(c) == pc'[c] = pc[c] /\ answer'[c] = answer[c] /\ ~Running(c)
Quits == /\ UNCHANGED <<task, seen>>
         /\ \A c \in Calls : Rests(c) \/ (Running(c) /\ pc'[c] = "done" /\ answer'[c] = "lost")

\* A request that goes on has been granted what it waited for.
LEMMA GoesOn ==
    ASSUME NEW c \in Calls, NEW where \in Stops \ {"away"}, NEW lock, Base, pc[c] \notin {"away", "done"}, Granted(c),
           Proceed(c, where, lock), Fits(Kind(c), where, lock),
           UNCHANGED seen \/ \E v : seen' = [seen EXCEPT ![c] = v]
    PROVE  Base' /\ Moves(c)
<1>1. /\ task' = task /\ pc' = [pc EXCEPT ![c] = where] /\ wants' = [wants EXCEPT ![c] = lock] /\ answer' = answer
      /\ held' = [held EXCEPT ![c] = @ \cup ({wants[c]} \ {None})]
  BY DEF Proceed
<1>2. DOMAIN seen' = Calls /\ \A d \in Calls \ {c} : seen'[d] = seen[d]
  BY DEF Base
<1>3. Moves(c)
  BY <1>1, <1>2 DEF Moves, Base
<1>4. \A d \in Calls : Stays(d)'
  <2>1. Stays(c)'
    BY <1>1 DEF Stays, Base, Kind
  <2>2. ASSUME NEW d \in Calls \ {c} PROVE Stays(d)'
    BY <1>3, <1>1 DEF Stays, Base, Kind, Moves
  <2>. QED  BY <2>1, <2>2
<1>5. \A d, e \in Calls : d # e => held'[d] \cap held'[e] = {}
  BY <1>1 DEF Granted, Free, Base
<1>6. task' \in [Calls -> Tasks \cup {None}] /\ pc' \in [Calls -> Stops]
      /\ DOMAIN held' = Calls /\ DOMAIN wants' = Calls /\ DOMAIN answer' = Calls
  BY <1>1 DEF Base
<1>. QED  BY <1>2, <1>3, <1>4, <1>5, <1>6 DEF Base

\* A transaction that ends releases what it holds.
LEMMA Ends ==
    ASSUME NEW c \in Calls, NEW where \in Stops \ {"away"}, NEW a, Base, pc[c] \notin {"away", "done"},
           End(c, where, a), Fits(Kind(c), where, None), a = "none" \/ where = "done"
    PROVE  Base' /\ Moves(c)
<1>1. /\ task' = task /\ pc' = [pc EXCEPT ![c] = where] /\ wants' = [wants EXCEPT ![c] = None]
      /\ answer' = [answer EXCEPT ![c] = a] /\ held' = [held EXCEPT ![c] = {}] /\ seen' = seen
  BY DEF End
<1>2. Moves(c)
  BY <1>1 DEF Moves, Base
<1>3. \A d \in Calls : Stays(d)'
  <2>1. Stays(c)'
    BY <1>1 DEF Stays, Base, Kind
  <2>2. ASSUME NEW d \in Calls \ {c} PROVE Stays(d)'
    BY <1>2, <1>1 DEF Stays, Base, Kind, Moves
  <2>. QED  BY <2>1, <2>2
<1>4. \A d, e \in Calls : d # e => held'[d] \cap held'[e] = {}
  BY <1>1 DEF Base
<1>. QED  BY <1>1, <1>2, <1>3, <1>4 DEF Base

LEMMA Answers ==
    ASSUME NEW c \in Calls, NEW a, Base, pc[c] \notin {"away", "done"}, Answer(c, a)
    PROVE  Base' /\ Moves(c)
<1>1. Fits(Kind(c), "done", None) /\ "done" \in Stops \ {"away"}
  BY DEF Fits, Stops
<1>. QED  BY <1>1, Ends DEF Answer

LEMMA AccessMoves ==
    ASSUME NEW c \in Calls, Base, AccessStep(c)
    PROVE  Base' /\ Moves(c)
<1>. USE GoesOn, Ends, Answers
<1>0. Stays(c)
  BY DEF Base
<1>1. CASE Look(c)
  BY <1>1, <1>0 DEF Stays, Fits, Stops, At, Look, Goto, GotoSeeing, Restart, MailBeforeCommit, MailAfterCommit
<1>2. CASE InsertPerson(c)
  BY <1>2, <1>0 DEF Stays, Fits, Stops, At, InsertPerson, Goto, GotoSeeing, Restart, MailBeforeCommit, MailAfterCommit
<1>3. CASE InsertLogin(c)
  BY <1>3, <1>0 DEF Stays, Fits, Stops, At, InsertLogin, Goto, GotoSeeing, Restart, MailBeforeCommit, MailAfterCommit
<1>4. CASE CommitMember(c)
  BY <1>4, <1>0 DEF Stays, Fits, Stops, At, CommitMember, Goto, GotoSeeing, Restart, MailBeforeCommit, MailAfterCommit
<1>5. CASE SetActive(c)
  BY <1>5, <1>0 DEF Stays, Fits, Stops, At, SetActive, Goto, GotoSeeing, Restart, MailBeforeCommit, MailAfterCommit
<1>6. CASE CheckLink(c)
  BY <1>6, <1>0 DEF Stays, Fits, Stops, At, CheckLink, Goto, GotoSeeing, Restart, MailBeforeCommit, MailAfterCommit
<1>7. CASE Issue(c)
  BY <1>7, <1>0 DEF Stays, Fits, Stops, At, Issue, Goto, GotoSeeing, Restart, MailBeforeCommit, MailAfterCommit
<1>8. CASE Retire(c)
  BY <1>8, <1>0 DEF Stays, Fits, Stops, At, Retire, Goto, GotoSeeing, Restart, MailBeforeCommit, MailAfterCommit
<1>9. CASE OpenLink(c)
  BY <1>9, <1>0 DEF Stays, Fits, Stops, At, OpenLink, Goto, GotoSeeing, Restart, MailBeforeCommit, MailAfterCommit
<1>10. CASE LockLink(c)
  BY <1>10, <1>0 DEF Stays, Fits, Stops, At, LockLink, LockInvitation, OpenLogin, Goto, GotoSeeing, Restart, MailBeforeCommit, MailAfterCommit
<1>21. CASE LockInvitation(c)
  BY <1>21, <1>0 DEF Stays, Fits, Stops, At, LockInvitation, Goto, GotoSeeing, Restart, MailBeforeCommit, MailAfterCommit
<1>22. CASE OpenLogin(c)
  BY <1>22, <1>0 DEF Stays, Fits, Stops, At, OpenLogin, Goto, GotoSeeing, Restart, MailBeforeCommit, MailAfterCommit
<1>11. CASE Accept(c)
  BY <1>11, <1>0 DEF Stays, Fits, Stops, At, Accept, Goto, GotoSeeing, Restart, MailBeforeCommit, MailAfterCommit
<1>12. CASE ConfirmEmail(c)
  BY <1>12, <1>0 DEF Stays, Fits, Stops, At, ConfirmEmail, Goto, GotoSeeing, Restart, MailBeforeCommit, MailAfterCommit
<1>13. CASE ManageDevice(c)
  BY <1>13, <1>0 DEF Stays, Fits, Stops, At, ManageDevice, Goto, GotoSeeing, Restart, MailBeforeCommit, MailAfterCommit
<1>14. CASE CommitDevice(c)
  BY <1>14, <1>0 DEF Stays, Fits, Stops, At, CommitDevice, Goto, GotoSeeing, Restart, MailBeforeCommit, MailAfterCommit
<1>15. CASE FindDevice(c)
  BY <1>15, <1>0 DEF Stays, Fits, Stops, At, FindDevice, Goto, GotoSeeing, Restart, MailBeforeCommit, MailAfterCommit
<1>16. CASE Activate(c)
  BY <1>16, <1>0 DEF Stays, Fits, Stops, At, Activate, Goto, GotoSeeing, Restart, MailBeforeCommit, MailAfterCommit
<1>17. CASE VerifyPassword(c)
  BY <1>17, <1>0 DEF Stays, Fits, Stops, At, VerifyPassword, Goto, GotoSeeing, Restart, MailBeforeCommit, MailAfterCommit
<1>18. CASE WritePassword(c)
  BY <1>18, <1>0 DEF Stays, Fits, Stops, At, WritePassword, Goto, GotoSeeing, Restart, MailBeforeCommit, MailAfterCommit
<1>20. CASE Enter(c)
  <2>1. At(c, "idle") /\ Kind(c) \in AppKinds /\ (Answer(c, "403") \/ Goto(c, FirstStop(c)[1], FirstStop(c)[2]))
    BY <1>20 DEF Enter
  <2>2. /\ Kind(c) = "addMember" => FirstStop(c) = <<"look", None>>
        /\ Kind(c) = "newDevice" => FirstStop(c) = <<"device", None>>
        /\ Kind(c) \in {"revoke", "reissue"} => FirstStop(c) = <<"device", <<"device", On(c)>>>>
        /\ Kind(c) \notin {"addMember", "newDevice", "revoke", "reissue"} => FirstStop(c) = <<"member", <<"member", On(c)>>>>
    BY DEF FirstStop
  <2>3. FirstStop(c)[1] \in Stops \ {"away"} /\ Fits(Kind(c), FirstStop(c)[1], FirstStop(c)[2])
    BY <2>1, <2>2 DEF Fits, Stops, AppKinds, MailAfterCommit
  <2>. QED  BY <2>1, <2>3 DEF At, Goto
<1>. QED  BY <1>1, <1>2, <1>3, <1>4, <1>5, <1>6, <1>7, <1>8, <1>9, <1>10, <1>11, <1>12, <1>13, <1>14, <1>15, <1>16, <1>17, <1>18, <1>20, <1>21, <1>22 DEF AccessStep

LEMMA RegistrationMoves ==
    ASSUME NEW c \in Calls, Base, RegistrationStep(c)
    PROVE  Base' /\ Moves(c)
<1>. USE GoesOn, Ends, Answers
<1>0. Stays(c)
  BY DEF Base
<1>1. CASE Challenge(c)
  BY <1>1, <1>0 DEF Stays, Fits, Stops, At, Challenge, Goto, GotoSeeing, Restart, MailBeforeCommit, MailAfterCommit
<1>2. CASE FindRequest(c)
  BY <1>2, <1>0 DEF Stays, Fits, Stops, At, FindRequest, Goto, GotoSeeing, Restart, MailBeforeCommit, MailAfterCommit
<1>3. CASE InsertRequest(c)
  BY <1>3, <1>0 DEF Stays, Fits, Stops, At, InsertRequest, Goto, GotoSeeing, Restart, MailBeforeCommit, MailAfterCommit
<1>4. CASE ClaimResend(c)
  BY <1>4, <1>0 DEF Stays, Fits, Stops, At, ClaimResend, Goto, GotoSeeing, Restart, MailBeforeCommit, MailAfterCommit
<1>5. CASE CommitVerification(c)
  BY <1>5, <1>0 DEF Stays, Fits, Stops, At, CommitVerification, Goto, GotoSeeing, Restart, MailBeforeCommit, MailAfterCommit
<1>6. CASE OpenVerification(c)
  BY <1>6, <1>0 DEF Stays, Fits, Stops, At, OpenVerification, Goto, GotoSeeing, Restart, MailBeforeCommit, MailAfterCommit
<1>7. CASE ClaimVerification(c)
  BY <1>7, <1>0 DEF Stays, Fits, Stops, At, ClaimVerification, Goto, GotoSeeing, Restart, MailBeforeCommit, MailAfterCommit
<1>8. CASE CommitConfirmation(c)
  BY <1>8, <1>0 DEF Stays, Fits, Stops, At, CommitConfirmation, Goto, GotoSeeing, Restart, MailBeforeCommit, MailAfterCommit
<1>9. CASE Resolve(c)
  BY <1>9, <1>0 DEF Stays, Fits, Stops, At, Resolve, Goto, GotoSeeing, Restart, MailBeforeCommit, MailAfterCommit
<1>10. CASE ClaimApproval(c)
  BY <1>10, <1>0 DEF Stays, Fits, Stops, At, ClaimApproval, Goto, GotoSeeing, Restart, MailBeforeCommit, MailAfterCommit
<1>11. CASE InsertFounder(c)
  BY <1>11, <1>0 DEF Stays, Fits, Stops, At, InsertFounder, Goto, GotoSeeing, Restart, MailBeforeCommit, MailAfterCommit
<1>12. CASE GiveAddress(c)
  BY <1>12, <1>0 DEF Stays, Fits, Stops, At, GiveAddress, SendCredentials, Goto, GotoSeeing, Restart, MailBeforeCommit, MailAfterCommit
<1>17. CASE FindAddress(c)
  <2>1. Kind(c) = "approve" /\ pc[c] \notin {"away", "done"} /\ Granted(c)
    BY <1>17, <1>0 DEF Stays, Fits, At, FindAddress
  <2>2. \/ \E lock : Goto(c, "give", lock)
        \/ \E v : GotoSeeing(c, "mail", None, v)
    BY <1>17 DEF FindAddress, SendCredentials
  <2>3. /\ \A lock : Fits(Kind(c), "give", lock)
        /\ Fits(Kind(c), "mail", None) /\ "give" \in Stops /\ "mail" \in Stops
    BY <2>1 DEF Fits, Stops, MailBeforeCommit
  <2>. QED  BY <2>1, <2>2, <2>3 DEF Goto, GotoSeeing
<1>13. CASE CommitApproval(c)
  BY <1>13, <1>0 DEF Stays, Fits, Stops, At, CommitApproval, Goto, GotoSeeing, Restart, MailBeforeCommit, MailAfterCommit
<1>14. CASE Reject(c)
  BY <1>14, <1>0 DEF Stays, Fits, Stops, At, Reject, Goto, GotoSeeing, Restart, MailBeforeCommit, MailAfterCommit
<1>15. CASE StartCleanup(c)
  <2>1. pc[c] \notin {"away", "done"} /\ Granted(c) /\ Kind(c) = "cleanup" /\ Select(c, 1)
    BY <1>15, <1>0 DEF Stays, Fits, At, StartCleanup
  <2>2. Answer(c, "ok") \/ \E v : GotoSeeing(c, "delete", None, v)
    BY <2>1 DEF Select
  <2>3. ASSUME NEW v, GotoSeeing(c, "delete", None, v) PROVE Base' /\ Moves(c)
    <3>1. Fits(Kind(c), "delete", None) /\ "delete" \in Stops \ {"away"}
      BY <2>1 DEF Fits, Stops
    <3>. QED  BY <2>1, <2>3, <3>1 DEF GotoSeeing
  <2>. QED  BY <2>1, <2>2, <2>3
<1>16. CASE Delete(c)
  <2>1. pc[c] \notin {"away", "done"} /\ Granted(c) /\ Kind(c) = "cleanup" /\ Select(c, seen[c].category + 1)
    BY <1>16, <1>0 DEF Stays, Fits, At, Delete
  <2>2. Answer(c, "ok") \/ \E v : GotoSeeing(c, "delete", None, v)
    BY <2>1 DEF Select
  <2>3. ASSUME NEW v, GotoSeeing(c, "delete", None, v) PROVE Base' /\ Moves(c)
    <3>1. Fits(Kind(c), "delete", None) /\ "delete" \in Stops \ {"away"}
      BY <2>1 DEF Fits, Stops
    <3>. QED  BY <2>1, <2>3, <3>1 DEF GotoSeeing
  <2>. QED  BY <2>1, <2>2, <2>3
<1>. QED  BY <1>1, <1>2, <1>3, <1>4, <1>5, <1>6, <1>7, <1>8, <1>9, <1>10, <1>11, <1>12, <1>13, <1>14, <1>15, <1>16, <1>17 DEF RegistrationStep

\* A request whose e-mail is delivered, refused or given up, or whose transaction is broken off.
MailMove(c) ==
    Delivered(c) \/ Rejected(c) \/ GiveUp(c) \/ ExpireTx(c) \/ Deadlocked(c)

LEMMA MailMoves ==
    ASSUME NEW c \in Calls, Base, MailMove(c)
    PROVE  Base' /\ Moves(c)
<1>. USE GoesOn, Ends, Answers
<1>0. Stays(c) /\ None \notin Ids
  BY CallsAreNew DEF Base
<1>1. ASSUME pc[c] = "mail" PROVE wants[c] = None /\ Granted(c) /\ Kind(c) \in MailBeforeCommit \cup MailAfterCommit
  BY <1>0, <1>1 DEF Stays, Fits, Granted
<1>2. ASSUME pc[c] = "mail", NotSent(c) PROVE Base' /\ Moves(c)
  BY <1>1, <1>2 DEF NotSent, Goto, Fits, Stops, MailBeforeCommit, MailAfterCommit
<1>3. CASE Delivered(c)
  BY <1>1, <1>3 DEF Delivered, Goto, Fits, Stops, MailBeforeCommit, MailAfterCommit
<1>4. CASE Rejected(c) \/ GiveUp(c)
  BY <1>2, <1>4 DEF Rejected, GiveUp
<1>5. CASE ExpireTx(c)
  BY <1>5 DEF ExpireTx
<1>6. CASE Deadlocked(c)
  <2>1. wants[c] # None
    BY <1>6 DEF Deadlocked, Base, Stays
  <2>2. pc[c] \notin {"away", "done"}
    BY <2>1, <1>0 DEF Stays, Fits
  <2>. QED  BY <2>2, <1>6 DEF Deadlocked
<1>. QED  BY <1>3, <1>4, <1>5, <1>6 DEF MailMove

\* The process stops.
LEMMA StopQuits ==
    ASSUME Base, Stop
    PROVE  Base' /\ Quits /\ UNCHANGED <<accessVars, requests, mailbox>>
<1>1. /\ pc' = [c \in Calls |-> IF Running(c) THEN "done" ELSE pc[c]] /\ task' = task /\ seen' = seen
      /\ answer' = [c \in Calls |-> IF Running(c) THEN "lost" ELSE answer[c]]
      /\ held' = [c \in Calls |-> {}] /\ wants' = [c \in Calls |-> None] /\ mailbox' = mailbox
  BY DEF Stop, Crash
<1>2. Quits
  BY <1>1 DEF Quits, Rests
<1>3. ASSUME NEW c \in Calls PROVE Stays(c)'
  BY <1>1 DEF Stays, Base, Fits, Kind, Running
<1>4. pc' \in [Calls -> Stops]
  BY <1>1 DEF Base, Stops
<1>. QED  BY <1>1, <1>2, <1>3, <1>4 DEF Base, Stop

\* What leaves the requests alone leaves Base alone.
LEMMA QuietBase ==
    ASSUME Base, UNCHANGED callVars
    PROVE  Base'
<1>1. UNCHANGED <<task, pc, held, wants, seen, answer>>
  BY DEF callVars
<1>2. \A c \in Calls : Stays(c)'
  BY <1>1 DEF Base, Stays, Kind
<1>. QED  BY <1>1, <1>2 DEF Base

-----------------------------------------------------------------------------
(* The steps of the system, and what each group of them is about. *)

Quiet == UNCHANGED <<callVars, rest>> /\ mailbox \subseteq mailbox' /\ mailbox' \subseteq mailbox \cup Calls

LEMMA StepCases ==
    ASSUME [Next]_vars
    PROVE  \/ \E c \in Calls : AccessStep(c) /\ UNCHANGED <<requests, hits>>
           \/ \E c \in Calls : RegistrationStep(c)
           \/ \E c \in Calls : MailMove(c) /\ UNCHANGED rest
           \/ Quiet
           \/ \E q \in Ids : RequestAges(q)
           \/ \E l \in Ids : LinkAges(l) /\ UNCHANGED <<requests, hits>>
           \/ HourPasses
           \/ Stop
<1>1. ASSUME NEW c \in Calls, Forward(c) \/ Stray(c), UNCHANGED rest PROVE Quiet
  BY <1>1 DEF Forward, Stray, Quiet
<1>2. ASSUME UNCHANGED vars PROVE Quiet
  BY <1>2 DEF vars, Quiet, rest, mailVars
<1>3. ASSUME NEW c \in Calls, MailStep(c) PROVE Quiet \/ (MailMove(c) /\ UNCHANGED rest)
  BY <1>1, <1>3 DEF MailStep, Deliver, MailMove
<1>. QED  BY <1>2, <1>3 DEF Next, Handle, Event, Around, Finished

AddsMember(c) == Look(c) \/ InsertPerson(c) \/ InsertLogin(c) \/ CommitMember(c)
ForLinks(c) == CheckLink(c) \/ Issue(c) \/ Retire(c) \/ OpenLink(c) \/ LockLink(c) \/ LockInvitation(c)
               \/ OpenLogin(c) \/ Accept(c) \/ ConfirmEmail(c)
ForDevices(c) == ManageDevice(c) \/ CommitDevice(c) \/ FindDevice(c) \/ Activate(c)
ForPasswords(c) == VerifyPassword(c) \/ WritePassword(c)

LEMMA AccessGroups ==
    ASSUME NEW c \in Calls, AccessStep(c)
    PROVE  Enter(c) \/ AddsMember(c) \/ SetActive(c) \/ ForLinks(c) \/ ForDevices(c) \/ ForPasswords(c)
BY DEF AccessStep, AddsMember, ForLinks, ForDevices, ForPasswords

LEMMA GroupKinds ==
    ASSUME NEW c \in Calls, Base
    PROVE  /\ AddsMember(c) => Kind(c) = "addMember" /\ UNCHANGED <<devices, links>>
           /\ SetActive(c) => Kind(c) \in {"deactivate", "reactivate"} /\ UNCHANGED <<logins, devices, links, mailbox>>
           /\ ForLinks(c) => Kind(c) \in MailAfterCommit \cup {"accept", "confirm"} /\ UNCHANGED mailbox
           /\ ForDevices(c) => /\ Kind(c) \in {"newDevice", "revoke", "reissue", "activate"}
                               /\ UNCHANGED <<members, logins, links>>
           /\ ForPasswords(c) => Kind(c) = "password" /\ UNCHANGED <<members, devices, links, mailbox>>
           /\ RegistrationStep(c) =>
                 Kind(c) \in {"register", "resend", "verify", "approve", "reject", "cleanup"} /\ UNCHANGED <<links, mailbox>>
<1>0. Stays(c)
  BY DEF Base
<1>. USE <1>0 DEF Stays, Fits, At
<1>1. ASSUME AddsMember(c) PROVE Kind(c) = "addMember" /\ UNCHANGED <<devices, links>>
  BY <1>1 DEF AddsMember, Look, InsertPerson, InsertLogin, CommitMember, accessVars
<1>2. ASSUME SetActive(c) PROVE Kind(c) \in {"deactivate", "reactivate"} /\ UNCHANGED <<logins, devices, links, mailbox>>
  BY <1>2 DEF SetActive, mailVars
<1>3. ASSUME ForLinks(c) PROVE Kind(c) \in MailAfterCommit \cup {"accept", "confirm"} /\ UNCHANGED mailbox
  BY <1>3 DEF ForLinks, CheckLink, Issue, Retire, OpenLink, LockLink, LockInvitation, OpenLogin, Accept, ConfirmEmail, Send, mailVars
<1>4. ASSUME ForDevices(c)
      PROVE  Kind(c) \in {"newDevice", "revoke", "reissue", "activate"} /\ UNCHANGED <<members, logins, links>>
  BY <1>4 DEF ForDevices, ManageDevice, CommitDevice, FindDevice, Activate, accessVars
<1>5. ASSUME ForPasswords(c) PROVE Kind(c) = "password" /\ UNCHANGED <<members, devices, links, mailbox>>
  BY <1>5 DEF ForPasswords, VerifyPassword, WritePassword, accessVars, mailVars
<1>6. ASSUME RegistrationStep(c)
      PROVE  Kind(c) \in {"register", "resend", "verify", "approve", "reject", "cleanup"} /\ UNCHANGED <<links, mailbox>>
  <2>. USE DEF mailVars, accessVars, rest
  <2>1. CASE Challenge(c) \/ FindRequest(c) \/ InsertRequest(c) \/ ClaimResend(c) \/ CommitVerification(c)
    BY <2>1 DEF Challenge, FindRequest, InsertRequest, ClaimResend, CommitVerification, Send
  <2>2. CASE OpenVerification(c) \/ ClaimVerification(c) \/ CommitConfirmation(c)
    BY <2>2 DEF OpenVerification, ClaimVerification, CommitConfirmation, Send
  <2>3. CASE Resolve(c) \/ ClaimApproval(c) \/ InsertFounder(c) \/ FindAddress(c) \/ GiveAddress(c) \/ CommitApproval(c) \/ Reject(c)
    BY <2>3 DEF Resolve, ClaimApproval, InsertFounder, FindAddress, GiveAddress, SendCredentials, CommitApproval, Reject, Send
  <2>4. CASE StartCleanup(c) \/ Delete(c)
    BY <2>4 DEF StartCleanup, Delete
  <2>. QED  BY <1>6, <2>1, <2>2, <2>3, <2>4 DEF RegistrationStep
<1>. QED  BY <1>1, <1>2, <1>3, <1>4, <1>5, <1>6

-----------------------------------------------------------------------------
(* Links: the row of the member orders the requests for a link, the row of the link those that use it. *)

ByLink == {"accept", "confirm"}

\* What a request that leaves the links alone must see to.
LEMMA LinksSame ==
    ASSUME NEW c \in Calls, Base, LinksInd, Moves(c), links' = links, LinkKnows(c)',
           links[c] # None => pc'[c] \in {"mail", "retire", "done"}, ~Succeeded(c, ByLink)'
    PROVE  LinksInd'
<1>1. task' = task /\ (\A l \in Calls : Kind(l)' = Kind(l) /\ On(l)' = On(l) /\ Uses(l)' = Uses(l))
  BY DEF Moves, Kind, On, Uses
<1>2. \A l \in Ids : IsPending(l)' = IsPending(l)
  BY DEF IsPending
<1>3. ASSUME NEW d \in Calls \ {c} PROVE LinkKnows(d)'
  <2>1. LinkKnows(d) /\ pc'[d] = pc[d] /\ held'[d] = held[d] /\ wants'[d] = wants[d] /\ seen'[d] = seen[d] /\ answer'[d] = answer[d]
    BY DEF LinksInd, Moves
  <2>. QED  BY <2>1, <1>1, <1>2 DEF LinkKnows, Ids, Alike
<1>4. \A d, e \in Calls :
         Succeeded(d, {"accept", "confirm"})' /\ Succeeded(e, {Kind(d)})' /\ (seen[d] = seen[e])' => d = e
  BY <1>1 DEF LinksInd, Moves, Succeeded, ByLink
<1>5. \A l \in Ids : links'[l] # None => l \in Calls /\ pc'[l] \in {"mail", "retire", "done"}
                                         /\ Kind(l)' \in MailAfterCommit /\ links'[l].member = On(l)'
  BY <1>1 DEF LinksInd, Moves
<1>6. \A l, k \in Calls : IsPending(l)' /\ IsPending(k)' /\ Alike(l, k)' => l = k
  BY <1>1, <1>2 DEF LinksInd, Alike, Ids
<1>. QED  BY <1>3, <1>4, <1>5, <1>6 DEF LinksInd

LEMMA LinksElsewhere ==
    ASSUME NEW c \in Calls, Base, LinksInd, Moves(c), links' = links, Kind(c) \notin MailAfterCommit \cup ByLink
    PROVE  LinksInd'
<1>1. Kind(c)' = Kind(c)
  BY DEF Moves, Kind
<1>2. LinkKnows(c)' /\ ~Succeeded(c, ByLink)'
  BY <1>1 DEF LinkKnows, Succeeded, ByLink
<1>3. links[c] = None
  BY DEF LinksInd, Ids
<1>. QED  BY <1>2, <1>3, LinksSame

LEMMA LinksQuiet ==
    ASSUME Base, LinksInd, links' = links, UNCHANGED callVars
    PROVE  LinksInd'
<1>1. UNCHANGED <<task, pc, held, wants, seen, answer>>
  BY DEF callVars
<1>2. \A d \in Calls : LinkKnows(d)'
  BY <1>1 DEF LinksInd, LinkKnows, Kind, On, Uses, Alike, IsPending
<1>. QED  BY <1>1, <1>2 DEF LinksInd, IsPending, Alike, Kind, On, Succeeded

LEMMA LinksStop ==
    ASSUME Base, LinksInd, links' = links, Quits
    PROVE  LinksInd'
<1>1. task' = task /\ seen' = seen /\ (\A l \in Calls : Kind(l)' = Kind(l) /\ On(l)' = On(l) /\ Uses(l)' = Uses(l))
  BY DEF Quits, Kind, On, Uses
<1>2. \A d \in Calls : /\ answer'[d] = "ok" => answer[d] = "ok"
                       /\ pc'[d] \in {"away", "idle", "done"} /\ (pc[d] = "done" => pc'[d] = "done")
                       /\ pc[d] \in {"mail", "retire"} => pc'[d] = "done"
  BY DEF Quits, Rests, Running
<1>3. ASSUME NEW d \in Calls PROVE LinkKnows(d)'
  <2>1. LinkKnows(d)
    BY DEF LinksInd
  <2>. QED  BY <2>1, <1>1, <1>2 DEF LinkKnows
<1>4. \A d, e \in Calls :
         Succeeded(d, {"accept", "confirm"})' /\ Succeeded(e, {Kind(d)})' /\ (seen[d] = seen[e])' => d = e
  BY <1>1, <1>2 DEF LinksInd, Succeeded
<1>5. \A l \in Ids : links'[l] # None => l \in Calls /\ pc'[l] \in {"mail", "retire", "done"}
                                         /\ Kind(l)' \in MailAfterCommit /\ links'[l].member = On(l)'
  BY <1>1, <1>2 DEF LinksInd
<1>6. \A l, k \in Calls : IsPending(l)' /\ IsPending(k)' /\ Alike(l, k)' => l = k
  BY <1>1 DEF LinksInd, Alike, IsPending
<1>. QED  BY <1>3, <1>4, <1>5, <1>6 DEF LinksInd

\* A link is never unused nor revived, and is used with its row locked.
Wears(l, c) ==
    /\ links'[l] = None <=> links[l] = None
    /\ links[l] # None => /\ links'[l].member = links[l].member
                          /\ links[l].used => links'[l].used
                          /\ links'[l].used => links[l].used \/ <<"link", l>> \in held[c]
    /\ IsPending(l)' => IsPending(l)

LEMMA LinksChange ==
    ASSUME NEW c \in Calls, Base, LinksInd, Moves(c), \A l \in Ids \ {c} : Wears(l, c),
           Wears(c, c) \/ (pc[c] = "issue" /\ Kind(c) \in MailAfterCommit)
    PROVE  \A d \in Calls \ {c} : LinkKnows(d)'
<1>1. task' = task /\ (\A l \in Calls : Kind(l)' = Kind(l) /\ On(l)' = On(l) /\ Uses(l)' = Uses(l))
  BY DEF Moves, Kind, On, Uses
<1>. SUFFICES ASSUME NEW d \in Calls \ {c} PROVE LinkKnows(d)'
  OBVIOUS
<1>2. /\ LinkKnows(d) /\ pc'[d] = pc[d] /\ held'[d] = held[d] /\ wants'[d] = wants[d] /\ seen'[d] = seen[d]
      /\ answer'[d] = answer[d] /\ held[c] \cap held[d] = {}
  BY DEF LinksInd, Moves, Base
<1>3. pc[c] = "issue" /\ Kind(c) \in MailAfterCommit => links[c] = None /\ <<"member", On(c)>> \in held[c]
  BY DEF LinksInd, LinkKnows, Ids
<1>4. \A l \in Ids : links[l] # None => Wears(l, c)
  BY <1>3
<1>5. ASSUME Kind(d) \in MailAfterCommit
      PROVE  /\ pc[d] = "issue" =>
                    /\ \A l \in seen[d] : l \in Calls /\ links'[l] # None
                    /\ \A l \in Calls : IsPending(l)' /\ Alike(l, d) => l \in seen[d]
             /\ pc[d] \in {"mail", "retire"} => links'[d] # None
  <2>1. CASE pc[d] = "issue"
    <3>1. /\ <<"member", On(d)>> \in held[d] /\ \A l \in seen[d] : l \in Calls /\ links[l] # None
          /\ \A l \in Calls : IsPending(l) /\ Alike(l, d) => l \in seen[d]
      BY <1>2, <1>5, <2>1 DEF LinkKnows
    <3>2. \A l \in seen[d] : l \in Calls /\ links'[l] # None
      BY <3>1, <1>4 DEF Wears, Ids
    <3>3. ASSUME NEW l \in Calls, IsPending(l)', Alike(l, d) PROVE l \in seen[d]
      <4>1. CASE Wears(l, c)
        BY <3>1, <3>3, <4>1 DEF Wears
      <4>2. CASE l = c /\ pc[c] = "issue" /\ Kind(c) \in MailAfterCommit
        BY <3>1, <3>3, <4>2, <1>2, <1>3 DEF Alike
      <4>. QED  BY <4>1, <4>2 DEF Ids
    <3>. QED  BY <2>1, <3>2, <3>3
  <2>2. CASE pc[d] \in {"mail", "retire"}
    BY <1>2, <1>4, <1>5, <2>2 DEF LinkKnows, Wears, Ids
  <2>. QED  BY <2>1, <2>2
<1>6. ASSUME Kind(d) \in {"accept", "confirm"}, pc[d] \in {"use", "open", "apply"} \/ answer[d] = "ok"
      PROVE  /\ seen[d] \in Calls /\ links'[seen[d]] # None /\ Kind(seen[d]) = Uses(d)
             /\ pc[d] \in {"open", "apply"} => ~links'[seen[d]].used
             /\ answer[d] = "ok" => links'[seen[d]].used
  <2>1. seen[d] \in Calls /\ links[seen[d]] # None /\ Kind(seen[d]) = Uses(d)
    BY <1>2, <1>6 DEF LinkKnows
  <2>2. Wears(seen[d], c)
    BY <2>1, <1>4 DEF Ids
  <2>. QED  BY <2>1, <2>2, <1>2, <1>6 DEF LinkKnows, Wears
<1>7. \A l \in Calls : Alike(l, d)' = Alike(l, d)
  BY <1>1 DEF Alike
<1>8. Kind(d) \in MailAfterCommit =>
          /\ pc'[d] = "member" => wants'[d] = <<"member", On(d)>>
          /\ pc'[d] = "issue" => <<"member", On(d)>> \in held'[d]
  BY <1>2 DEF LinkKnows
<1>9. Kind(d) \in {"accept", "confirm"} =>
          /\ pc'[d] = "use" => wants'[d] = <<"link", seen'[d]>>
          /\ pc'[d] \in {"open", "apply"} => <<"link", seen'[d]>> \in held'[d]
  BY <1>2 DEF LinkKnows
<1>10. Kind(d)' = Kind(d) /\ On(d)' = On(d) /\ Uses(d)' = Uses(d) /\ (\A l \in Calls : Kind(l)' = Kind(l))
  BY <1>1
<1>11. Kind(d)' \in MailAfterCommit =>
          /\ pc'[d] = "member" => wants'[d] = <<"member", On(d)'>>
          /\ pc'[d] = "issue" => /\ <<"member", On(d)'>> \in held'[d]
                                 /\ \A l \in seen'[d] : l \in Calls /\ links'[l] # None
                                 /\ \A l \in Calls : IsPending(l)' /\ Alike(l, d)' => l \in seen'[d]
          /\ pc'[d] \in {"mail", "retire"} => links'[d] # None
  BY <1>2, <1>5, <1>7, <1>8, <1>10
<1>12. Kind(d)' \in {"accept", "confirm"} =>
          /\ pc'[d] \in {"use", "open", "apply"} \/ answer'[d] = "ok" =>
                seen'[d] \in Calls /\ links'[seen'[d]] # None /\ Kind(seen[d])' = Uses(d)'
          /\ pc'[d] = "use" => wants'[d] = <<"link", seen'[d]>>
          /\ pc'[d] \in {"open", "apply"} => <<"link", seen'[d]>> \in held'[d] /\ ~links'[seen'[d]].used
          /\ answer'[d] = "ok" => links'[seen'[d]].used
  <2>1. Kind(seen[d])' = Kind(seen[d])
    BY <1>1, <1>2 DEF Kind
  <2>. QED  BY <2>1, <1>2, <1>6, <1>9, <1>10
<1>. QED  BY <1>11, <1>12 DEF LinkKnows

\* What a request that changes the links must see to.
LEMMA LinksWear ==
    ASSUME NEW c \in Calls, Base, LinksInd, Moves(c), links' \in [Ids -> LinkRow \cup {None}],
           \A l \in Ids \ {c} : Wears(l, c), LinkKnows(c)',
           \/ Wears(c, c) /\ (links[c] # None => pc'[c] \in {"mail", "retire", "done"})
           \/ /\ pc[c] = "issue" /\ Kind(c) \in MailAfterCommit
              /\ links'[c].member = On(c) /\ pc'[c] = "mail" /\ ~Succeeded(c, ByLink)'
              /\ \A l \in Calls : IsPending(l)' /\ Alike(l, c) => l = c,
           \A d \in Calls : Succeeded(c, ByLink)' /\ Succeeded(d, {Kind(c)}) => seen[d] # seen'[c]
    PROVE  LinksInd'
<1>1. task' = task /\ (\A l \in Calls : Kind(l)' = Kind(l) /\ On(l)' = On(l)) /\ (\A l, k \in Calls : Alike(l, k)' = Alike(l, k))
  BY DEF Moves, Kind, On, Alike
<1>2. \A d \in Calls : LinkKnows(d)'
  BY LinksChange
<1>3. ASSUME NEW l \in Ids, links'[l] # None
      PROVE  l \in Calls /\ pc'[l] \in {"mail", "retire", "done"} /\ Kind(l)' \in MailAfterCommit /\ links'[l].member = On(l)'
  <2>1. CASE Wears(l, c)
    BY <1>1, <1>3, <2>1 DEF LinksInd, Moves, Wears
  <2>2. CASE l = c /\ ~Wears(c, c)
    BY <1>1, <2>2
  <2>. QED  BY <2>1, <2>2
<1>4. ASSUME NEW l \in Calls, NEW k \in Calls, IsPending(l)', IsPending(k)', Alike(l, k) PROVE l = k
  <2>1. CASE Wears(l, c) /\ Wears(k, c)
    BY <1>4, <2>1 DEF LinksInd, Wears
  <2>2. CASE ~Wears(c, c) /\ (l = c \/ k = c)
    <3>1. \A i \in Calls : IsPending(i)' /\ Alike(i, c) => i = c
      BY <2>2
    <3>. QED  BY <2>2, <3>1, <1>4 DEF Alike
  <2>. QED  BY <2>1, <2>2 DEF Ids
<1>5. \A d, e \in Calls :
         Succeeded(d, {"accept", "confirm"})' /\ Succeeded(e, {Kind(d)})' /\ (seen[d] = seen[e])' => d = e
  <2>1. \A d \in Calls \ {c} : seen'[d] = seen[d] /\ \A K : Succeeded(d, K)' = Succeeded(d, K)
    BY <1>1 DEF Moves, Succeeded
  <2>2. ASSUME NEW d \in Calls, NEW e \in Calls, Succeeded(d, {"accept", "confirm"})', Succeeded(e, {Kind(d)})', seen'[d] = seen'[e]
        PROVE  d = e
    BY <1>1, <2>1, <2>2 DEF LinksInd, Succeeded, ByLink
  <2>. QED  BY <2>2, <1>1 DEF Succeeded
<1>. QED  BY <1>1, <1>2, <1>3, <1>4, <1>5 DEF LinksInd

LEMMA DeadRow ==
    ASSUME NEW r \in LinkRow, NEW s, s = [r EXCEPT !.dead = TRUE]
    PROVE  s \in LinkRow /\ s # None /\ s.member = r.member /\ s.used = r.used /\ s.dead = TRUE
<1>1. s \in LinkRow /\ s.member = r.member /\ s.used = r.used /\ s.dead = TRUE
  BY DEF LinkRow
<1>. QED  BY <1>1, NoneIsNoRow

LEMMA UsedRow ==
    ASSUME NEW r \in LinkRow, NEW s, s = [r EXCEPT !.used = TRUE]
    PROVE  s \in LinkRow /\ s # None /\ s.member = r.member /\ s.used = TRUE /\ s.dead = r.dead
<1>1. s \in LinkRow /\ s.member = r.member /\ s.used = TRUE /\ s.dead = r.dead
  BY DEF LinkRow
<1>. QED  BY <1>1, NoneIsNoRow

LEMMA EnterLinks ==
    ASSUME NEW c \in Calls, Base, LinksInd, Moves(c), Enter(c)
    PROVE  LinksInd'
<1>1. links' = links /\ pc[c] = "idle" /\ Kind(c) \in AppKinds /\ Kind(c)' = Kind(c) /\ On(c)' = On(c)
  BY DEF Enter, At, accessVars, Moves, Kind, On
<1>2. links[c] = None
  BY <1>1 DEF LinksInd, Ids
<1>3. /\ pc'[c] = "done" => answer'[c] = "403"
      /\ pc'[c] # "done" /\ Kind(c) \in MailAfterCommit => pc'[c] = "member" /\ wants'[c] = <<"member", On(c)>>
  <2>1. CASE Answer(c, "403")
    BY <2>1 DEF Answer, End, Base
  <2>2. CASE Goto(c, FirstStop(c)[1], FirstStop(c)[2])
    <3>1. Kind(c) \in MailAfterCommit => FirstStop(c) = <<"member", <<"member", On(c)>>>>
      BY DEF FirstStop, MailAfterCommit
    <3>2. FirstStop(c)[1] # "done"
      BY <1>1 DEF FirstStop, AppKinds
    <3>. QED  BY <2>2, <3>1, <3>2 DEF Goto, Proceed, Base
  <2>. QED  BY <2>1, <2>2 DEF Enter
<1>4. answer'[c] # "ok"
  BY <1>1 DEF Enter, Answer, Goto, End, Proceed, Base, Stays
<1>5. LinkKnows(c)' /\ ~Succeeded(c, ByLink)'
  BY <1>1, <1>3, <1>4 DEF LinkKnows, Succeeded, ByLink, AppKinds
<1>. QED  BY <1>1, <1>2, <1>5, LinksSame

LEMMA CheckLinkLinks ==
    ASSUME NEW c \in Calls, Base, LinksInd, Moves(c), CheckLink(c)
    PROVE  LinksInd'
<1>1. /\ links' = links /\ pc[c] = "member" /\ Kind(c) \in MailAfterCommit /\ Kind(c)' = Kind(c) /\ On(c)' = On(c)
      /\ Kind(c) \notin ByLink
  BY DEF CheckLink, At, accessVars, Moves, Kind, On, MailAfterCommit, ByLink
<1>2. links[c] = None /\ wants[c] = <<"member", On(c)>>
  BY <1>1 DEF LinksInd, LinkKnows, Ids
<1>3. task[c] \in Tasks
  BY <1>1 DEF Base, Stays
<1>4. wants[c] # None
  BY <1>1, <1>2, <1>3, TasksHaveTheirParts, NoneIsNoLock DEF Kind, On, Ids
<1>5. \A l \in Calls : IsPending(l) /\ Alike(l, c) => l \in Pending(c)
  BY DEF IsPending, Alike, Pending, Rivals, LinksInd, Ids
<1>6. \A l \in Pending(c) : l \in Calls /\ links[l] # None
  BY DEF Pending, Rivals
<1>7. CASE Answer(c, "409")
  <2>1. pc'[c] = "done" /\ answer'[c] = "409"
    BY <1>7 DEF Answer, End, Base
  <2>2. LinkKnows(c)' /\ ~Succeeded(c, ByLink)'
    BY <1>1, <2>1 DEF LinkKnows, Succeeded, ByLink
  <2>. QED  BY <1>1, <1>2, <2>2, LinksSame
<1>8. ASSUME NEW lock, GotoSeeing(c, "issue", lock, Pending(c)) PROVE LinksInd'
  <2>1. /\ pc'[c] = "issue" /\ answer'[c] = answer[c] /\ seen'[c] = Pending(c) /\ wants[c] \in held'[c]
    BY <1>4, <1>8 DEF GotoSeeing, Proceed, Base
  <2>2. \A l \in Calls : IsPending(l)' = IsPending(l) /\ Alike(l, c)' = Alike(l, c)
    BY <1>1 DEF IsPending, Alike, Moves, Kind, On
  <2>3. LinkKnows(c)' /\ ~Succeeded(c, ByLink)'
    BY <1>1, <1>2, <1>5, <1>6, <2>1, <2>2 DEF LinkKnows, Succeeded, ByLink
  <2>. QED  BY <1>1, <1>2, <2>3, LinksSame
<1>. QED  BY <1>7, <1>8 DEF CheckLink

LEMMA IssueLinks ==
    ASSUME NEW c \in Calls, Base, LinksInd, Moves(c), Issue(c)
    PROVE  LinksInd'
<1>1. /\ pc[c] = "issue" /\ Kind(c)' = Kind(c) /\ On(c)' = On(c) /\ Restart(c, "mail")
      /\ links' = [l \in Ids |->
                    IF l = c THEN [member |-> On(c), used |-> FALSE, dead |-> FALSE, recent |-> TRUE, expired |-> FALSE]
                    ELSE IF l \in seen[c] /\ ~links[l].used THEN [links[l] EXCEPT !.dead = TRUE]
                    ELSE links[l]]
  BY DEF Issue, At, Moves, Kind, On
<1>2. Kind(c) \in MailAfterCommit /\ Kind(c) \notin ByLink
  BY <1>1 DEF Base, Stays, Fits, MailAfterCommit, ByLink
<1>3. On(c) \in Ids
  BY <1>1, <1>2, TasksHaveTheirParts DEF Base, Stays, Kind, On, Ids
<1>4. /\ \A l \in seen[c] : l \in Calls /\ links[l] # None
      /\ \A l \in Calls : IsPending(l) /\ Alike(l, c) => l \in seen[c]
  BY <1>1, <1>2 DEF LinksInd, LinkKnows
<1>5. c \in Ids /\ links'[c] = [member |-> On(c), used |-> FALSE, dead |-> FALSE, recent |-> TRUE, expired |-> FALSE]
  BY <1>1 DEF Ids
<1>6. links'[c] \in LinkRow
  BY <1>3, <1>5 DEF LinkRow
<1>7. ASSUME NEW l \in Ids \ {c}, l \in seen[c], ~links[l].used
      PROVE  links[l] \in LinkRow /\ links'[l] = [links[l] EXCEPT !.dead = TRUE]
  BY <1>1, <1>4, <1>7 DEF LinksInd
<1>8. \A l \in Ids \ {c} : ~(l \in seen[c] /\ ~links[l].used) => links'[l] = links[l]
  BY <1>1
<1>9. \A l \in Ids : links'[l] \in LinkRow \cup {None}
  <2>1. \A l \in Ids \ {c} : l \in seen[c] /\ ~links[l].used => links'[l] \in LinkRow
    BY <1>7, DeadRow
  <2>2. \A l \in Ids \ {c} : ~(l \in seen[c] /\ ~links[l].used) => links'[l] \in LinkRow \cup {None}
    BY <1>8 DEF LinksInd
  <2>. QED  BY <1>6, <2>1, <2>2
<1>10. links' \in [Ids -> LinkRow \cup {None}]
  BY <1>1, <1>9
<1>11. ASSUME NEW l \in Ids \ {c} PROVE Wears(l, c)
  <2>1. CASE l \in seen[c] /\ ~links[l].used
    <3>1. /\ links'[l] # None /\ links'[l].member = links[l].member /\ links'[l].used = links[l].used
          /\ links'[l].dead = TRUE
      <4>1. links[l] \in LinkRow /\ links'[l] = [links[l] EXCEPT !.dead = TRUE]
        BY <1>7, <2>1
      <4>. QED  BY <4>1, DeadRow
    <3>2. links[l] # None
      BY <1>4, <2>1
    <3>. QED  BY <3>1, <3>2, <2>1 DEF Wears, IsPending
  <2>2. CASE ~(l \in seen[c] /\ ~links[l].used)
    BY <1>8, <2>2 DEF Wears, IsPending
  <2>. QED  BY <2>1, <2>2
<1>12. pc'[c] = "mail" /\ answer'[c] = "none"
  BY <1>1 DEF Restart, End, Base
<1>13. links'[c] # None
  BY <1>6, NoneIsNoRow
<1>14. LinkKnows(c)' /\ ~Succeeded(c, ByLink)'
  BY <1>1, <1>2, <1>12, <1>13 DEF LinkKnows, Succeeded, ByLink
<1>15. ASSUME NEW l \in Calls \ {c}, IsPending(l)', Alike(l, c) PROVE FALSE
  <2>1. IsPending(l)
    BY <1>11, <1>15 DEF Wears, Ids
  <2>2. l \in seen[c] /\ ~links[l].used
    BY <1>4, <1>15, <2>1 DEF IsPending
  <2>3. links'[l].dead = TRUE
    BY <1>7, <2>2, DeadRow DEF Ids
  <2>. QED  BY <1>15, <2>3 DEF IsPending
<1>. QED  BY <1>2, <1>5, <1>10, <1>11, <1>12, <1>14, <1>15, <1>1, LinksWear

LEMMA RetireLinks ==
    ASSUME NEW c \in Calls, Base, LinksInd, Moves(c), Retire(c)
    PROVE  LinksInd'
<1>1. /\ pc[c] = "retire" /\ Answer(c, "422") /\ Kind(c)' = Kind(c)
      /\ links' = links \/ links' = [links EXCEPT ![c].dead = TRUE]
  BY DEF Retire, At, Moves, Kind
<1>2. Kind(c) \in MailAfterCommit
  BY <1>1 DEF Base, Stays, Fits
<1>3. c \in Ids /\ links[c] # None /\ links[c] \in LinkRow
  BY <1>1, <1>2 DEF LinksInd, LinkKnows, Ids
<1>4. pc'[c] = "done" /\ answer'[c] = "422"
  BY <1>1 DEF Answer, End, Base
<1>5. LinkKnows(c)' /\ ~Succeeded(c, ByLink)'
  BY <1>1, <1>2, <1>4 DEF LinkKnows, Succeeded, ByLink, MailAfterCommit
<1>6. CASE links' = links
  BY <1>4, <1>5, <1>6, LinksSame
<1>7. CASE links' = [links EXCEPT ![c].dead = TRUE]
  <2>1. DOMAIN links = Ids
    BY DEF LinksInd
  <2>2. links'[c] = [links[c] EXCEPT !.dead = TRUE] /\ \A l \in Ids \ {c} : links'[l] = links[l]
    BY <1>3, <1>7, <2>1
  <2>3. /\ links'[c] \in LinkRow /\ links'[c] # None /\ links'[c].member = links[c].member
        /\ links'[c].used = links[c].used /\ links'[c].dead = TRUE
    BY <1>3, <2>2, DeadRow
  <2>4. links' \in [Ids -> LinkRow \cup {None}]
    BY <1>7, <2>1, <2>2, <2>3 DEF LinksInd
  <2>5. Wears(c, c)
    BY <1>3, <2>3 DEF Wears, IsPending
  <2>6. \A l \in Ids \ {c} : Wears(l, c)
    BY <2>2 DEF Wears, IsPending
  <2>. QED  BY <1>4, <1>5, <2>4, <2>5, <2>6, LinksWear
<1>. QED  BY <1>1, <1>6, <1>7

\* A page leads to a link whose e-mail arrived; then the row of the link is locked.
LEMMA OpenLinkLinks ==
    ASSUME NEW c \in Calls, Base, LinksInd, Moves(c), mailbox \subseteq Ids, OpenLink(c)
    PROVE  LinksInd'
<1>1. links' = links /\ pc[c] = "idle" /\ Kind(c) \in ByLink /\ Kind(c)' = Kind(c) /\ Kind(c) \notin MailAfterCommit
  BY DEF OpenLink, At, accessVars, Moves, Kind, MailAfterCommit, ByLink
<1>2. links[c] = None
  BY <1>1 DEF LinksInd, Ids
<1>3. PICK l \in mailbox : /\ links[l] # None /\ Kind(l) = Uses(c)
                           /\ Answer(c, "429") \/ Answer(c, "404") \/ GotoSeeing(c, "use", <<"link", l>>, l)
  BY DEF OpenLink
<1>4. l \in Calls /\ Kind(l)' = Kind(l) /\ Uses(c)' = Uses(c)
  BY <1>3 DEF LinksInd, Moves, Kind, Uses
<1>5. answer[c] # "ok"
  BY <1>1 DEF Base, Stays
<1>6. CASE Answer(c, "429") \/ Answer(c, "404")
  <2>1. pc'[c] = "done" /\ answer'[c] # "ok"
    BY <1>6 DEF Answer, End, Base
  <2>2. LinkKnows(c)' /\ ~Succeeded(c, ByLink)'
    BY <1>1, <2>1 DEF LinkKnows, Succeeded, ByLink
  <2>. QED  BY <1>1, <1>2, <2>2, LinksSame
<1>7. CASE GotoSeeing(c, "use", <<"link", l>>, l)
  <2>1. pc'[c] = "use" /\ answer'[c] # "ok" /\ seen'[c] = l /\ wants'[c] = <<"link", l>>
    BY <1>5, <1>7 DEF GotoSeeing, Proceed, Base
  <2>2. Kind(seen[c])' = Uses(c)'
    BY <1>3, <1>4, <2>1 DEF Kind
  <2>3. LinkKnows(c)' /\ ~Succeeded(c, ByLink)'
    BY <1>1, <1>3, <1>4, <2>1, <2>2 DEF LinkKnows, Succeeded, ByLink
  <2>. QED  BY <1>1, <1>2, <2>3, LinksSame
<1>. QED  BY <1>3, <1>6, <1>7

LEMMA LockLinkLinks ==
    ASSUME NEW c \in Calls, Base, LinksInd, Moves(c), LockLink(c)
    PROVE  LinksInd'
<1>1. links' = links /\ pc[c] = "use" /\ Kind(c)' = Kind(c) /\ Uses(c)' = Uses(c)
  BY DEF LockLink, LockInvitation, OpenLogin, At, accessVars, Moves, Kind, Uses
<1>2. Kind(c) \in ByLink /\ Kind(c) \notin MailAfterCommit /\ links[c] = None /\ answer[c] # "ok"
  BY <1>1 DEF Base, Stays, Fits, LinksInd, Ids, ByLink, MailAfterCommit
<1>3. seen[c] \in Calls /\ links[seen[c]] # None /\ Kind(seen[c]) = Uses(c) /\ wants[c] = <<"link", seen[c]>>
  BY <1>1, <1>2 DEF LinksInd, LinkKnows, ByLink
<1>4. CASE Answer(c, "404")
  <2>1. pc'[c] = "done" /\ answer'[c] # "ok"
    BY <1>4 DEF Answer, End, Base
  <2>2. LinkKnows(c)' /\ ~Succeeded(c, ByLink)'
    BY <1>1, <1>2, <2>1 DEF LinkKnows, Succeeded
  <2>. QED  BY <1>1, <1>2, <2>2, LinksSame
<1>5. CASE Live(seen[c]) /\ Goto(c, "apply", <<"member", links[seen[c]].member>>)
  <2>1. <<"link", seen[c]>> # None
    BY <1>3, NoneIsNoLock DEF Ids
  <2>2. pc'[c] = "apply" /\ answer'[c] # "ok" /\ seen'[c] = seen[c] /\ <<"link", seen[c]>> \in held'[c]
    BY <1>2, <1>3, <1>5, <2>1 DEF Goto, Proceed, Base
  <2>3. Kind(seen[c])' = Kind(seen[c]) /\ ~links'[seen'[c]].used
    BY <1>1, <1>5, <2>2 DEF Kind, Live, Moves
  <2>4. LinkKnows(c)' /\ ~Succeeded(c, ByLink)'
    BY <1>1, <1>2, <1>3, <2>2, <2>3 DEF LinkKnows, Succeeded
  <2>. QED  BY <1>1, <1>2, <2>4, LinksSame
<1>. QED  BY <1>4, <1>5 DEF LockLink

\* The invitation is locked and good; its login waits for the name, then for the member.
LEMMA LockInvitationLinks ==
    ASSUME NEW c \in Calls, Base, LinksInd, Moves(c), LockInvitation(c)
    PROVE  LinksInd'
<1>1. links' = links /\ pc[c] = "use" /\ Kind(c)' = Kind(c) /\ Uses(c)' = Uses(c)
  BY DEF LockInvitation, At, accessVars, Moves, Kind, Uses
<1>2. Kind(c) \in ByLink /\ Kind(c) \notin MailAfterCommit /\ links[c] = None /\ answer[c] # "ok"
  BY <1>1 DEF Base, Stays, Fits, LinksInd, Ids, ByLink, MailAfterCommit
<1>3. seen[c] \in Calls /\ links[seen[c]] # None /\ Kind(seen[c]) = Uses(c) /\ wants[c] = <<"link", seen[c]>>
  BY <1>1, <1>2 DEF LinksInd, LinkKnows, ByLink
<1>4. CASE Answer(c, "404")
  <2>1. pc'[c] = "done" /\ answer'[c] # "ok"
    BY <1>4 DEF Answer, End, Base
  <2>2. LinkKnows(c)' /\ ~Succeeded(c, ByLink)'
    BY <1>1, <1>2, <2>1 DEF LinkKnows, Succeeded
  <2>. QED  BY <1>1, <1>2, <2>2, LinksSame
<1>5. ASSUME NEW lock, Live(seen[c]), Goto(c, "open", lock) PROVE LinksInd'
  <2>1. <<"link", seen[c]>> # None
    BY <1>3, NoneIsNoLock DEF Ids
  <2>2. pc'[c] = "open" /\ answer'[c] # "ok" /\ seen'[c] = seen[c] /\ <<"link", seen[c]>> \in held'[c]
    BY <1>2, <1>3, <1>5, <2>1 DEF Goto, Proceed, Base
  <2>3. Kind(seen[c])' = Kind(seen[c]) /\ ~links'[seen'[c]].used
    BY <1>1, <1>5, <2>2 DEF Kind, Live, Moves
  <2>4. LinkKnows(c)' /\ ~Succeeded(c, ByLink)'
    BY <1>1, <1>2, <1>3, <2>2, <2>3 DEF LinkKnows, Succeeded
  <2>. QED  BY <1>1, <1>2, <2>4, LinksSame
<1>. QED  BY <1>4, <1>5 DEF LockInvitation

LEMMA OpenLoginLinks ==
    ASSUME NEW c \in Calls, Base, LinksInd, Moves(c), OpenLogin(c)
    PROVE  LinksInd'
<1>1. links' = links /\ pc[c] = "open" /\ Kind(c)' = Kind(c) /\ Uses(c)' = Uses(c)
  BY DEF OpenLogin, At, accessVars, Moves, Kind, Uses
<1>2. Kind(c) \in ByLink /\ Kind(c) \notin MailAfterCommit /\ links[c] = None /\ answer[c] # "ok"
  BY <1>1 DEF Base, Stays, Fits, LinksInd, Ids, ByLink, MailAfterCommit
<1>3. /\ seen[c] \in Calls /\ links[seen[c]] # None /\ Kind(seen[c]) = Uses(c)
      /\ <<"link", seen[c]>> \in held[c] /\ ~links[seen[c]].used
  BY <1>1, <1>2 DEF LinksInd, LinkKnows, ByLink
<1>4. CASE Answer(c, "500")
  <2>1. pc'[c] = "done" /\ answer'[c] # "ok"
    BY <1>4 DEF Answer, End, Base
  <2>2. LinkKnows(c)' /\ ~Succeeded(c, ByLink)'
    BY <1>1, <1>2, <2>1 DEF LinkKnows, Succeeded
  <2>. QED  BY <1>1, <1>2, <2>2, LinksSame
<1>5. ASSUME NEW lock, Goto(c, "apply", lock) PROVE LinksInd'
  <2>1. pc'[c] = "apply" /\ answer'[c] # "ok" /\ seen'[c] = seen[c] /\ <<"link", seen[c]>> \in held'[c]
    BY <1>2, <1>3, <1>5 DEF Goto, Proceed, Base
  <2>2. Kind(seen[c])' = Kind(seen[c]) /\ ~links'[seen'[c]].used
    BY <1>1, <1>3, <2>1 DEF Kind, Moves
  <2>3. LinkKnows(c)' /\ ~Succeeded(c, ByLink)'
    BY <1>1, <1>2, <1>3, <2>1, <2>2 DEF LinkKnows, Succeeded
  <2>. QED  BY <1>1, <1>2, <2>3, LinksSame
<1>. QED  BY <1>4, <1>5 DEF OpenLogin

\* What those who use a link know, when they do: it is theirs, and nobody has used it.
LEMMA AppliesLink ==
    ASSUME NEW c \in Calls, Base, LinksInd, Moves(c), pc[c] = "apply", seen'[c] = seen[c]
    PROVE  /\ Kind(c)' = Kind(c) /\ Uses(c)' = Uses(c) /\ Kind(c) \in ByLink /\ Kind(c) \notin MailAfterCommit
           /\ links[c] = None /\ answer[c] # "ok" /\ seen[c] \in Calls \ {c} /\ links[seen[c]] \in LinkRow
           /\ links[seen[c]] # None /\ Kind(seen[c]) = Uses(c) /\ Kind(seen[c])' = Kind(seen[c])
           /\ <<"link", seen[c]>> \in held[c] /\ ~links[seen[c]].used
           /\ \A d \in Calls : Succeeded(d, {Kind(c)}) => seen[d] # seen[c]
<1>1. Kind(c) \in ByLink /\ Kind(c) \notin MailAfterCommit /\ links[c] = None /\ answer[c] # "ok"
  BY DEF Base, Stays, Fits, LinksInd, Ids, ByLink, MailAfterCommit
<1>2. /\ seen[c] \in Calls /\ links[seen[c]] # None /\ Kind(seen[c]) = Uses(c)
      /\ <<"link", seen[c]>> \in held[c] /\ ~links[seen[c]].used
  BY <1>1 DEF LinksInd, LinkKnows, ByLink
<1>3. ASSUME NEW d \in Calls, Succeeded(d, {Kind(c)}) PROVE seen[d] # seen[c]
  <2>1. links[seen[d]].used
    BY <1>1, <1>3 DEF LinksInd, LinkKnows, ByLink, Succeeded
  <2>. QED  BY <1>2, <2>1
<1>4. Kind(c)' = Kind(c) /\ Uses(c)' = Uses(c) /\ Kind(seen[c])' = Kind(seen[c])
  <2>1. task' = task /\ seen'[c] = seen[c]
    BY DEF Moves
  <2>. QED  BY <2>1 DEF Kind, Uses
<1>5. seen[c] # c /\ links[seen[c]] \in LinkRow
  BY <1>1, <1>2 DEF LinksInd, Ids
<1>. QED  BY <1>1, <1>2, <1>3, <1>4, <1>5

\* The link is used, others of the member may be superseded.
LEMMA UsesLink ==
    ASSUME NEW c \in Calls, Base, LinksInd, Moves(c), pc[c] = "apply", Answer(c, "ok"),
           links' = [l \in Ids |-> links'[l]],
           links'[seen[c]] = [links[seen[c]] EXCEPT !.used = TRUE],
           \A l \in Ids \ {seen[c]} :
              \/ links'[l] = links[l]
              \/ links[l] # None /\ links'[l] = [links[l] EXCEPT !.dead = TRUE]
    PROVE  LinksInd'
<1>1. /\ Kind(c)' = Kind(c) /\ Uses(c)' = Uses(c) /\ Kind(c) \in ByLink /\ Kind(c) \notin MailAfterCommit
      /\ links[c] = None /\ answer[c] # "ok" /\ seen[c] \in Calls \ {c} /\ links[seen[c]] \in LinkRow
      /\ links[seen[c]] # None /\ Kind(seen[c]) = Uses(c) /\ Kind(seen[c])' = Kind(seen[c])
      /\ <<"link", seen[c]>> \in held[c] /\ ~links[seen[c]].used
      /\ \A d \in Calls : Succeeded(d, {Kind(c)}) => seen[d] # seen[c]
  BY AppliesLink DEF Answer, End
<1>2. pc'[c] = "done" /\ answer'[c] = "ok" /\ seen' = seen
  BY DEF Answer, End, Base
<1>3. /\ links'[seen[c]] \in LinkRow /\ links'[seen[c]] # None /\ links'[seen[c]].member = links[seen[c]].member
      /\ links'[seen[c]].used = TRUE /\ links'[seen[c]].dead = links[seen[c]].dead
  <2>1. links[seen[c]] \in LinkRow /\ links'[seen[c]] = [links[seen[c]] EXCEPT !.used = TRUE]
    BY <1>1
  <2>. QED  BY <2>1, UsedRow
<1>4. ASSUME NEW l \in Ids, links[l] # None, links'[l] = [links[l] EXCEPT !.dead = TRUE]
      PROVE  /\ links'[l] \in LinkRow /\ links'[l] # None /\ links'[l].member = links[l].member
             /\ links'[l].used = links[l].used /\ links'[l].dead = TRUE
  <2>1. links[l] \in LinkRow
    BY <1>4 DEF LinksInd
  <2>. QED  BY <1>4, <2>1, DeadRow
<1>5. ASSUME NEW l \in Ids PROVE Wears(l, c) /\ links'[l] \in LinkRow \cup {None}
  <2>1. CASE l = seen[c]
    BY <1>1, <1>3, <2>1 DEF Wears, IsPending
  <2>2. CASE links'[l] = links[l]
    BY <2>2 DEF Wears, IsPending, LinksInd
  <2>3. CASE links[l] # None /\ links'[l] = [links[l] EXCEPT !.dead = TRUE]
    BY <1>4, <2>3 DEF Wears, IsPending
  <2>. QED  BY <2>1, <2>2, <2>3
<1>6. links' \in [Ids -> LinkRow \cup {None}]
  BY <1>5
<1>7. LinkKnows(c)'
  BY <1>1, <1>2, <1>3 DEF LinkKnows
<1>. QED  BY <1>1, <1>2, <1>5, <1>6, <1>7, LinksWear DEF Ids

LEMMA ApplyLinks ==
    ASSUME NEW c \in Calls, Base, LinksInd, Moves(c), Accept(c) \/ ConfirmEmail(c)
    PROVE  LinksInd'
<1>1. pc[c] = "apply"
  BY DEF Accept, ConfirmEmail, At
<1>2. /\ Kind(c)' = Kind(c) /\ Kind(c) \in ByLink /\ Kind(c) \notin MailAfterCommit
      /\ links[c] = None /\ seen[c] \in Ids
  BY <1>1, AppliesLink DEF Ids, Accept, ConfirmEmail, Answer, End
<1>3. CASE (Answer(c, "404") \/ Answer(c, "500")) /\ links' = links
  <2>1. pc'[c] = "done" /\ answer'[c] # "ok"
    BY <1>3 DEF Answer, End, Base
  <2>2. LinkKnows(c)' /\ ~Succeeded(c, ByLink)'
    BY <1>2, <2>1 DEF LinkKnows, Succeeded
  <2>. QED  BY <1>2, <1>3, <2>2, LinksSame
<1>4. CASE Answer(c, "ok") /\ links' = [links EXCEPT ![seen[c]].used = TRUE]
  <2>1. DOMAIN links = Ids
    BY DEF LinksInd
  <2>2. /\ links' = [l \in Ids |-> links'[l]] /\ links'[seen[c]] = [links[seen[c]] EXCEPT !.used = TRUE]
        /\ \A l \in Ids \ {seen[c]} : links'[l] = links[l]
    BY <1>2, <1>4, <2>1
  <2>. QED  BY <1>1, <1>4, <2>2, UsesLink
<1>5. ASSUME Answer(c, "ok"), NEW m,
             links' = [l \in Ids |->
                          IF l = seen[c] THEN [links[l] EXCEPT !.used = TRUE]
                          ELSE IF links[l] # None /\ Kind(l) = "askEmail" /\ links[l].member = m /\ ~links[l].used
                          THEN [links[l] EXCEPT !.dead = TRUE] ELSE links[l]]
      PROVE  LinksInd'
  <2>1. links'[seen[c]] = [links[seen[c]] EXCEPT !.used = TRUE]
    BY <1>2, <1>5
  <2>2. \A l \in Ids \ {seen[c]} :
              \/ links'[l] = links[l]
              \/ links[l] # None /\ links'[l] = [links[l] EXCEPT !.dead = TRUE]
    BY <1>5
  <2>3. links' = [l \in Ids |-> links'[l]]
    BY <1>5
  <2>. QED  BY <1>1, <1>5, <2>1, <2>2, <2>3, UsesLink
<1>6. CASE Accept(c)
  BY <1>3, <1>4, <1>6 DEF Accept, accessVars
<1>7. CASE ConfirmEmail(c)
  BY <1>3, <1>5, <1>7 DEF ConfirmEmail, accessVars
<1>. QED  BY <1>6, <1>7

\* How an e-mail ends, and what breaks a transaction off.
LEMMA MailMoveAnswers ==
    ASSUME NEW c \in Calls, Base, MailMove(c)
    PROVE  /\ pc[c] \notin {"away", "done"} /\ seen' = seen /\ answer[c] # "ok" /\ pc'[c] \in {"commit", "retire", "done"}
           /\ pc'[c] = "commit" => Kind(c) \in MailBeforeCommit /\ pc[c] = "mail" /\ held'[c] = held[c] /\ c \in mailbox'
           /\ pc'[c] = "retire" => Kind(c) \in MailAfterCommit /\ pc[c] = "mail"
           /\ answer'[c] = "ok" => Kind(c) \in MailAfterCommit /\ pc[c] = "mail"
           /\ mailbox \subseteq mailbox' /\ mailbox' \subseteq mailbox \cup Calls
<1>0. Stays(c) /\ DOMAIN pc = Calls
  BY DEF Base
<1>1. pc[c] \notin {"away", "done"} /\ answer[c] # "ok"
  BY <1>0, MailMoves DEF Moves, Stays
<1>2. ASSUME pc[c] = "mail" PROVE wants[c] = None /\ Kind(c) \in MailBeforeCommit \cup MailAfterCommit
  BY <1>0, <1>2 DEF Stays, Fits
<1>3. CASE Answer(c, "502") \/ Answer(c, "500")
  BY <1>0, <1>1, <1>3 DEF Answer, End, Base, MailMove, Delivered, Rejected, GiveUp, ExpireTx, Deadlocked, mailVars
<1>4. CASE Delivered(c)
  <2>1. pc[c] = "mail" /\ mailbox' = mailbox \cup {c}
    BY <1>4 DEF Delivered
  <2>2. CASE Kind(c) \in MailBeforeCommit /\ Goto(c, "commit", None)
    BY <1>0, <1>1, <1>2, <2>1, <2>2 DEF Goto, Proceed, Base
  <2>3. CASE Kind(c) \notin MailBeforeCommit /\ Answer(c, "ok")
    BY <1>0, <1>1, <1>2, <2>1, <2>3 DEF Answer, End, Base
  <2>. QED  BY <1>4, <2>2, <2>3 DEF Delivered
<1>5. CASE Rejected(c) \/ GiveUp(c)
  BY <1>0, <1>1, <1>2, <1>5 DEF Rejected, GiveUp, NotSent, Goto, Proceed, Answer, End, Base
<1>. QED  BY <1>3, <1>4, <1>5 DEF MailMove, ExpireTx, Deadlocked

LEMMA MailLinks ==
    ASSUME NEW c \in Calls, Base, LinksInd, Moves(c), MailMove(c), links' = links
    PROVE  LinksInd'
<1>1. /\ seen' = seen /\ answer[c] # "ok" /\ pc'[c] \in {"commit", "retire", "done"}
      /\ pc'[c] = "commit" => Kind(c) \in MailBeforeCommit
      /\ pc'[c] = "retire" => Kind(c) \in MailAfterCommit /\ pc[c] = "mail"
      /\ answer'[c] = "ok" => Kind(c) \in MailAfterCommit /\ pc[c] = "mail"
  BY MailMoveAnswers
<1>2. Kind(c)' = Kind(c)
  BY DEF Moves, Kind
<1>3. LinkKnows(c)
  BY DEF LinksInd
<1>4. LinkKnows(c)' /\ ~Succeeded(c, ByLink)'
  BY <1>1, <1>2, <1>3 DEF LinkKnows, Succeeded, ByLink, MailAfterCommit
<1>5. links[c] # None => pc'[c] \in {"mail", "retire", "done"}
  BY <1>1 DEF LinksInd, Ids, MailBeforeCommit, MailAfterCommit
<1>. QED  BY <1>4, <1>5, LinksSame

LEMMA AgedRow ==
    ASSUME NEW r \in LinkRow, NEW s, s = [r EXCEPT !.recent = FALSE] \/ s = [r EXCEPT !.expired = TRUE]
    PROVE  s \in LinkRow /\ s # None /\ s.member = r.member /\ s.used = r.used /\ s.dead = r.dead
<1>1. CASE s = [r EXCEPT !.recent = FALSE]
  BY <1>1, NoneIsNoRow DEF LinkRow
<1>2. CASE s = [r EXCEPT !.expired = TRUE]
  BY <1>2, NoneIsNoRow DEF LinkRow
<1>. QED  BY <1>1, <1>2

LEMMA AgesLinks ==
    ASSUME NEW l \in Ids, Base, LinksInd, LinkAges(l)
    PROVE  LinksInd'
<1>1. UNCHANGED <<task, pc, held, wants, seen, answer>>
  BY DEF LinkAges, callVars
<1>2. links[l] \in LinkRow /\ DOMAIN links = Ids /\ links[l] # None
  BY DEF LinksInd, LinkAges
<1>3. /\ links' = [i \in Ids |-> links'[i]] /\ \A i \in Ids \ {l} : links'[i] = links[i]
      /\ links'[l] = [links[l] EXCEPT !.recent = FALSE] \/ links'[l] = [links[l] EXCEPT !.expired = TRUE]
  BY <1>2 DEF LinkAges
<1>4. links'[l] \in LinkRow /\ links'[l] # None /\ links'[l].member = links[l].member
      /\ links'[l].used = links[l].used /\ links'[l].dead = links[l].dead
  BY <1>2, <1>3, AgedRow
<1>5. /\ links' \in [Ids -> LinkRow \cup {None}]
      /\ \A i \in Ids : /\ links'[i] = None <=> links[i] = None
                        /\ links[i] # None => links'[i].member = links[i].member /\ (links'[i].used <=> links[i].used)
                        /\ IsPending(i)' <=> IsPending(i)
  BY <1>2, <1>3, <1>4 DEF LinksInd, IsPending
<1>6. \A i \in Calls : Kind(i)' = Kind(i) /\ On(i)' = On(i) /\ Uses(i)' = Uses(i) /\ (\A k \in Calls : Alike(i, k)' = Alike(i, k))
  BY <1>1 DEF Kind, On, Uses, Alike
<1>7. ASSUME NEW d \in Calls PROVE LinkKnows(d)'
  <2>1. LinkKnows(d)
    BY DEF LinksInd
  <2>2. Kind(d) \in MailAfterCommit => LinkKnows(d)'
    BY <1>1, <1>5, <1>6, <2>1 DEF LinkKnows, Ids, MailAfterCommit
  <2>3. Kind(d) \in {"accept", "confirm"} => LinkKnows(d)'
    BY <1>1, <1>5, <1>6, <2>1 DEF LinkKnows, Ids, MailAfterCommit
  <2>4. Kind(d) \notin MailAfterCommit \cup {"accept", "confirm"} => LinkKnows(d)'
    BY <1>6 DEF LinkKnows
  <2>. QED  BY <2>2, <2>3, <2>4
<1>8. \A d, e \in Calls :
         Succeeded(d, {"accept", "confirm"})' /\ Succeeded(e, {Kind(d)})' /\ (seen[d] = seen[e])' => d = e
  BY <1>1, <1>6 DEF LinksInd, Succeeded
<1>. QED  BY <1>1, <1>5, <1>6, <1>7, <1>8 DEF LinksInd, Ids

LEMMA LinksStep ==
    ASSUME Base, LinksInd, mailbox \subseteq Ids, [Next]_vars
    PROVE  LinksInd'
<1>1. ASSUME NEW c \in Calls, AccessStep(c) PROVE LinksInd'
  <2>0. Moves(c)
    BY <1>1, AccessMoves
  <2>1. CASE Enter(c)
    BY <2>0, <2>1, EnterLinks
  <2>2. CASE AddsMember(c) \/ SetActive(c) \/ ForDevices(c) \/ ForPasswords(c)
    BY <2>0, <2>2, GroupKinds, LinksElsewhere DEF MailAfterCommit, ByLink
  <2>3. CASE ForLinks(c)
    BY <2>0, <2>3, CheckLinkLinks, IssueLinks, RetireLinks, OpenLinkLinks, LockLinkLinks,
       LockInvitationLinks, OpenLoginLinks, ApplyLinks DEF ForLinks
  <2>. QED  BY <1>1, <2>1, <2>2, <2>3, AccessGroups
<1>2. ASSUME NEW c \in Calls, RegistrationStep(c) PROVE LinksInd'
  <2>1. Moves(c) /\ links' = links /\ Kind(c) \notin MailAfterCommit \cup ByLink
    BY <1>2, RegistrationMoves, GroupKinds DEF MailAfterCommit, ByLink
  <2>. QED  BY <2>1, LinksElsewhere
<1>3. ASSUME NEW c \in Calls, MailMove(c), UNCHANGED rest PROVE LinksInd'
  BY <1>3, MailMoves, MailLinks DEF rest, accessVars
<1>4. CASE Quiet \/ HourPasses \/ \E q \in Ids : RequestAges(q)
  <2>1. UNCHANGED callVars /\ links' = links
    BY <1>4 DEF Quiet, HourPasses, RequestAges, rest, accessVars
  <2>. QED  BY <2>1, LinksQuiet
<1>5. CASE Stop
  BY <1>5, StopQuits, LinksStop DEF accessVars
<1>. QED  BY <1>1, <1>2, <1>3, <1>4, <1>5, AgesLinks, StepCases

LEMMA BaseStep ==
    ASSUME Base, [Next]_vars
    PROVE  Base'
<1>1. CASE Quiet \/ HourPasses \/ (\E q \in Ids : RequestAges(q)) \/ \E l \in Ids : LinkAges(l)
  <2>1. UNCHANGED callVars
    BY <1>1 DEF Quiet, HourPasses, RequestAges, LinkAges
  <2>. QED  BY <2>1, QuietBase
<1>. QED  BY <1>1, StepCases, AccessMoves, RegistrationMoves, MailMoves, StopQuits

LEMMA OldGrows ==
    ASSUME NEW i, Old(i),
           (\E c \in Calls : Moves(c)) \/ UNCHANGED callVars \/ Quits
    PROVE  Old(i)'
BY DEF Old, Moves, callVars, Quits, Rests, Running

LEMMA MailboxGrows ==
    ASSUME Base, [Next]_vars
    PROVE  mailbox \subseteq mailbox' /\ mailbox' \subseteq mailbox \cup Calls
<1>1. ASSUME NEW c \in Calls, AccessStep(c) PROVE mailbox \subseteq mailbox' /\ mailbox' \subseteq mailbox \cup Calls
  <2>1. CASE Enter(c)
    BY <2>1 DEF Enter, mailVars
  <2>2. CASE AddsMember(c)
    BY <2>2 DEF AddsMember, Look, InsertPerson, InsertLogin, CommitMember, Send, mailVars
  <2>3. CASE ForDevices(c)
    BY <2>3 DEF ForDevices, ManageDevice, CommitDevice, FindDevice, Activate, Send, mailVars
  <2>4. CASE SetActive(c) \/ ForLinks(c) \/ ForPasswords(c)
    BY <2>4, GroupKinds
  <2>. QED  BY <1>1, <2>1, <2>2, <2>3, <2>4, AccessGroups
<1>2. ASSUME NEW c \in Calls, RegistrationStep(c) PROVE mailbox' = mailbox
  BY <1>2, GroupKinds
<1>3. CASE Quiet
  BY <1>3 DEF Quiet
<1>4. CASE HourPasses \/ (\E q \in Ids : RequestAges(q)) \/ \E l \in Ids : LinkAges(l)
  BY <1>4 DEF HourPasses, RequestAges, LinkAges, mailVars
<1>. QED  BY <1>1, <1>2, <1>3, <1>4, MailMoveAnswers, StopQuits, StepCases

-----------------------------------------------------------------------------
(* Requests: whoever claims a row has it locked, and an answered request stays answered. *)

Answered == {"verify", "approve"}

\* What a step means for those who look at the rows: a row that another request has locked
\* keeps its link and its status, a link is new or was there, and what is closed stays so.
RowKept(q) == requests[q] # None /\ requests'[q] # None /\ requests'[q].link = requests[q].link
New(q, c) == requests'[q] # None /\ requests'[q].link = c
Tended(q, c) ==
    /\ requests[q] # None /\ (\E d \in Calls \ {c} : RowLock(q) \in held[d]) =>
           RowKept(q) /\ requests'[q].status = requests[q].status
    /\ requests'[q] # None => RowKept(q) \/ requests'[q].link = c
    /\ Old(q) /\ Closed(q) => Closed(q)'

\* What a request that changes no row must see to.
LEMMA RowsTended ==
    ASSUME NEW c \in Calls, Base, RowsInd, Moves(c), \A q \in Ids : Tended(q, c)
    PROVE  \A d \in Calls \ {c} : RowKnows(d)'
<1>. SUFFICES ASSUME NEW d \in Calls \ {c} PROVE RowKnows(d)'
  OBVIOUS
<1>1. /\ RowKnows(d) /\ pc'[d] = pc[d] /\ held'[d] = held[d] /\ wants'[d] = wants[d] /\ seen'[d] = seen[d]
      /\ answer'[d] = answer[d] /\ Kind(d)' = Kind(d)
  BY DEF RowsInd, Moves, Kind
<1>2. \A i : Old(i) => Old(i)'
  BY OldGrows
<1>3. ASSUME HoldsRow(d)
      PROVE  /\ HoldsRow(d)' /\ requests'[seen[d].row].link = requests[seen[d].row].link
             /\ requests'[seen[d].row].status = requests[seen[d].row].status
  BY <1>1, <1>3 DEF HoldsRow, Tended, RowKept
<1>4. RegisterKnows(d)'
  BY <1>1, <1>3 DEF RowKnows, RegisterKnows, Resends
<1>5. VerifyKnows(d)'
  <2>1. CASE Kind(d) = "verify" /\ pc[d] \in {"claim", "mail", "commit"}
    <3>1. answer[d] # "ok" /\ VerifyKnows(d)
      BY <1>1, <2>1 DEF Base, Stays, RowKnows
    <3>. QED  BY <1>1, <1>2, <1>3, <2>1, <3>1 DEF VerifyKnows
  <2>2. CASE Kind(d) = "verify" /\ answer[d] = "ok"
    <3>1. Old(seen[d].link) /\ (\A q \in Ids : requests[q] # None => requests[q].link # seen[d].link) /\ pc[d] = "done"
      BY <1>1, <2>2 DEF Base, Stays, RowKnows, VerifyKnows
    <3>2. seen[d].link # c
      BY <3>1, CallsAreNew DEF Old, Moves
    <3>3. \A q \in Ids : requests'[q] # None => requests'[q].link # seen[d].link
      BY <3>1, <3>2 DEF Tended, RowKept
    <3>. QED  BY <1>1, <1>2, <3>1, <3>3 DEF VerifyKnows
  <2>. QED  BY <1>1, <2>1, <2>2 DEF VerifyKnows
<1>6. ApproveKnows(d)'
  <2>1. CASE Kind(d) = "approve" /\ pc[d] \in {"claim", "founder", "address", "give", "mail", "commit"}
    <3>1. answer[d] # "ok" /\ ApproveKnows(d)
      BY <1>1, <2>1 DEF Base, Stays, RowKnows
    <3>. QED  BY <1>1, <1>2, <1>3, <2>1, <3>1 DEF ApproveKnows
  <2>2. CASE Kind(d) = "approve" /\ answer[d] = "ok"
    <3>1. Old(seen[d].row) /\ seen[d].row \in Ids /\ Closed(seen[d].row) /\ pc[d] = "done"
      BY <1>1, <2>2 DEF Base, Stays, RowKnows, ApproveKnows
    <3>2. Closed(seen[d].row)'
      BY <1>1, <3>1 DEF Tended, Closed
    <3>. QED  BY <1>1, <1>2, <3>1, <3>2 DEF ApproveKnows
  <2>. QED  BY <1>1, <2>1, <2>2 DEF ApproveKnows
<1>. QED  BY <1>1, <1>4, <1>5, <1>6 DEF RowKnows, RowLock

\* What a request must see to, whether it changes a row or not.
LEMMA RowsMove ==
    ASSUME NEW c \in Calls, Base, RowsInd, Moves(c), RowKnows(c)',
           requests' \in [Ids -> RequestRow \cup {None}], hits' \in [Addresses -> 0..MaxEmails],
           \A q \in Ids : Tended(q, c),
           \A q \in Ids : requests'[q] # None => Old(q)' /\ (RowKept(q) \/ pc'[c] = "done"),
           \A p, q \in Ids : New(p, c) /\ New(q, c) => p = q,
           Succeeded(c, {"verify"})' =>
              \A d \in Calls \ {c} : Succeeded(d, {"verify"}) => seen[d].link # seen'[c].link,
           Succeeded(c, {"approve"})' =>
              \A d \in Calls \ {c} : Succeeded(d, {"approve"}) => seen[d].row # seen'[c].row
    PROVE  RowsInd'
<1>1. \A d \in Calls : RowKnows(d)'
  BY RowsTended
<1>2. \A i : Old(i) => Old(i)'
  BY OldGrows
<1>3. ~Old(c)
  BY CallsAreNew DEF Old, Moves
<1>4. \A q \in Ids : requests'[q] # None => Old(q)' /\ Old(requests[q].link)'
  <2>1. ASSUME NEW q \in Ids, requests'[q] # None PROVE Old(requests[q].link)'
    <3>1. CASE RowKept(q)
      <4>1. Old(requests[q].link)
        BY <3>1 DEF RowsInd, RowKept
      <4>2. requests'[q].link = requests[q].link
        BY <3>1 DEF RowKept
      <4>. QED  BY <1>2, <4>1, <4>2 DEF Old
    <3>2. CASE ~RowKept(q)
      <4>1. requests'[q].link = c /\ pc'[c] = "done"
        BY <2>1, <3>2 DEF Tended
      <4>. QED  BY <4>1 DEF Old
    <3>. QED  BY <3>1, <3>2
  <2>. QED  BY <2>1
<1>5. \A p, q \in Ids : requests'[p] # None /\ requests'[q] # None /\ requests'[p].link = requests'[q].link => p = q
  <2>1. ASSUME NEW p \in Ids, NEW q \in Ids, requests'[p] # None, requests'[q] # None, requests'[p].link = requests'[q].link
        PROVE  p = q
    <3>1. CASE requests'[p].link = c
      BY <2>1, <3>1 DEF New
    <3>2. CASE requests'[p].link # c
      <4>1. RowKept(p) /\ RowKept(q)
        BY <2>1, <3>2 DEF Tended
      <4>. QED  BY <2>1, <4>1 DEF RowKept, RowsInd
    <3>. QED  BY <3>1, <3>2
  <2>. QED  BY <2>1
<1>6. \A d \in Calls \ {c} : seen'[d] = seen[d] /\ \A K : Succeeded(d, K)' = Succeeded(d, K)
  BY DEF Moves, Succeeded, Kind
<1>7. \A d, e \in Calls : Succeeded(d, {"verify"})' /\ Succeeded(e, {"verify"})' /\ seen'[d].link = seen'[e].link => d = e
  BY <1>6 DEF RowsInd
<1>8. \A d, e \in Calls : Succeeded(d, {"approve"})' /\ Succeeded(e, {"approve"})' /\ seen'[d].row = seen'[e].row => d = e
  BY <1>6 DEF RowsInd
<1>. QED  BY <1>1, <1>4, <1>5, <1>7, <1>8 DEF RowsInd

LEMMA RowsSame ==
    ASSUME NEW c \in Calls, Base, RowsInd, Moves(c), RowKnows(c)', requests' = requests,
           hits' \in [Addresses -> 0..MaxEmails], ~Succeeded(c, Answered)'
    PROVE  RowsInd'
<1>1. \A i : Old(i) => Old(i)'
  BY OldGrows
<1>2. \A q \in Ids : Tended(q, c)
  BY DEF Tended, RowKept, Closed
<1>3. \A q \in Ids : requests'[q] # None => Old(q)' /\ RowKept(q)
  BY <1>1 DEF RowsInd, RowKept
<1>4. ~Old(c)
  BY CallsAreNew DEF Old, Moves
<1>5. \A q \in Ids : requests'[q] # None => requests'[q].link # c
  BY <1>4 DEF RowsInd
<1>6. ~Succeeded(c, {"verify"})' /\ ~Succeeded(c, {"approve"})'
  BY DEF Succeeded, Answered
<1>7. requests' \in [Ids -> RequestRow \cup {None}]
  BY DEF RowsInd
<1>8. \A p, q \in Ids : New(p, c) /\ New(q, c) => p = q
  BY <1>5 DEF New
<1>9. \A q \in Ids : requests'[q] # None => Old(q)' /\ (RowKept(q) \/ pc'[c] = "done")
  BY <1>3
<1>10. /\ Succeeded(c, {"verify"})' => \A d \in Calls \ {c} : Succeeded(d, {"verify"}) => seen[d].link # seen'[c].link
       /\ Succeeded(c, {"approve"})' => \A d \in Calls \ {c} : Succeeded(d, {"approve"}) => seen[d].row # seen'[c].row
  BY <1>6
<1>. QED  BY <1>2, <1>7, <1>8, <1>9, <1>10, RowsMove

LEMMA RowsElsewhere ==
    ASSUME NEW c \in Calls, Base, Base', RowsInd, Moves(c), requests' = requests, hits' = hits,
           Kind(c) \notin {"register", "resend", "verify", "approve", "reject"}
    PROVE  RowsInd'
<1>1. Kind(c)' = Kind(c)
  BY DEF Moves, Kind
<1>2. pc'[c] # "claim"
  <2>1. Stays(c)'
    BY DEF Base
  <2>. QED  BY <1>1, <2>1 DEF Stays, Fits
<1>3. RowKnows(c)' /\ ~Succeeded(c, Answered)'
  BY <1>1, <1>2 DEF RowKnows, RegisterKnows, VerifyKnows, ApproveKnows, Succeeded, Answered
<1>4. hits' \in [Addresses -> 0..MaxEmails]
  BY DEF RowsInd
<1>. QED  BY <1>3, <1>4, RowsSame

\* Rows age: neither their link nor their status changes.
LEMMA RowsQuiet ==
    ASSUME Base, RowsInd, UNCHANGED callVars, requests' \in [Ids -> RequestRow \cup {None}],
           hits' \in [Addresses -> 0..MaxEmails],
           \A q \in Ids : /\ requests'[q] = None <=> requests[q] = None
                          /\ requests[q] # None => /\ requests'[q].link = requests[q].link
                                                   /\ requests'[q].status = requests[q].status
    PROVE  RowsInd'
<1>1. UNCHANGED <<task, pc, held, wants, seen, answer>>
  BY DEF callVars
<1>2. \A i : Old(i)' = Old(i)
  BY <1>1 DEF Old
<1>3. ASSUME NEW d \in Calls PROVE RowKnows(d)'
  <2>1. RowKnows(d) /\ Kind(d)' = Kind(d) /\ (HoldsRow(d) => HoldsRow(d)') /\ Resends(d)' = Resends(d)
    BY <1>1 DEF RowsInd, Kind, HoldsRow, RowLock, Resends
  <2>2. RegisterKnows(d)'
    BY <1>1, <2>1 DEF RowKnows, RegisterKnows
  <2>3. VerifyKnows(d)'
    BY <1>1, <1>2, <2>1 DEF RowKnows, VerifyKnows, HoldsRow, Old
  <2>4. ApproveKnows(d)'
    BY <1>1, <1>2, <2>1 DEF RowKnows, ApproveKnows, HoldsRow, Old, Closed
  <2>. QED  BY <1>1, <2>1, <2>2, <2>3, <2>4 DEF RowKnows, RowLock
<1>4. \A q \in Ids : requests'[q] # None => Old(q)' /\ Old(requests[q].link)'
  BY <1>1 DEF RowsInd, Old
<1>. QED  BY <1>1, <1>3, <1>4 DEF RowsInd, Succeeded, Kind

LEMMA RowsStop ==
    ASSUME Base, RowsInd, Quits, requests' = requests, hits' \in [Addresses -> 0..MaxEmails]
    PROVE  RowsInd'
<1>1. task' = task /\ seen' = seen
      /\ \A d \in Calls : /\ answer'[d] = "ok" => answer[d] = "ok"
                          /\ pc'[d] \in {"away", "idle", "done"} /\ (pc'[d] # "done" => pc'[d] = pc[d])
                          /\ Kind(d)' = Kind(d)
  BY DEF Quits, Rests, Running, Kind
<1>2. \A i : Old(i) => Old(i)'
  BY OldGrows
<1>3. ASSUME NEW d \in Calls PROVE RowKnows(d)'
  <2>1. RowKnows(d)
    BY DEF RowsInd
  <2>2. RegisterKnows(d)'
    BY <1>1, <2>1 DEF RowKnows, RegisterKnows
  <2>3. VerifyKnows(d)'
    BY <1>1, <1>2, <2>1 DEF RowKnows, VerifyKnows
  <2>4. ApproveKnows(d)'
    BY <1>1, <1>2, <2>1 DEF RowKnows, ApproveKnows, Closed
  <2>. QED  BY <1>1, <2>1, <2>2, <2>3, <2>4 DEF RowKnows
<1>4. \A q \in Ids : requests'[q] # None => Old(q)' /\ Old(requests[q].link)'
  <2>1. ASSUME NEW q \in Ids, requests'[q] # None PROVE Old(q)' /\ Old(requests[q].link)'
    <3>1. Old(q) /\ Old(requests[q].link) /\ requests'[q].link = requests[q].link
      BY <2>1 DEF RowsInd
    <3>. QED  BY <1>2, <3>1 DEF Old
  <2>. QED  BY <2>1
<1>5. \A d \in Calls : \A K : Succeeded(d, K)' => Succeeded(d, K)
  BY <1>1 DEF Succeeded
<1>. QED  BY <1>1, <1>3, <1>4, <1>5 DEF RowsInd

Registers == {"register", "resend"}

\* Those that register know no more than which row they resend to.
LEMMA RegisterRows ==
    ASSUME NEW c \in Calls, Base, RowsInd, Moves(c), Kind(c) \in Registers, requests' = requests,
           hits' \in [Addresses -> 0..MaxEmails],
           \/ pc'[c] = "done"
           \/ pc'[c] \in {"find", "insert", "again"} /\ seen'[c] = None
           \/ pc'[c] = "claim" /\ Resends(c)' /\ wants'[c] = RowLock(seen'[c].row)
           \/ pc'[c] \in {"mail", "commit"} /\ (seen'[c] = None \/ (Resends(c)' /\ HoldsRow(c)'))
    PROVE  RowsInd'
<1>1. Kind(c)' = Kind(c) /\ Kind(c) \notin Answered
  BY DEF Moves, Kind, Registers, Answered
<1>2. pc'[c] = "claim" => wants'[c] = RowLock(seen'[c].row) /\ seen'[c].row \in Ids
  BY DEF Resends
<1>3. RowKnows(c)' /\ ~Succeeded(c, Answered)'
  BY <1>1, <1>2 DEF RowKnows, RegisterKnows, VerifyKnows, ApproveKnows, Succeeded, Registers, Answered, RowLock
<1>. QED  BY <1>3, RowsSame

LEMMA ChallengeRows ==
    ASSUME NEW c \in Calls, Base, RowsInd, Moves(c), Challenge(c)
    PROVE  RowsInd'
<1>1. /\ pc[c] = "idle" /\ Kind(c) \in Registers /\ requests' = requests /\ hits' = hits
      /\ (\E a : Answer(c, a)) \/ Goto(c, "find", None)
  BY DEF Challenge, At, rest, Registers
<1>2. seen[c] = None
  BY <1>1 DEF RowsInd, RowKnows, RegisterKnows, Registers
<1>3. pc'[c] = "done" \/ (pc'[c] = "find" /\ seen'[c] = None)
  BY <1>1, <1>2 DEF Answer, Goto, End, Proceed, Base
<1>. QED  BY <1>1, <1>3, RegisterRows DEF RowsInd

LEMMA FindRequestRows ==
    ASSUME NEW c \in Calls, Base, RowsInd, Moves(c), FindRequest(c)
    PROVE  RowsInd'
<1>1. pc[c] \in {"find", "again"} /\ requests' = requests
  BY DEF FindRequest, At
<1>2. Kind(c) \in Registers /\ task[c] \in Tasks
  BY <1>1 DEF Base, Stays, Fits, Registers
<1>3. Address(c) \in Addresses
  BY <1>2, TasksHaveTheirParts DEF Address, Kind, Registers
<1>4. seen[c] = None
  BY <1>1, <1>2 DEF RowsInd, RowKnows, RegisterKnows, Registers
<1>5. ASSUME Allowed(Address(c)), Count(Address(c)) PROVE hits' \in [Addresses -> 0..MaxEmails]
  BY <1>3, <1>5, RegistrationBounds DEF Allowed, Count, RowsInd
<1>6. hits' = hits => hits' \in [Addresses -> 0..MaxEmails]
  BY DEF RowsInd
<1>7. CASE Answer(c, "ok") /\ hits' = hits
  <2>1. pc'[c] = "done"
    BY <1>7 DEF Answer, End, Base
  <2>. QED  BY <1>1, <1>2, <1>6, <1>7, <2>1, RegisterRows
<1>8. CASE Allowed(Address(c)) /\ Count(Address(c)) /\ Goto(c, "insert", <<"request of", Address(c)>>)
  <2>1. pc'[c] = "insert" /\ seen'[c] = None
    BY <1>4, <1>8 DEF Goto, Proceed, Base
  <2>. QED  BY <1>1, <1>2, <1>5, <1>8, <2>1, RegisterRows
<1>9. ASSUME NEW q \in LiveRequests(Address(c)), Allowed(Address(c)), Count(Address(c)),
             GotoSeeing(c, "claim", <<"request", q>>, [row |-> q, sent |-> requests[q].sent])
      PROVE  RowsInd'
  <2>1. q \in Ids /\ requests[q] \in RequestRow
    BY DEF LiveRequests, RowsInd
  <2>2. requests[q].sent \in Nat
    BY <2>1 DEF RequestRow
  <2>3. pc'[c] = "claim" /\ wants'[c] = <<"request", q>> /\ seen'[c] = [row |-> q, sent |-> requests[q].sent]
    BY <1>9 DEF GotoSeeing, Proceed, Base
  <2>4. Resends(c)' /\ wants'[c] = RowLock(seen'[c].row)
    BY <2>1, <2>2, <2>3 DEF Resends, RowLock
  <2>. QED  BY <1>1, <1>2, <1>5, <1>9, <2>3, <2>4, RegisterRows
<1>. QED  BY <1>7, <1>8, <1>9 DEF FindRequest

LEMMA InsertRequestRows ==
    ASSUME NEW c \in Calls, Base, RowsInd, Moves(c), InsertRequest(c)
    PROVE  RowsInd'
<1>1. /\ pc[c] = "insert" /\ requests' = requests /\ hits' = hits
      /\ Restart(c, "again") \/ Goto(c, "mail", None)
  BY DEF InsertRequest, At, rest
<1>2. Kind(c) \in Registers
  BY <1>1 DEF Base, Stays, Fits, Registers
<1>3. seen[c] = None
  BY <1>1, <1>2 DEF RowsInd, RowKnows, RegisterKnows, Registers
<1>4. pc'[c] \in {"again", "mail"} /\ seen'[c] = None
  BY <1>1, <1>3 DEF Restart, Goto, End, Proceed, Base
<1>. QED  BY <1>1, <1>2, <1>4, RegisterRows DEF RowsInd

\* Who claims a row gets its lock.
LEMMA ClaimLocks ==
    ASSUME NEW c \in Calls, Base, RowsInd, pc[c] = "claim", NEW where, NEW lock, Proceed(c, where, lock)
    PROVE  seen[c].row \in Ids /\ RowLock(seen[c].row) \in held'[c]
<1>1. wants[c] = RowLock(seen[c].row) /\ seen[c].row \in Ids
  BY DEF RowsInd, RowKnows
<1>2. wants[c] # None
  BY <1>1, NoneIsNoLock DEF RowLock
<1>. QED  BY <1>1, <1>2 DEF Proceed, Base

LEMMA ClaimResendRows ==
    ASSUME NEW c \in Calls, Base, RowsInd, Moves(c), ClaimResend(c)
    PROVE  RowsInd'
<1>1. /\ pc[c] = "claim" /\ Kind(c) \in Registers /\ requests' = requests /\ hits' = hits
      /\ Answer(c, "ok") \/ (requests[seen[c].row] # None /\ Goto(c, "mail", None))
  BY DEF ClaimResend, At, rest, Registers
<1>2. Resends(c)
  BY <1>1 DEF RowsInd, RowKnows, RegisterKnows, Registers
<1>3. CASE Answer(c, "ok")
  <2>1. pc'[c] = "done"
    BY <1>3 DEF Answer, End, Base
  <2>. QED  BY <1>1, <2>1, RegisterRows DEF RowsInd
<1>4. CASE requests[seen[c].row] # None /\ Goto(c, "mail", None)
  <2>1. pc'[c] = "mail" /\ seen'[c] = seen[c]
    BY <1>4 DEF Goto, Proceed, Base
  <2>2. Resends(c)' /\ HoldsRow(c)'
    BY <1>1, <1>2, <1>4, <2>1, ClaimLocks DEF Resends, HoldsRow, Goto, RowLock
  <2>. QED  BY <1>1, <2>1, <2>2, RegisterRows DEF RowsInd
<1>. QED  BY <1>1, <1>3, <1>4

\* One row is written, which is new or which no other request has locked.
LEMMA RowWrites ==
    ASSUME NEW c \in Calls, Base, RowsInd, Moves(c), pc'[c] = "done", NEW q \in Ids, NEW v \in RequestRow,
           requests' = [requests EXCEPT ![q] = v],
           \/ q = c /\ v.link = c
           \/ /\ requests[q] # None /\ (\A d \in Calls \ {c} : RowLock(q) \notin held[d])
              /\ v.link \in {c, requests[q].link}
              /\ Closed(q) => v.status \in {"aprobado", "rechazado"}
    PROVE  /\ requests' \in [Ids -> RequestRow \cup {None}]
           /\ \A p \in Ids : Tended(p, c)
           /\ \A p \in Ids : requests'[p] # None => Old(p)' /\ (RowKept(p) \/ pc'[c] = "done")
           /\ \A p, r \in Ids : New(p, c) /\ New(r, c) => p = r
           /\ requests'[q] = v /\ v # None
<1>1. v # None
  BY NoneIsNoRequest
<1>2. DOMAIN requests = Ids /\ requests'[q] = v /\ \A p \in Ids \ {q} : requests'[p] = requests[p]
  BY DEF RowsInd
<1>3. requests' \in [Ids -> RequestRow \cup {None}]
  BY DEF RowsInd
<1>4. ~Old(c)
  BY CallsAreNew DEF Old, Moves
<1>5. q = c => requests[q] = None
  BY <1>4 DEF RowsInd
<1>6. \A p \in Ids \ {q} : Tended(p, c)
  BY <1>2 DEF Tended, RowKept, Closed
<1>7. Tended(q, c)
  BY <1>1, <1>2, <1>4, <1>5 DEF Tended, RowKept, Closed
<1>8. \A i : Old(i) => Old(i)'
  BY OldGrows
<1>9. Old(c)'
  BY DEF Old
<1>10. ASSUME NEW p \in Ids, requests'[p] # None PROVE Old(p)'
  BY <1>2, <1>8, <1>9, <1>10 DEF RowsInd
<1>11. \A p \in Ids : requests[p] # None => requests[p].link # c
  BY <1>4 DEF RowsInd
<1>12. \A p \in Ids : New(p, c) => p = q
  BY <1>2, <1>11 DEF New
<1>. QED  BY <1>1, <1>2, <1>3, <1>6, <1>7, <1>10, <1>12

\* The values that a row gets.
LEMMA RowEdits ==
    ASSUME NEW r \in RequestRow, NEW l \in Ids, NEW v,
           \/ v = [r EXCEPT !.link = l, !.sent = r.sent + 1, !.recent = TRUE, !.lapsed = FALSE]
           \/ v = [r EXCEPT !.status = "pendiente", !.link = l, !.lapsed = FALSE, !.old = FALSE]
           \/ v = [r EXCEPT !.status = "aprobado", !.business = l, !.old = FALSE]
           \/ v = [r EXCEPT !.status = "rechazado", !.old = FALSE]
           \/ v = [r EXCEPT !.recent = FALSE] \/ v = [r EXCEPT !.lapsed = TRUE] \/ v = [r EXCEPT !.old = TRUE]
    PROVE  v \in RequestRow
<1>1. CASE v = [r EXCEPT !.link = l, !.sent = r.sent + 1, !.recent = TRUE, !.lapsed = FALSE]
  <2>1. r.sent + 1 \in Nat
    BY DEF RequestRow
  <2>2. \A n \in Nat : [r EXCEPT !.link = l, !.sent = n, !.recent = TRUE, !.lapsed = FALSE] \in RequestRow
    BY DEF RequestRow
  <2>. QED  BY <1>1, <2>1, <2>2
<1>2. CASE v = [r EXCEPT !.status = "pendiente", !.link = l, !.lapsed = FALSE, !.old = FALSE]
  BY <1>2 DEF RequestRow, Statuses
<1>3. CASE v = [r EXCEPT !.status = "aprobado", !.business = l, !.old = FALSE]
  BY <1>3 DEF RequestRow, Statuses
<1>4. CASE v = [r EXCEPT !.status = "rechazado", !.old = FALSE]
  BY <1>4 DEF RequestRow, Statuses
<1>5. CASE v = [r EXCEPT !.recent = FALSE] \/ v = [r EXCEPT !.lapsed = TRUE] \/ v = [r EXCEPT !.old = TRUE]
  BY <1>5 DEF RequestRow
<1>. QED  BY <1>1, <1>2, <1>3, <1>4, <1>5

\* The row that a request holds is held by no other.
LEMMA HeldAlone ==
    ASSUME NEW c \in Calls, Base, HoldsRow(c)
    PROVE  \A d \in Calls \ {c} : RowLock(seen[c].row) \notin held[d]
BY DEF Base, HoldsRow

LEMMA CommitVerificationRows ==
    ASSUME NEW c \in Calls, Base, RowsInd, Moves(c), CommitVerification(c)
    PROVE  RowsInd'
<1>1. pc[c] = "commit" /\ Kind(c) \in Registers /\ Answer(c, "ok") /\ hits' = hits /\ c \in Ids
  BY DEF CommitVerification, At, Registers, Ids
<1>2. pc'[c] = "done" /\ Kind(c)' = Kind(c)
  BY <1>1 DEF Answer, End, Base, Moves, Kind
<1>3. task[c] \in Tasks
  BY <1>1 DEF Base, Stays
<1>4. Address(c) \in Addresses
  BY <1>1, <1>3, TasksHaveTheirParts DEF Address, Kind, Registers
<1>5. seen[c] = None \/ (Resends(c) /\ HoldsRow(c))
  BY <1>1 DEF RowsInd, RowKnows, RegisterKnows, Registers
<1>6. RowKnows(c)' /\ ~Succeeded(c, {"verify"})' /\ ~Succeeded(c, {"approve"})'
  BY <1>1, <1>2 DEF RowKnows, RegisterKnows, VerifyKnows, ApproveKnows, Succeeded, Registers
<1>7. hits' \in [Addresses -> 0..MaxEmails]
  BY <1>1 DEF RowsInd
<1>8. ASSUME NEW q \in Ids, NEW v \in RequestRow, requests' = [requests EXCEPT ![q] = v],
             \/ q = c /\ v.link = c
             \/ /\ requests[q] # None /\ (\A d \in Calls \ {c} : RowLock(q) \notin held[d])
                /\ v.link \in {c, requests[q].link}
                /\ Closed(q) => v.status \in {"aprobado", "rechazado"}
      PROVE  RowsInd'
  <2>1. /\ requests' \in [Ids -> RequestRow \cup {None}]
        /\ \A p \in Ids : Tended(p, c)
        /\ \A p \in Ids : requests'[p] # None => Old(p)' /\ (RowKept(p) \/ pc'[c] = "done")
        /\ \A p, r \in Ids : New(p, c) /\ New(r, c) => p = r
    BY <1>2, <1>8, RowWrites
  <2>. QED  BY <1>6, <1>7, <2>1, RowsMove
<1>9. CASE seen[c] = None
  <2>. DEFINE v == [correo |-> Address(c), status |-> "pendiente_correo", link |-> c, sent |-> 1,
                    business |-> None, recent |-> TRUE, lapsed |-> FALSE, old |-> FALSE]
  <2>1. v \in RequestRow /\ v.link = c
    BY <1>1, <1>4 DEF RequestRow, Statuses
  <2>2. requests' = [requests EXCEPT ![c] = v]
    BY <1>9 DEF CommitVerification
  <2>. QED  BY <1>1, <1>8, <2>1, <2>2
<1>10. CASE seen[c] # None
  <2>. DEFINE q == seen[c].row
  <2>. DEFINE v == [requests[q] EXCEPT !.link = c, !.sent = requests[q].sent + 1, !.recent = TRUE, !.lapsed = FALSE]
  <2>1. q \in Ids /\ requests[q] # None /\ requests[q] \in RequestRow
    BY <1>5, <1>10 DEF HoldsRow, RowsInd
  <2>2. v \in RequestRow
    BY <1>1, <2>1, RowEdits
  <2>3. v.link = c /\ v.status = requests[q].status
    BY <2>1 DEF RequestRow
  <2>4. requests' = [requests EXCEPT ![q] = v]
    BY <1>10 DEF CommitVerification
  <2>5. \A d \in Calls \ {c} : RowLock(q) \notin held[d]
    BY <1>5, <1>10, HeldAlone
  <2>6. Closed(q) => v.status \in {"aprobado", "rechazado"}
    BY <2>1, <2>3 DEF Closed
  <2>. HIDE DEF q, v
  <2>. QED  BY <1>8, <2>1, <2>2, <2>3, <2>4, <2>5, <2>6
<1>. QED  BY <1>9, <1>10

LEMMA VerifyRows ==
    ASSUME NEW c \in Calls, Base, RowsInd, Moves(c), Kind(c) = "verify", requests' = requests, hits' = hits, answer'[c] # "ok",
           \/ pc'[c] = "done"
           \/ /\ pc'[c] = "claim" /\ Old(seen[c].link)' /\ seen'[c].row \in Ids
              /\ wants'[c] = RowLock(seen'[c].row)
           \/ /\ pc'[c] \in {"mail", "commit"} /\ HoldsRow(c)' /\ Old(seen[c].link)'
              /\ requests[seen'[c].row].link = seen'[c].link /\ requests[seen'[c].row].status = "pendiente_correo"
    PROVE  RowsInd'
<1>1. Kind(c)' = Kind(c)
  BY DEF Moves, Kind
<1>2. RowKnows(c)' /\ ~Succeeded(c, Answered)'
  BY <1>1 DEF RowKnows, RegisterKnows, VerifyKnows, ApproveKnows, Succeeded, RowLock
<1>. QED  BY <1>2, RowsSame DEF RowsInd

LEMMA OpenVerificationRows ==
    ASSUME NEW c \in Calls, Base, RowsInd, Moves(c), OpenVerification(c)
    PROVE  RowsInd'
<1>1. pc[c] = "idle" /\ Kind(c) = "verify" /\ requests' = requests /\ hits' = hits
  BY DEF OpenVerification, At, rest
<1>2. answer[c] # "ok"
  BY <1>1 DEF Base, Stays
<1>3. CASE Answer(c, "400")
  <2>1. pc'[c] = "done" /\ answer'[c] # "ok"
    BY <1>3 DEF Answer, End, Base
  <2>. QED  BY <1>1, <2>1, VerifyRows
<1>4. ASSUME NEW q \in Ids, NEW l, requests[q] # None, requests[q].link = l,
             GotoSeeing(c, "claim", <<"request", q>>, [row |-> q, link |-> l])
      PROVE  RowsInd'
  <2>1. Old(l)
    BY <1>4 DEF RowsInd
  <2>2. pc'[c] = "claim" /\ seen'[c] = [row |-> q, link |-> l] /\ wants'[c] = RowLock(q) /\ answer'[c] # "ok"
    BY <1>2, <1>4 DEF GotoSeeing, Proceed, Base, RowLock
  <2>3. Old(seen[c].link)'
    BY <2>1, <2>2, OldGrows DEF Old
  <2>. QED  BY <1>1, <2>2, <2>3, VerifyRows
<1>. QED  BY <1>3, <1>4 DEF OpenVerification

LEMMA ClaimVerificationRows ==
    ASSUME NEW c \in Calls, Base, RowsInd, Moves(c), ClaimVerification(c)
    PROVE  RowsInd'
<1>1. pc[c] = "claim" /\ Kind(c) = "verify" /\ requests' = requests /\ hits' = hits
  BY DEF ClaimVerification, At, rest
<1>2. answer[c] # "ok" /\ Old(seen[c].link)
  BY <1>1 DEF Base, Stays, RowsInd, RowKnows, VerifyKnows
<1>3. CASE Answer(c, "400")
  <2>1. pc'[c] = "done" /\ answer'[c] # "ok"
    BY <1>3 DEF Answer, End, Base
  <2>. QED  BY <1>1, <2>1, VerifyRows
<1>4. CASE /\ requests[seen[c].row] # None /\ requests[seen[c].row].link = seen[c].link
           /\ requests[seen[c].row].status = "pendiente_correo" /\ Goto(c, "mail", None)
  <2>1. pc'[c] = "mail" /\ seen'[c] = seen[c] /\ answer'[c] # "ok"
    BY <1>2, <1>4 DEF Goto, Proceed, Base
  <2>2. HoldsRow(c)'
    BY <1>1, <1>4, <2>1, ClaimLocks DEF HoldsRow, Goto, RowLock
  <2>3. Old(seen[c].link)'
    BY <1>2, <2>1, OldGrows DEF Old
  <2>. QED  BY <1>1, <1>4, <2>1, <2>2, <2>3, VerifyRows
<1>. QED  BY <1>3, <1>4 DEF ClaimVerification

LEMMA CommitConfirmationRows ==
    ASSUME NEW c \in Calls, Base, RowsInd, Moves(c), CommitConfirmation(c)
    PROVE  RowsInd'
<1>1. pc[c] = "commit" /\ Kind(c) = "verify" /\ Answer(c, "ok") /\ hits' = hits /\ c \in Ids
  BY DEF CommitConfirmation, At, Ids
<1>2. pc'[c] = "done" /\ Kind(c)' = Kind(c) /\ seen'[c] = seen[c] /\ answer'[c] = "ok"
  BY <1>1 DEF Answer, End, Base, Moves, Kind
<1>. DEFINE q == seen[c].row
<1>. DEFINE v == [requests[q] EXCEPT !.status = "pendiente", !.link = c, !.lapsed = FALSE, !.old = FALSE]
<1>3. HoldsRow(c) /\ Old(seen[c].link) /\ requests[q].link = seen[c].link /\ requests[q].status = "pendiente_correo"
  BY <1>1 DEF RowsInd, RowKnows, VerifyKnows
<1>4. q \in Ids /\ requests[q] # None /\ requests[q] \in RequestRow
  BY <1>3 DEF HoldsRow, RowsInd
<1>5. v \in RequestRow /\ v.link = c
  <2>1. v \in RequestRow
    BY <1>1, <1>4, RowEdits
  <2>2. v.link = c
    BY <1>4 DEF RequestRow
  <2>. QED  BY <2>1, <2>2
<1>6. requests' = [requests EXCEPT ![q] = v]
  BY DEF CommitConfirmation
<1>7. \A d \in Calls \ {c} : RowLock(q) \notin held[d]
  BY <1>3, HeldAlone
<1>8. ~Closed(q)
  BY <1>3, <1>4 DEF Closed
<1>. HIDE DEF q, v
<1>9. /\ requests' \in [Ids -> RequestRow \cup {None}] /\ requests'[q] = v
      /\ \A p \in Ids : Tended(p, c)
      /\ \A p \in Ids : requests'[p] # None => Old(p)' /\ (RowKept(p) \/ pc'[c] = "done")
      /\ \A p, r \in Ids : New(p, c) /\ New(r, c) => p = r
  BY <1>2, <1>4, <1>5, <1>6, <1>7, <1>8, RowWrites
<1>10. seen[c].link # c /\ Old(seen[c].link)'
  <2>1. ~Old(c)
    BY CallsAreNew DEF Old, Moves
  <2>2. Old(seen[c].link)'
    BY <1>2, <1>3, OldGrows DEF Old
  <2>. QED  BY <1>3, <2>1, <2>2
<1>11. \A p \in Ids : requests'[p] # None => requests'[p].link # seen[c].link
  <2>1. ASSUME NEW p \in Ids \ {q}, requests'[p] # None PROVE requests'[p].link # seen[c].link
    <3>1. requests'[p] = requests[p]
      BY <1>6 DEF RowsInd
    <3>. QED  BY <1>3, <1>4, <2>1, <3>1 DEF RowsInd
  <2>. QED  BY <1>5, <1>9, <1>10, <2>1
<1>12. RowKnows(c)'
  BY <1>1, <1>2, <1>10, <1>11 DEF RowKnows, RegisterKnows, VerifyKnows, ApproveKnows
<1>13. \A d \in Calls \ {c} : Succeeded(d, {"verify"}) => seen[d].link # seen'[c].link
  <2>1. ASSUME NEW d \in Calls, Succeeded(d, {"verify"}) PROVE requests[q].link # seen[d].link
    BY <1>4, <2>1 DEF RowsInd, RowKnows, VerifyKnows, Succeeded
  <2>. QED  BY <1>2, <1>3, <2>1
<1>14. ~Succeeded(c, {"approve"})' /\ hits' \in [Addresses -> 0..MaxEmails]
  BY <1>1, <1>2 DEF Succeeded, RowsInd
<1>. QED  BY <1>9, <1>12, <1>13, <1>14, RowsMove

ApproveHolds(c) ==
    /\ HoldsRow(c) /\ Old(seen[c].row) /\ requests[seen[c].row].status = "pendiente"
    /\ seen[c].name \in Addresses \cup Ids

LEMMA ApproveRows ==
    ASSUME NEW c \in Calls, Base, RowsInd, Moves(c), Kind(c) = "approve", requests' = requests, hits' = hits, answer'[c] # "ok",
           \/ pc'[c] = "done"
           \/ pc'[c] = "claim" /\ Old(seen[c].row)' /\ seen'[c].row \in Ids /\ wants'[c] = RowLock(seen'[c].row)
           \/ pc'[c] \in {"founder", "address", "give"} /\ ApproveHolds(c)'
           \/ pc'[c] \in {"mail", "commit"} /\ ApproveHolds(c)' /\ seen'[c].correo \in Addresses \cup {None}
    PROVE  RowsInd'
<1>1. Kind(c)' = Kind(c)
  BY DEF Moves, Kind
<1>2. RowKnows(c)' /\ ~Succeeded(c, Answered)'
  BY <1>1 DEF RowKnows, RegisterKnows, VerifyKnows, ApproveKnows, ApproveHolds, Succeeded, RowLock
<1>. QED  BY <1>2, RowsSame DEF RowsInd

\* What an approval has once it has claimed its row.
LEMMA ApproveKnew ==
    ASSUME NEW c \in Calls, Base, RowsInd, Kind(c) = "approve"
    PROVE  /\ pc[c] = "claim" => Old(seen[c].row)
           /\ pc[c] \in {"founder", "address", "give", "mail", "commit"} =>
                 ApproveHolds(c) /\ seen[c].row \in Ids /\ requests[seen[c].row] # None
           /\ pc[c] \in {"mail", "commit"} => seen[c].correo \in Addresses \cup {None}
           /\ pc[c] # "done" => answer[c] # "ok"
BY DEF RowsInd, RowKnows, ApproveKnows, ApproveHolds, HoldsRow, Base, Stays

LEMMA ResolveRows ==
    ASSUME NEW c \in Calls, Base, RowsInd, Moves(c), Resolve(c)
    PROVE  RowsInd'
<1>1. pc[c] = "idle" /\ Kind(c) \in {"approve", "reject"} /\ requests' = requests /\ hits' = hits
  BY DEF Resolve, At, rest
<1>2. answer[c] # "ok"
  BY <1>1 DEF Base, Stays
<1>3. \/ \E a \in {"404", "already", "expired"} : Answer(c, a)
      \/ \E q \in Ids : requests[q] # None /\ GotoSeeing(c, "claim", <<"request", q>>, [row |-> q])
  BY DEF Resolve
<1>4. CASE \E a \in {"404", "already", "expired"} : Answer(c, a)
  <2>1. pc'[c] = "done" /\ answer'[c] # "ok"
    BY <1>4 DEF Answer, End, Base
  <2>2. Kind(c)' = Kind(c)
    BY DEF Moves, Kind
  <2>3. RowKnows(c)' /\ ~Succeeded(c, Answered)'
    BY <1>1, <2>1, <2>2 DEF RowKnows, RegisterKnows, VerifyKnows, ApproveKnows, Succeeded
  <2>. QED  BY <1>1, <2>3, RowsSame DEF RowsInd
<1>5. ASSUME NEW q \in Ids, requests[q] # None, GotoSeeing(c, "claim", <<"request", q>>, [row |-> q])
      PROVE  RowsInd'
  <2>1. pc'[c] = "claim" /\ seen'[c] = [row |-> q] /\ wants'[c] = RowLock(q) /\ answer'[c] # "ok"
    BY <1>2, <1>5 DEF GotoSeeing, Proceed, Base, RowLock
  <2>2. Old(q)
    BY <1>5 DEF RowsInd
  <2>3. Old(seen[c].row)'
    BY <2>1, <2>2, OldGrows DEF Old
  <2>4. Kind(c)' = Kind(c)
    BY DEF Moves, Kind
  <2>5. RowKnows(c)' /\ ~Succeeded(c, Answered)'
    BY <1>1, <2>1, <2>3, <2>4 DEF RowKnows, RegisterKnows, VerifyKnows, ApproveKnows, Succeeded, RowLock
  <2>. QED  BY <1>1, <2>5, RowsSame DEF RowsInd
<1>. QED  BY <1>3, <1>4, <1>5

LEMMA ClaimApprovalRows ==
    ASSUME NEW c \in Calls, Base, RowsInd, Moves(c), ClaimApproval(c)
    PROVE  RowsInd'
<1>1. pc[c] = "claim" /\ Kind(c) = "approve" /\ requests' = requests /\ hits' = hits
  BY DEF ClaimApproval, At, rest
<1>2. answer[c] # "ok" /\ Old(seen[c].row)
  BY <1>1, ApproveKnew
<1>3. CASE Answer(c, "already")
  <2>1. pc'[c] = "done" /\ answer'[c] # "ok"
    BY <1>3 DEF Answer, End, Base
  <2>. QED  BY <1>1, <2>1, ApproveRows
<1>4. ASSUME NEW name, name = Username(c, requests[seen[c].row].correo),
             requests[seen[c].row] # None, requests[seen[c].row].status = "pendiente",
             GotoSeeing(c, "founder", <<"login", name>>, [row |-> seen[c].row, name |-> name])
      PROVE  RowsInd'
  <2>1. pc'[c] = "founder" /\ seen'[c] = [row |-> seen[c].row, name |-> name] /\ answer'[c] # "ok"
    BY <1>2, <1>4 DEF GotoSeeing, Proceed, Base
  <2>2. seen[c].row \in Ids /\ RowLock(seen[c].row) \in held'[c]
    BY <1>1, <1>4, ClaimLocks DEF GotoSeeing
  <2>3. requests[seen[c].row].correo \in Addresses
    BY <1>4, <2>2 DEF RowsInd, RequestRow
  <2>4. name \in Addresses \cup Ids
    BY <1>4, <2>3 DEF Username, Ids
  <2>5. Old(seen[c].row)'
    BY <1>2, <2>1, OldGrows DEF Old
  <2>6. ApproveHolds(c)'
    BY <1>1, <1>4, <2>1, <2>2, <2>4, <2>5 DEF ApproveHolds, HoldsRow, RowLock
  <2>. QED  BY <1>1, <2>1, <2>6, ApproveRows
<1>. QED  BY <1>3, <1>4 DEF ClaimApproval

LEMMA FounderRows ==
    ASSUME NEW c \in Calls, Base, RowsInd, Moves(c), InsertFounder(c) \/ FindAddress(c) \/ GiveAddress(c)
    PROVE  RowsInd'
<1>1. pc[c] \in {"founder", "address", "give"} /\ requests' = requests /\ hits' = hits
  BY DEF InsertFounder, FindAddress, GiveAddress, At, rest
<1>2. Kind(c) = "approve"
  BY <1>1 DEF Base, Stays, Fits
<1>3. ApproveHolds(c) /\ seen[c].row \in Ids /\ requests[seen[c].row] # None /\ answer[c] # "ok"
  BY <1>1, <1>2, ApproveKnew
<1>4. ASSUME seen'[c].row = seen[c].row, seen'[c].name = seen[c].name, held[c] \subseteq held'[c]
      PROVE  ApproveHolds(c)'
  <2>1. Old(seen[c].row)'
    BY <1>3, <1>4, OldGrows DEF Old, ApproveHolds
  <2>. QED  BY <1>1, <1>3, <1>4, <2>1 DEF ApproveHolds, HoldsRow, RowLock
<1>5. CASE Answer(c, "502") \/ Answer(c, "500")
  <2>1. pc'[c] = "done" /\ answer'[c] # "ok"
    BY <1>5 DEF Answer, End, Base
  <2>. QED  BY <1>1, <1>2, <2>1, ApproveRows
<1>6. ASSUME NEW lock, Goto(c, "address", lock) \/ Goto(c, "give", lock) PROVE RowsInd'
  <2>1. pc'[c] \in {"address", "give"} /\ answer'[c] # "ok" /\ seen'[c] = seen[c] /\ held[c] \subseteq held'[c]
    BY <1>3, <1>6 DEF Goto, Proceed, Base
  <2>. QED  BY <1>1, <1>2, <1>4, <2>1, ApproveRows
<1>7. ASSUME NEW x \in Addresses \cup {None},
             GotoSeeing(c, "mail", None, [row |-> seen[c].row, name |-> seen[c].name, correo |-> x])
      PROVE  RowsInd'
  <2>1. /\ pc'[c] = "mail" /\ answer'[c] # "ok" /\ held[c] \subseteq held'[c]
        /\ seen'[c] = [row |-> seen[c].row, name |-> seen[c].name, correo |-> x]
    BY <1>3, <1>7 DEF GotoSeeing, Proceed, Base
  <2>. QED  BY <1>1, <1>2, <1>4, <2>1, ApproveRows
<1>8. CASE InsertFounder(c)
  BY <1>5, <1>6, <1>8 DEF InsertFounder
<1>9. CASE FindAddress(c) \/ GiveAddress(c)
  <2>1. requests[seen[c].row].correo \in Addresses
    BY <1>3 DEF RowsInd, RequestRow
  <2>. QED  BY <1>5, <1>6, <1>7, <1>9, <2>1 DEF FindAddress, GiveAddress, SendCredentials
<1>. QED  BY <1>8, <1>9

LEMMA CommitApprovalRows ==
    ASSUME NEW c \in Calls, Base, RowsInd, Moves(c), CommitApproval(c)
    PROVE  RowsInd'
<1>1. pc[c] = "commit" /\ Kind(c) = "approve" /\ Answer(c, "ok") /\ hits' = hits /\ c \in Ids
  BY DEF CommitApproval, At, Ids
<1>2. pc'[c] = "done" /\ Kind(c)' = Kind(c) /\ seen'[c] = seen[c] /\ answer'[c] = "ok"
  BY <1>1 DEF Answer, End, Base, Moves, Kind
<1>. DEFINE q == seen[c].row
<1>. DEFINE v == [requests[q] EXCEPT !.status = "aprobado", !.business = c, !.old = FALSE]
<1>3. HoldsRow(c) /\ Old(q) /\ requests[q].status = "pendiente"
  BY <1>1, ApproveKnew DEF ApproveHolds
<1>4. q \in Ids /\ requests[q] # None /\ requests[q] \in RequestRow
  BY <1>3 DEF HoldsRow, RowsInd
<1>5. v \in RequestRow /\ v.link = requests[q].link /\ v.status = "aprobado"
  <2>1. v \in RequestRow
    BY <1>1, <1>4, RowEdits
  <2>2. v.link = requests[q].link /\ v.status = "aprobado"
    BY <1>4 DEF RequestRow
  <2>. QED  BY <2>1, <2>2
<1>6. requests' = [requests EXCEPT ![q] = v]
  BY DEF CommitApproval
<1>7. \A d \in Calls \ {c} : RowLock(q) \notin held[d]
  BY <1>3, HeldAlone
<1>8. ~Closed(q) /\ q = seen[c].row
  BY <1>3, <1>4 DEF Closed
<1>. HIDE DEF q, v
<1>9. /\ requests' \in [Ids -> RequestRow \cup {None}] /\ requests'[q] = v
      /\ \A p \in Ids : Tended(p, c)
      /\ \A p \in Ids : requests'[p] # None => Old(p)' /\ (RowKept(p) \/ pc'[c] = "done")
      /\ \A p, r \in Ids : New(p, c) /\ New(r, c) => p = r
  BY <1>2, <1>4, <1>5, <1>6, <1>7, <1>8, RowWrites
<1>10. Old(seen[c].row)' /\ Closed(seen[c].row)'
  <2>1. Old(seen[c].row)'
    BY <1>2, <1>3, <1>8, OldGrows DEF Old
  <2>. QED  BY <2>1, <1>2, <1>5, <1>8, <1>9 DEF Closed
<1>11. RowKnows(c)'
  BY <1>1, <1>2, <1>4, <1>8, <1>10 DEF RowKnows, RegisterKnows, VerifyKnows, ApproveKnows
<1>12. \A d \in Calls \ {c} : Succeeded(d, {"approve"}) => seen[d].row # seen'[c].row
  <2>1. ASSUME NEW d \in Calls, Succeeded(d, {"approve"}) PROVE Closed(seen[d].row)
    BY <2>1 DEF RowsInd, RowKnows, ApproveKnows, Succeeded
  <2>. QED  BY <1>2, <1>8, <2>1
<1>13. ~Succeeded(c, {"verify"})' /\ hits' \in [Addresses -> 0..MaxEmails]
  BY <1>1, <1>2 DEF Succeeded, RowsInd
<1>. QED  BY <1>9, <1>11, <1>12, <1>13, RowsMove

LEMMA RejectRows ==
    ASSUME NEW c \in Calls, Base, RowsInd, Moves(c), Reject(c)
    PROVE  RowsInd'
<1>1. /\ pc[c] = "claim" /\ Kind(c) = "reject" /\ hits' = hits /\ Granted(c)
      /\ wants[c] = RowLock(seen[c].row) /\ seen[c].row \in Ids
  BY DEF Reject, At, RowsInd, RowKnows
<1>2. Kind(c)' = Kind(c) /\ pc'[c] = "done"
  BY DEF Moves, Kind, Reject, Answer, End, Base
<1>3. RowKnows(c)' /\ ~Succeeded(c, Answered)' /\ ~Succeeded(c, {"verify"})' /\ ~Succeeded(c, {"approve"})'
  BY <1>1, <1>2 DEF RowKnows, RegisterKnows, VerifyKnows, ApproveKnows, Succeeded, Answered
<1>4. CASE requests' = requests
  BY <1>1, <1>3, <1>4, RowsSame DEF RowsInd
<1>5. CASE requests[seen[c].row] # None /\ requests' # requests
  <2>. DEFINE q == seen[c].row
  <2>. DEFINE v == [requests[q] EXCEPT !.status = "rechazado", !.old = FALSE]
  <2>1. q \in Ids /\ requests[q] # None /\ requests[q] \in RequestRow
    BY <1>1, <1>5 DEF RowsInd
  <2>2. v \in RequestRow
    BY <1>1, <2>1, RowEdits
  <2>3. v.link = requests[q].link /\ v.status = "rechazado"
    BY <2>1 DEF RequestRow
  <2>4. requests' = [requests EXCEPT ![q] = v]
    BY <1>5 DEF Reject
  <2>5. \A d \in Calls \ {c} : RowLock(q) \notin held[d]
    BY <1>1, NoneIsNoLock DEF Granted, Free, RowLock
  <2>. HIDE DEF q, v
  <2>6. /\ requests' \in [Ids -> RequestRow \cup {None}]
        /\ \A p \in Ids : Tended(p, c)
        /\ \A p \in Ids : requests'[p] # None => Old(p)' /\ (RowKept(p) \/ pc'[c] = "done")
        /\ \A p, r \in Ids : New(p, c) /\ New(r, c) => p = r
    BY <1>2, <2>1, <2>2, <2>3, <2>4, <2>5, RowWrites
  <2>7. hits' \in [Addresses -> 0..MaxEmails]
    BY <1>1 DEF RowsInd
  <2>. QED  BY <1>3, <2>6, <2>7, RowsMove
<1>. QED  BY <1>4, <1>5 DEF Reject

LEMMA DeleteRows ==
    ASSUME NEW c \in Calls, Base, Base', RowsInd, Moves(c), Delete(c)
    PROVE  RowsInd'
<1>1. /\ pc[c] = "delete" /\ hits' = hits /\ (\A q \in seen[c].rows : Free(c, <<"request", q>>))
      /\ requests' = [q \in Ids |-> IF q \in seen[c].rows THEN None ELSE requests[q]]
  BY DEF Delete, At
<1>2. Kind(c) = "cleanup" /\ Kind(c)' = "cleanup"
  BY <1>1 DEF Base, Stays, Fits, Moves, Kind
<1>3. Stays(c)'
  BY DEF Base
<1>4. RowKnows(c)' /\ ~Succeeded(c, {"verify"})' /\ ~Succeeded(c, {"approve"})'
  BY <1>2, <1>3 DEF RowKnows, RegisterKnows, VerifyKnows, ApproveKnows, Succeeded, Stays, Fits
<1>5. \A q \in Ids : Tended(q, c)
  <2>1. ASSUME NEW q \in Ids, q \in seen[c].rows PROVE Tended(q, c)
    <3>1. \A d \in Calls \ {c} : RowLock(q) \notin held[d]
      BY <1>1, <2>1 DEF Free, RowLock
    <3>. QED  BY <1>1, <2>1, <3>1 DEF Tended, Closed
  <2>2. ASSUME NEW q \in Ids, q \notin seen[c].rows PROVE Tended(q, c)
    BY <1>1, <2>2 DEF Tended, RowKept, Closed
  <2>. QED  BY <2>1, <2>2
<1>6. \A q \in Ids : requests'[q] # None => requests'[q] = requests[q]
  BY <1>1
<1>7. \A i : Old(i) => Old(i)'
  BY OldGrows
<1>8. \A q \in Ids : requests'[q] # None => Old(q)' /\ (RowKept(q) \/ pc'[c] = "done")
  BY <1>6, <1>7 DEF RowsInd, RowKept
<1>9. ~Old(c)
  BY CallsAreNew DEF Old, Moves
<1>10. \A p, q \in Ids : New(p, c) /\ New(q, c) => p = q
  BY <1>6, <1>9 DEF New, RowsInd
<1>11. requests' \in [Ids -> RequestRow \cup {None}] /\ hits' \in [Addresses -> 0..MaxEmails]
  BY <1>1 DEF RowsInd
<1>. QED  BY <1>4, <1>5, <1>8, <1>10, <1>11, RowsMove

LEMMA MailRows ==
    ASSUME NEW c \in Calls, Base, Base', RowsInd, Moves(c), MailMove(c), requests' = requests, hits' = hits
    PROVE  RowsInd'
<1>1. /\ seen' = seen /\ answer[c] # "ok" /\ pc'[c] \in {"commit", "retire", "done"}
      /\ pc'[c] = "commit" => pc[c] = "mail" /\ held'[c] = held[c]
      /\ answer'[c] = "ok" => Kind(c) \in MailAfterCommit
  BY MailMoveAnswers
<1>2. RowKnows(c) /\ Kind(c)' = Kind(c)
  BY DEF RowsInd, Moves, Kind
<1>3. \A i : Old(i) => Old(i)'
  BY OldGrows
<1>4. pc'[c] = "commit" => HoldsRow(c)' = HoldsRow(c)
  BY <1>1 DEF HoldsRow, RowLock
<1>5. RegisterKnows(c)'
  BY <1>1, <1>2, <1>4 DEF RowKnows, RegisterKnows, Resends
<1>6. VerifyKnows(c)'
  BY <1>1, <1>2, <1>3, <1>4 DEF RowKnows, VerifyKnows, MailAfterCommit
<1>7. ApproveKnows(c)'
  BY <1>1, <1>2, <1>3, <1>4 DEF RowKnows, ApproveKnows, MailAfterCommit
<1>8. RowKnows(c)' /\ ~Succeeded(c, Answered)'
  BY <1>1, <1>2, <1>5, <1>6, <1>7 DEF RowKnows, Succeeded, Answered, MailAfterCommit
<1>. QED  BY <1>8, RowsSame DEF RowsInd

LEMMA AgesRows ==
    ASSUME NEW q \in Ids, Base, RowsInd, RequestAges(q)
    PROVE  RowsInd'
<1>1. /\ UNCHANGED callVars /\ hits' = hits /\ requests[q] # None
      /\ \/ requests' = [requests EXCEPT ![q].recent = FALSE]
         \/ requests' = [requests EXCEPT ![q].lapsed = TRUE]
         \/ requests' = [requests EXCEPT ![q].old = TRUE]
  BY DEF RequestAges
<1>2. PICK v : /\ requests' = [requests EXCEPT ![q] = v]
               /\ \/ v = [requests[q] EXCEPT !.recent = FALSE]
                  \/ v = [requests[q] EXCEPT !.lapsed = TRUE]
                  \/ v = [requests[q] EXCEPT !.old = TRUE]
  BY <1>1
<1>3. requests[q] \in RequestRow
  BY <1>1 DEF RowsInd
<1>4. v \in RequestRow
  BY <1>2, <1>3, RowEdits
<1>5. v.link = requests[q].link /\ v.status = requests[q].status
  BY <1>2, <1>3 DEF RequestRow
<1>6. v # None
  BY <1>4, NoneIsNoRequest
<1>7. requests' \in [Ids -> RequestRow \cup {None}] /\ hits' \in [Addresses -> 0..MaxEmails]
  BY <1>1, <1>2, <1>4 DEF RowsInd
<1>8. DOMAIN requests = Ids
  BY DEF RowsInd
<1>9. \A p \in Ids : /\ requests'[p] = None <=> requests[p] = None
                     /\ requests[p] # None => /\ requests'[p].link = requests[p].link
                                              /\ requests'[p].status = requests[p].status
  BY <1>1, <1>2, <1>5, <1>6, <1>8
<1>. QED  BY <1>1, <1>7, <1>9, RowsQuiet

LEMMA RowsStep ==
    ASSUME Base, Base', RowsInd, [Next]_vars
    PROVE  RowsInd'
<1>1. ASSUME NEW c \in Calls, AccessStep(c), UNCHANGED <<requests, hits>> PROVE RowsInd'
  <2>0. Moves(c)
    BY <1>1, AccessMoves
  <2>1. Kind(c) \notin {"register", "resend", "verify", "approve", "reject"}
    BY <1>1, AccessGroups, GroupKinds DEF Enter, AppKinds, MailAfterCommit
  <2>. QED  BY <1>1, <2>0, <2>1, RowsElsewhere
<1>2. ASSUME NEW c \in Calls, RegistrationStep(c) PROVE RowsInd'
  <2>0. Moves(c)
    BY <1>2, RegistrationMoves
  <2>1. CASE StartCleanup(c)
    <3>1. Kind(c) = "cleanup" /\ requests' = requests /\ hits' = hits
      BY <2>1 DEF StartCleanup, rest
    <3>. QED  BY <2>0, <3>1, RowsElsewhere
  <2>2. CASE Challenge(c) \/ FindRequest(c) \/ InsertRequest(c) \/ ClaimResend(c) \/ CommitVerification(c)
    BY <2>0, <2>2, ChallengeRows, FindRequestRows, InsertRequestRows, ClaimResendRows, CommitVerificationRows
  <2>3. CASE OpenVerification(c) \/ ClaimVerification(c) \/ CommitConfirmation(c) \/ Resolve(c) \/ ClaimApproval(c)
    BY <2>0, <2>3, OpenVerificationRows, ClaimVerificationRows, CommitConfirmationRows, ResolveRows, ClaimApprovalRows
  <2>4. CASE InsertFounder(c) \/ FindAddress(c) \/ GiveAddress(c) \/ CommitApproval(c) \/ Reject(c) \/ Delete(c)
    BY <2>0, <2>4, FounderRows, CommitApprovalRows, RejectRows, DeleteRows
  <2>. QED  BY <1>2, <2>1, <2>2, <2>3, <2>4 DEF RegistrationStep
<1>3. ASSUME NEW c \in Calls, MailMove(c), UNCHANGED rest PROVE RowsInd'
  BY <1>3, MailMoves, MailRows DEF rest
<1>4. [a \in Addresses |-> 0] \in [Addresses -> 0..MaxEmails]
  BY RegistrationBounds
<1>5. CASE Quiet \/ HourPasses \/ \E l \in Ids : LinkAges(l) /\ UNCHANGED <<requests, hits>>
  <2>1. UNCHANGED callVars /\ requests' = requests /\ hits' \in [Addresses -> 0..MaxEmails]
    BY <1>4, <1>5 DEF Quiet, HourPasses, LinkAges, rest, RowsInd
  <2>2. requests' \in [Ids -> RequestRow \cup {None}]
    BY <2>1 DEF RowsInd
  <2>3. \A q \in Ids : /\ requests'[q] = None <=> requests[q] = None
                       /\ requests[q] # None => /\ requests'[q].link = requests[q].link
                                                /\ requests'[q].status = requests[q].status
    BY <2>1
  <2>. QED  BY <2>1, <2>2, <2>3, RowsQuiet
<1>6. CASE Stop
  <2>1. hits' \in [Addresses -> 0..MaxEmails]
    BY <1>4, <1>6 DEF Stop
  <2>. QED  BY <1>6, <2>1, StopQuits, RowsStop
<1>. QED  BY <1>1, <1>2, <1>3, <1>5, <1>6, AgesRows, StepCases

-----------------------------------------------------------------------------
(* Devices: an activation consumes that a device waits, only a reissue lets it wait again. *)

\* What the step of a request adds to the two counts.
Activated(c, t) == IF answer'[c] = "ok" /\ Kind(c) = "activate" /\ seen'[c].device = t THEN 1 ELSE 0
Reissued(c, t) == IF answer'[c] = "ok" /\ Kind(c) = "reissue" /\ On(c) = t THEN 1 ELSE 0

LEMMA Tallies ==
    ASSUME NEW t
    PROVE  /\ IsFiniteSet(Activations(t)) /\ Cardinality(Activations(t)) \in Nat
           /\ IsFiniteSet(Reissues(t)) /\ Cardinality(Reissues(t)) \in Nat
<1>1. Activations(t) \subseteq Calls /\ Reissues(t) \subseteq Calls
  BY DEF Activations, Reissues
<1>2. IsFiniteSet(Activations(t)) /\ IsFiniteSet(Reissues(t))
  BY <1>1, CallsAreFinite, FS_Subset
<1>. QED  BY <1>2, FS_CardinalityType

LEMMA Counted ==
    ASSUME NEW c \in Calls, Base, Moves(c), NEW t
    PROVE  /\ Cardinality(Activations(t))' = Cardinality(Activations(t)) + Activated(c, t)
           /\ Cardinality(Reissues(t))' = Cardinality(Reissues(t)) + Reissued(c, t)
<1>1. answer[c] # "ok"
  BY DEF Base, Stays, Moves
<1>2. /\ task' = task
      /\ \A d \in Calls \ {c} : seen'[d] = seen[d] /\ answer'[d] = answer[d]
  BY DEF Moves
<1>3. /\ c \notin Activations(t) /\ c \notin Reissues(t)
      /\ Activations(t)' = IF Activated(c, t) = 1 THEN Activations(t) \cup {c} ELSE Activations(t)
      /\ Reissues(t)' = IF Reissued(c, t) = 1 THEN Reissues(t) \cup {c} ELSE Reissues(t)
  <2>1. c \notin Activations(t) /\ c \notin Reissues(t)
    BY <1>1 DEF Activations, Reissues
  <2>2. \A d \in Calls : Kind(d)' = Kind(d) /\ On(d)' = On(d)
    BY <1>2 DEF Kind, On
  <2>3. Activations(t)' = {d \in Calls : answer'[d] = "ok" /\ Kind(d) = "activate" /\ seen'[d].device = t}
    BY <2>2 DEF Activations
  <2>4. Reissues(t)' = {d \in Calls : answer'[d] = "ok" /\ Kind(d) = "reissue" /\ On(d) = t}
    BY <2>2 DEF Reissues
  <2>5. Activations(t)' = IF Activated(c, t) = 1 THEN Activations(t) \cup {c} ELSE Activations(t)
    BY <1>2, <2>1, <2>3 DEF Activations, Activated
  <2>6. Reissues(t)' = IF Reissued(c, t) = 1 THEN Reissues(t) \cup {c} ELSE Reissues(t)
    BY <1>2, <2>1, <2>4 DEF Reissues, Reissued
  <2>. QED  BY <2>1, <2>5, <2>6
<1>4. Activated(c, t) \in {0, 1} /\ Reissued(c, t) \in {0, 1}
  BY DEF Activated, Reissued
<1>5. /\ Cardinality(Activations(t) \cup {c}) = Cardinality(Activations(t)) + 1
      /\ Cardinality(Reissues(t) \cup {c}) = Cardinality(Reissues(t)) + 1
  BY <1>3, Tallies, FS_AddElement
<1>. QED  BY <1>3, <1>4, <1>5, Tallies

\* What a step of a request means for the devices.
LEMMA DevicesMove ==
    ASSUME NEW c \in Calls, Base, DevicesInd, Moves(c), DeviceKnows(c)',
           devices' \in [Ids -> DeviceRow \cup {None}],
           \A d \in Ids : devices[d] # None => devices'[d] # None,
           \A d \in Ids : devices'[d] # None => Old(d)',
           \A t \in Ids : \/ devices[t] = None /\ Activated(c, t) = 0
                          \/ Activated(c, t) + Waiting(t)' <= Waiting(t) + Reissued(c, t)
    PROVE  DevicesInd'
<1>1. ASSUME NEW e \in Calls \ {c} PROVE DeviceKnows(e)'
  <2>1. /\ seen'[e] = seen[e] /\ pc'[e] = pc[e] /\ answer'[e] = answer[e] /\ Kind(e)' = Kind(e)
    BY DEF Moves, Kind
  <2>. QED  BY <2>1 DEF DevicesInd, DeviceKnows
<1>2. ASSUME NEW t \in Ids PROVE Cardinality(Activations(t))' + Waiting(t)' <= 1 + Cardinality(Reissues(t))'
  <2>1. /\ Cardinality(Activations(t)) \in Nat /\ Cardinality(Reissues(t)) \in Nat
        /\ Waiting(t) \in {0, 1} /\ Waiting(t)' \in {0, 1}
        /\ Activated(c, t) \in {0, 1} /\ Reissued(c, t) \in {0, 1}
    BY Tallies DEF Waiting, Activated, Reissued
  <2>2. /\ Cardinality(Activations(t))' = Cardinality(Activations(t)) + Activated(c, t)
        /\ Cardinality(Reissues(t))' = Cardinality(Reissues(t)) + Reissued(c, t)
    BY Counted
  <2>3. Cardinality(Activations(t)) + Waiting(t) <= 1 + Cardinality(Reissues(t))
    BY DEF DevicesInd
  <2>4. CASE devices[t] = None /\ Activated(c, t) = 0
    <3>1. Activations(t) = {}
      BY <2>4 DEF DevicesInd, DeviceKnows, Activations
    <3>2. Cardinality(Activations(t)) = 0
      BY <3>1, FS_EmptySet
    <3>. QED  BY <2>1, <2>2, <2>4, <3>2
  <2>5. CASE Activated(c, t) + Waiting(t)' <= Waiting(t) + Reissued(c, t)
    BY <2>1, <2>2, <2>3, <2>5
  <2>. QED  BY <2>4, <2>5
<1>3. \A d \in Past : FirstDevices[d] # None => devices'[d] # None
  BY DEF DevicesInd, Ids
<1>4. \A d \in Calls : DeviceKnows(d)'
  BY <1>1
<1>. QED  BY <1>2, <1>3, <1>4 DEF DevicesInd

LEMMA DevicesSame ==
    ASSUME NEW c \in Calls, Base, DevicesInd, Moves(c), DeviceKnows(c)', devices' = devices,
           answer'[c] # "ok" \/ Kind(c) # "activate"
    PROVE  DevicesInd'
<1>1. \A d \in Ids : devices'[d] # None => Old(d)'
  BY OldGrows DEF DevicesInd
<1>2. devices' \in [Ids -> DeviceRow \cup {None}]
  BY DEF DevicesInd
<1>3. ASSUME NEW t \in Ids PROVE Activated(c, t) + Waiting(t)' <= Waiting(t) + Reissued(c, t)
  BY DEF Activated, Reissued, Waiting
<1>. QED  BY <1>1, <1>2, <1>3, DevicesMove

LEMMA DevicesElsewhere ==
    ASSUME NEW c \in Calls, Base, DevicesInd, Moves(c), devices' = devices, Kind(c) # "activate"
    PROVE  DevicesInd'
<1>1. Kind(c)' = Kind(c)
  BY DEF Moves, Kind
<1>2. DeviceKnows(c)'
  BY <1>1 DEF DeviceKnows
<1>. QED  BY <1>2, DevicesSame

LEMMA DevicesQuiet ==
    ASSUME Base, DevicesInd, UNCHANGED callVars, devices' = devices
    PROVE  DevicesInd'
<1>1. UNCHANGED <<task, pc, held, wants, seen, answer>>
  BY DEF callVars
<1>2. \A d \in Calls : DeviceKnows(d)'
  BY <1>1 DEF DevicesInd, DeviceKnows, Kind
<1>3. \A d \in Ids : devices'[d] # None => Old(d)'
  BY <1>1 DEF DevicesInd, Old
<1>4. \A t \in Ids : /\ Cardinality(Activations(t))' = Cardinality(Activations(t)) /\ Waiting(t)' = Waiting(t)
                     /\ Cardinality(Reissues(t))' = Cardinality(Reissues(t))
  BY <1>1 DEF Activations, Reissues, Waiting, Kind, On
<1>. QED  BY <1>2, <1>3, <1>4 DEF DevicesInd

LEMMA DevicesStop ==
    ASSUME Base, DevicesInd, Quits, devices' = devices
    PROVE  DevicesInd'
<1>1. task' = task /\ seen' = seen
      /\ \A d \in Calls : /\ answer'[d] = "ok" <=> answer[d] = "ok"
                          /\ pc'[d] # "activate" /\ Kind(d)' = Kind(d) /\ On(d)' = On(d)
  BY DEF Quits, Rests, Running, Kind, On, Base, Stays
<1>2. \A d \in Ids : devices'[d] # None => Old(d)'
  BY OldGrows DEF DevicesInd
<1>3. \A d \in Calls : DeviceKnows(d)'
  BY <1>1 DEF DevicesInd, DeviceKnows
<1>4. \A t \in Ids : Activations(t)' = Activations(t) /\ Reissues(t)' = Reissues(t) /\ Waiting(t)' = Waiting(t)
  BY <1>1 DEF Activations, Reissues, Waiting
<1>. QED  BY <1>2, <1>3, <1>4 DEF DevicesInd

\* One device is written: a new one, one that is given another code, one that waited for
\* the activation, or one that no longer waits.
LEMMA DeviceWrites ==
    ASSUME NEW c \in Calls, Base, DevicesInd, Moves(c), DeviceKnows(c)', pc'[c] = "done", answer'[c] = "ok",
           NEW q \in Ids, NEW v \in DeviceRow, devices' = [devices EXCEPT ![q] = v],
           \/ q = c /\ Kind(c) # "activate"
           \/ devices[q] # None /\ Kind(c) = "reissue" /\ On(c) = q
           \/ devices[q] # None /\ Kind(c) # "activate" /\ v.status # "pendiente"
           \/ /\ devices[q] # None /\ Kind(c) = "activate" /\ seen'[c].device = q
              /\ devices[q].status = "pendiente" /\ v.status # "pendiente"
    PROVE  DevicesInd'
<1>1. v # None
  BY NoneIsNoRow
<1>2. devices'[q] = v /\ \A d \in Ids \ {q} : devices'[d] = devices[d]
  BY DEF DevicesInd
<1>3. devices' \in [Ids -> DeviceRow \cup {None}]
  BY DEF DevicesInd
<1>4. ~Old(c) /\ Old(c)'
  BY CallsAreNew DEF Old, Moves
<1>5. q = c => devices[q] = None
  BY <1>4 DEF DevicesInd
<1>6. ASSUME NEW d \in Ids, devices'[d] # None PROVE Old(d)'
  <2>1. CASE devices[d] # None
    BY <2>1, OldGrows DEF DevicesInd
  <2>2. CASE devices[d] = None
    BY <1>2, <1>4, <1>6, <2>2
  <2>. QED  BY <2>1, <2>2
<1>7. \A d \in Ids : devices[d] # None => devices'[d] # None
  BY <1>1, <1>2
<1>8. ASSUME NEW t \in Ids
      PROVE  \/ devices[t] = None /\ Activated(c, t) = 0
             \/ Activated(c, t) + Waiting(t)' <= Waiting(t) + Reissued(c, t)
  <2>1. CASE t # q
    <3>1. Waiting(t)' = Waiting(t) /\ Waiting(t) \in {0, 1}
      BY <1>2, <2>1 DEF Waiting
    <3>2. Activated(c, t) = 0 /\ Reissued(c, t) \in {0, 1}
      BY <2>1, <1>4, <1>5 DEF Activated, Reissued
    <3>. QED  BY <3>1, <3>2
  <2>2. CASE t = q
    BY <1>1, <1>2, <1>5, <2>2 DEF Activated, Reissued, Waiting
  <2>. QED  BY <2>1, <2>2
<1>. QED  BY <1>3, <1>6, <1>7, <1>8, DevicesMove

\* Requests that are no activation create, reissue or revoke.
LEMMA NoActivation ==
    ASSUME NEW c \in Calls, Moves(c), Kind(c) # "activate"
    PROVE  DeviceKnows(c)' /\ Kind(c)' = Kind(c)
BY DEF Moves, Kind, DeviceKnows

LEMMA NewDevices ==
    ASSUME NEW c \in Calls, Base, DevicesInd, Moves(c), Accept(c) \/ CommitApproval(c)
    PROVE  DevicesInd'
<1>1. pc[c] \in {"apply", "commit"} /\ (pc[c] = "commit" => Kind(c) = "approve")
  BY DEF Accept, CommitApproval, At
<1>2. Kind(c) # "activate"
  BY <1>1 DEF Base, Stays, Fits
<1>3. CASE devices' = devices
  BY <1>2, <1>3, DevicesElsewhere
<1>4. ASSUME NEW token \in Ids \cup {None}, Answer(c, "ok"),
             devices' = [devices EXCEPT ![c] = [code |-> c, token |-> token, status |-> "activo"]]
      PROVE  DevicesInd'
  <2>. DEFINE v == [code |-> c, token |-> token, status |-> "activo"]
  <2>1. v \in DeviceRow /\ c \in Ids
    BY <1>4 DEF DeviceRow, Ids
  <2>2. pc'[c] = "done" /\ answer'[c] = "ok"
    BY <1>4 DEF Answer, End, Base
  <2>3. devices' = [devices EXCEPT ![c] = v]
    BY <1>4
  <2>. HIDE DEF v
  <2>. QED  BY <1>2, <2>1, <2>2, <2>3, NoActivation, DeviceWrites
<1>. QED  BY <1>3, <1>4 DEF Accept, CommitApproval, accessVars, Ids

\* Tasks about a device or a login are about one that exists.
LEMMA DeviceExists ==
    ASSUME NEW c \in Calls, Base, DevicesInd, pc[c] # "away", Kind(c) \in {"revoke", "reissue"}
    PROVE  On(c) \in Ids /\ devices[On(c)] # None /\ devices[On(c)] \in DeviceRow
<1>1. On(c) \in Past /\ FirstDevices[On(c)] # None
  BY TasksHaveTheirParts DEF Base, Stays, Kind, On
<1>. QED  BY <1>1 DEF DevicesInd, Ids

LEMMA ManageDevices ==
    ASSUME NEW c \in Calls, Base, DevicesInd, Moves(c), ManageDevice(c)
    PROVE  DevicesInd'
<1>1. pc[c] = "device"
  BY DEF ManageDevice, At
<1>2. Kind(c) # "activate"
  BY <1>1 DEF Base, Stays, Fits
<1>3. CASE devices' = devices
  BY <1>2, <1>3, DevicesElsewhere
<1>4. CASE Kind(c) = "revoke" /\ Answer(c, "ok") /\ devices' = [devices EXCEPT ![On(c)].status = "revocado"]
  <2>. DEFINE q == On(c)
  <2>. DEFINE v == [devices[q] EXCEPT !.status = "revocado"]
  <2>1. q \in Ids /\ devices[q] # None /\ devices[q] \in DeviceRow
    BY <1>1, <1>4, DeviceExists
  <2>2. v \in DeviceRow /\ v.status # "pendiente"
    BY <2>1 DEF DeviceRow
  <2>3. devices' = [devices EXCEPT ![q] = v]
    BY <1>4
  <2>4. pc'[c] = "done" /\ answer'[c] = "ok"
    BY <1>4 DEF Answer, End, Base
  <2>. HIDE DEF q, v
  <2>. QED  BY <1>2, <2>1, <2>2, <2>3, <2>4, NoActivation, DeviceWrites
<1>. QED  BY <1>3, <1>4 DEF ManageDevice

LEMMA CommitDevices ==
    ASSUME NEW c \in Calls, Base, DevicesInd, Moves(c), CommitDevice(c)
    PROVE  DevicesInd'
<1>1. pc[c] = "commit" /\ Kind(c) \in {"newDevice", "reissue"} /\ Answer(c, "ok")
  BY DEF CommitDevice, At
<1>2. Kind(c) # "activate" /\ pc'[c] = "done" /\ answer'[c] = "ok"
  BY <1>1 DEF Answer, End, Base
<1>. DEFINE q == IF Kind(c) = "reissue" THEN On(c) ELSE c
<1>. DEFINE v == [code |-> c, token |-> None, status |-> "pendiente"]
<1>3. v \in DeviceRow
  BY DEF DeviceRow, Ids
<1>4. devices' = [devices EXCEPT ![q] = v]
  BY DEF CommitDevice
<1>5. Kind(c) = "reissue" => q \in Ids /\ devices[q] # None /\ On(c) = q
  BY <1>1, DeviceExists
<1>6. Kind(c) # "reissue" => q = c /\ q \in Ids
  BY DEF Ids
<1>. HIDE DEF q, v
<1>. QED  BY <1>2, <1>3, <1>4, <1>5, <1>6, NoActivation, DeviceWrites

LEMMA FindDevices ==
    ASSUME NEW c \in Calls, Base, DevicesInd, Moves(c), FindDevice(c)
    PROVE  DevicesInd'
<1>1. pc[c] = "idle" /\ Kind(c) = "activate" /\ devices' = devices /\ Kind(c)' = Kind(c)
  BY DEF FindDevice, At, accessVars, Moves, Kind
<1>2. answer[c] # "ok"
  BY <1>1 DEF Base, Stays
<1>3. \/ \E a \in {"403", "409", "legacy"} : Answer(c, a)
      \/ \E code : \E d \in Ids : /\ devices[d] # None
                                  /\ GotoSeeing(c, "activate", <<"device", d>>, [code |-> code, device |-> d])
  BY DEF FindDevice
<1>4. CASE \E a \in {"403", "409", "legacy"} : Answer(c, a)
  <2>1. pc'[c] = "done" /\ answer'[c] # "ok"
    BY <1>4 DEF Answer, End, Base
  <2>2. DeviceKnows(c)'
    BY <2>1 DEF DeviceKnows
  <2>. QED  BY <1>1, <2>1, <2>2, DevicesSame
<1>5. ASSUME NEW code, NEW d \in Ids, devices[d] # None,
             GotoSeeing(c, "activate", <<"device", d>>, [code |-> code, device |-> d])
      PROVE  DevicesInd'
  <2>1. pc'[c] = "activate" /\ answer'[c] # "ok" /\ seen'[c] = [code |-> code, device |-> d]
    BY <1>2, <1>5 DEF GotoSeeing, Proceed, Base
  <2>2. DeviceKnows(c)'
    BY <1>1, <1>5, <2>1 DEF DeviceKnows
  <2>. QED  BY <1>1, <2>1, <2>2, DevicesSame
<1>. QED  BY <1>3, <1>4, <1>5

LEMMA ActivateDevices ==
    ASSUME NEW c \in Calls, Base, DevicesInd, Moves(c), Activate(c)
    PROVE  DevicesInd'
<1>1. pc[c] = "activate"
  BY DEF Activate, At
<1>2. Kind(c) = "activate" /\ Kind(c)' = "activate"
  BY <1>1 DEF Base, Stays, Fits, Moves, Kind
<1>3. seen[c].device \in Ids /\ devices[seen[c].device] # None
  BY <1>1, <1>2 DEF DevicesInd, DeviceKnows
<1>4. CASE Answer(c, "409") /\ devices' = devices
  <2>1. pc'[c] = "done" /\ answer'[c] # "ok"
    BY <1>4 DEF Answer, End, Base
  <2>2. DeviceKnows(c)'
    BY <2>1 DEF DeviceKnows
  <2>. QED  BY <1>4, <2>1, <2>2, DevicesSame
<1>5. CASE /\ devices[seen[c].device].status = "pendiente" /\ Answer(c, "ok")
           /\ devices' = [devices EXCEPT ![seen[c].device].status = "activo", ![seen[c].device].token = c]
  <2>. DEFINE q == seen[c].device
  <2>. DEFINE v == [devices[q] EXCEPT !.status = "activo", !.token = c]
  <2>1. q \in Ids /\ devices[q] # None /\ devices[q] \in DeviceRow /\ c \in Ids
    BY <1>3 DEF DevicesInd, Ids
  <2>2. v \in DeviceRow /\ v.status # "pendiente"
    BY <2>1 DEF DeviceRow
  <2>3. devices' = [devices EXCEPT ![q] = v]
    <3>1. DOMAIN devices = Ids
      BY DEF DevicesInd
    <3>. QED  BY <1>5, <2>1, <3>1
  <2>4. pc'[c] = "done" /\ answer'[c] = "ok" /\ seen'[c] = seen[c] /\ seen[c].device = q
    BY <1>5 DEF Answer, End, Base
  <2>5. devices[q].status = "pendiente"
    BY <1>5
  <2>. HIDE DEF q, v
  <2>6. devices'[q] = v /\ v # None
    BY <2>1, <2>2, <2>3, NoneIsNoRow DEF DevicesInd
  <2>7. DeviceKnows(c)'
    BY <2>1, <2>4, <2>6 DEF DeviceKnows
  <2>. QED  BY <1>2, <2>1, <2>2, <2>3, <2>4, <2>5, <2>7, DeviceWrites
<1>. QED  BY <1>4, <1>5 DEF Activate

LEMMA DevicesStep ==
    ASSUME Base, DevicesInd, [Next]_vars
    PROVE  DevicesInd'
<1>1. ASSUME NEW c \in Calls, AccessStep(c) PROVE DevicesInd'
  <2>0. Moves(c)
    BY <1>1, AccessMoves
  <2>1. CASE Enter(c)
    <3>1. Kind(c) # "activate" /\ devices' = devices
      BY <2>1 DEF Enter, AppKinds, accessVars
    <3>. QED  BY <2>0, <3>1, DevicesElsewhere
  <2>2. CASE AddsMember(c) \/ SetActive(c) \/ ForPasswords(c)
    BY <2>0, <2>2, GroupKinds, DevicesElsewhere
  <2>3. CASE ForLinks(c) /\ ~Accept(c)
    <3>1. devices' = devices
      BY <2>3 DEF ForLinks, CheckLink, Issue, Retire, OpenLink, LockLink, LockInvitation, OpenLogin, ConfirmEmail, accessVars
    <3>. QED  BY <2>0, <2>3, <3>1, GroupKinds, DevicesElsewhere DEF MailAfterCommit
  <2>4. CASE Accept(c) \/ ForDevices(c)
    BY <2>0, <2>4, NewDevices, ManageDevices, CommitDevices, FindDevices, ActivateDevices DEF ForDevices
  <2>. QED  BY <1>1, <2>1, <2>2, <2>3, <2>4, AccessGroups
<1>2. ASSUME NEW c \in Calls, RegistrationStep(c) PROVE DevicesInd'
  <2>0. Moves(c) /\ Kind(c) # "activate"
    BY <1>2, RegistrationMoves, GroupKinds
  <2>1. CASE CommitApproval(c)
    BY <2>0, <2>1, NewDevices
  <2>2. CASE ~CommitApproval(c)
    <3>1. devices' = devices
      BY <1>2, <2>2 DEF RegistrationStep, Challenge, FindRequest, InsertRequest, ClaimResend, CommitVerification,
         OpenVerification, ClaimVerification, CommitConfirmation, Resolve, ClaimApproval, InsertFounder, FindAddress, GiveAddress,
         Reject, StartCleanup, Delete, rest, accessVars
    <3>. QED  BY <2>0, <3>1, DevicesElsewhere
  <2>. QED  BY <2>1, <2>2
<1>3. ASSUME NEW c \in Calls, MailMove(c), UNCHANGED rest PROVE DevicesInd'
  <2>1. Moves(c) /\ devices' = devices
    BY <1>3, MailMoves DEF rest, accessVars
  <2>2. CASE Kind(c) # "activate"
    BY <2>1, <2>2, DevicesElsewhere
  <2>3. CASE Kind(c) = "activate"
    <3>1. pc'[c] \in {"commit", "retire", "done"} /\ answer'[c] # "ok"
      BY <1>3, <2>3, MailMoveAnswers DEF MailAfterCommit
    <3>2. DeviceKnows(c)'
      BY <3>1 DEF DeviceKnows
    <3>. QED  BY <2>1, <3>1, <3>2, DevicesSame
  <2>. QED  BY <2>2, <2>3
<1>4. CASE Quiet \/ HourPasses \/ (\E q \in Ids : RequestAges(q)) \/ \E l \in Ids : LinkAges(l)
  <2>1. UNCHANGED callVars /\ devices' = devices
    BY <1>4 DEF Quiet, HourPasses, RequestAges, LinkAges, rest, accessVars
  <2>. QED  BY <2>1, DevicesQuiet
<1>5. CASE Stop
  BY <1>5, StopQuits, DevicesStop DEF accessVars
<1>. QED  BY <1>1, <1>2, <1>3, <1>4, <1>5, StepCases

-----------------------------------------------------------------------------
(* People: a login is of one person, a founder comes with one, and their request stays answered. *)

\* Whatever happens to its row, a request that is answered or gone stays so.
LEMMA ClosedStays ==
    ASSUME Base, RowsInd, [Next]_vars
    PROVE  \A q \in Ids : Old(q) /\ Closed(q) => Closed(q)'
<1>. SUFFICES ASSUME NEW q \in Ids, Old(q), Closed(q), requests'[q] # requests[q] PROVE Closed(q)'
  BY DEF Closed
<1>1. CASE \E p \in Ids : RequestAges(p)
  <2>1. PICK p \in Ids : RequestAges(p)
    BY <1>1
  <2>2. q = p /\ requests[q] # None
    BY <2>1 DEF RequestAges, RowsInd
  <2>3. requests[q] \in RequestRow
    BY <2>2 DEF RowsInd
  <2>4. requests'[q].status = requests[q].status
    BY <2>1, <2>2, <2>3 DEF RequestAges, RowsInd, RequestRow
  <2>. QED  BY <2>2, <2>4 DEF Closed
<1>2. ASSUME NEW c \in Calls, RegistrationStep(c) PROVE Closed(q)'
  <2>0. Moves(c) /\ DOMAIN requests = Ids /\ q # c
    BY <1>2, RegistrationMoves, CallsAreNew DEF RowsInd, Old, Moves
  <2>1. CASE CommitVerification(c)
    <3>1. seen[c] = None \/ HoldsRow(c)
      BY <2>1 DEF CommitVerification, At, RowsInd, RowKnows, RegisterKnows
    <3>2. seen[c] # None /\ q = seen[c].row /\ requests[q] # None /\ requests[q] \in RequestRow
      BY <2>0, <2>1, <3>1 DEF CommitVerification, HoldsRow, RowsInd
    <3>3. requests'[q] = [requests[q] EXCEPT !.link = c, !.sent = requests[q].sent + 1, !.recent = TRUE, !.lapsed = FALSE]
      BY <2>0, <2>1, <3>2 DEF CommitVerification
    <3>4. requests'[q].status = requests[q].status
      BY <3>2, <3>3 DEF RequestRow
    <3>. QED  BY <3>2, <3>4 DEF Closed
  <2>2. CASE CommitConfirmation(c)
    <3>1. HoldsRow(c) /\ requests[seen[c].row].status = "pendiente_correo"
      BY <2>2 DEF CommitConfirmation, At, RowsInd, RowKnows, VerifyKnows
    <3>2. q = seen[c].row
      BY <2>0, <2>2 DEF CommitConfirmation
    <3>. QED  BY <3>1, <3>2 DEF Closed, HoldsRow
  <2>3. CASE CommitApproval(c)
    <3>1. HoldsRow(c) /\ requests[seen[c].row].status = "pendiente"
      BY <2>3 DEF CommitApproval, At, RowsInd, RowKnows, ApproveKnows
    <3>2. q = seen[c].row
      BY <2>0, <2>3 DEF CommitApproval
    <3>. QED  BY <3>1, <3>2 DEF Closed, HoldsRow
  <2>4. CASE Reject(c)
    <3>1. q = seen[c].row /\ requests[q] \in RequestRow
      BY <2>0, <2>4 DEF Reject, RowsInd
    <3>2. requests'[q] = [requests[q] EXCEPT !.status = "rechazado", !.old = FALSE]
      BY <2>0, <2>4, <3>1 DEF Reject
    <3>. QED  BY <3>1, <3>2 DEF Closed, RequestRow
  <2>5. CASE Delete(c)
    BY <2>5 DEF Delete, Closed
  <2>6. CASE requests' = requests
    BY <2>6
  <2>. QED
    BY <1>2, <2>1, <2>2, <2>3, <2>4, <2>5, <2>6 DEF RegistrationStep, Challenge, FindRequest, InsertRequest, ClaimResend,
       OpenVerification, ClaimVerification, Resolve, ClaimApproval, InsertFounder, FindAddress, GiveAddress, StartCleanup, rest
<1>. QED  BY <1>1, <1>2, StepCases, StopQuits DEF Quiet, HourPasses, rest

Founder(m) == members[m] # None /\ members[m].of # None
SamePerson(m) == (members'[m] = None <=> members[m] = None) /\ (members[m] # None => members'[m].of = members[m].of)
SameLogin(l) ==
    /\ logins'[l] = None <=> logins[l] = None
    /\ logins[l] # None => /\ logins'[l].member = logins[l].member
                           /\ logins[l].password \in Calls => logins'[l].password \in Calls

\* What a step of a request means for the people, with what it founds, opens or changes.
LEMMA PeopleMove ==
    ASSUME NEW c \in Calls, Base, PeopleInd, Moves(c), PasswordKnows(c)',
           members' \in [Ids -> MemberRow \cup {None}], logins' \in [Ids -> LoginRow \cup {None}],
           \A i \in Ids \ {c} : SamePerson(i) /\ SameLogin(i),
           members'[c] # None \/ logins'[c] # None => pc'[c] = "done",
           logins'[c] # None => /\ Old(logins[c].member)'
                                /\ \A l \in Ids : logins[l] # None => logins[l].member # logins'[c].member,
           Founder(c)' => /\ logins'[c] # None /\ logins'[c].member = c
                          /\ Old(members[c].of)' /\ Closed(members[c].of)'
                          /\ \A n \in Ids : members[n] # None => members[n].of # members'[c].of,
           \A q \in Ids : Old(q) /\ Closed(q) => Closed(q)',
           Succeeded(c, {"password"})' => \A d \in Calls \ {c} : Succeeded(d, {"password"}) => On(d) # On(c)
    PROVE  PeopleInd'
<1>1. ~Old(c) /\ c \in Ids
  BY CallsAreNew DEF Old, Moves, Ids
<1>2. members[c] = None /\ logins[c] = None
  BY <1>1 DEF PeopleInd
<1>3. \A i : Old(i) => Old(i)'
  BY OldGrows
<1>4. \A d \in Calls \ {c} : /\ seen'[d] = seen[d] /\ pc'[d] = pc[d] /\ answer'[d] = answer[d] /\ Kind(d)' = Kind(d)
                             /\ On(d)' = On(d) /\ \A K : Succeeded(d, K)' = Succeeded(d, K)
  BY DEF Moves, Succeeded, Kind, On
<1>5. On(c)' = On(c)
  BY DEF Moves, On
<1>6. \A i \in Ids : members'[i] # None \/ logins'[i] # None => Old(i)'
  <2>1. ASSUME NEW i \in Ids \ {c}, members'[i] # None \/ logins'[i] # None PROVE Old(i)'
    <3>1. Old(i)
      BY <2>1 DEF PeopleInd, SamePerson, SameLogin
    <3>. QED  BY <1>3, <3>1
  <2>2. pc'[c] = "done" => Old(c)'
    BY DEF Old
  <2>. QED  BY <2>1, <2>2
<1>7. \A m \in Past : /\ FirstMembers[m] # None => members'[m] # None
                      /\ FirstLogins[m] # None => logins'[m] # None
  BY CallsAreNew DEF PeopleInd, SamePerson, SameLogin, Ids
<1>8. \A l, k \in Ids : logins'[l] # None /\ logins'[k] # None /\ logins'[l].member = logins'[k].member => l = k
  BY DEF PeopleInd, SameLogin
<1>9. \A l \in Ids : logins'[l] # None => Old(logins[l].member)'
  <2>1. ASSUME NEW l \in Ids \ {c}, logins'[l] # None PROVE Old(logins[l].member)'
    <3>1. Old(logins[l].member) /\ logins'[l].member = logins[l].member
      BY <2>1 DEF PeopleInd, SameLogin
    <3>. QED  BY <1>3, <3>1 DEF Old
  <2>. QED  BY <2>1
<1>10. ASSUME NEW d \in Calls PROVE PasswordKnows(d)'
  <2>1. CASE d # c
    <3>1. PasswordKnows(d)
      BY DEF PeopleInd
    <3>. QED  BY <1>1, <1>2, <1>4, <2>1, <3>1 DEF PasswordKnows, SameLogin
  <2>. QED  BY <2>1
<1>11. \A d, e \in Calls : Succeeded(d, {"password"})' /\ Succeeded(e, {"password"})' /\ On(d)' = On(e)' => d = e
  BY <1>4, <1>5 DEF PeopleInd
<1>12. ASSUME NEW m \in Ids, members'[m] # None, members'[m].of # None
       PROVE  /\ Old(members[m].of)' /\ Closed(members[m].of)' /\ members'[m].of \in Ids
              /\ \E l \in Ids : logins'[l] # None /\ logins'[l].member = m
              /\ \A n \in Ids : members'[n] # None /\ members'[n].of = members'[m].of => n = m
  <2>1. members'[m].of \in Ids
    BY <1>12 DEF MemberRow
  <2>2. CASE m = c
    <3>1. Founder(c)'
      BY <1>12, <2>2 DEF Founder
    <3>2. \A n \in Ids : members'[n] # None /\ members'[n].of = members'[m].of => n = m
      BY <2>2, <3>1 DEF SamePerson
    <3>. QED  BY <1>1, <2>1, <2>2, <3>1, <3>2
  <2>3. CASE m # c
    <3>1. members[m] # None /\ members'[m].of = members[m].of
      BY <1>12, <2>3 DEF SamePerson
    <3>2. /\ Old(members[m].of) /\ Closed(members[m].of)
          /\ \E l \in Ids : logins[l] # None /\ logins[l].member = m
          /\ \A n \in Ids : members[n] # None /\ members[n].of = members[m].of => n = m
      BY <1>12, <3>1 DEF PeopleInd
    <3>3. Old(members[m].of)'
      BY <1>3, <3>1, <3>2 DEF Old
    <3>4. Closed(members[m].of)'
      BY <2>1, <3>1, <3>2 DEF Closed
    <3>5. \E l \in Ids : logins'[l] # None /\ logins'[l].member = m
      BY <1>2, <3>2 DEF SameLogin
    <3>6. Founder(c)' => members'[c].of # members'[m].of
      BY <1>1, <3>1
    <3>7. \A n \in Ids : members'[n] # None /\ members'[n].of = members'[m].of => n = m
      BY <1>12, <3>1, <3>2, <3>6 DEF SamePerson, Founder
    <3>. QED  BY <2>1, <3>3, <3>4, <3>5, <3>7
  <2>. QED  BY <2>2, <2>3
<1>. QED  BY <1>6, <1>7, <1>8, <1>9, <1>10, <1>11, <1>12 DEF PeopleInd

\* What a request that founds nothing and opens no login must see to.
LEMMA PeopleKept ==
    ASSUME NEW c \in Calls, Base, PeopleInd, Moves(c), PasswordKnows(c)',
           members' \in [Ids -> MemberRow \cup {None}], logins' \in [Ids -> LoginRow \cup {None}],
           \A i \in Ids : SamePerson(i) /\ SameLogin(i),
           \A q \in Ids : Old(q) /\ Closed(q) => Closed(q)',
           Succeeded(c, {"password"})' => \A d \in Calls \ {c} : Succeeded(d, {"password"}) => On(d) # On(c)
    PROVE  PeopleInd'
<1>1. ~Old(c) /\ c \in Ids
  BY CallsAreNew DEF Old, Moves, Ids
<1>2. members[c] = None /\ logins[c] = None
  BY <1>1 DEF PeopleInd
<1>3. members'[c] = None /\ logins'[c] = None
  BY <1>1, <1>2 DEF SamePerson, SameLogin
<1>4. ~Founder(c)'
  BY <1>3 DEF Founder
<1>. QED  BY <1>3, <1>4, PeopleMove

LEMMA PeopleElsewhere ==
    ASSUME NEW c \in Calls, Base, PeopleInd, Moves(c), UNCHANGED people,
           Kind(c) # "password" \/ (pc'[c] # "password" /\ answer'[c] # "ok"),
           \A q \in Ids : Old(q) /\ Closed(q) => Closed(q)'
    PROVE  PeopleInd'
<1>1. Kind(c)' = Kind(c) /\ members' = members /\ logins' = logins
  BY DEF Moves, Kind, people
<1>2. PasswordKnows(c)' /\ ~Succeeded(c, {"password"})'
  BY <1>1 DEF PasswordKnows, Succeeded
<1>3. \A i \in Ids : SamePerson(i) /\ SameLogin(i)
  BY <1>1 DEF SamePerson, SameLogin
<1>4. members' \in [Ids -> MemberRow \cup {None}] /\ logins' \in [Ids -> LoginRow \cup {None}]
  BY <1>1 DEF PeopleInd
<1>. QED  BY <1>2, <1>3, <1>4, PeopleKept

\* The process stops, or nothing that concerns the people happens.
LEMMA PeopleQuiet ==
    ASSUME Base, PeopleInd, UNCHANGED callVars \/ Quits, UNCHANGED people,
           \A q \in Ids : Old(q) /\ Closed(q) => Closed(q)'
    PROVE  PeopleInd'
<1>1. /\ task' = task /\ seen' = seen /\ members' = members /\ logins' = logins
      /\ \A d \in Calls : /\ answer'[d] = "ok" => answer[d] = "ok"
                          /\ pc'[d] = "password" => pc[d] = "password"
                          /\ Kind(d)' = Kind(d) /\ On(d)' = On(d)
  BY DEF callVars, Quits, Rests, Running, Kind, On, people
<1>2. \A i : Old(i) => Old(i)'
  BY OldGrows
<1>3. \A d \in Calls : PasswordKnows(d)'
  BY <1>1 DEF PeopleInd, PasswordKnows
<1>4. \A d, e \in Calls : Succeeded(d, {"password"})' /\ Succeeded(e, {"password"})' /\ On(d)' = On(e)' => d = e
  BY <1>1 DEF PeopleInd, Succeeded
<1>5. \A i \in Ids : members'[i] # None \/ logins'[i] # None => Old(i)'
  BY <1>1, <1>2 DEF PeopleInd
<1>6. ASSUME NEW l \in Ids, logins'[l] # None PROVE Old(logins[l].member)'
  <2>1. Old(logins[l].member) /\ logins'[l].member = logins[l].member
    BY <1>1, <1>6 DEF PeopleInd
  <2>. QED  BY <1>2, <2>1 DEF Old
<1>7. ASSUME NEW m \in Ids, members'[m] # None, members'[m].of # None
      PROVE  /\ Old(members[m].of)' /\ Closed(members[m].of)'
             /\ \E l \in Ids : logins'[l] # None /\ logins'[l].member = m
             /\ \A n \in Ids : members'[n] # None /\ members'[n].of = members'[m].of => n = m
  <2>1. /\ Old(members[m].of) /\ Closed(members[m].of) /\ members[m].of \in Ids
    BY <1>1, <1>7 DEF PeopleInd, MemberRow
  <2>2. Old(members[m].of)' /\ Closed(members[m].of)'
    <3>1. members'[m].of = members[m].of
      BY <1>1
    <3>. QED  BY <1>2, <2>1, <3>1 DEF Old, Closed
  <2>. QED  BY <1>1, <1>7, <2>2 DEF PeopleInd
<1>. QED  BY <1>1, <1>3, <1>4, <1>5, <1>6, <1>7 DEF PeopleInd

LEMMA NoPassword ==
    ASSUME NEW c \in Calls, Moves(c), Kind(c) # "password"
    PROVE  PasswordKnows(c)' /\ ~Succeeded(c, {"password"})' /\ Kind(c)' = Kind(c)
BY DEF Moves, Kind, PasswordKnows, Succeeded

LEMMA CommitMemberPeople ==
    ASSUME NEW c \in Calls, Base, PeopleInd, Moves(c), CommitMember(c),
           \A q \in Ids : Old(q) /\ Closed(q) => Closed(q)'
    PROVE  PeopleInd'
<1>1. pc[c] = "commit" /\ Kind(c) = "addMember" /\ Answer(c, "ok") /\ c \in Ids /\ task[c] \in Tasks
  BY DEF CommitMember, At, Ids, Base, Stays
<1>2. Address(c) \in Addresses /\ pc'[c] = "done"
  BY <1>1, TasksHaveTheirParts DEF Address, Kind, Answer, End, Base
<1>3. members' = [members EXCEPT ![c] = [role |-> "colaborador", active |-> TRUE, correo |-> Address(c), of |-> None]]
      /\ logins' = [logins EXCEPT ![c] = [name |-> Address(c), member |-> c, password |-> c]]
  BY DEF CommitMember
<1>4. /\ [role |-> "colaborador", active |-> TRUE, correo |-> Address(c), of |-> None] \in MemberRow
      /\ [name |-> Address(c), member |-> c, password |-> c] \in LoginRow
  BY <1>1, <1>2 DEF MemberRow, LoginRow
<1>5. members' \in [Ids -> MemberRow \cup {None}] /\ logins' \in [Ids -> LoginRow \cup {None}]
  BY <1>3, <1>4 DEF PeopleInd
<1>6. \A i \in Ids \ {c} : members'[i] = members[i] /\ logins'[i] = logins[i]
  BY <1>3 DEF PeopleInd
<1>7. members'[c].of = None /\ logins'[c].member = c
  BY <1>1, <1>3 DEF PeopleInd
<1>8. ~Old(c) /\ Old(c)'
  BY <1>2, CallsAreNew DEF Old, Moves
<1>9. \A l \in Ids : logins[l] # None => logins[l].member # c
  BY <1>8 DEF PeopleInd
<1>10. Old(logins[c].member)'
  BY <1>7, <1>8 DEF Old
<1>11. ~Founder(c)' /\ \A i \in Ids \ {c} : SamePerson(i) /\ SameLogin(i)
  BY <1>6, <1>7 DEF Founder, SamePerson, SameLogin
<1>. QED  BY <1>1, <1>2, <1>5, <1>7, <1>9, <1>10, <1>11, NoPassword, PeopleMove

\* The row of a person is edited.
LEMMA MemberWrites ==
    ASSUME NEW c \in Calls, Base, PeopleInd, Moves(c), Kind(c) # "password",
           NEW m \in Ids, NEW v \in MemberRow, members[m] # None, v.of = members[m].of,
           members' = [members EXCEPT ![m] = v], logins' = logins,
           \A q \in Ids : Old(q) /\ Closed(q) => Closed(q)'
    PROVE  PeopleInd'
<1>1. v # None
  BY NoneIsNoRow
<1>2. members'[m] = v /\ \A i \in Ids \ {m} : members'[i] = members[i]
  BY DEF PeopleInd
<1>3. \A i \in Ids : SamePerson(i) /\ SameLogin(i)
  BY <1>1, <1>2 DEF SamePerson, SameLogin
<1>4. members' \in [Ids -> MemberRow \cup {None}] /\ logins' \in [Ids -> LoginRow \cup {None}]
  BY DEF PeopleInd
<1>. QED  BY <1>3, <1>4, NoPassword, PeopleKept

LEMMA SetActivePeople ==
    ASSUME NEW c \in Calls, Base, PeopleInd, Moves(c), SetActive(c),
           \A q \in Ids : Old(q) /\ Closed(q) => Closed(q)'
    PROVE  PeopleInd'
<1>1. pc[c] = "member" /\ Kind(c) \in {"deactivate", "reactivate"} /\ logins' = logins /\ task[c] \in Tasks
  BY DEF SetActive, At, Base, Stays
<1>2. On(c) \in Ids /\ members[On(c)] # None
  BY <1>1, TasksHaveTheirParts DEF Kind, On, Ids, PeopleInd
<1>3. CASE members' = members
  BY <1>1, <1>3, PeopleElsewhere DEF people
<1>4. CASE members' = [members EXCEPT ![On(c)].active = (Kind(c) = "reactivate")]
  <2>. DEFINE m == On(c)
  <2>. DEFINE v == [members[m] EXCEPT !.active = (Kind(c) = "reactivate")]
  <2>1. members[m] \in MemberRow
    BY <1>2 DEF PeopleInd
  <2>2. v \in MemberRow /\ v.of = members[m].of
    BY <2>1 DEF MemberRow
  <2>3. members' = [members EXCEPT ![m] = v]
    BY <1>4
  <2>4. m \in Ids /\ members[m] # None
    BY <1>2
  <2>. HIDE DEF m, v
  <2>. QED  BY <1>1, <2>2, <2>3, <2>4, MemberWrites
<1>. QED  BY <1>3, <1>4 DEF SetActive

\* Whom a link is about, and the address it was sent to.
LEMMA LinkIsAbout ==
    ASSUME NEW c \in Calls, Base, LinksInd, pc[c] = "apply"
    PROVE  /\ Kind(c) \in ByLink /\ seen[c] \in Calls
           /\ links[seen[c]].member \in Past /\ Address(seen[c]) \in Addresses
<1>1. Kind(c) \in ByLink
  BY DEF Base, Stays, Fits, ByLink
<1>2. seen[c] \in Calls /\ links[seen[c]] # None
  BY <1>1 DEF LinksInd, LinkKnows, ByLink
<1>3. /\ Kind(seen[c]) \in MailAfterCommit /\ pc[seen[c]] # "away"
      /\ links[seen[c]].member = On(seen[c])
  BY <1>2 DEF LinksInd, Ids
<1>4. task[seen[c]] \in Tasks
  BY <1>2, <1>3 DEF Base, Stays
<1>. QED  BY <1>1, <1>2, <1>3, <1>4, TasksHaveTheirParts DEF Kind, On, Address

LEMMA ConfirmEmailPeople ==
    ASSUME NEW c \in Calls, Base, LinksInd, PeopleInd, Moves(c), ConfirmEmail(c),
           \A q \in Ids : Old(q) /\ Closed(q) => Closed(q)'
    PROVE  PeopleInd'
<1>1. pc[c] = "apply" /\ Kind(c) = "confirm" /\ logins' = logins
  BY DEF ConfirmEmail, At, accessVars
<1>. DEFINE m == links[seen[c]].member
<1>. DEFINE a == Address(seen[c])
<1>2. m \in Ids /\ a \in Addresses
  BY <1>1, LinkIsAbout DEF Ids
<1>3. CASE members' = members
  BY <1>1, <1>3, PeopleElsewhere DEF people
<1>4. CASE members[m] # None /\ members' = [members EXCEPT ![m].correo = a]
  <2>. DEFINE v == [members[m] EXCEPT !.correo = a]
  <2>1. members[m] \in MemberRow
    BY <1>2, <1>4 DEF PeopleInd
  <2>. HIDE DEF m, a
  <2>2. v \in MemberRow /\ v.of = members[m].of
    BY <1>2, <2>1 DEF MemberRow
  <2>3. members' = [members EXCEPT ![m] = v]
    BY <1>4
  <2>. HIDE DEF v
  <2>. QED  BY <1>1, <1>2, <1>4, <2>2, <2>3, MemberWrites
<1>5. members' = members \/ (ActiveSocio(m) /\ members' = [members EXCEPT ![m].correo = a])
  BY DEF ConfirmEmail, accessVars
<1>. QED  BY <1>3, <1>4, <1>5 DEF ActiveSocio

LEMMA AcceptPeople ==
    ASSUME NEW c \in Calls, Base, LinksInd, PeopleInd, Moves(c), Accept(c),
           \A q \in Ids : Old(q) /\ Closed(q) => Closed(q)'
    PROVE  PeopleInd'
<1>1. pc[c] = "apply" /\ Kind(c) = "accept" /\ members' = members /\ c \in Ids
  BY DEF Accept, At, accessVars, Ids
<1>. DEFINE m == links[seen[c]].member
<1>. DEFINE name == Address(seen[c])
<1>2. m \in Past /\ name \in Addresses
  BY <1>1, LinkIsAbout
<1>3. CASE logins' = logins
  BY <1>1, <1>3, PeopleElsewhere DEF people
<1>4. CASE /\ ~HasLogin(m) /\ Answer(c, "ok")
           /\ logins' = [logins EXCEPT ![c] = [name |-> name, member |-> m, password |-> c]]
  <2>. HIDE DEF m, name
  <2>1. pc'[c] = "done" /\ ~Old(c)
    BY <1>4, CallsAreNew DEF Answer, End, Base, Old, Moves
  <2>2. [name |-> name, member |-> m, password |-> c] \in LoginRow
    BY <1>1, <1>2 DEF LoginRow, Ids
  <2>3. members' \in [Ids -> MemberRow \cup {None}] /\ logins' \in [Ids -> LoginRow \cup {None}]
    BY <1>1, <1>4, <2>2 DEF PeopleInd
  <2>4. /\ \A i \in Ids \ {c} : members'[i] = members[i] /\ logins'[i] = logins[i]
        /\ logins'[c].member = m /\ members'[c] = None
    BY <1>1, <1>4, <2>1 DEF PeopleInd
  <2>5. \A i \in Ids \ {c} : SamePerson(i) /\ SameLogin(i)
    BY <2>4 DEF SamePerson, SameLogin
  <2>6. ~Founder(c)'
    BY <2>4 DEF Founder
  <2>7. Old(logins[c].member)' /\ \A l \in Ids : logins[l] # None => logins[l].member # logins'[c].member
    BY <1>2, <1>4, <2>4 DEF Old, HasLogin
  <2>. QED  BY <1>1, <2>1, <2>3, <2>5, <2>6, <2>7, NoPassword, PeopleMove
<1>5. logins' = logins \/ (/\ ~HasLogin(m) /\ Answer(c, "ok")
                           /\ logins' = [logins EXCEPT ![c] = [name |-> name, member |-> m, password |-> c]])
  BY DEF Accept, accessVars
<1>. QED  BY <1>3, <1>4, <1>5

LEMMA CommitApprovalPeople ==
    ASSUME NEW c \in Calls, Base, RowsInd, RowsInd', PeopleInd, Moves(c), CommitApproval(c),
           \A q \in Ids : Old(q) /\ Closed(q) => Closed(q)'
    PROVE  PeopleInd'
<1>1. pc[c] = "commit" /\ Kind(c) = "approve" /\ Answer(c, "ok") /\ c \in Ids
  BY DEF CommitApproval, At, Ids
<1>2. pc'[c] = "done" /\ ~Old(c) /\ Old(c)'
  BY <1>1, CallsAreNew DEF Answer, End, Base, Old, Moves
<1>. DEFINE q == seen[c].row
<1>3. /\ q \in Ids /\ Old(q) /\ requests[q] # None /\ requests[q].status = "pendiente"
      /\ seen[c].name \in Addresses \cup Ids /\ seen[c].correo \in Addresses \cup {None}
  BY <1>1, ApproveKnew DEF ApproveHolds
<1>4. /\ members' = [members EXCEPT ![c] = [role |-> "socio", active |-> TRUE, correo |-> seen[c].correo, of |-> q]]
      /\ logins' = [logins EXCEPT ![c] = [name |-> seen[c].name, member |-> c, password |-> c]]
  BY DEF CommitApproval
<1>5. Closed(q)'
  <2>1. requests'[q] = [requests[q] EXCEPT !.status = "aprobado", !.business = c, !.old = FALSE]
    BY <1>3 DEF CommitApproval, RowsInd
  <2>2. requests[q] \in RequestRow
    BY <1>3 DEF RowsInd
  <2>3. requests'[q].status = "aprobado"
    BY <2>1, <2>2 DEF RequestRow
  <2>4. q = seen'[c].row
    BY <1>1 DEF Answer, End
  <2>. QED  BY <2>3, <2>4 DEF Closed
<1>5a. q' = q
  BY <1>1 DEF Answer, End
<1>6. /\ [role |-> "socio", active |-> TRUE, correo |-> seen[c].correo, of |-> q] \in MemberRow
      /\ [name |-> seen[c].name, member |-> c, password |-> c] \in LoginRow
  BY <1>1, <1>3 DEF MemberRow, LoginRow
<1>. HIDE DEF q
<1>7. members' \in [Ids -> MemberRow \cup {None}] /\ logins' \in [Ids -> LoginRow \cup {None}]
  BY <1>4, <1>6 DEF PeopleInd
<1>8. /\ \A i \in Ids \ {c} : members'[i] = members[i] /\ logins'[i] = logins[i]
      /\ members'[c].of = q /\ logins'[c].member = c /\ logins'[c] \in LoginRow
  BY <1>1, <1>4, <1>6 DEF PeopleInd
<1>9. logins'[c] # None
  BY <1>8, NoneIsNoRow
<1>10. \A i \in Ids \ {c} : SamePerson(i) /\ SameLogin(i)
  BY <1>8 DEF SamePerson, SameLogin
<1>11. \A l \in Ids : logins[l] # None => logins[l].member # c
  BY <1>2 DEF PeopleInd
<1>12. Old(logins[c].member)'
  BY <1>2, <1>8 DEF Old
<1>13. Old(members[c].of)' /\ Closed(members[c].of)'
  <2>1. Old(q)'
    BY <1>3, <1>5a, OldGrows DEF Old
  <2>. QED  BY <1>5, <1>8, <1>5a, <2>1 DEF Old, Closed
<1>14. \A n \in Ids : members[n] # None => members[n].of # q
  <2>1. ~Closed(q) /\ q # None
    BY <1>3, CallsAreNew DEF Closed
  <2>. QED  BY <2>1 DEF PeopleInd
<1>. QED  BY <1>1, <1>2, <1>7, <1>8, <1>9, <1>10, <1>11, <1>12, <1>13, <1>14, NoPassword, PeopleMove

LEMMA PasswordsPeople ==
    ASSUME NEW c \in Calls, Base, PeopleInd, Moves(c), ForPasswords(c),
           \A q \in Ids : Old(q) /\ Closed(q) => Closed(q)'
    PROVE  PeopleInd'
<1>1. /\ pc[c] \in {"idle", "password"} /\ Kind(c) = "password" /\ members' = members /\ task[c] \in Tasks
      /\ Kind(c)' = Kind(c) /\ On(c)' = On(c) /\ answer[c] # "ok"
  BY GroupKinds DEF ForPasswords, VerifyPassword, WritePassword, At, Base, Stays, Moves, Kind, On
<1>2. On(c) \in Past /\ On(c) \in Ids /\ logins[On(c)] # None /\ logins[On(c)] \in LoginRow
  BY <1>1, TasksHaveTheirParts DEF Kind, On, Ids, PeopleInd
<1>3. CASE logins' = logins /\ \E a \in {"403", "409"} : Answer(c, a)
  <2>1. pc'[c] = "done" /\ answer'[c] # "ok"
    BY <1>3 DEF Answer, End, Base
  <2>. QED  BY <1>1, <1>3, <2>1, PeopleElsewhere DEF people
<1>4. CASE logins' = logins /\ GotoSeeing(c, "password", None, On(c))
  <2>1. pc'[c] = "password" /\ answer'[c] # "ok" /\ seen'[c] = On(c)
    BY <1>1, <1>4 DEF GotoSeeing, Proceed, Base
  <2>2. PasswordKnows(c)' /\ ~Succeeded(c, {"password"})'
    BY <1>1, <2>1 DEF PasswordKnows, Succeeded
  <2>3. \A i \in Ids : SamePerson(i) /\ SameLogin(i)
    BY <1>1, <1>4 DEF SamePerson, SameLogin
  <2>4. members' \in [Ids -> MemberRow \cup {None}] /\ logins' \in [Ids -> LoginRow \cup {None}]
    BY <1>1, <1>4 DEF PeopleInd
  <2>. QED  BY <2>2, <2>3, <2>4, PeopleKept
<1>5. CASE /\ pc[c] = "password" /\ logins[On(c)].password = seen[c] /\ Answer(c, "ok")
           /\ logins' = [logins EXCEPT ![On(c)].password = c]
  <2>. DEFINE l == On(c)
  <2>. DEFINE v == [logins[l] EXCEPT !.password = c]
  <2>0. l \in Past /\ l \in Ids /\ logins[l] # None /\ logins[l] \in LoginRow /\ l = On(c)
    BY <1>2
  <2>1. v \in LoginRow /\ v.member = logins[l].member /\ v.password = c
    BY <2>0 DEF LoginRow, Ids
  <2>2. logins' = [logins EXCEPT ![l] = v]
    BY <1>5
  <2>3. pc'[c] = "done" /\ seen'[c] = seen[c] /\ answer'[c] = "ok"
    BY <1>5 DEF Answer, End, Base
  <2>4. seen[c] = l
    BY <1>1, <1>5 DEF PeopleInd, PasswordKnows
  <2>. HIDE DEF l, v
  <2>5. logins'[l] = v /\ v # None /\ \A i \in Ids \ {l} : logins'[i] = logins[i]
    BY <2>0, <2>1, <2>2, NoneIsNoRow DEF PeopleInd
  <2>6. \A i \in Ids : SamePerson(i) /\ SameLogin(i)
    <3>1. \A i \in Ids : SamePerson(i)
      BY <1>1 DEF SamePerson
    <3>2. \A i \in Ids \ {l} : SameLogin(i)
      BY <2>5 DEF SameLogin
    <3>3. SameLogin(l)
      BY <2>0, <2>1, <2>5 DEF SameLogin
    <3>. QED  BY <3>1, <3>2, <3>3
  <2>7. members' \in [Ids -> MemberRow \cup {None}] /\ logins' \in [Ids -> LoginRow \cup {None}]
    BY <1>1, <2>1, <2>2 DEF PeopleInd
  <2>8. PasswordKnows(c)'
    BY <1>1, <2>0, <2>1, <2>3, <2>4, <2>5 DEF PasswordKnows
  <2>9. \A d \in Calls \ {c} : Succeeded(d, {"password"}) => On(d) # On(c)
    <3>1. logins[l].password \notin Calls
      BY <1>5, <2>0, <2>4, CallsAreNew
    <3>. QED  BY <2>0, <3>1 DEF PeopleInd, PasswordKnows, Succeeded
  <2>. QED  BY <2>6, <2>7, <2>8, <2>9, PeopleKept
<1>6. CASE VerifyPassword(c)
  BY <1>3, <1>4, <1>6 DEF VerifyPassword, accessVars
<1>7. CASE WritePassword(c)
  BY <1>3, <1>5, <1>7 DEF WritePassword, At
<1>. QED  BY <1>6, <1>7 DEF ForPasswords

LEMMA PeopleStep ==
    ASSUME Base, LinksInd, RowsInd, RowsInd', PeopleInd, [Next]_vars
    PROVE  PeopleInd'
<1>0. \A q \in Ids : Old(q) /\ Closed(q) => Closed(q)'
  BY ClosedStays
<1>1. ASSUME NEW c \in Calls, AccessStep(c) PROVE PeopleInd'
  <2>0. Moves(c)
    BY <1>1, AccessMoves
  <2>1. CASE Enter(c)
    <3>1. Kind(c) # "password" /\ UNCHANGED people
      BY <2>1 DEF Enter, AppKinds, accessVars, people
    <3>. QED  BY <1>0, <2>0, <3>1, PeopleElsewhere
  <2>2. CASE AddsMember(c) /\ ~CommitMember(c)
    <3>1. Kind(c) # "password" /\ UNCHANGED people
      BY <2>2, GroupKinds DEF AddsMember, Look, InsertPerson, InsertLogin, accessVars, people
    <3>. QED  BY <1>0, <2>0, <3>1, PeopleElsewhere
  <2>3. CASE ForLinks(c) /\ ~Accept(c) /\ ~ConfirmEmail(c)
    <3>1. Kind(c) # "password" /\ UNCHANGED people
      BY <2>3, GroupKinds DEF ForLinks, CheckLink, Issue, Retire, OpenLink, LockLink, LockInvitation, OpenLogin, accessVars, people, MailAfterCommit
    <3>. QED  BY <1>0, <2>0, <3>1, PeopleElsewhere
  <2>4. CASE ForDevices(c)
    <3>1. Kind(c) # "password" /\ UNCHANGED people
      BY <2>4, GroupKinds DEF people
    <3>. QED  BY <1>0, <2>0, <3>1, PeopleElsewhere
  <2>5. CASE CommitMember(c) \/ SetActive(c) \/ Accept(c) \/ ConfirmEmail(c) \/ ForPasswords(c)
    BY <1>0, <2>0, <2>5, CommitMemberPeople, SetActivePeople, AcceptPeople, ConfirmEmailPeople, PasswordsPeople
  <2>. QED  BY <1>1, <2>1, <2>2, <2>3, <2>4, <2>5, AccessGroups
<1>2. ASSUME NEW c \in Calls, RegistrationStep(c) PROVE PeopleInd'
  <2>0. Moves(c) /\ Kind(c) # "password"
    BY <1>2, RegistrationMoves, GroupKinds
  <2>1. CASE CommitApproval(c)
    BY <1>0, <2>0, <2>1, CommitApprovalPeople
  <2>2. CASE ~CommitApproval(c)
    <3>1. UNCHANGED people
      BY <1>2, <2>2 DEF RegistrationStep, Challenge, FindRequest, InsertRequest, ClaimResend, CommitVerification,
         OpenVerification, ClaimVerification, CommitConfirmation, Resolve, ClaimApproval, InsertFounder, FindAddress, GiveAddress,
         Reject, StartCleanup, Delete, rest, accessVars, people
    <3>. QED  BY <1>0, <2>0, <3>1, PeopleElsewhere
  <2>. QED  BY <2>1, <2>2
<1>3. ASSUME NEW c \in Calls, MailMove(c), UNCHANGED rest PROVE PeopleInd'
  <2>1. Moves(c) /\ UNCHANGED people
    BY <1>3, MailMoves DEF rest, accessVars, people
  <2>2. pc'[c] # "password" /\ (answer'[c] = "ok" => Kind(c) # "password")
    BY <1>3, MailMoveAnswers DEF MailAfterCommit
  <2>. QED  BY <1>0, <2>1, <2>2, PeopleElsewhere
<1>4. CASE Quiet \/ HourPasses \/ (\E q \in Ids : RequestAges(q)) \/ \E l \in Ids : LinkAges(l)
  <2>1. UNCHANGED callVars /\ UNCHANGED people
    BY <1>4 DEF Quiet, HourPasses, RequestAges, LinkAges, rest, accessVars, people
  <2>. QED  BY <1>0, <2>1, PeopleQuiet
<1>5. CASE Stop
  BY <1>0, <1>5, StopQuits, PeopleQuiet DEF accessVars, people
<1>. QED  BY <1>1, <1>2, <1>3, <1>4, <1>5, StepCases

-----------------------------------------------------------------------------
(* E-mails: a transaction commits once its e-mail is delivered, or its answer shows the code. *)

LEMMA Arrives ==
    ASSUME NEW c \in Calls, Base
    PROVE  /\ \A where, lock : Proceed(c, where, lock) => pc'[c] = where
           /\ \A where, a : End(c, where, a) => pc'[c] = where
BY DEF Proceed, End, Base

LEMMA CommitsAfterMail ==
    ASSUME NEW c \in Calls, Base, AccessStep(c) \/ RegistrationStep(c), pc'[c] = "commit"
    PROVE  Kind(c) \in {"newDevice", "reissue"} /\ seen'[c] = "revealed"
<1>. USE Arrives DEF Answer, Goto, GotoSeeing, Restart
<1>1. CASE Enter(c)
  <2>1. Kind(c) \in AppKinds /\ FirstStop(c)[1] = "commit"
    BY <1>1 DEF Enter
  <2>. QED  BY <2>1 DEF FirstStop, AppKinds
<1>2. CASE AddsMember(c) \/ SetActive(c) \/ ForPasswords(c)
  BY <1>2 DEF AddsMember, Look, InsertPerson, InsertLogin, CommitMember, SetActive, ForPasswords, VerifyPassword, WritePassword
<1>3. CASE ForLinks(c)
  BY <1>3 DEF ForLinks, CheckLink, Issue, Retire, OpenLink, LockLink, LockInvitation, OpenLogin, Accept, ConfirmEmail
<1>4. CASE ForDevices(c)
  <2>1. CASE ManageDevice(c)
    BY <2>1 DEF ManageDevice, Base
  <2>2. CASE CommitDevice(c) \/ FindDevice(c) \/ Activate(c)
    BY <2>2 DEF CommitDevice, FindDevice, Activate
  <2>. QED  BY <1>4, <2>1, <2>2 DEF ForDevices
<1>5. CASE RegistrationStep(c)
  <2>1. CASE Challenge(c) \/ FindRequest(c) \/ InsertRequest(c) \/ ClaimResend(c) \/ CommitVerification(c)
    BY <2>1 DEF Challenge, FindRequest, InsertRequest, ClaimResend, CommitVerification
  <2>2. CASE OpenVerification(c) \/ ClaimVerification(c) \/ CommitConfirmation(c) \/ Resolve(c)
    BY <2>2 DEF OpenVerification, ClaimVerification, CommitConfirmation, Resolve
  <2>3. CASE ClaimApproval(c) \/ InsertFounder(c) \/ FindAddress(c) \/ GiveAddress(c) \/ CommitApproval(c) \/ Reject(c)
    BY <2>3 DEF ClaimApproval, InsertFounder, FindAddress, GiveAddress, SendCredentials, CommitApproval, Reject
  <2>4. CASE StartCleanup(c) \/ Delete(c)
    BY <2>4 DEF StartCleanup, Delete, Select
  <2>. QED  BY <1>5, <2>1, <2>2, <2>3, <2>4 DEF RegistrationStep
<1>. QED  BY <1>1, <1>2, <1>3, <1>4, <1>5, AccessGroups

LEMMA MailKnowsStep ==
    ASSUME Base, MailInd, [Next]_vars
    PROVE  \A d \in Calls : MailKnows(d)'
<1>. SUFFICES ASSUME NEW d \in Calls, pc'[d] = "commit" PROVE MailKnows(d)'
  BY DEF MailKnows
<1>0. mailbox \subseteq mailbox'
  BY MailboxGrows
<1>1. ASSUME pc[d] = "commit", seen'[d] = seen[d], task' = task PROVE MailKnows(d)'
  BY <1>0, <1>1 DEF MailInd, MailKnows, Kind
<1>2. ASSUME NEW c \in Calls, AccessStep(c) \/ RegistrationStep(c) PROVE MailKnows(d)'
  <2>0. Moves(c)
    BY <1>2, AccessMoves, RegistrationMoves
  <2>1. CASE c = d
    <3>1. Kind(d)' \in {"newDevice", "reissue"} /\ seen'[d] = "revealed"
      BY <1>2, <2>0, <2>1, CommitsAfterMail DEF Moves, Kind
    <3>. QED  BY <3>1 DEF MailKnows
  <2>. QED  BY <1>1, <2>0, <2>1 DEF Moves
<1>3. ASSUME NEW c \in Calls, MailMove(c) PROVE MailKnows(d)'
  <2>0. Moves(c)
    BY <1>3, MailMoves
  <2>1. CASE c = d
    <3>1. d \in mailbox'
      BY <1>3, <2>1, MailMoveAnswers
    <3>. QED  BY <3>1 DEF MailKnows
  <2>. QED  BY <1>1, <2>0, <2>1 DEF Moves
<1>4. CASE Quiet \/ HourPasses \/ (\E q \in Ids : RequestAges(q)) \/ \E l \in Ids : LinkAges(l)
  <2>1. UNCHANGED callVars
    BY <1>4 DEF Quiet, HourPasses, RequestAges, LinkAges
  <2>. QED  BY <1>1, <2>1 DEF callVars
<1>5. CASE Stop
  BY <1>5, StopQuits DEF Quits, Rests, Running
<1>. QED  BY <1>2, <1>3, <1>4, <1>5, StepCases

\* What waits for an answer waited before, by the same link, or is committed with a new one.
LEMMA WaitsByLink ==
    ASSUME Base, RowsInd, [Next]_vars, NEW q \in Ids, requests'[q] # None,
           requests'[q].status \in {"pendiente_correo", "pendiente"}
    PROVE  \/ /\ requests[q] # None /\ requests[q].status \in {"pendiente_correo", "pendiente"}
              /\ requests'[q].link = requests[q].link
           \/ \E c \in Calls : /\ pc[c] = "commit" /\ Kind(c) \in {"register", "resend", "verify"}
                               /\ requests'[q].link = c
<1>. SUFFICES ASSUME requests'[q] # requests[q]
              PROVE  \/ /\ requests[q] # None /\ requests[q].status \in {"pendiente_correo", "pendiente"}
                        /\ requests'[q].link = requests[q].link
                     \/ \E c \in Calls : /\ pc[c] = "commit" /\ Kind(c) \in {"register", "resend", "verify"}
                                         /\ requests'[q].link = c
  OBVIOUS
<1>0. DOMAIN requests = Ids
  BY DEF RowsInd
<1>1. CASE \E p \in Ids : RequestAges(p)
  <2>1. PICK p \in Ids : RequestAges(p)
    BY <1>1
  <2>2. q = p /\ requests[q] # None
    BY <1>0, <2>1 DEF RequestAges
  <2>3. requests[q] \in RequestRow
    BY <2>2 DEF RowsInd
  <2>4. requests'[q].status = requests[q].status /\ requests'[q].link = requests[q].link
    BY <1>0, <2>1, <2>2, <2>3 DEF RequestAges, RequestRow
  <2>. QED  BY <2>2, <2>4
<1>2. ASSUME NEW c \in Calls, RegistrationStep(c)
      PROVE  pc[c] = "commit" /\ Kind(c) \in {"register", "resend", "verify"} /\ requests'[q].link = c
  <2>1. CASE CommitVerification(c)
    <3>1. pc[c] = "commit" /\ Kind(c) \in {"register", "resend"} /\ (seen[c] = None \/ HoldsRow(c))
      BY <2>1 DEF CommitVerification, At, RowsInd, RowKnows, RegisterKnows
    <3>2. CASE seen[c] = None
      <4>1. requests'[c].link = c /\ q = c
        BY <1>0, <2>1, <3>2 DEF CommitVerification
      <4>. QED  BY <3>1, <4>1
    <3>3. CASE seen[c] # None
      <4>1. q = seen[c].row /\ requests[q] \in RequestRow
        BY <1>0, <2>1, <3>1, <3>3 DEF CommitVerification, HoldsRow, RowsInd
      <4>2. requests'[q] = [requests[q] EXCEPT !.link = c, !.sent = requests[q].sent + 1, !.recent = TRUE, !.lapsed = FALSE]
        BY <1>0, <2>1, <3>3, <4>1 DEF CommitVerification
      <4>3. requests'[q].link = c
        BY <4>1, <4>2 DEF RequestRow
      <4>. QED  BY <3>1, <4>3
    <3>. QED  BY <3>2, <3>3
  <2>2. CASE CommitConfirmation(c)
    <3>1. pc[c] = "commit" /\ Kind(c) = "verify" /\ HoldsRow(c)
      BY <2>2 DEF CommitConfirmation, At, RowsInd, RowKnows, VerifyKnows
    <3>2. q = seen[c].row /\ requests[q] \in RequestRow
      BY <1>0, <2>2, <3>1 DEF CommitConfirmation, HoldsRow, RowsInd
    <3>3. requests'[q].link = c
      BY <1>0, <2>2, <3>2 DEF CommitConfirmation, RequestRow
    <3>. QED  BY <3>1, <3>3
  <2>3. CASE CommitApproval(c)
    <3>1. HoldsRow(c)
      BY <2>3 DEF CommitApproval, At, RowsInd, RowKnows, ApproveKnows
    <3>2. q = seen[c].row /\ requests[q] \in RequestRow
      BY <1>0, <2>3, <3>1 DEF CommitApproval, HoldsRow, RowsInd
    <3>3. requests'[q].status = "aprobado"
      BY <1>0, <2>3, <3>2 DEF CommitApproval, RequestRow
    <3>. QED  BY <3>3
  <2>4. CASE Reject(c)
    <3>1. q = seen[c].row /\ requests[q] \in RequestRow
      BY <1>0, <2>4 DEF Reject, RowsInd
    <3>2. requests'[q].status = "rechazado"
      BY <1>0, <2>4, <3>1 DEF Reject, RequestRow
    <3>. QED  BY <3>2
  <2>5. CASE Delete(c)
    BY <2>5 DEF Delete
  <2>6. CASE requests' = requests
    BY <2>6
  <2>. QED
    BY <1>2, <2>1, <2>2, <2>3, <2>4, <2>5, <2>6 DEF RegistrationStep, Challenge, FindRequest, InsertRequest, ClaimResend,
       OpenVerification, ClaimVerification, Resolve, ClaimApproval, InsertFounder, FindAddress, GiveAddress, StartCleanup, rest
<1>. QED  BY <1>1, <1>2, StepCases, StopQuits DEF Quiet, HourPasses, rest

LEMMA OtherRow ==
    ASSUME NEW f, NEW g, NEW i, NEW l \in DOMAIN f, l # i, g = f \/ \E v : g = [f EXCEPT ![i] = v]
    PROVE  g[l] = f[l]
OBVIOUS

\* A login that a request opens with a password of its own is committed with it.
LEMMA OpensLogin ==
    ASSUME Base, DOMAIN logins = Ids, [Next]_vars, NEW l \in Calls, logins[l] = None, logins'[l] # None,
           Kind(l)' \in {"approve", "addMember"}
    PROVE  pc[l] = "commit" /\ Kind(l) \in {"approve", "addMember"}
<1>0. l \in DOMAIN logins /\ logins'[l] # logins[l]
  BY DEF Ids
<1>1. ASSUME NEW c \in Calls, AccessStep(c) PROVE pc[l] = "commit" /\ Kind(l) \in {"approve", "addMember"}
  <2>0. Moves(c) /\ Kind(l)' = Kind(l)
    BY <1>1, AccessMoves DEF Moves, Kind
  <2>1. CASE CommitMember(c)
    <3>1. pc[c] = "commit" /\ Kind(c) = "addMember" /\ l = c
      BY <2>1 DEF CommitMember, At
    <3>. QED  BY <3>1
  <2>2. CASE Accept(c)
    <3>1. Kind(c) = "accept" /\ (logins' = logins \/ \E v : logins' = [logins EXCEPT ![c] = v])
      BY <2>2 DEF Accept, accessVars
    <3>2. l = c
      BY <1>0, <3>1, OtherRow
    <3>. QED  BY <2>0, <3>1, <3>2
  <2>3. CASE WritePassword(c)
    <3>1. Kind(c) = "password" /\ task[c] \in Tasks
      BY <2>0, <2>3 DEF WritePassword, At, Base, Stays, Fits
    <3>2. On(c) \in Past
      BY <3>1, TasksHaveTheirParts DEF Kind, On
    <3>3. l # On(c)
      BY <3>2, CallsAreNew
    <3>4. logins' = logins \/ \E v : logins' = [logins EXCEPT ![On(c)] = v]
      BY <2>3 DEF WritePassword
    <3>. QED  BY <1>0, <3>3, <3>4, OtherRow
  <2>4. CASE logins' = logins
    BY <2>4
  <2>. QED
    BY <1>1, <2>1, <2>2, <2>3, <2>4 DEF AccessStep, Enter, Look, InsertPerson, InsertLogin, SetActive, CheckLink, Issue,
       Retire, OpenLink, LockLink, LockInvitation, OpenLogin, ConfirmEmail, ManageDevice, CommitDevice, FindDevice, Activate, VerifyPassword, accessVars
<1>2. ASSUME NEW c \in Calls, RegistrationStep(c) PROVE pc[l] = "commit" /\ Kind(l) \in {"approve", "addMember"}
  <2>1. CASE CommitApproval(c)
    <3>1. pc[c] = "commit" /\ Kind(c) = "approve" /\ l = c
      BY <2>1 DEF CommitApproval, At
    <3>. QED  BY <3>1
  <2>2. CASE ~CommitApproval(c)
    <3>1. logins' = logins
      BY <1>2, <2>2 DEF RegistrationStep, Challenge, FindRequest, InsertRequest, ClaimResend, CommitVerification,
         OpenVerification, ClaimVerification, CommitConfirmation, Resolve, ClaimApproval, InsertFounder, FindAddress, GiveAddress,
         Reject, StartCleanup, Delete, rest, accessVars
    <3>. QED  BY <3>1
  <2>. QED  BY <2>1, <2>2
<1>3. ASSUME logins' = logins PROVE FALSE
  BY <1>3
<1>4. Quiet \/ HourPasses \/ (\E q \in Ids : RequestAges(q)) \/ (\E k \in Ids : LinkAges(k)) => logins' = logins
  BY DEF Quiet, HourPasses, RequestAges, LinkAges, rest, accessVars
<1>. QED  BY <1>1, <1>2, <1>3, <1>4, StepCases, StopQuits DEF rest, accessVars

\* A device that waits to be activated waited before, by the same code, or is committed with a new one.
LEMMA WaitsByCode ==
    ASSUME Base, DevicesInd, [Next]_vars, NEW d \in Ids, devices'[d] # None, devices'[d].status = "pendiente"
    PROVE  \/ devices[d] # None /\ devices[d].status = "pendiente" /\ devices'[d].code = devices[d].code
           \/ \E c \in Calls : CommitDevice(c) /\ devices'[d].code = c
<1>. DEFINE Goal == \/ devices[d] # None /\ devices[d].status = "pendiente" /\ devices'[d].code = devices[d].code
                    \/ \E c \in Calls : CommitDevice(c) /\ devices'[d].code = c
<1>0. DOMAIN devices = Ids /\ (devices'[d] = devices[d] => Goal)
  BY DEF DevicesInd
<1>1. ASSUME NEW c \in Calls, AccessStep(c) PROVE Goal
  <2>0. Moves(c)
    BY <1>1, AccessMoves
  <2>1. CASE CommitDevice(c)
    <3>1. devices'[d] # devices[d] => devices'[d] = [code |-> c, token |-> None, status |-> "pendiente"]
      BY <1>0, <2>1 DEF CommitDevice
    <3>. QED  BY <1>0, <2>1, <3>1
  <2>2. CASE Accept(c)
    <3>1. devices'[d] # devices[d] => devices'[d].status = "activo"
      BY <1>0, <2>2 DEF Accept, accessVars
    <3>. QED  BY <1>0, <3>1
  <2>3. CASE ManageDevice(c)
    <3>1. devices' = devices \/ (Kind(c) = "revoke" /\ devices' = [devices EXCEPT ![On(c)].status = "revocado"])
      BY <2>3 DEF ManageDevice
    <3>2. Kind(c) = "revoke" => devices[On(c)] \in DeviceRow
      BY <2>0, DeviceExists DEF Moves
    <3>3. devices'[d] # devices[d] => devices'[d].status = "revocado"
      BY <1>0, <3>1, <3>2 DEF DeviceRow
    <3>. QED  BY <1>0, <3>3
  <2>4. CASE Activate(c)
    <3>1. pc[c] = "activate" /\ Kind(c) = "activate"
      BY <2>4 DEF Activate, At, Base, Stays, Fits
    <3>2. seen[c].device \in Ids /\ devices[seen[c].device] # None /\ devices[seen[c].device] \in DeviceRow
      BY <3>1 DEF DevicesInd, DeviceKnows
    <3>3. \/ devices' = devices
          \/ devices' = [devices EXCEPT ![seen[c].device].status = "activo", ![seen[c].device].token = c]
      BY <2>4 DEF Activate
    <3>4. devices'[d] # devices[d] => devices'[d].status = "activo"
      BY <1>0, <3>2, <3>3 DEF DeviceRow
    <3>. QED  BY <1>0, <3>4
  <2>5. CASE devices' = devices
    BY <1>0, <2>5
  <2>. QED
    BY <1>1, <2>1, <2>2, <2>3, <2>4, <2>5 DEF AccessStep, Enter, Look, InsertPerson, InsertLogin, CommitMember, SetActive,
       CheckLink, Issue, Retire, OpenLink, LockLink, LockInvitation, OpenLogin, ConfirmEmail, FindDevice, VerifyPassword, WritePassword, accessVars
<1>2. ASSUME NEW c \in Calls, RegistrationStep(c) PROVE Goal
  <2>1. CASE CommitApproval(c)
    <3>1. devices'[d] # devices[d] => devices'[d].status = "activo"
      BY <1>0, <2>1 DEF CommitApproval
    <3>. QED  BY <1>0, <3>1
  <2>2. CASE ~CommitApproval(c)
    <3>1. devices' = devices
      BY <1>2, <2>2 DEF RegistrationStep, Challenge, FindRequest, InsertRequest, ClaimResend, CommitVerification,
         OpenVerification, ClaimVerification, CommitConfirmation, Resolve, ClaimApproval, InsertFounder, FindAddress, GiveAddress,
         Reject, StartCleanup, Delete, rest, accessVars
    <3>. QED  BY <1>0, <3>1
  <2>. QED  BY <2>1, <2>2
<1>3. Quiet \/ HourPasses \/ (\E q \in Ids : RequestAges(q)) \/ (\E k \in Ids : LinkAges(k)) => devices' = devices
  BY DEF Quiet, HourPasses, RequestAges, LinkAges, rest, accessVars
<1>4. Stop \/ (\E c \in Calls : UNCHANGED rest) => devices' = devices
  BY StopQuits DEF rest, accessVars
<1>. QED  BY <1>0, <1>1, <1>2, <1>3, <1>4, StepCases

LEMMA MailStepInd ==
    ASSUME Base, RowsInd, DevicesInd, PeopleInd, MailInd, [Next]_vars
    PROVE  MailInd'
<1>1. mailbox \subseteq mailbox' /\ mailbox' \subseteq Ids
  BY MailboxGrows DEF MailInd, Ids
<1>2. ASSUME NEW c \in Calls, pc[c] = "commit", Kind(c) \notin {"newDevice", "reissue"} PROVE c \in mailbox'
  BY <1>1, <1>2 DEF MailInd, MailKnows
<1>3. ASSUME NEW q \in Ids, requests'[q] # None, requests'[q].status \in {"pendiente_correo", "pendiente"}
      PROVE  requests'[q].link \in mailbox'
  <2>1. CASE /\ requests[q] # None /\ requests[q].status \in {"pendiente_correo", "pendiente"}
             /\ requests'[q].link = requests[q].link
    BY <1>1, <2>1 DEF MailInd, CommittedSecretsAreDelivered
  <2>2. CASE \E c \in Calls : pc[c] = "commit" /\ Kind(c) \in {"register", "resend", "verify"} /\ requests'[q].link = c
    BY <1>2, <2>2
  <2>. QED  BY <1>3, <2>1, <2>2, WaitsByLink
<1>4. ASSUME NEW l \in Calls, logins'[l] # None, Kind(l)' \in {"approve", "addMember"} PROVE l \in mailbox'
  <2>1. CASE logins[l] = None
    <3>1. pc[l] = "commit" /\ Kind(l) \in {"approve", "addMember"}
      BY <1>4, <2>1, OpensLogin DEF PeopleInd
    <3>. QED  BY <1>2, <3>1
  <2>2. CASE logins[l] # None
    <3>1. task' = task
      BY BaseStep, StepCases, AccessMoves, RegistrationMoves, MailMoves, StopQuits
         DEF Moves, Quits, Quiet, HourPasses, RequestAges, LinkAges, callVars
    <3>2. Kind(l)' = Kind(l)
      BY <3>1 DEF Kind
    <3>. QED  BY <1>1, <1>4, <2>2, <3>2 DEF MailInd, CommittedSecretsAreDelivered
  <2>. QED  BY <2>1, <2>2
<1>5. ASSUME NEW d \in Ids, devices'[d] # None, devices'[d].status = "pendiente" PROVE devices'[d].code \in mailbox'
  <2>1. CASE devices[d] # None /\ devices[d].status = "pendiente" /\ devices'[d].code = devices[d].code
    BY <1>1, <2>1 DEF MailInd, CommittedSecretsAreDelivered
  <2>2. ASSUME NEW c \in Calls, CommitDevice(c), devices'[d].code = c PROVE c \in mailbox'
    BY <1>1, <2>2 DEF CommitDevice, At, MailInd, MailKnows
  <2>. QED  BY <1>5, <2>1, <2>2, WaitsByCode
<1>6. CommittedSecretsAreDelivered'
  BY <1>3, <1>4, <1>5 DEF CommittedSecretsAreDelivered
<1>7. \A c \in Calls : MailKnows(c)'
  BY MailKnowsStep
<1>. QED  BY <1>1, <1>6, <1>7 DEF MailInd

-----------------------------------------------------------------------------
(* The invariant, and what follows from it. *)

Inv == Base /\ LinksInd /\ RowsInd /\ DevicesInd /\ PeopleInd /\ MailInd

\* Before any request, the tables hold what came before, and what was sent about it arrived.
LEMMA InitCalls ==
    ASSUME Init
    PROVE  /\ Base /\ \A c \in Calls : pc[c] \in {"away", "idle"} /\ seen[c] = None /\ answer[c] = "none"
           /\ mailbox = {i \in Past : \/ \E q \in Ids : FirstRequests[q] # None /\ FirstRequests[q].link = i
                                      \/ \E d \in Ids : FirstDevices[d] # None /\ FirstDevices[d].code = i}
<1>1. PICK s \in Scenarios :
          CallsInit(s, {i \in Past : \/ \E q \in Ids : FirstRequests[q] # None /\ FirstRequests[q].link = i
                                     \/ \E d \in Ids : FirstDevices[d] # None /\ FirstDevices[d].code = i})
  BY DEF Init
<1>2. s \in [Calls -> Tasks \cup {None}] /\ task = s
  BY <1>1, ScenariosAreTasks DEF CallsInit
<1>3. /\ pc = [c \in Calls |-> IF s[c] = None THEN "away" ELSE "idle"]
      /\ held = [c \in Calls |-> {}] /\ wants = [c \in Calls |-> None]
      /\ seen = [c \in Calls |-> None] /\ answer = [c \in Calls |-> "none"]
  BY <1>1 DEF CallsInit
<1>4. \A c \in Calls : Stays(c)
  BY <1>2, <1>3 DEF Stays, Fits
<1>5. pc \in [Calls -> Stops]
  BY <1>3 DEF Stops
<1>6. Base
  BY <1>2, <1>3, <1>4, <1>5 DEF Base
<1>. QED  BY <1>1, <1>3, <1>6 DEF CallsInit

LEMMA InitLinks ==
    ASSUME Init
    PROVE  LinksInd
<1>1. links = [l \in Ids |-> None]
  BY DEF Init, AccessInit
<1>2. \A c \in Calls : LinkKnows(c) /\ ~Succeeded(c, {"accept", "confirm"})
  BY InitCalls DEF LinkKnows, Succeeded
<1>. QED  BY <1>1, <1>2 DEF LinksInd, IsPending, Ids

LEMMA InitRows ==
    ASSUME Init
    PROVE  RowsInd
<1>1. requests = FirstRequests /\ hits = [a \in Addresses |-> 0]
  BY DEF Init, RegistrationInit
<1>2. \A c \in Calls : pc[c] \in {"away", "idle"} /\ seen[c] = None /\ answer[c] = "none"
  BY InitCalls
<1>3. \A c \in Calls : RowKnows(c)
  BY <1>2 DEF RowKnows, RegisterKnows, VerifyKnows, ApproveKnows
<1>4. \A q \in Ids : requests[q] # None => q \in Past /\ requests[q].link \in Past
  BY <1>1, FirstRequestsArePast DEF Ids
<1>5. \A p, q \in Ids : requests[p] # None /\ requests[q] # None /\ requests[p].link = requests[q].link => p = q
  BY <1>1, <1>4, FirstRequestsArePast
<1>6. hits \in [Addresses -> 0..MaxEmails]
  BY <1>1, RegistrationBounds
<1>7. \A c \in Calls : ~Succeeded(c, {"verify"}) /\ ~Succeeded(c, {"approve"})
  BY <1>2 DEF Succeeded
<1>. QED  BY <1>1, <1>3, <1>4, <1>5, <1>6, <1>7, FirstRequestsAreRequests DEF RowsInd, Old

LEMMA InitDevices ==
    ASSUME Init
    PROVE  DevicesInd
<1>1. devices = FirstDevices
  BY DEF Init, AccessInit
<1>2. \A c \in Calls : DeviceKnows(c) /\ answer[c] # "ok"
  BY InitCalls DEF DeviceKnows
<1>3. \A d \in Ids : devices[d] # None => d \in Past
  BY <1>1, FirstRowsArePast DEF Ids
<1>4. ASSUME NEW t \in Ids PROVE Cardinality(Activations(t)) + Waiting(t) <= 1 + Cardinality(Reissues(t))
  <2>1. Activations(t) = {} /\ Reissues(t) = {}
    BY <1>2 DEF Activations, Reissues
  <2>2. Cardinality(Activations(t)) = 0 /\ Cardinality(Reissues(t)) = 0
    BY <2>1, FS_EmptySet
  <2>. QED  BY <2>2 DEF Waiting
<1>. QED  BY <1>1, <1>2, <1>3, <1>4, FirstTablesAreTables DEF DevicesInd, Old

LEMMA InitPeople ==
    ASSUME Init
    PROVE  PeopleInd
<1>1. members = FirstMembers /\ logins = FirstLogins /\ requests = FirstRequests
  BY DEF Init, AccessInit, RegistrationInit
<1>2. \A c \in Calls : PasswordKnows(c) /\ ~Succeeded(c, {"password"})
  BY InitCalls DEF PasswordKnows, Succeeded
<1>3. \A i \in Ids : members[i] # None \/ logins[i] # None => i \in Past
  BY <1>1, FirstRowsArePast DEF Ids
<1>4. \A l, k \in Ids : logins[l] # None /\ logins[k] # None /\ logins[l].member = logins[k].member => l = k
  BY <1>1, <1>3, FirstRowsArePast
<1>5. ASSUME NEW m \in Ids, members[m] # None, members[m].of # None
      PROVE  /\ Old(members[m].of) /\ Closed(members[m].of)
             /\ \E l \in Ids : logins[l] # None /\ logins[l].member = m
             /\ \A n \in Ids : members[n] # None /\ members[n].of = members[m].of => n = m
  BY <1>1, <1>3, <1>5, FirstRequestsArePast DEF Old, Closed, Ids
<1>6. \A l \in Ids : logins[l] # None => Old(logins[l].member)
  BY <1>1, <1>3, FirstRowsArePast DEF Old
<1>. QED  BY <1>1, <1>2, <1>3, <1>4, <1>5, <1>6, FirstTablesAreTables DEF PeopleInd, Old

LEMMA InitMail ==
    ASSUME Init
    PROVE  MailInd
<1>1. requests = FirstRequests /\ logins = FirstLogins /\ devices = FirstDevices
  BY DEF Init, AccessInit, RegistrationInit
<1>2. /\ \A c \in Calls : MailKnows(c)
      /\ mailbox \subseteq Ids
  BY InitCalls DEF MailKnows, Ids
<1>3. \A q \in Ids : requests[q] # None => requests[q].link \in mailbox
  BY <1>1, InitCalls, FirstRequestsArePast DEF Ids
<1>4. \A d \in Ids : devices[d] # None => devices[d].code \in mailbox
  BY <1>1, InitCalls, FirstRowsArePast DEF Ids
<1>5. \A l \in Calls : logins[l] = None
  BY <1>1, FirstRowsArePast
<1>. QED  BY <1>2, <1>3, <1>4, <1>5 DEF MailInd, CommittedSecretsAreDelivered

LEMMA Invariance == Spec => []Inv
<1>1. Init => Inv
  BY InitCalls, InitLinks, InitRows, InitDevices, InitPeople, InitMail DEF Inv
<1>2. Inv /\ [Next]_vars => Inv'
  <2>. SUFFICES ASSUME Inv, [Next]_vars PROVE Inv'
    OBVIOUS
  <2>1. Base' /\ LinksInd' /\ DevicesInd' /\ MailInd'
    BY BaseStep, LinksStep, DevicesStep, MailStepInd DEF Inv, MailInd
  <2>2. RowsInd'
    BY <2>1, RowsStep DEF Inv
  <2>3. PeopleInd'
    BY <2>2, PeopleStep DEF Inv
  <2>. QED  BY <2>1, <2>2, <2>3 DEF Inv
<1>. QED  BY <1>1, <1>2, PTL DEF Spec

\* Members, logins, devices, links, requests, counts and e-mails keep their types, whatever
\* handlers of registration and access interleave and wherever the process stops.
THEOREM Types == Spec => []TypeOK
<1>1. Inv => TypeOK
  BY DEF Inv, LinksInd, RowsInd, DevicesInd, PeopleInd, MailInd, TypeOK
<1>. QED  BY <1>1, Invariance, PTL

\* invite, and the request to confirm an address, supersede the earlier links of a member with the row of
\* the member locked: of the invitations of a member at most one can be accepted, of the confirmations one.
THEOREM LinksExcludeEachOther == Spec => []OneLiveLink
<1>1. Inv => OneLiveLink
  <2>. SUFFICES ASSUME Inv, NEW l \in Calls, NEW k \in Calls,
                       Live(l), Live(k), Kind(l) = Kind(k), links[l].member = links[k].member
                PROVE  l = k
    BY DEF OneLiveLink
  <2>1. IsPending(l) /\ IsPending(k)
    BY DEF Live, IsPending
  <2>2. links[l].member = On(l) /\ links[k].member = On(k)
    BY <2>1 DEF Inv, LinksInd, IsPending, Ids
  <2>. QED  BY <2>1, <2>2 DEF Inv, LinksInd, Alike
<1>. QED  BY <1>1, Invariance, PTL

\* What the claims of identify, verifyEmail, approveInTransaction, accept, confirm and changePassword are
\* for: however many requests race, the same link, invitation or password works for one of them, and a
\* device is activated at most once more often than it was given another code.
THEOREM UsedOnce == Spec => []SecretsWorkOnce
<1>1. ASSUME Inv, NEW c \in Calls, NEW d \in Calls,
             answer[c] = "ok", answer[d] = "ok", Kind(c) = Kind(d), UsedSecret(c) = UsedSecret(d),
             Kind(c) \in {"verify", "approve", "accept", "confirm", "password"}
      PROVE  c = d
  <2>. USE <1>1
  <2>1. CASE Kind(c) \in {"accept", "confirm"}
    <3>1. seen[c] = seen[d]
      BY <2>1 DEF UsedSecret
    <3>. QED  BY <2>1, <3>1 DEF Inv, LinksInd, Succeeded
  <2>2. CASE Kind(c) = "verify"
    <3>1. seen[c].link = seen[d].link
      BY <2>2 DEF UsedSecret
    <3>. QED  BY <2>2, <3>1 DEF Inv, RowsInd, Succeeded
  <2>3. CASE Kind(c) = "approve"
    <3>1. seen[c].row = seen[d].row
      BY <2>3 DEF UsedSecret
    <3>. QED  BY <2>3, <3>1 DEF Inv, RowsInd, Succeeded
  <2>4. CASE Kind(c) = "password"
    <3>1. seen[c] = seen[d]
      BY <2>4 DEF UsedSecret
    <3>2. seen[c] = On(c) /\ seen[d] = On(d)
      BY <2>4 DEF Inv, PeopleInd, PasswordKnows
    <3>3. Succeeded(c, {"password"}) /\ Succeeded(d, {"password"})
      BY <2>4 DEF Succeeded
    <3>4. On(c) = On(d)
      BY <3>1, <3>2
    <3>. QED  BY <3>3, <3>4 DEF Inv, PeopleInd
  <2>. QED  BY <2>1, <2>2, <2>3, <2>4
<1>2. ASSUME Inv, NEW t \in Ids PROVE Cardinality(Activations(t)) <= 1 + Cardinality(Reissues(t))
  <2>1. Cardinality(Activations(t)) + Waiting(t) <= 1 + Cardinality(Reissues(t))
    BY <1>2 DEF Inv, DevicesInd
  <2>2. Cardinality(Activations(t)) \in Nat /\ Cardinality(Reissues(t)) \in Nat /\ Waiting(t) \in {0, 1}
    BY Tallies DEF Waiting
  <2>. QED  BY <2>1, <2>2
<1>3. Inv => SecretsWorkOnce
  BY <1>1, <1>2 DEF SecretsWorkOnce
<1>. QED  BY <1>3, Invariance, PTL

\* approveInTransaction claims the request by its status: however approvals, rejections and the cleanup
\* overlap, a request founds one business, and the founder has exactly one login.
THEOREM FoundedOnce == Spec => []OneBusinessPerRequest
<1>1. Inv => OneBusinessPerRequest
  BY DEF Inv, PeopleInd, OneBusinessPerRequest
<1>. QED  BY <1>1, Invariance, PTL

\* The transactions of registration and access send their e-mail before they commit: whatever is lost,
\* late or interrupted, a link, a first password or a code that a committed row goes by was delivered.
THEOREM SecretsAreDelivered == Spec => []CommittedSecretsAreDelivered
<1>1. Inv => CommittedSecretsAreDelivered
  BY DEF Inv, MailInd
<1>. QED  BY <1>1, Invariance, PTL

=============================================================================
