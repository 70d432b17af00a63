------------------------------- MODULE Access -------------------------------
(***************************************************************************)
(* The people of a business, their logins, the links that invite them or   *)
(* confirm their address, and the devices they work on.  One socio, the    *)
(* Owner, makes the requests of the app on one device, the Counter; the    *)
(* requests of a public page come from whoever a link was delivered to.    *)
(***************************************************************************)
EXTENDS Mailroom, FiniteSets

CONSTANTS
    Addresses,   \* e-mail addresses, in lower case
    Owner, Counter,
    FirstMembers, FirstLogins, FirstDevices     \* the tables at the start

AppKinds == {"addMember", "invite", "askEmail", "newDevice", "revoke", "reissue", "deactivate", "reactivate"}

\* Device.authorized is TRUE exactly while its status is "activo".
MemberRow == [role : {"socio", "colaborador"}, active : BOOLEAN, correo : Addresses \cup {None}, of : Ids \cup {None}]
LoginRow == [name : Addresses \cup Ids, member : Ids, password : Ids]
DeviceRow == [code : Ids, token : Ids \cup {None}, status : {"pendiente", "activo", "revocado"}]
LinkRow == [member : Ids, used : BOOLEAN, dead : BOOLEAN, recent : BOOLEAN, expired : BOOLEAN]

ASSUME FirstTablesAreTables ==
    /\ FirstMembers \in [Ids -> MemberRow \cup {None}]
    /\ FirstLogins \in [Ids -> LoginRow \cup {None}]
    /\ FirstDevices \in [Ids -> DeviceRow \cup {None}]

ASSUME NoneIsNoRow == None \notin MemberRow \cup LoginRow \cup DeviceRow \cup LinkRow

\* What exists at the start came to be before the requests: a code belongs to one device,
\* and a person has one login.
ASSUME FirstRowsArePast ==
    /\ \A c \in Calls : FirstMembers[c] = None /\ FirstLogins[c] = None /\ FirstDevices[c] = None
    /\ \A d \in Past : FirstDevices[d] # None =>
           /\ FirstDevices[d].code \in Past
           /\ \A e \in Past : FirstDevices[e] # None /\ FirstDevices[e].code = FirstDevices[d].code => e = d
    /\ \A l \in Past : FirstLogins[l] # None =>
           /\ FirstLogins[l].member \in Past
           /\ \A k \in Past : FirstLogins[k] # None /\ FirstLogins[k].member = FirstLogins[l].member => k = l

\* A request names an address where it must, and somebody or something that exists.
ASSUME TasksHaveTheirParts ==
    \A t \in Tasks :
        /\ t.kind \in {"register", "resend", "addMember"} \cup MailAfterCommit => t.address \in Addresses
        /\ t.kind \in {"deactivate", "reactivate"} \cup MailAfterCommit => t.on \in Past /\ FirstMembers[t.on] # None
        /\ t.kind \in {"revoke", "reissue"} => t.on \in Past /\ FirstDevices[t.on] # None
        /\ t.kind = "password" => t.on \in Past /\ FirstLogins[t.on] # None

VARIABLES members, logins, devices, links

people == <<members, logins>>
accessVars == <<members, logins, devices, links>>

-----------------------------------------------------------------------------
Taken(name) == \E l \in Ids : logins[l] # None /\ logins[l].name = name
AddressTaken(a) == \E m \in Ids : members[m] # None /\ members[m].correo = a
HasLogin(m) == \E l \in Ids : logins[l] # None /\ logins[l].member = m
ActiveSocio(m) == members[m] # None /\ members[m].active /\ members[m].role = "socio"

\* The re-validation inside a transaction, and what the guards ask before it.
Authorized == ActiveSocio(Owner) /\ devices[Counter].status = "activo"
MayEnter == Authorized /\ devices[Counter].token = FirstDevices[Counter].token

FirstStop(c) ==
    CASE Kind(c) = "addMember"                -> <<"look", None>>
      [] Kind(c) = "newDevice"                -> <<"device", None>>
      [] Kind(c) \in {"revoke", "reissue"}    -> <<"device", <<"device", On(c)>>>>
      [] OTHER                                -> <<"member", <<"member", On(c)>>>>

\* AuthGuard, ContextGuard and SocioGuard.
Enter(c) ==
    /\ At(c, "idle") /\ Kind(c) \in AppKinds
    /\ \/ ~MayEnter /\ Answer(c, "403")
       \/ MayEnter /\ Goto(c, FirstStop(c)[1], FirstStop(c)[2])
    /\ UNCHANGED <<mailVars, accessVars>>

-----------------------------------------------------------------------------
(* MembersService.create: the person, then the login, then the e-mail.     *)
Look(c) ==
    /\ At(c, "look") /\ Kind(c) = "addMember"
    /\ \/ ~Authorized /\ Answer(c, "403")
       \/ Authorized /\ Taken(Address(c)) /\ Answer(c, "409")
       \/ Authorized /\ ~Taken(Address(c)) /\ Goto(c, "person", <<"address", Address(c)>>)
    /\ UNCHANGED <<mailVars, accessVars>>

InsertPerson(c) ==
    /\ At(c, "person")
    /\ \/ AddressTaken(Address(c)) /\ Answer(c, "409")
       \/ ~AddressTaken(Address(c)) /\ Goto(c, "login", <<"login", Address(c)>>)
    /\ UNCHANGED <<mailVars, accessVars>>

\* A username lost to a racing insert is derived again, in another transaction.
InsertLogin(c) ==
    /\ At(c, "login")
    /\ \/ Taken(Address(c)) /\ Restart(c, "look") /\ UNCHANGED mailVars
       \/ ~Taken(Address(c)) /\ Goto(c, "mail", None) /\ Send(c)
    /\ UNCHANGED accessVars

CommitMember(c) ==
    /\ At(c, "commit") /\ Kind(c) = "addMember"
    /\ members' = [members EXCEPT ![c] = [role |-> "colaborador", active |-> TRUE, correo |-> Address(c), of |-> None]]
    /\ logins' = [logins EXCEPT ![c] = [name |-> Address(c), member |-> c, password |-> c]]
    /\ Answer(c, "ok")
    /\ UNCHANGED <<mailVars, devices, links>>

\* deactivate and reactivate, with the row locked.
SetActive(c) ==
    /\ At(c, "member") /\ Kind(c) \in {"deactivate", "reactivate"}
    /\ LET m == members[On(c)]
       IN  \/ ~Authorized /\ Answer(c, "403") /\ UNCHANGED members
           \/ /\ Authorized /\ Kind(c) = "deactivate" /\ m.role = "socio"
              /\ Answer(c, "400") /\ UNCHANGED members
           \/ /\ Authorized /\ ~(Kind(c) = "deactivate" /\ m.role = "socio")
              /\ members' = [members EXCEPT ![On(c)].active = (Kind(c) = "reactivate")]
              /\ Answer(c, "ok")
    /\ UNCHANGED <<mailVars, logins, devices, links>>

-----------------------------------------------------------------------------
(* Links: an invitation to open a login, a confirmation of an address.     *)
Live(l) == links[l] # None /\ ~links[l].used /\ ~links[l].dead /\ ~links[l].expired
Rivals(c) == {l \in Calls : links[l] # None /\ Kind(l) = Kind(c) /\ links[l].member = On(c)}
Pending(c) == {l \in Rivals(c) : ~links[l].used /\ ~links[l].dead}

\* A login with the address is in the way of an invitation, and of a confirmation unless it
\* is the member's own.
Refused(c) ==
    \/ ~ActiveSocio(On(c))
    \/ IF Kind(c) = "invite" THEN Taken(Address(c)) \/ HasLogin(On(c)) \/ \E l \in Rivals(c) : links[l].recent
       ELSE \/ members[On(c)].correo # None \/ AddressTaken(Address(c))
            \/ \E l \in Ids : logins[l] # None /\ logins[l].name = Address(c) /\ logins[l].member # On(c)

\* Mutant: the row of the member is read without FOR UPDATE.
CheckLinkMutant(c) ==
    /\ pc[c] = "member" /\ Kind(c) \in MailAfterCommit
    /\ \/ Refused(c) /\ Answer(c, "409")
       \/ /\ ~Refused(c)
          /\ pc' = [pc EXCEPT ![c] = "issue"]
          /\ wants' = [wants EXCEPT ![c] = None]
          /\ seen' = [seen EXCEPT ![c] = Pending(c)]
          /\ UNCHANGED <<task, held, answer>>
    /\ UNCHANGED <<mailVars, accessVars>>

\* With the row of the member locked.
CheckLink(c) ==
    /\ At(c, "member") /\ Kind(c) \in MailAfterCommit
    /\ \/ Refused(c) /\ Answer(c, "409")
       \/ ~Refused(c) /\ Pending(c) = {} /\ GotoSeeing(c, "issue", None, {})
       \/ ~Refused(c) /\ \E l \in Pending(c) : GotoSeeing(c, "issue", <<"link", l>>, Pending(c))
    /\ UNCHANGED <<mailVars, accessVars>>

\* Earlier links are superseded; the e-mail follows the commit.
Issue(c) ==
    /\ At(c, "issue")
    /\ links' = [l \in Ids |->
                    IF l = c THEN [member |-> On(c), used |-> FALSE, dead |-> FALSE, recent |-> TRUE, expired |-> FALSE]
                    ELSE IF l \in seen[c] /\ ~links[l].used THEN [links[l] EXCEPT !.dead = TRUE]
                    ELSE links[l]]
    /\ Restart(c, "mail")
    /\ Send(c)
    /\ UNCHANGED <<members, logins, devices>>

\* The link that was not sent is superseded too, unless that fails as well.
Retire(c) ==
    /\ At(c, "retire")
    /\ links' \in {links, [links EXCEPT ![c].dead = TRUE]}
    /\ Answer(c, "422")
    /\ UNCHANGED <<mailVars, members, logins, devices>>

Uses(c) == IF Kind(c) = "accept" THEN "invite" ELSE "askEmail"

\* The page of a link; too many attempts are refused.
OpenLink(c) ==
    /\ At(c, "idle") /\ Kind(c) \in {"accept", "confirm"}
    /\ \E l \in mailbox :
          /\ links[l] # None /\ Kind(l) = Uses(c)
          /\ \/ Answer(c, "429")
             \/ ~Live(l) /\ Answer(c, "404")
             \/ Live(l) /\ GotoSeeing(c, "use", <<"link", l>>, l)
    /\ UNCHANGED <<mailVars, accessVars>>

LockLink(c) ==
    /\ At(c, "use") /\ Kind(c) = "confirm"
    /\ \/ ~Live(seen[c]) /\ Answer(c, "404")
       \/ Live(seen[c]) /\ Goto(c, "apply", <<"member", links[seen[c]].member>>)
    /\ UNCHANGED <<mailVars, accessVars>>

\* account_invitation_accept locks the invitation, and looks without a lock at the member
\* and at the logins.
LockInvitation(c) ==
    LET m == links[seen[c]].member
        name == Address(seen[c])
        good == Live(seen[c]) /\ ActiveSocio(m) /\ ~HasLogin(m) /\ ~Taken(name)
    IN  /\ At(c, "use") /\ Kind(c) = "accept"
        /\ \/ ~good /\ Answer(c, "404")
           \/ good /\ Goto(c, "open", <<"login", name>>)
        /\ UNCHANGED <<mailVars, accessVars>>

\* The login is inserted: a name, or a login of the member, that came in between breaks a
\* unique index, and the foreign key waits for the row of the member.
OpenLogin(c) ==
    /\ At(c, "open")
    /\ \/ Taken(Address(seen[c])) /\ Answer(c, "500")
       \/ ~Taken(Address(seen[c])) /\ Goto(c, "apply", <<"member", links[seen[c]].member>>)
    /\ UNCHANGED <<mailVars, accessVars>>

\* The login with the chosen password, and the device in use.  (No login of the member comes
\* in between: only by another live invitation of theirs, and there is none.)
Accept(c) ==
    LET m == links[seen[c]].member
    IN  /\ At(c, "apply") /\ Kind(c) = "accept"
        /\ \/ HasLogin(m) /\ Answer(c, "500") /\ UNCHANGED accessVars
           \/ /\ ~HasLogin(m)
              /\ logins' = [logins EXCEPT ![c] = [name |-> Address(seen[c]), member |-> m, password |-> c]]
              /\ devices' = [devices EXCEPT ![c] = [code |-> c, token |-> c, status |-> "activo"]]
              /\ links' = [links EXCEPT ![seen[c]].used = TRUE]
              /\ Answer(c, "ok")
              /\ UNCHANGED members
        /\ UNCHANGED mailVars

\* member_email_confirm: the address becomes the member's, once.
ConfirmEmail(c) ==
    LET m == links[seen[c]].member
        a == Address(seen[c])
        refused == ~ActiveSocio(m) \/ members[m].correo # None \/ AddressTaken(a)
    IN  /\ At(c, "apply") /\ Kind(c) = "confirm" /\ Free(c, <<"address", a>>)
        /\ \/ refused /\ Answer(c, "404") /\ UNCHANGED accessVars
           \/ /\ ~refused
              /\ members' = [members EXCEPT ![m].correo = a]
              /\ links' = [l \in Ids |->
                              IF l = seen[c] THEN [links[l] EXCEPT !.used = TRUE]
                              ELSE IF links[l] # None /\ Kind(l) = "askEmail" /\ links[l].member = m
                                      /\ ~links[l].used
                              THEN [links[l] EXCEPT !.dead = TRUE] ELSE links[l]]
              /\ Answer(c, "ok")
              /\ UNCHANGED <<logins, devices>>
        /\ UNCHANGED mailVars

-----------------------------------------------------------------------------
(* Devices.                                                                *)
ManageDevice(c) ==
    /\ At(c, "device")
    /\ \/ ~Authorized /\ Answer(c, "403") /\ UNCHANGED <<mailVars, devices>>
       \/ /\ Authorized /\ Kind(c) = "revoke"
          /\ devices' = [devices EXCEPT ![On(c)].status = "revocado"]
          /\ Answer(c, "ok") /\ UNCHANGED mailVars
       \/ /\ Authorized /\ Kind(c) \in {"newDevice", "reissue"}
          /\ \/ Goto(c, "mail", None) /\ Send(c)
             \/ GotoSeeing(c, "commit", None, "revealed") /\ UNCHANGED mailVars
          /\ UNCHANGED devices
    /\ UNCHANGED <<members, logins, links>>

\* A fresh code, no token, not authorized.  Without e-mail the answer shows the code.
CommitDevice(c) ==
    /\ At(c, "commit") /\ Kind(c) \in {"newDevice", "reissue"}
    /\ devices' = [devices EXCEPT ![IF Kind(c) = "reissue" THEN On(c) ELSE c] =
                      [code |-> c, token |-> None, status |-> "pendiente"]]
    /\ mailbox' = IF seen[c] = "revealed" THEN mailbox \cup {c} ELSE mailbox
    /\ Answer(c, "ok")
    /\ UNCHANGED <<post, members, logins, links>>

\* identify: whoever has a code types it, with the name of the device.
FindDevice(c) ==
    /\ At(c, "idle") /\ Kind(c) = "activate"
    /\ \E code \in mailbox :
          LET found == {d \in Ids : devices[d] # None /\ devices[d].code = code}
          IN  \/ found = {} /\ Answer(c, "403")
              \/ \E d \in found :
                    \/ devices[d].status = "revocado" /\ Answer(c, "409")
                    \/ devices[d].status = "activo" /\ Answer(c, IF devices[d].token = None THEN "legacy" ELSE "409")
                    \/ devices[d].status = "pendiente"
                       /\ GotoSeeing(c, "activate", <<"device", d>>, [code |-> code, device |-> d])
    /\ UNCHANGED <<mailVars, accessVars>>

\* Mutant: the row is updated by its id alone.
ActivateMutant(c) ==
    /\ At(c, "activate")
    /\ devices' = [devices EXCEPT ![seen[c].device].status = "activo", ![seen[c].device].token = c]
    /\ Answer(c, "ok")
    /\ UNCHANGED <<mailVars, members, logins, links>>

\* The update asks for the status only, not for the code that was typed.
Activate(c) ==
    /\ At(c, "activate")
    /\ LET d == seen[c].device
       IN  \/ devices[d].status # "pendiente" /\ Answer(c, "409") /\ UNCHANGED devices
           \/ /\ devices[d].status = "pendiente"
              /\ devices' = [devices EXCEPT ![d].status = "activo", ![d].token = c]
              /\ Answer(c, "ok")
    /\ UNCHANGED <<mailVars, members, logins, links>>

-----------------------------------------------------------------------------
(* AuthService.changePassword, by somebody who knows the first password.   *)
VerifyPassword(c) ==
    /\ At(c, "idle") /\ Kind(c) = "password"
    /\ \/ logins[On(c)].password # On(c) /\ Answer(c, "403")
       \/ logins[On(c)].password = On(c) /\ GotoSeeing(c, "password", None, On(c))
    /\ UNCHANGED <<mailVars, accessVars>>

\* The write asks for the hash that was verified.
WritePassword(c) ==
    /\ At(c, "password")
    /\ LET l == On(c)
       IN  \/ logins[l].password # seen[c] /\ Answer(c, "409") /\ UNCHANGED logins
           \/ /\ logins[l].password = seen[c]
              /\ logins' = [logins EXCEPT ![l].password = c]
              /\ Answer(c, "ok")
    /\ UNCHANGED <<mailVars, members, devices, links>>

-----------------------------------------------------------------------------
AccessStep(c) ==
    \/ Enter(c) \/ Look(c) \/ InsertPerson(c) \/ InsertLogin(c) \/ CommitMember(c) \/ SetActive(c)
    \/ CheckLink(c) \/ Issue(c) \/ Retire(c) \/ OpenLink(c) \/ LockLink(c) \/ LockInvitation(c)
    \/ OpenLogin(c) \/ Accept(c) \/ ConfirmEmail(c)
    \/ ManageDevice(c) \/ CommitDevice(c) \/ FindDevice(c) \/ Activate(c)
    \/ VerifyPassword(c) \/ WritePassword(c)

\* A minute, or two days, since a link was sent.
LinkAges(l) ==
    /\ links[l] # None
    /\ \/ links[l].recent /\ links' = [links EXCEPT ![l].recent = FALSE]
       \/ ~links[l].recent /\ ~links[l].expired /\ links' = [links EXCEPT ![l].expired = TRUE]
    /\ UNCHANGED <<callVars, mailVars, members, logins, devices>>

AccessInit ==
    /\ members = FirstMembers
    /\ logins = FirstLogins
    /\ devices = FirstDevices
    /\ links = [l \in Ids |-> None]
=============================================================================
