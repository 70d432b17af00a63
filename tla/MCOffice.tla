------------------------------ MODULE MCOffice ------------------------------
(***************************************************************************)
(* A business with an owner, a partner without login and a helper; one     *)
(* request that waits for its confirmation and one that was confirmed; and *)
(* up to three requests that arrive together.                              *)
(***************************************************************************)
EXTENDS Office, TLC

CONSTANTS x, y, z, q0, q1, v1, owner, partner, helper, counter, tablet, aa, bb, cc

NoRows == [i \in Ids |-> None]
Member(role) == [role |-> role, active |-> TRUE, correo |-> None, of |-> None]
MCMembers == owner :> Member("socio") @@ partner :> Member("socio") @@ helper :> Member("colaborador") @@ NoRows
Login(m) == [name |-> m, member |-> m, password |-> m]
MCLogins == owner :> Login(owner) @@ helper :> Login(helper) @@ NoRows
MCDevices ==
    counter :> [code |-> counter, token |-> None, status |-> "activo"] @@
    tablet :> [code |-> tablet, token |-> None, status |-> "pendiente"] @@ NoRows
Request(a, status, link) ==
    [correo |-> a, status |-> status, link |-> link, sent |-> 1, business |-> None,
     recent |-> FALSE, lapsed |-> FALSE, old |-> FALSE]
MCRequests == q0 :> Request(aa, "pendiente_correo", q0) @@ q1 :> Request(bb, "pendiente", v1) @@ NoRows

Task(kind, a, on) == [kind |-> kind, address |-> a, on |-> on]
At_(kind, a) == Task(kind, a, None)
About(kind, on) == Task(kind, None, on)
Page(kind) == Task(kind, None, None)

register == At_("register", cc)
resend == At_("resend", aa)
stranger == At_("resend", cc)
verify == Page("verify")
approve == Page("approve")
reject == Page("reject")
cleanup == Page("cleanup")
add == At_("addMember", cc)
addAsFounder == At_("addMember", bb)
invite == Task("invite", cc, partner)
askEmail == Task("askEmail", cc, owner)
askAsFounder == Task("askEmail", bb, owner)
accept == Page("accept")
confirm == Page("confirm")
newDevice == Page("newDevice")
activate == Page("activate")
revoke == About("revoke", tablet)
lose == About("revoke", counter)
reissue == About("reissue", tablet)
deactivate == About("deactivate", helper)
reactivate == About("reactivate", helper)
dismiss == About("deactivate", partner)
password == About("password", owner)

Together(a, b, c) == [i \in Calls |-> CASE i = x -> a [] i = y -> b [] i = z -> c]
MCScenarios ==
    { Together(register, register, verify), Together(register, register, register), Together(resend, resend, verify),
      Together(resend, stranger, cleanup), Together(verify, verify, cleanup), Together(verify, approve, cleanup),
      Together(approve, approve, cleanup), Together(approve, reject, cleanup), Together(approve, addAsFounder, None),
      Together(addAsFounder, addAsFounder, None),
      Together(invite, invite, accept), Together(invite, accept, accept), Together(invite, accept, add),
      Together(askAsFounder, confirm, approve), Together(askEmail, confirm, confirm), Together(askEmail, confirm, add), Together(invite, accept, askEmail),
      Together(activate, reissue, activate), Together(activate, revoke, reissue), Together(newDevice, activate, lose),
      Together(lose, deactivate, add), Together(deactivate, reactivate, dismiss), Together(password, password, None) }
MCTasks == UNION {{s[c] : c \in Calls} : s \in MCScenarios} \ {None}
=============================================================================
