------------------------------- MODULE Actors -------------------------------
(***************************************************************************)
(* Who may act.  Every service re-validates its actor by reading the       *)
(* account, the member and the device at the start of its transaction,     *)
(* without locking them, while a socio may revoke or restore any of them.  *)
(***************************************************************************)
CONSTANTS
    Actors,     \* selections: an account acting as a member on a device
    Socios      \* those whose member has the role socio (a role never changes)

ASSUME SociosAreActors == Socios \subseteq Actors

VARIABLE authorized     \* the selections whose account, member and device are in force

ActorsTypeOK == authorized \subseteq Actors

MayAct(a) == a \in authorized
MayActAsSocio(a) == a \in authorized \cap Socios

ActorsInit == authorized = Actors

\* The device is revoked, or the account or the member is deactivated.
Revoke(a) ==
    /\ a \in authorized
    /\ authorized' = authorized \ {a}

\* The member is reactivated, or the device is issued again.
Reinstate(a) ==
    /\ a \in Actors \ authorized
    /\ authorized' = authorized \cup {a}
=============================================================================
