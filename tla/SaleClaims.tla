----------------------------- MODULE SaleClaims -----------------------------
(***************************************************************************)
(* Two statements of the documentation about POST /sales that the code     *)
(* does not keep, each checked on the composed model.                      *)
(***************************************************************************)
EXTENDS MCInventory

VARIABLE servable   \* could the whole order of r be served when it first read stock?

\* Every product of the order is on sale with enough stock, as committed now.
ServableNow(r) ==
    \A p \in Products :
        OrderOf(Body[r])[p] > 0 =>
            row[p].state = "active" /\ OrderOf(Body[r])[p] <= row[p].stock

ClaimsInit == Init /\ servable = [r \in SaleReqs |-> FALSE]

ClaimsNext ==
    /\ Next
    /\ servable' = [r \in SaleReqs |->
          IF pc[r] = "read" /\ line[r] = 1 /\ pc'[r] # "read" THEN ServableNow(r)
          ELSE servable[r]]

ClaimsSpec == ClaimsInit /\ [][ClaimsNext]_<<vars, servable>>

(* "A genuine concurrent stock loser is persisted as rechazada_por_conflicto" *)
(* (README.md:207): when all the goods were there at the initial read of   *)
(* the transaction, running out of them is a lost race, not a bad request. *)
GenuineLoserIsRecorded ==
    [][\A r \in SaleReqs :
          (pc[r] = "read" /\ pc'[r] = "recover" /\ View(r, Item0(r).product).state = "active")
              => ~servable[r]]_<<vars, servable>>

(* "a device deauthorized or a member removed/deactivated between the      *)
(* guard running and the transaction committing is still honored"          *)
(* (SalesService.authorize).                                               *)
RevocationIsHonored ==
    [][\A r \in SaleReqs :
          (pc[r] = "insert" /\ reply'[r] = "201" /\ pc'[r] = "done") => MayAct(Body[r].actor)]_vars
=============================================================================
