---------------------------- MODULE MCInventory ----------------------------
(***************************************************************************)
(* Small shops for TLC.  Each configuration picks which requests arrive.   *)
(***************************************************************************)
EXTENDS Inventory, TLC

CONSTANTS p1, p2, p3, s1, s2, s3, s4, socia, vendedora, d1, d2,
          r1, r1again, r2, r3, r4, r4again, r4other, rOne, rLegacy, rThief,
          patch, dearer, clear, restock, restock2, restockUnica, restockNew,
          create, withdraw, putBack, lost,
          credit, creditAgain, creditOther, creditAnon, creditBad, creditOver, pay, payAgain,
          Scenario

\* p1 and p2 are on sale; p3 is not there yet.
MCShelf == [p \in Products |->
    CASE p = p1 -> [state |-> "active", stock |-> 2, price |-> 2, cost |-> 1]
      [] p = p2 -> [state |-> "active", stock |-> 1, price |-> 1, cost |-> Null]
      [] p = p3 -> [state |-> "absent", stock |-> 0, price |-> 0, cost |-> Null]]

It(p, q) == [product |-> p, qty |-> q]

CashSale(id, who, items, cash) ==
    [id |-> id, seller |-> who, actor |-> who, items |-> items,
     method |-> "EFECTIVO", cash |-> cash, late |-> FALSE]

\* r1, r1again: one body submitted twice.  r4other: another body, same id.
\* r1 and r2 take the two products in opposite orders.  r4 and its twins ask
\* for goods enough for two of them, so that they race for the id alone.
AllBodies ==
    r1      :> CashSale(s1, vendedora, <<It(p1, 1), It(p2, 1)>>, 4) @@
    r1again :> CashSale(s1, vendedora, <<It(p2, 1), It(p1, 1)>>, 4) @@
    r2      :> [CashSale(s2, socia, <<It(p2, 1), It(p1, 2)>>, Null) EXCEPT
                  !.method = "TARJETA", !.late = TRUE] @@
    r3      :> CashSale(s3, socia, <<It(p1, 1), It(p1, 1)>>, 4) @@
    r4      :> CashSale(s2, vendedora, <<It(p1, 1)>>, 4) @@
    r4again :> CashSale(s2, vendedora, <<It(p1, 1)>>, 4) @@
    r4other :> CashSale(s2, vendedora, <<It(p1, 1)>>, 5) @@
    rOne    :> CashSale(s2, socia, <<It(p2, 1)>>, 4) @@
    rLegacy :> CashSale(s4, vendedora, <<It(p2, 1), It(p1, 1)>>, 3) @@
    rThief  :> [CashSale(s2, socia, <<It(p1, 1)>>, 2) EXCEPT !.actor = vendedora]

MCBody == [r \in SaleReqs |-> AllBodies[r]]

\* A sale from before the fingerprints, that rLegacy sends once more.
LegacyRow == [SaleRow(AllBodies[rLegacy], "completada",
                      [p \in Products |-> [qty |-> 1, price |-> 1, cost |-> Null]], 2)
                EXCEPT !.fingerprint = NoFingerprint]

MCHistory == [i \in SaleIds |-> IF i = s4 /\ rLegacy \in SaleReqs THEN LegacyRow ELSE NoSale]

AllOps ==
    patch    :> [kind |-> "patch", actor |-> socia, product |-> p1, price |-> 3, cost |-> 2] @@
    dearer   :> [kind |-> "patch", actor |-> socia, product |-> p1, price |-> 5, cost |-> Keep] @@
    clear    :> [kind |-> "patch", actor |-> socia, product |-> p1, price |-> 1, cost |-> Null] @@
    lost     :> [kind |-> "deactivate", actor |-> socia, product |-> p3] @@
    restockUnica :> [kind |-> "restock", actor |-> socia, product |-> p2, qty |-> 1, cost |-> 2] @@
    restock  :> [kind |-> "restock", actor |-> socia, product |-> p1, qty |-> 1, cost |-> 2] @@
    restock2 :> [kind |-> "restock", actor |-> socia, product |-> p1, qty |-> 7, cost |-> Null] @@
    restockNew :> [kind |-> "restock", actor |-> socia, product |-> p3, qty |-> 1, cost |-> 2] @@
    create   :> [kind |-> "create", actor |-> socia, product |-> p3, stock |-> 2, price |-> 1,
                 cost |-> Null] @@
    withdraw :> [kind |-> "deactivate", actor |-> socia, product |-> p2] @@
    putBack  :> [kind |-> "reactivate", actor |-> socia, product |-> p2]

MCOp == [o \in CatReqs |-> AllOps[o]]

Debt(id, q, abono) == [id |-> id, actor |-> socia, product |-> p1, qty |-> q,
                       deudor |-> "inline", abono |-> abono]

AllDebts ==
    credit      :> Debt(d1, 1, 1) @@
    creditAgain :> Debt(d1, 1, 1) @@
    creditOther :> [Debt(d1, 2, 0) EXCEPT !.deudor = "known"] @@
    creditAnon  :> [Debt(NoId, 1, 2) EXCEPT !.actor = socia] @@
    creditBad   :> [Debt(NoId, 1, 0) EXCEPT !.deudor = "unknown"] @@
    creditOver  :> [Debt(d1, 1, 3) EXCEPT !.deudor = "known"]

MCDebtBody == [r \in DebtReqs |-> AllDebts[r]]
MCAbonoBody == [r \in AbonoReqs |-> [debt |-> d1, actor |-> vendedora, amount |-> 1]]

\* The requests that arrive together in each run.
MCArrivals ==
    CASE Scenario = "sales" ->
            { {r1, r2}, {r4, r4again}, {r4, r4other}, {rThief}, {rLegacy},
              {r3, patch}, {r1, r4, withdraw} }
      [] Scenario = "race" -> { {r1, rOne} }
      [] Scenario = "shop" ->
            { {r1, r2, r3}, {r1, r1again, r2}, {r1, r3, credit},
              {r1, credit, restock}, {r1, restock, patch}, {r3, dearer, credit}, {r2, dearer},
              {restock, restock2, patch}, {restock, restock2, r1},
              {withdraw, putBack, r1}, {restockUnica, withdraw, patch},
              {create, restockNew, lost}, {create, clear},
              {credit, creditAgain, pay}, {credit, creditOther, pay}, {creditOver, patch},
              {credit, pay, payAgain}, {creditAnon, credit}, {creditBad},
              {creditOther, creditAnon, r1}, {creditOther, dearer} }

MCTx == SaleReqs \cup CatReqs \cup DebtReqs \cup AbonoReqs
=============================================================================
