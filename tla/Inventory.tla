----------------------------- MODULE Inventory -----------------------------
(***************************************************************************)
(* Sales, debts and catalog at work on the same product rows.              *)
(***************************************************************************)
EXTENDS Sales, Catalog, Debts, Functions

CONSTANTS
    Shelf,      \* the table "Product" at the start
    Arrivals    \* which requests arrive together

ASSUME TxIsEveryRequest == Tx = SaleReqs \cup CatReqs \cup DebtReqs \cup AbonoReqs
ASSUME RequestsAreDistinct ==
    /\ SaleReqs \cap CatReqs = {}
    /\ (SaleReqs \cup CatReqs) \cap (DebtReqs \cup AbonoReqs) = {}
ASSUME ShelfIsValid ==
    /\ Shelf \in [Products -> Row]
    /\ \A p \in Products : Shelf[p].stock \in 0..MaxMinor
ASSUME ProductsAreFinite == IsFiniteSet(Products)
ASSUME ArrivalsAreRequests == Arrivals \subseteq SUBSET Tx

vars == <<rowVars, saleVars, catVars, debtVars, authorized>>

Init ==
    /\ row = Shelf
    /\ draft = row
    /\ owner = [p \in Products |-> NoTx]
    /\ ActorsInit
    /\ \E arriving \in Arrivals :
          SalesInit(arriving) /\ CatInit(arriving) /\ DebtInit(arriving)

Sale(r) == SalesStep(r) /\ UNCHANGED <<catVars, debtVars, authorized>>
Management(o) == CatStep(o) /\ UNCHANGED <<saleVars, debtVars, authorized>>
Credit(r) == DebtStep(r) /\ UNCHANGED <<saleVars, catVars, authorized>>
Authority(a) ==
    /\ Revoke(a) \/ Reinstate(a)
    /\ UNCHANGED <<rowVars, saleVars, catVars, debtVars>>

\* Nothing left to do.
Finished ==
    /\ \A r \in SaleReqs : pc[r] = "away" \/ (pc[r] = "done" /\ sends[r] = MaxSends)
    /\ \A o \in CatReqs : cpc[o] \in {"away", "done"}
    /\ \A r \in DebtUsers : dpc[r] = "away" \/ (dpc[r] = "done" /\ dsends[r] = MaxDebtSends)
    /\ UNCHANGED vars

Next ==
    \/ \E r \in SaleReqs : Sale(r)
    \/ \E o \in CatReqs : Management(o)
    \/ \E r \in DebtUsers : Credit(r)
    \/ \E a \in Actors : Authority(a)
    \/ Finished

Spec == Init /\ [][Next]_vars

\* The server goes on with every request it has received, and PostgreSQL
\* breaks every deadlock.  Nobody has to drop, resend, revoke or reinstate.
Fairness ==
    /\ \A r \in SaleReqs : WF_vars(Handle(r) /\ UNCHANGED <<catVars, debtVars, authorized>>)
    /\ \A o \in CatReqs : WF_vars(CatHandle(o) /\ UNCHANGED <<saleVars, debtVars, authorized>>)
    /\ \A r \in DebtReqs : WF_vars(CreateHandle(r) /\ UNCHANGED <<saleVars, catVars, authorized>>)
    /\ \A r \in AbonoReqs : WF_vars(AbonoHandle(r) /\ UNCHANGED <<saleVars, catVars, authorized>>)

FairSpec == Spec /\ Fairness

-----------------------------------------------------------------------------
(* No request waits for ever: not for a row, not in a deadlock, not for a  *)
(* retry that another request must make first.                             *)
EveryRequestIsAnswered ==
    /\ \A r \in SaleReqs : pc[r] = "idle" ~> pc[r] = "done"
    /\ \A o \in CatReqs : cpc[o] = "idle" ~> cpc[o] = "done"
    /\ \A r \in DebtUsers : dpc[r] = "idle" ~> dpc[r] = "done"

(* Every variable has its type: the rows, the tables and the request       *)
(* handlers of the three services.                                         *)
TypeOK ==
    /\ RowsTypeOK /\ ActorsTypeOK
    /\ SalesTypeOK /\ CatalogTypeOK /\ DebtsTypeOK

(* Whatever sales, debts and restocks overlap, no row is ever promised     *)
(* beyond its stock nor raised beyond the Int range, committed or pending: *)
(* the locked re-reads of SalesService.create and DeudasService.create and *)
(* the guarded increment of ProductsService.restock.                       *)
StockInRange ==
    \A p \in Products : row[p].stock \in 0..MaxMinor /\ draft[p].stock \in 0..MaxMinor

Sold(p) ==
    LET new == {i \in SaleIds : sales[i] # NoSale /\ History[i] = NoSale}
    IN  SumFunction([i \in new |-> sales[i].lines[p].qty])

Owed(p) ==
    LET lent == {d \in DebtIds : debts[d] # NoDebt /\ debts[d].product = p}
    IN  SumFunction([d \in lent |-> debts[d].qty])

Restocked(p) ==
    SumFunction([i \in DOMAIN movements[p] |-> movements[p][i].qty])

(* Goods are conserved: what a product started with and was restocked with *)
(* is on the shelf, in a completed sale or in a debt.  A retry that applies*)
(* twice, a half-applied sale, a rolled back one that keeps its units or a *)
(* lost update between services breaks it.                                 *)
StockConserved ==
    \A p \in Products : row[p].state # "absent" =>
        row[p].stock + Sold(p) + Owed(p) = audits[p][1].after.stock + Restocked(p)

(* The audit rows of a product are a chain: each starts at the price and   *)
(* cost the previous one ended with, and the last one ends with those of   *)
(* the row ("the lock guarantees the second edit's before snapshot is the  *)
(* true result of the first", ProductsService.mutate).                     *)
AuditTrailIsAChain ==
    \A p \in Products :
        LET a == audits[p]
            Terms(v) == <<v.price, v.cost>>
        IN  /\ row[p].state = "absent" <=> a = << >>
            /\ \A i \in 1..Len(a) - 1 : Terms(a[i + 1].before) = Terms(a[i].after)
            /\ a # << >> => Terms(a[Len(a)].after) = Terms(row[p])

(* Stock rises by recorded movements only: each one starts no higher than  *)
(* where the previous one ended, and the row is no higher than the last.   *)
MovementsExplainStock ==
    \A p \in Products :
        LET m == movements[p]
        IN  /\ \A i \in 1..Len(m) - 1 : m[i + 1].before <= m[i].after
            /\ m # << >> => row[p].stock <= m[Len(m)].after

-----------------------------------------------------------------------------
(* The promise these services implement. *)

OrderOf(b) == [p \in Products |->
    SumFunction([i \in {j \in DOMAIN b.items : b.items[j].product = p} |-> b.items[i].qty])]

SoldView(table) == [i \in SaleIds |->
    IF table[i] = NoSale THEN NoSale
    ELSE IF table[i].status = "completada"
         THEN [lines |-> table[i].lines, total |-> table[i].total]
         ELSE "rejected"]

OwedView == [d \in DebtIds |->
    IF debts[d] = NoDebt THEN NoSale
    ELSE [total |-> debts[d].total, paid |-> paid[d], settled |-> debts[d].status = "saldada"]]

ASSUME NoSaleIsNoEntry == NoSale \notin [total : Nat, paid : Nat, settled : BOOLEAN]

LoanOf(b) == [product |-> b.product, qty |-> b.qty, down |-> b.abono]

Ledger == INSTANCE StockLedger WITH
    goods <- row,
    sold <- SoldView(sales),
    owed <- OwedView,
    Orders <- {OrderOf(Body[r]) : r \in SaleReqs},
    Loans <- {LoanOf(DebtBody[r]) : r \in DebtReqs},
    Deliveries <- {CatOp[o].qty : o \in {c \in CatReqs : CatOp[c].kind = "restock"}},
    Payments <- {AbonoBody[r].amount : r \in AbonoReqs},
    SoldBefore <- SoldView(History),
    NoLine <- NoLine,
    Nothing <- NoSale

(* Every interleaving of the three services, with crashes, resends and     *)
(* revocations, looks like a sequence of indivisible ledger operations.    *)
ImplementsLedger == Ledger!LedgerSpec
=============================================================================
