---------------------------- MODULE StockLedger ----------------------------
(***************************************************************************)
(* What the shop promises about its goods and its debts, each operation    *)
(* being one indivisible step: a sale applies to all of its products or to *)
(* none, at the terms in force at that instant, and never twice; goods     *)
(* leave by sales and debts only, and come by restocks only; a debt is     *)
(* collected up to its total and is settled exactly then.                  *)
(***************************************************************************)
EXTENDS Integers, FiniteSets, Functions

CONSTANTS
    Products, SaleIds, DebtIds,
    Orders,     \* the quantities per product a client may ask for
    Loans,      \* what may be asked on credit: [product, qty, down]
    Deliveries, \* the quantities a restock may bring
    Payments,   \* the amounts a debtor may pay
    SoldBefore, \* the sales on record at the start
    NoLine,     \* of a product the order does not include
    Nothing     \* no sale, no debt

VARIABLES
    goods,      \* product |-> [state, stock, price, cost]
    sold,       \* sale id |-> what was sold, or Nothing
    owed        \* debt id |-> what is owed, or Nothing

ledgerVars == <<goods, sold, owed>>

Rejected == "rejected"

-----------------------------------------------------------------------------
OnSale(p, n) == goods[p].state = "active" /\ n <= goods[p].stock

Total(o) == SumFunction([p \in Products |-> o[p] * goods[p].price])

\* The order at the terms of this instant.
SoldNow(o) ==
    [lines |-> [p \in Products |->
        IF o[p] = 0 THEN NoLine
        ELSE [qty |-> o[p], price |-> goods[p].price, cost |-> goods[p].cost]],
     total |-> Total(o)]

Sell(id) ==
    \E o \in Orders :
        /\ sold[id] = Nothing
        /\ \A p \in Products : o[p] > 0 => OnSale(p, o[p])
        /\ sold' = [sold EXCEPT ![id] = SoldNow(o)]
        /\ goods' = [p \in Products |-> [goods[p] EXCEPT !.stock = @ - o[p]]]
        /\ UNCHANGED owed

\* A sale that lost its goods to another one is kept on record.
RecordRejection(id) ==
    /\ sold[id] = Nothing
    /\ sold' = [sold EXCEPT ![id] = Rejected]
    /\ UNCHANGED <<goods, owed>>

Owe(total, paid) ==
    [total |-> total, paid |-> paid, settled |-> paid > 0 /\ paid >= total]

Lend(d) ==
    \E l \in Loans :
        LET total == goods[l.product].price * l.qty
        IN  /\ owed[d] = Nothing
            /\ OnSale(l.product, l.qty)
            /\ l.down > 0 => l.down <= total
            /\ owed' = [owed EXCEPT ![d] = Owe(total, l.down)]
            /\ goods' = [goods EXCEPT ![l.product].stock = @ - l.qty]
            /\ UNCHANGED sold

Collect(d) ==
    \E amount \in Payments :
        /\ owed[d] # Nothing
        /\ owed[d].paid + amount <= owed[d].total
        /\ owed' = [owed EXCEPT ![d] = Owe(@.total, @.paid + amount)]
        /\ UNCHANGED <<goods, sold>>

\* Goods arrive; the cost may be averaged, nothing else changes.
Restock(p) ==
    \E n \in Deliveries :
        /\ goods[p].state = "active"
        /\ goods' = [goods EXCEPT ![p].stock = @ + n, ![p].cost = goods'[p].cost]
        /\ UNCHANGED <<sold, owed>>

\* A product is added, edited, withdrawn or put back on sale: the stock of
\* one that exists is untouched, and so are its other fields by the last two.
Manage(p) ==
    /\ goods' = [goods EXCEPT ![p] = goods'[p]]
    /\ goods[p].state # "absent" => goods'[p].stock = goods[p].stock
    /\ goods'[p].state # goods[p].state =>
          \/ goods[p].state = "absent"
          \/ goods'[p] = [goods[p] EXCEPT !.state = goods'[p].state]
    /\ goods'[p].state = "absent" => goods[p].state = "absent"
    /\ UNCHANGED <<sold, owed>>

LedgerInit ==
    /\ sold = SoldBefore
    /\ owed = [d \in DebtIds |-> Nothing]
    /\ \A p \in Products : goods[p].stock >= 0

LedgerNext ==
    \/ \E id \in SaleIds : Sell(id) \/ RecordRejection(id)
    \/ \E d \in DebtIds : Lend(d) \/ Collect(d)
    \/ \E p \in Products : Restock(p) \/ Manage(p)

LedgerSpec == LedgerInit /\ [][LedgerNext]_ledgerVars
=============================================================================
