------------------------------ MODULE Catalog ------------------------------
(***************************************************************************)
(* The socios' writes to the catalog (ProductsService): create, patch,     *)
(* restock, deactivate and reactivate, with the audit trail and the stock  *)
(* movements they append.  One process per request; the rows are those of  *)
(* ProductRows, shared with the sales and the debts.                       *)
(***************************************************************************)
EXTENDS ProductRows, Actors, Sequences, FiniteSets

CONSTANTS
    CatReqs,    \* requests to the catalog
    CatOp,      \* what each one asks for
    Unica       \* products that are unique pieces; the others have tipo "cantidad"

Keep == -2      \* a field the PATCH body does not carry

CatOps ==
    [kind : {"create"}, actor : Actors, product : Products,
     stock : 0..MaxMinor, price : Nat, cost : Nat \cup {Null}]
    \cup
    [kind : {"patch"}, actor : Actors, product : Products,
     price : Nat \cup {Keep}, cost : Nat \cup {Null, Keep}]
    \cup
    [kind : {"restock"}, actor : Actors, product : Products,
     qty : Nat \ {0}, cost : Nat \cup {Null}]
    \cup
    [kind : {"deactivate", "reactivate"}, actor : Actors, product : Products]

ASSUME CatReqsAreTx == CatReqs \subseteq Tx
ASSUME CatOpsAreValid == CatOp \in [CatReqs -> CatOps]
ASSUME UnicaAreProducts == Unica \subseteq Products

VARIABLES
    cpc,        \* where the handler of each request is
    caudit,     \* what a restock has read and still has to record
    creply,     \* its answer
    audits,     \* per product, its rows of "ProductAudit" in order
    movements   \* per product, its rows of "StockMovement" in order

catVars == <<cpc, caudit, creply, audits, movements>>

-----------------------------------------------------------------------------
(* Weighted average cost of a restock (restock-cost.ts). *)

\* Halves are rounded up.
HalfUp(num, den) == (2 * num + den) \div (2 * den)

\* Null means that the cost stays as it is: the purchase cost was not given,
\* or the present one is unknown and must not be averaged as if it were 0.
NextProductCost(stockBefore, costBefore, qty, unitCost) ==
    IF unitCost = Null THEN Null
    ELSE IF stockBefore = 0 THEN unitCost
    ELSE IF costBefore = Null THEN Null
    ELSE HalfUp(stockBefore * costBefore + qty * unitCost, stockBefore + qty)

-----------------------------------------------------------------------------
NoRow == [state |-> "absent", stock |-> 0, price |-> 0, cost |-> Null]

Audit(before, after) == [before |-> before, after |-> after]

AppendAudit(p, before, after) ==
    audits' = [audits EXCEPT ![p] = Append(@, Audit(before, after))]

CatGoto(o, where) == cpc' = [cpc EXCEPT ![o] = where]

CatAnswer(o, code) ==
    /\ CatGoto(o, "done")
    /\ creply' = [creply EXCEPT ![o] = code]
    /\ caudit' = [caudit EXCEPT ![o] = NoRow]

\* The transaction ends without having written anything.
CatReject(o, code) ==
    /\ RollbackRows(o)
    /\ CatAnswer(o, code)
    /\ UNCHANGED <<audits, movements>>

\* A single committed write of one row that this request may lock.
CatWrite(o, p, new) ==
    /\ row' = [row EXCEPT ![p] = new]
    /\ draft' = [draft EXCEPT ![p] = new]
    /\ owner' = [owner EXCEPT ![p] = NoTx]
    /\ CatAnswer(o, "ok")

-----------------------------------------------------------------------------
\* The row and its first audit row.  A server-generated id: nobody else can
\* name the product before the commit.  A unique piece always has one unit.
Create(o) ==
    LET op == CatOp[o]
        new == [state |-> "active", price |-> op.price, cost |-> op.cost,
                stock |-> IF op.product \in Unica THEN 1 ELSE op.stock]
    IN  /\ op.kind = "create"
        /\ cpc[o] = "idle"
        /\ row[op.product].state = "absent"
        /\ \/ /\ ~MayActAsSocio(op.actor)
              /\ CatReject(o, "403")
           \/ /\ MayActAsSocio(op.actor)
              /\ CatWrite(o, op.product, new)
              /\ AppendAudit(op.product, NoRow, new)
              /\ UNCHANGED movements

\* Mutant: the row is read without locking it.
LockRowMutant(o) ==
    /\ CatOp[o].kind \in {"patch", "deactivate", "reactivate"}
    /\ cpc[o] = "idle"
    /\ row[CatOp[o].product].state # "absent"
    /\ CatGoto(o, "locked")
    /\ UNCHANGED <<rowVars, caudit, creply, audits, movements>>

\* SELECT ... FOR UPDATE, before anything else; it waits for the row.  With
\* no row there is nothing to lock, and the read that follows answers 404.
LockRow(o) ==
    LET p == CatOp[o].product
    IN  /\ CatOp[o].kind \in {"patch", "deactivate", "reactivate"}
        /\ cpc[o] = "idle"
        /\ LockFree(o, p)
        /\ \/ /\ View(o, p).state = "absent"
              /\ CatReject(o, IF MayActAsSocio(CatOp[o].actor) THEN "404" ELSE "403")
           \/ /\ View(o, p).state # "absent"
              /\ WriteRow(o, p, View(o, p))
              /\ CatGoto(o, "locked")
              /\ UNCHANGED <<caudit, creply, audits, movements>>

\* PATCH: re-validate the actor, read, write the fields given, audit.
Patch(o) ==
    LET op == CatOp[o]
        before == View(o, op.product)
        after == [before EXCEPT !.price = IF op.price = Keep THEN @ ELSE op.price,
                                !.cost  = IF op.cost = Keep THEN @ ELSE op.cost]
    IN  /\ op.kind = "patch"
        /\ cpc[o] = "locked"
        /\ \/ /\ ~MayActAsSocio(op.actor)
              /\ CatReject(o, "403")
           \/ /\ MayActAsSocio(op.actor)
              /\ before.cost # Null /\ op.cost = Null
              /\ CatReject(o, "400")
           \/ /\ MayActAsSocio(op.actor)
              /\ ~(before.cost # Null /\ op.cost = Null)
              /\ CatWrite(o, op.product, after)
              /\ AppendAudit(op.product, before, after)
              /\ UNCHANGED movements

\* Deactivate and reactivate: idempotent, and no audit row.
SetActive(o) ==
    LET op == CatOp[o]
        target == IF op.kind = "deactivate" THEN "inactive" ELSE "active"
    IN  /\ op.kind \in {"deactivate", "reactivate"}
        /\ cpc[o] = "locked"
        /\ \/ /\ ~MayActAsSocio(op.actor)
              /\ CatReject(o, "403")
           \/ /\ MayActAsSocio(op.actor)
              /\ CatWrite(o, op.product, [View(o, op.product) EXCEPT !.state = target])
              /\ UNCHANGED <<audits, movements>>

\* Restock: authorized without having locked anything.
RestockAuthorize(o) ==
    /\ CatOp[o].kind = "restock"
    /\ cpc[o] = "idle"
    /\ \/ /\ ~MayActAsSocio(CatOp[o].actor)
          /\ CatReject(o, "403")
       \/ /\ MayActAsSocio(CatOp[o].actor)
          /\ CatGoto(o, "increment")
          /\ UNCHANGED <<rowVars, caudit, creply, audits, movements>>

\* One UPDATE ... SET stock = stock + n whose WHERE carries every rule.  It
\* waits for the row and evaluates both on what it then finds; the row stays
\* locked.  When no row matches, a read decides between 404 and 400.
RestockIncrement(o) ==
    LET op == CatOp[o]
        p == op.product
        v == View(o, p)
        allowed == /\ v.state = "active"
                   /\ p \notin Unica
                   /\ v.stock <= MaxMinor - op.qty
    IN  /\ op.kind = "restock"
        /\ cpc[o] = "increment"
        /\ LockFree(o, p)
        /\ \/ /\ ~allowed
              /\ CatReject(o, IF v.state = "absent" THEN "404" ELSE "400")
           \/ /\ allowed
              /\ WriteRow(o, p, [v EXCEPT !.stock = @ + op.qty])
              /\ caudit' = [caudit EXCEPT ![o] = v]
              /\ CatGoto(o, "record")
              /\ UNCHANGED <<creply, audits, movements>>

\* Mutant: the movement is recorded with the stock before it.
RestockRecordMutant(o) ==
    LET op == CatOp[o]
        p == op.product
        before == caudit[o]
    IN  /\ op.kind = "restock"
        /\ cpc[o] = "record"
        /\ CatWrite(o, p, View(o, p))
        /\ AppendAudit(p, before, View(o, p))
        /\ movements' = [movements EXCEPT ![p] = Append(@,
              [qty |-> op.qty, before |-> before.stock, after |-> before.stock])]

\* Still under that lock: the average cost, the audit row, the movement.
RestockRecord(o) ==
    LET op == CatOp[o]
        p == op.product
        before == caudit[o]
        cost == NextProductCost(before.stock, before.cost, op.qty, op.cost)
        after == [View(o, p) EXCEPT !.cost = IF cost = Null THEN @ ELSE cost]
    IN  /\ op.kind = "restock"
        /\ cpc[o] = "record"
        /\ CatWrite(o, p, after)
        /\ AppendAudit(p, before, after)
        /\ movements' = [movements EXCEPT ![p] = Append(@,
              [qty |-> op.qty, before |-> before.stock, after |-> after.stock])]

\* The handler dies before its commit.
CatDrop(o) ==
    /\ cpc[o] \notin {"away", "idle", "done"}
    /\ CatReject(o, "none")

CatInit(arriving) ==
    /\ cpc = [o \in CatReqs |-> IF o \in arriving THEN "idle" ELSE "away"]
    /\ caudit = [o \in CatReqs |-> NoRow]
    /\ creply = [o \in CatReqs |-> "none"]
    /\ audits = [p \in Products |->
                    IF row[p].state = "absent" THEN << >> ELSE <<Audit(NoRow, row[p])>>]
    /\ movements = [p \in Products |-> << >>]

CatHandle(o) ==
    \/ Create(o) \/ LockRow(o) \/ Patch(o) \/ SetActive(o)
    \/ RestockAuthorize(o) \/ RestockIncrement(o) \/ RestockRecord(o)

CatStep(o) == CatHandle(o) \/ CatDrop(o)

-----------------------------------------------------------------------------
(* Every variable of the catalog has its type. *)
CatalogTypeOK ==
    /\ cpc \in [CatReqs -> {"away", "idle", "locked", "increment", "record", "done"}]
    /\ caudit \in [CatReqs -> Row]
    /\ creply \in [CatReqs -> {"none", "ok", "400", "403", "404"}]
    /\ audits \in [Products -> Seq([before : Row, after : Row])]
    /\ movements \in [Products -> Seq([qty : Nat, before : Int, after : Int])]
=============================================================================
