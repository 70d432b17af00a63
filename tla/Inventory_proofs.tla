---------------------------- MODULE Inventory_proofs --------------------------
(***************************************************************************)
(* Theorems of Inventory, for every set of requests, bodies and rows: types,*)
(* the stock within range, what the clients are told (the answers about a   *)
(* sale, the creation responses of debts) and what the shop writes down (the*)
(* audit trail, the stock movements, the incidents).                        *)
(***************************************************************************)
EXTENDS Inventory, Allocation_proofs, TLAPS

\* The rows have their type and every version of them a stock within range.
RowsOK == RowsTypeOK /\ StockInRange

\* A version that may be written.
Writable == {v \in Row : v.stock \in 0..MaxMinor}

-----------------------------------------------------------------------------
(* The row operations of ProductRows. *)

(* What a transaction sees is a writable version. *)
LEMMA ViewOK ==
    ASSUME RowsOK, NEW t \in Tx, NEW p \in Products
    PROVE  View(t, p) \in Writable
BY DEF RowsOK, RowsTypeOK, StockInRange, View, Writable

(* Writing a writable version under the lock. *)
LEMMA WriteRowOK ==
    ASSUME RowsOK, NEW t \in Tx, NEW p \in Products, NEW new \in Writable, WriteRow(t, p, new)
    PROVE  RowsOK'
BY DEF RowsOK, RowsTypeOK, StockInRange, WriteRow, Writable

(* The end of a transaction, either way. *)
LEMMA CommitRowsOK ==
    ASSUME RowsOK, NEW t \in Tx, CommitRows(t)
    PROVE  RowsOK'
BY DEF RowsOK, RowsTypeOK, StockInRange, CommitRows, Release, View

(* The same when it is rolled back. *)
LEMMA RollbackRowsOK ==
    ASSUME RowsOK, NEW t \in Tx, RollbackRows(t)
    PROVE  RowsOK'
BY DEF RowsOK, RowsTypeOK, StockInRange, RollbackRows, Release

(* A step that leaves the rows alone. *)
LEMMA RowsUnchangedOK ==
    ASSUME RowsOK, UNCHANGED rowVars
    PROVE  RowsOK'
BY DEF RowsOK, RowsTypeOK, StockInRange, rowVars

-----------------------------------------------------------------------------
(* The sales. *)

\* A handler starts with the first item and works on one of its own.
OnAnItem ==
    \A r \in SaleReqs :
        /\ pc[r] \in {"away", "idle", "precheck", "authorize", "done"} => line[r] = 1
        /\ pc[r] \in {"read", "lock"} => line[r] \in 1..Len(Body[r].items)

SalesInd == SalesTypeOK /\ OnAnItem

(* What the body of a request holds. *)
LEMMA BodyFacts ==
    ASSUME NEW r \in SaleReqs
    PROVE  /\ Body[r] \in Bodies
           /\ Body[r].id \in SaleIds
           /\ Body[r].items \in Seq(Item)
           /\ Len(Body[r].items) \in Nat \ {0}
           /\ \A i \in 1..Len(Body[r].items) :
                 /\ Body[r].items[i].product \in Products
                 /\ Body[r].items[i].qty \in Nat \ {0}
<1>1. Body[r] \in Bodies /\ Len(Body[r].items) > 0
  BY BodiesAreValid
<1>2. Body[r].id \in SaleIds /\ Body[r].items \in Seq(Item)
  BY <1>1 DEF Bodies
<1>3. Len(Body[r].items) \in Nat \ {0}
  BY <1>1, <1>2
<1>4. \A i \in 1..Len(Body[r].items) : Body[r].items[i] \in Item
  BY <1>2
<1> QED
  BY <1>1, <1>2, <1>3, <1>4 DEF Item

(* A handler starts with no lines, which have their type. *)
LEMMA NoLinesOK == NoLines \in Lines
BY DEF NoLines, NoLine, Lines, Null

(* Any end of the handler. *)
LEMMA AnswerOK ==
    ASSUME HandlersTypeOK, OnAnItem, NEW r \in SaleReqs,
           NEW code \in {"none", "200", "201", "400", "403", "409", "500"}, Answer(r, code)
    PROVE  HandlersTypeOK' /\ OnAnItem'
BY NoLinesOK DEF HandlersTypeOK, OnAnItem, Answer, Goto, ForgetLines

(* A step to another statement, everything else kept. *)
LEMMA GotoOK ==
    ASSUME HandlersTypeOK, OnAnItem, NEW r \in SaleReqs,
           NEW where \in {"idle", "precheck", "authorize", "lock", "recover", "persist", "reread"},
           where \in {"idle", "precheck", "authorize"} => pc[r] \in {"idle", "precheck", "done"},
           where = "lock" => pc[r] = "read",
           Goto(r, where), UNCHANGED <<line, lines, total, err, reply>>,
           sends' \in [SaleReqs -> 0..MaxSends]
    PROVE  HandlersTypeOK' /\ OnAnItem'
BY DEF HandlersTypeOK, OnAnItem, Goto

(* The transaction of a request fails. *)
LEMMA FailOK ==
    ASSUME RowsOK, SalesInd, NEW r \in SaleReqs,
           NEW e \in {"bad", "conflict", "duplicate"}, Fail(r, e)
    PROVE  RowsOK' /\ SalesInd'
<1>1. RowsOK'
  BY RollbackRowsOK, SaleReqsAreTx DEF Fail
<1>2. HandlersTypeOK' /\ OnAnItem'
  BY NoLinesOK DEF Fail, SalesInd, SalesTypeOK, HandlersTypeOK, OnAnItem, Goto, ForgetLines
<1>3. SaleTablesTypeOK'
  BY DEF Fail, SalesInd, SalesTypeOK, SaleTablesTypeOK
<1> QED
  BY <1>1, <1>2, <1>3 DEF SalesInd, SalesTypeOK

(* A step that leaves the tables of the sales alone. *)
LEMMA SaleTablesUnchanged ==
    ASSUME SaleTablesTypeOK, UNCHANGED <<sales, incidencias>>
    PROVE  SaleTablesTypeOK'
BY DEF SaleTablesTypeOK

(* The guard before the handler. *)
LEMMA GuardOK ==
    ASSUME RowsOK, SalesInd, NEW r \in SaleReqs, Guard(r)
    PROVE  RowsOK' /\ SalesInd'
<1> USE DEF SalesInd, SalesTypeOK
<1>1. RowsOK' /\ SaleTablesTypeOK'
  BY RowsUnchangedOK, SaleTablesUnchanged DEF Guard
<1>2. HandlersTypeOK' /\ OnAnItem'
  <2>1. CASE Answer(r, "403")
    BY <2>1, AnswerOK
  <2>2. CASE Goto(r, "precheck") /\ UNCHANGED <<line, lines, total, err, reply, sends>>
    BY <2>2, GotoOK DEF HandlersTypeOK, Guard
  <2> QED
    BY <2>1, <2>2 DEF Guard
<1> QED
  BY <1>1, <1>2

(* The look for the id before the transaction. *)
LEMMA PrecheckOK ==
    ASSUME RowsOK, SalesInd, NEW r \in SaleReqs, Precheck(r)
    PROVE  RowsOK' /\ SalesInd'
<1> USE DEF SalesInd, SalesTypeOK
<1>1. RowsOK' /\ SaleTablesTypeOK'
  BY RowsUnchangedOK, SaleTablesUnchanged DEF Precheck
<1>2. HandlersTypeOK' /\ OnAnItem'
  <2>1. CASE Answer(r, "403")
    BY <2>1, AnswerOK
  <2>2. CASE Answer(r, ReplayAnswer(Sale0(r), Body[r]))
    BY <2>2, AnswerOK DEF ReplayAnswer
  <2>3. CASE Goto(r, "authorize") /\ UNCHANGED <<line, lines, total, err, reply, sends>>
    BY <2>3, GotoOK DEF HandlersTypeOK, Precheck
  <2> QED
    BY <2>1, <2>2, <2>3 DEF Precheck
<1> QED
  BY <1>1, <1>2

(* The validation of the actor. *)
LEMMA AuthorizeOK ==
    ASSUME RowsOK, SalesInd, NEW r \in SaleReqs, Authorize(r)
    PROVE  RowsOK' /\ SalesInd'
<1> USE DEF SalesInd, SalesTypeOK
<1>1. RowsOK' /\ SaleTablesTypeOK'
  BY RowsUnchangedOK, SaleTablesUnchanged DEF Authorize
<1>2. HandlersTypeOK' /\ OnAnItem'
  <2>1. CASE Answer(r, "403")
    BY <2>1, AnswerOK
  <2>2. CASE Goto(r, "read") /\ UNCHANGED <<line, lines, total, err, reply, sends>>
    BY <2>2, BodyFacts DEF HandlersTypeOK, OnAnItem, Goto, Authorize
  <2> QED
    BY <2>1, <2>2 DEF Authorize
<1> QED
  BY <1>1, <1>2

(* The item a handler works on. *)
LEMMA ItemFacts ==
    ASSUME SalesInd, NEW r \in SaleReqs, pc[r] \in {"read", "lock"}
    PROVE  /\ line[r] \in 1..Len(Body[r].items)
           /\ Item0(r).product \in Products
           /\ Item0(r).qty \in Nat \ {0}
BY BodyFacts DEF SalesInd, OnAnItem, Item0

(* The read before the lock. *)
LEMMA ReadItemOK ==
    ASSUME RowsOK, SalesInd, NEW r \in SaleReqs, ReadItem(r)
    PROVE  RowsOK' /\ SalesInd'
<1>1. CASE Fail(r, "bad")
  BY <1>1, FailOK
<1>2. CASE Goto(r, "lock") /\ UNCHANGED <<rowVars, line, lines, total, err, reply, sends,
                                          sales, incidencias>>
  <2>1. pc[r] = "read"
    BY DEF ReadItem
  <2>2. HandlersTypeOK' /\ OnAnItem'
    BY <1>2, <2>1, GotoOK DEF SalesInd, SalesTypeOK, HandlersTypeOK
  <2> QED
    BY <1>2, <2>2, RowsUnchangedOK, SaleTablesUnchanged DEF SalesInd, SalesTypeOK
<1> QED
  BY <1>1, <1>2 DEF ReadItem

(* Taking an item: never more than the locked row has. *)
LEMMA TakeItemOK ==
    ASSUME RowsOK, SalesInd, NEW r \in SaleReqs, pc[r] = "lock", TakeItem(r)
    PROVE  RowsOK' /\ SalesInd'
<1> DEFINE p == Item0(r).product
           q == Item0(r).qty
           v == View(r, p)
           taken == [v EXCEPT !.stock = @ - q]
<1>1. /\ p \in Products /\ q \in Nat \ {0}
      /\ line[r] \in 1..Len(Body[r].items) /\ Len(Body[r].items) \in Nat
  BY ItemFacts, BodyFacts
<1>2. r \in Tx /\ v \in Writable
  BY <1>1, ViewOK, SaleReqsAreTx
<1>3. v.price \in Nat /\ v.cost \in Nat \cup {Null} /\ v.stock \in 0..MaxMinor
  BY <1>2 DEF Writable, Row
<1>4. q <= v.stock /\ WriteRow(r, p, taken)
  BY DEF TakeItem
<1>5. taken \in Writable
  <2>1. taken \in Row
    BY <1>1, <1>2 DEF Writable, Row
  <2>2. taken.stock = v.stock - q
    BY <1>2 DEF Writable, Row
  <2> HIDE DEF taken, v, q, p
  <2> QED
    BY <1>1, <1>3, <1>4, <2>1, <2>2, MaxMinorIsPositive DEF Writable
<1>6. RowsOK'
  BY <1>1, <1>2, <1>4, <1>5, WriteRowOK
<1>7. v.price * q \in Nat
  BY <1>1, <1>3
<1>8. HandlersTypeOK'
  <2>1. lines' \in [SaleReqs -> Lines]
    <3>1. lines[r] \in Lines /\ lines[r][p].qty \in Nat
      BY <1>1 DEF SalesInd, SalesTypeOK, HandlersTypeOK, Lines
    <3>2. [qty |-> lines[r][p].qty + q, price |-> v.price, cost |-> v.cost]
             \in [qty : Nat, price : Nat, cost : Nat \cup {Null}]
      BY <1>1, <1>3, <3>1
    <3> HIDE DEF q, v
    <3>3. lines' = [lines EXCEPT ![r][p] =
                       [qty |-> lines[r][p].qty + q, price |-> v.price, cost |-> v.cost]]
      BY DEF TakeItem, q, v
    <3> HIDE DEF p
    <3> QED
      BY <1>1, <3>1, <3>2, <3>3 DEF SalesInd, SalesTypeOK, HandlersTypeOK, Lines
  <2>2. total' \in [SaleReqs -> Nat]
    <3>1. total' = [total EXCEPT ![r] = total[r] + v.price * q]
      BY DEF TakeItem
    <3> QED
      BY <1>7, <3>1 DEF SalesInd, SalesTypeOK, HandlersTypeOK
  <2> QED
    BY <1>1, <2>1, <2>2 DEF TakeItem, Goto, SalesInd, SalesTypeOK, HandlersTypeOK
<1>9. OnAnItem'
  BY <1>1 DEF TakeItem, Goto, SalesInd, SalesTypeOK, HandlersTypeOK, OnAnItem
<1>10. SaleTablesTypeOK'
  BY SaleTablesUnchanged DEF TakeItem, SalesInd, SalesTypeOK
<1> QED
  BY <1>6, <1>8, <1>9, <1>10 DEF SalesInd, SalesTypeOK

(* The lock and the read under it. *)
LEMMA LockItemOK ==
    ASSUME RowsOK, SalesInd, NEW r \in SaleReqs, LockItem(r)
    PROVE  RowsOK' /\ SalesInd'
<1>1. CASE Fail(r, "bad")
  BY <1>1, FailOK
<1>2. CASE Fail(r, "conflict")
  BY <1>2, FailOK
<1>3. CASE RollbackRows(r) /\ Answer(r, "500") /\ UNCHANGED <<sales, incidencias>>
  BY <1>3, RollbackRowsOK, AnswerOK, SaleTablesUnchanged, SaleReqsAreTx DEF SalesInd, SalesTypeOK
<1>4. CASE TakeItem(r)
  BY <1>4, TakeItemOK DEF LockItem
<1> QED
  BY <1>1, <1>2, <1>3, <1>4 DEF LockItem

(* A row that SalesService writes. *)
LEMMA SaleRowOK ==
    ASSUME NEW r \in SaleReqs, NEW status \in {"completada", "rechazada_por_conflicto"},
           NEW ls \in Lines, NEW tot \in Nat \cup {Null}
    PROVE  SaleRow(Body[r], status, ls, tot) \in SaleRows
<1>1. Header(Body[r]) \in [seller : Actors, method : {"EFECTIVO", "TRANSFERENCIA", "TARJETA"},
                           cash : Nat \cup {Null}, late : BOOLEAN]
  BY BodyFacts DEF Header, Bodies
<1>2. (IF status = "completada" THEN Body[r].items ELSE << >>) \in Seq(Item)
  BY BodyFacts
<1> QED
  BY <1>1, <1>2 DEF SaleRow, SaleRows

(* The insert and the commit. *)
LEMMA InsertOK ==
    ASSUME RowsOK, SalesInd, NEW r \in SaleReqs, Insert(r)
    PROVE  RowsOK' /\ SalesInd'
<1>1. CASE Fail(r, "bad")
  BY <1>1, FailOK
<1>2. CASE Fail(r, "duplicate")
  BY <1>2, FailOK
<1>3. CASE /\ CommitRows(r)
           /\ sales' = [sales EXCEPT ![Body[r].id] =
                           SaleRow(Body[r], "completada", lines[r], total[r])]
           /\ incidencias' = incidencias \cup
                 (IF Body[r].late THEN {Incidencia(Body[r].id, "incidencia_fecha")} ELSE {})
           /\ Answer(r, "201")
  <2>1. SaleRow(Body[r], "completada", lines[r], total[r]) \in SaleRows
    BY SaleRowOK DEF SalesInd, SalesTypeOK, HandlersTypeOK
  <2>2. SaleTablesTypeOK'
    BY <1>3, <2>1, BodyFacts DEF SalesInd, SalesTypeOK, SaleTablesTypeOK, Incidencia
  <2> QED
    BY <1>3, <2>2, CommitRowsOK, AnswerOK, SaleReqsAreTx DEF SalesInd, SalesTypeOK
<1>4. CASE RollbackRows(r) /\ Answer(r, "500") /\ UNCHANGED <<sales, incidencias>>
  BY <1>4, RollbackRowsOK, AnswerOK, SaleTablesUnchanged, SaleReqsAreTx DEF SalesInd, SalesTypeOK
<1> QED
  BY <1>1, <1>2, <1>3, <1>4 DEF Insert

(* The catch block. *)
LEMMA RecoverOK ==
    ASSUME RowsOK, SalesInd, NEW r \in SaleReqs, Recover(r)
    PROVE  RowsOK' /\ SalesInd'
<1> USE DEF SalesInd, SalesTypeOK
<1>1. RowsOK' /\ SaleTablesTypeOK'
  BY RowsUnchangedOK, SaleTablesUnchanged DEF Recover
<1>2. HandlersTypeOK' /\ OnAnItem'
  <2>1. CASE Answer(r, ReplayAnswer(Sale0(r), Body[r]))
    BY <2>1, AnswerOK DEF ReplayAnswer
  <2>2. CASE Answer(r, "400")
    BY <2>2, AnswerOK
  <2>3. CASE Goto(r, "persist") /\ UNCHANGED <<line, lines, total, err, reply, sends>>
    BY <2>3, GotoOK DEF HandlersTypeOK
  <2> QED
    BY <2>1, <2>2, <2>3 DEF Recover
<1> QED
  BY <1>1, <1>2

(* The record of a lost race. *)
LEMMA PersistOK ==
    ASSUME RowsOK, SalesInd, NEW r \in SaleReqs, Persist(r)
    PROVE  RowsOK' /\ SalesInd'
<1> USE DEF SalesInd, SalesTypeOK
<1>1. RowsOK'
  BY RowsUnchangedOK DEF Persist
<1>2. CASE /\ sales' = [sales EXCEPT ![Body[r].id] =
                           SaleRow(Body[r], "rechazada_por_conflicto", NoLines, Null)]
           /\ incidencias' = incidencias \cup {Incidencia(Body[r].id, "conflicto_stock")}
           /\ Answer(r, "201")
  <2>1. SaleRow(Body[r], "rechazada_por_conflicto", NoLines, Null) \in SaleRows
    BY SaleRowOK, NoLinesOK
  <2>2. SaleTablesTypeOK'
    BY <1>2, <2>1, BodyFacts DEF SaleTablesTypeOK, Incidencia
  <2> QED
    BY <1>1, <1>2, <2>2, AnswerOK
<1>3. CASE Goto(r, "reread") /\ UNCHANGED <<line, lines, total, err, reply, sends, sales,
                                            incidencias>>
  BY <1>1, <1>3, GotoOK, SaleTablesUnchanged DEF HandlersTypeOK
<1> QED
  BY <1>2, <1>3 DEF Persist

(* The other ends: a re-read answer, a broken deadlock, a dropped handler. *)
LEMMA EndOK ==
    ASSUME RowsOK, SalesInd, NEW r \in SaleReqs, Reread(r) \/ DeadlockAbort(r) \/ Drop(r)
    PROVE  RowsOK' /\ SalesInd'
<1> USE DEF SalesInd, SalesTypeOK
<1>1. SaleTablesTypeOK'
  BY SaleTablesUnchanged DEF Reread, DeadlockAbort, Drop
<1>2. RowsOK'
  BY RowsUnchangedOK, RollbackRowsOK, SaleReqsAreTx DEF Reread, DeadlockAbort, Drop
<1>3. HandlersTypeOK' /\ OnAnItem'
  BY AnswerOK DEF Reread, DeadlockAbort, Drop, ReplayAnswer
<1> QED
  BY <1>1, <1>2, <1>3

(* A client that tries again. *)
LEMMA ResendOK ==
    ASSUME RowsOK, SalesInd, NEW r \in SaleReqs, Resend(r)
    PROVE  RowsOK' /\ SalesInd'
<1> USE DEF SalesInd, SalesTypeOK
<1>1. sends' \in [SaleReqs -> 0..MaxSends]
  BY MaxSendsIsNat DEF Resend, HandlersTypeOK
<1>2. HandlersTypeOK' /\ OnAnItem'
  BY <1>1, GotoOK DEF Resend
<1> QED
  BY <1>2, RowsUnchangedOK, SaleTablesUnchanged DEF Resend

(* Every step of a sale keeps the rows and the sales well formed. *)
LEMMA SalesStepOK ==
    ASSUME RowsOK, SalesInd, NEW r \in SaleReqs, SalesStep(r)
    PROVE  RowsOK' /\ SalesInd'
BY GuardOK, PrecheckOK, AuthorizeOK, ReadItemOK, LockItemOK, InsertOK, RecoverOK, PersistOK, EndOK, ResendOK
   DEF SalesStep, Handle

-----------------------------------------------------------------------------
(* The catalog. *)

(* What a request to the catalog holds. *)
LEMMA OpFacts ==
    ASSUME NEW o \in CatReqs
    PROVE  /\ o \in Tx
           /\ CatOp[o] \in CatOps
           /\ CatOp[o].product \in Products
           /\ CatOp[o].kind = "create" =>
                 CatOp[o].stock \in Nat /\ CatOp[o].price \in Nat /\ CatOp[o].cost \in Nat \cup {Null}
           /\ CatOp[o].kind = "patch" =>
                 CatOp[o].price \in Nat \cup {Keep} /\ CatOp[o].cost \in Nat \cup {Null, Keep}
           /\ CatOp[o].kind = "restock" =>
                 CatOp[o].qty \in Nat \ {0} /\ CatOp[o].cost \in Nat \cup {Null}
BY CatOpsAreValid, CatReqsAreTx DEF CatOps

(* An average of amounts is an amount. *)
LEMMA HalfUpIsNat ==
    ASSUME NEW num \in Nat, NEW den \in Nat \ {0}
    PROVE  HalfUp(num, den) \in Nat
BY DEF HalfUp

(* The weighted average cost is an amount, or no change. *)
LEMMA NextProductCostType ==
    ASSUME NEW stock \in Nat, NEW cost \in Nat \cup {Null},
           NEW qty \in Nat \ {0}, NEW unit \in Nat \cup {Null}
    PROVE  NextProductCost(stock, cost, qty, unit) \in Nat \cup {Null}
<1>1. CASE unit = Null \/ stock = 0 \/ cost = Null
  BY <1>1 DEF NextProductCost
<1>2. CASE unit # Null /\ stock # 0 /\ cost # Null
  <2>1. stock * cost + qty * unit \in Nat /\ stock + qty \in Nat \ {0}
    BY <1>2
  <2>2. HalfUp(stock * cost + qty * unit, stock + qty) \in Nat
    BY <2>1, HalfUpIsNat
  <2> QED
    BY <1>2, <2>2 DEF NextProductCost
<1> QED
  BY <1>1, <1>2

CatHandlersOK ==
    /\ cpc \in [CatReqs -> {"away", "idle", "locked", "increment", "record", "done"}]
    /\ caudit \in [CatReqs -> Row]
    /\ creply \in [CatReqs -> {"none", "ok", "400", "403", "404"}]
    /\ \A o \in CatReqs : caudit[o] \in Writable

TrailsOK ==
    /\ audits \in [Products -> Seq([before : Row, after : Row])]
    /\ movements \in [Products -> Seq([qty : Nat, before : Int, after : Int])]

CatalogInd == CatHandlersOK /\ TrailsOK

(* The row of a product that does not exist yet is writable. *)
LEMMA NoRowOK == NoRow \in Writable
BY MaxMinorIsPositive DEF NoRow, Writable, Row, Null

(* Any end of a request to the catalog. *)
LEMMA CatAnswerOK ==
    ASSUME CatHandlersOK, NEW o \in CatReqs,
           NEW code \in {"none", "ok", "400", "403", "404"}, CatAnswer(o, code)
    PROVE  CatHandlersOK'
<1>1. NoRow \in Writable /\ NoRow \in Row
  BY NoRowOK DEF Writable
<1> QED
  BY <1>1 DEF CatHandlersOK, CatAnswer, CatGoto

(* An end that writes nothing. *)
LEMMA CatRejectOK ==
    ASSUME RowsOK, CatalogInd, NEW o \in CatReqs,
           NEW code \in {"none", "400", "403", "404"}, CatReject(o, code)
    PROVE  RowsOK' /\ CatalogInd'
<1>1. RowsOK'
  BY OpFacts, RollbackRowsOK DEF CatReject
<1>2. CatHandlersOK'
  BY CatAnswerOK DEF CatReject, CatalogInd
<1>3. TrailsOK'
  BY DEF CatReject, CatalogInd, TrailsOK
<1> QED
  BY <1>1, <1>2, <1>3 DEF CatalogInd

(* An end that writes one writable row. *)
LEMMA CatWriteOK ==
    ASSUME RowsOK, CatHandlersOK, NEW o \in CatReqs, NEW p \in Products,
           NEW new \in Writable, CatWrite(o, p, new)
    PROVE  RowsOK' /\ CatHandlersOK'
<1>1. RowsOK'
  BY DEF CatWrite, RowsOK, RowsTypeOK, StockInRange, Writable
<1>2. CatHandlersOK'
  BY CatAnswerOK DEF CatWrite
<1> QED
  BY <1>1, <1>2

(* An audit trail grows by one entry. *)
LEMMA AppendAuditOK ==
    ASSUME TrailsOK, NEW p \in Products, NEW before \in Row, NEW after \in Row,
           AppendAudit(p, before, after)
    PROVE  audits' \in [Products -> Seq([before : Row, after : Row])]
<1> DEFINE Rows == [before : Row, after : Row]
<1>1. Audit(before, after) \in Rows
  BY DEF Audit
<1>2. audits \in [Products -> Seq(Rows)]
  BY DEF TrailsOK
<1> HIDE DEF Rows
<1>3. Append(audits[p], Audit(before, after)) \in Seq(Rows)
  BY <1>1, <1>2
<1>4. audits' \in [Products -> Seq(Rows)]
  BY <1>2, <1>3 DEF AppendAudit
<1> QED
  BY <1>4 DEF Rows

(* A product is created. *)
LEMMA CreateOK ==
    ASSUME RowsOK, CatalogInd, NEW o \in CatReqs, Create(o)
    PROVE  RowsOK' /\ CatalogInd'
<1> DEFINE op == CatOp[o]
           new == [state |-> "active", price |-> op.price, cost |-> op.cost,
                   stock |-> IF op.product \in Unica THEN 1 ELSE op.stock]
<1>1. CASE CatReject(o, "403")
  BY <1>1, CatRejectOK
<1>2. CASE /\ CatWrite(o, op.product, new)
           /\ AppendAudit(op.product, NoRow, new)
           /\ UNCHANGED movements
  <2>1. op.product \in Products /\ op.kind = "create"
    BY OpFacts DEF Create
  <2>2. new \in Writable
    <3>1. op.stock \in 0..MaxMinor
      BY CatOpsAreValid, <2>1 DEF CatOps
    <3>2. new.stock \in 0..MaxMinor
      BY <3>1, MaxMinorIsPositive
    <3> QED
      BY <2>1, <3>1, <3>2, OpFacts, MaxMinorIsPositive DEF Writable, Row
  <2>3. RowsOK' /\ CatHandlersOK'
    BY <1>2, <2>1, <2>2, CatWriteOK DEF CatalogInd
  <2>4. TrailsOK'
    <3>1. NoRow \in Row /\ new \in Row
      BY <2>2, NoRowOK DEF Writable
    <3> QED
      BY <1>2, <2>1, <3>1, AppendAuditOK DEF CatalogInd, TrailsOK
  <2> QED
    BY <2>3, <2>4 DEF CatalogInd
<1> QED
  BY <1>1, <1>2 DEF Create

(* The lock that comes first in mutate. *)
LEMMA LockRowOK ==
    ASSUME RowsOK, CatalogInd, NEW o \in CatReqs, LockRow(o)
    PROVE  RowsOK' /\ CatalogInd'
<1> DEFINE p == CatOp[o].product
<1>1. CASE CatReject(o, IF MayActAsSocio(CatOp[o].actor) THEN "404" ELSE "403")
  BY <1>1, CatRejectOK
<1>2. CASE /\ WriteRow(o, p, View(o, p))
           /\ CatGoto(o, "locked")
           /\ UNCHANGED <<caudit, creply, audits, movements>>
  <2>1. RowsOK'
    BY <1>2, OpFacts, ViewOK, WriteRowOK
  <2> QED
    BY <1>2, <2>1 DEF CatalogInd, CatHandlersOK, TrailsOK, CatGoto
<1> QED
  BY <1>1, <1>2 DEF LockRow

(* A product is edited. *)
LEMMA PatchOK ==
    ASSUME RowsOK, CatalogInd, NEW o \in CatReqs, Patch(o)
    PROVE  RowsOK' /\ CatalogInd'
<1> DEFINE op == CatOp[o]
           before == View(o, op.product)
           after == [before EXCEPT !.price = IF op.price = Keep THEN @ ELSE op.price,
                                   !.cost  = IF op.cost = Keep THEN @ ELSE op.cost]
<1>1. CASE CatReject(o, "403") \/ CatReject(o, "400")
  BY <1>1, CatRejectOK
<1>2. CASE /\ CatWrite(o, op.product, after)
           /\ AppendAudit(op.product, before, after)
           /\ UNCHANGED movements
  <2>1. op.product \in Products /\ op.kind = "patch" /\ before \in Writable
    BY OpFacts, ViewOK DEF Patch
  <2>2. after \in Writable
    BY <2>1, OpFacts DEF Writable, Row
  <2>3. before \in Row /\ after \in Row
    BY <2>1, <2>2 DEF Writable
  <2> HIDE DEF after, before, op
  <2>4. RowsOK' /\ CatHandlersOK'
    BY <1>2, <2>1, <2>2, CatWriteOK DEF CatalogInd
  <2>5. TrailsOK'
    BY <1>2, <2>1, <2>3, AppendAuditOK DEF CatalogInd, TrailsOK
  <2> QED
    BY <2>4, <2>5 DEF CatalogInd
<1> QED
  BY <1>1, <1>2 DEF Patch

(* A product is withdrawn or put back. *)
LEMMA SetActiveOK ==
    ASSUME RowsOK, CatalogInd, NEW o \in CatReqs, SetActive(o)
    PROVE  RowsOK' /\ CatalogInd'
<1> DEFINE op == CatOp[o]
           target == IF op.kind = "deactivate" THEN "inactive" ELSE "active"
           new == [View(o, op.product) EXCEPT !.state = target]
<1>1. CASE CatReject(o, "403")
  BY <1>1, CatRejectOK
<1>2. CASE CatWrite(o, op.product, new) /\ UNCHANGED <<audits, movements>>
  <2>1. op.product \in Products /\ View(o, op.product) \in Writable
    BY OpFacts, ViewOK
  <2>2. new \in Writable
    BY <2>1 DEF Writable, Row
  <2> HIDE DEF new
  <2>3. RowsOK' /\ CatHandlersOK'
    BY <1>2, <2>1, <2>2, CatWriteOK DEF CatalogInd
  <2> QED
    BY <1>2, <2>3 DEF CatalogInd, TrailsOK
<1> QED
  BY <1>1, <1>2 DEF SetActive

(* The validation of the actor of a restock. *)
LEMMA RestockAuthorizeOK ==
    ASSUME RowsOK, CatalogInd, NEW o \in CatReqs, RestockAuthorize(o)
    PROVE  RowsOK' /\ CatalogInd'
<1>1. CASE CatReject(o, "403")
  BY <1>1, CatRejectOK
<1>2. CASE CatGoto(o, "increment") /\ UNCHANGED <<rowVars, caudit, creply, audits, movements>>
  BY <1>2, RowsUnchangedOK DEF CatalogInd, CatHandlersOK, TrailsOK, CatGoto
<1> QED
  BY <1>1, <1>2 DEF RestockAuthorize

(* The guarded increment never leaves the range. *)
LEMMA RestockIncrementOK ==
    ASSUME RowsOK, CatalogInd, NEW o \in CatReqs, RestockIncrement(o)
    PROVE  RowsOK' /\ CatalogInd'
<1> DEFINE op == CatOp[o]
           p == op.product
           v == View(o, p)
           raised == [v EXCEPT !.stock = @ + op.qty]
<1>1. CASE CatReject(o, IF v.state = "absent" THEN "404" ELSE "400")
  BY <1>1, CatRejectOK
<1>2. CASE /\ v.stock <= MaxMinor - op.qty
           /\ WriteRow(o, p, raised)
           /\ caudit' = [caudit EXCEPT ![o] = v]
           /\ CatGoto(o, "record")
           /\ UNCHANGED <<creply, audits, movements>>
  <2>1. /\ op.kind = "restock" /\ p \in Products /\ op.qty \in Nat \ {0}
        /\ v \in Writable /\ o \in Tx
    BY OpFacts, ViewOK DEF RestockIncrement
  <2>2. v \in Row /\ v.stock \in 0..MaxMinor
    BY <2>1 DEF Writable
  <2>3. raised.stock = v.stock + op.qty /\ (v.stock + op.qty \in Int => raised \in Row)
    BY <2>2 DEF Row
  <2>4. v.stock + op.qty \in 0..MaxMinor
    BY <1>2, <2>1, <2>2, MaxMinorIsPositive
  <2> HIDE DEF raised, v, p
  <2>5. raised \in Writable
    BY <2>3, <2>4, MaxMinorIsPositive DEF Writable
  <2>6. RowsOK'
    BY <1>2, <2>1, <2>5, WriteRowOK
  <2> QED
    BY <1>2, <2>1, <2>2, <2>6 DEF CatalogInd, CatHandlersOK, TrailsOK, CatGoto
<1> QED
  BY <1>1, <1>2 DEF RestockIncrement

(* The cost, the audit entry and the movement of a restock. *)
LEMMA RestockRecordOK ==
    ASSUME RowsOK, CatalogInd, NEW o \in CatReqs, RestockRecord(o)
    PROVE  RowsOK' /\ CatalogInd'
<1> DEFINE op == CatOp[o]
           p == op.product
           before == caudit[o]
           cost == NextProductCost(before.stock, before.cost, op.qty, op.cost)
           v == View(o, p)
           after == [v EXCEPT !.cost = IF cost = Null THEN @ ELSE cost]
           movement == [qty |-> op.qty, before |-> before.stock, after |-> after.stock]
<1>1. /\ p \in Products /\ v \in Writable /\ o \in Tx
      /\ op.qty \in Nat \ {0} /\ op.cost \in Nat \cup {Null}
  BY OpFacts, ViewOK DEF RestockRecord
<1>2. before \in Writable
  BY DEF CatalogInd, CatHandlersOK
<1>3. before \in Row /\ before.stock \in Nat /\ before.cost \in Nat \cup {Null}
  BY <1>2, MaxMinorIsPositive DEF Writable, Row
<1>4. cost \in Nat \cup {Null}
  BY <1>1, <1>3, NextProductCostType
<1>5. after \in Writable
  <2> HIDE DEF cost, v
  <2> QED
    BY <1>1, <1>4 DEF Writable, Row
<1>6. after \in Row /\ after.stock \in Int
  BY <1>5 DEF Writable, Row
<1>7. /\ CatWrite(o, p, after) /\ AppendAudit(p, before, after)
      /\ movements' = [movements EXCEPT ![p] = Append(movements[p], movement)]
  BY DEF RestockRecord
<1> HIDE DEF after, before, p, op
<1>8. RowsOK' /\ CatHandlersOK'
  BY <1>1, <1>5, <1>7, CatWriteOK DEF CatalogInd
<1>9. audits' \in [Products -> Seq([before : Row, after : Row])]
  BY <1>1, <1>3, <1>6, <1>7, AppendAuditOK DEF CatalogInd
<1>10. movements' \in [Products -> Seq([qty : Nat, before : Int, after : Int])]
  <2>1. movement \in [qty : Nat, before : Int, after : Int]
    BY <1>1, <1>3, <1>6
  <2> HIDE DEF movement
  <2> QED
    BY <1>1, <1>7, <2>1 DEF CatalogInd, TrailsOK
<1> QED
  BY <1>8, <1>9, <1>10 DEF CatalogInd, TrailsOK

(* Every step of the catalog keeps the rows and the catalog well formed. *)
LEMMA CatStepOK ==
    ASSUME RowsOK, CatalogInd, NEW o \in CatReqs, CatStep(o)
    PROVE  RowsOK' /\ CatalogInd'
BY CreateOK, LockRowOK, PatchOK, SetActiveOK, RestockAuthorizeOK, RestockIncrementOK,
   RestockRecordOK, CatRejectOK DEF CatStep, CatHandle, CatDrop

-----------------------------------------------------------------------------
(* The debts. *)

\* Creations and payments each keep to their own handler.
DebtPhases ==
    /\ \A r \in DebtReqs :
          /\ dpc[r] \in {"away", "idle", "replay", "take", "insert", "recover", "winner", "done"}
          /\ dpc[r] \in {"take", "insert"} => DebtBody[r].deudor # "unknown"
    /\ \A r \in AbonoReqs : dpc[r] \in {"away", "idle", "lock", "pay", "done"}

\* A payment about to be written holds the lock of its debt, and the balance
\* it has read is still the balance.
PayerHoldsDebt ==
    \A r \in AbonoReqs :
        /\ dpc[r] \in {"lock", "pay"} => debts[Debt0(r)] # NoDebt
        /\ dpc[r] = "pay" => debtOwner[Debt0(r)] = r /\ sum[r] = paid[Debt0(r)]

\* A creation about to be written has checked its initial payment.
InitialPaymentFits ==
    \A r \in DebtReqs : dpc[r] = "insert" => DebtBody[r].abono <= dterms[r].total

DebtsInd ==
    DebtsTypeOK /\ DebtPhases /\ PayerHoldsDebt /\ InitialPaymentFits /\ CollectedOnce

(* What the body of a creation holds. *)
LEMMA DebtBodyFacts ==
    ASSUME NEW r \in DebtReqs
    PROVE  /\ r \in Tx /\ r \in DebtUsers /\ r \notin AbonoReqs
           /\ DebtBody[r] \in DebtBodies
           /\ DebtBody[r].id \in DebtIds \cup {NoId}
           /\ DebtBody[r].product \in Products
           /\ DebtBody[r].qty \in Nat \ {0}
           /\ DebtBody[r].abono \in Nat
           /\ DebtBody[r].deudor \in {"inline", "known", "unknown"}
BY DebtBodiesAreValid, DebtReqsAreTx, AbonoReqsAreTx DEF DebtBodies, DebtUsers

(* What the body of a payment holds. *)
LEMMA AbonoBodyFacts ==
    ASSUME NEW r \in AbonoReqs
    PROVE  /\ r \in Tx /\ r \in DebtUsers /\ r \notin DebtReqs
           /\ Debt0(r) \in DebtIds
           /\ AbonoBody[r].amount \in Nat \ {0}
BY AbonoBodiesAreValid, AbonoReqsAreTx DEF AbonoBodies, DebtUsers, Debt0

(* A handler starts with no terms, which have their type. *)
LEMMA NoTermsOK == NoTerms \in [total : Nat, cost : Nat \cup {Null}]
BY DEF NoTerms, Null

(* An end of a handler that writes no table. *)
LEMMA DebtAnswerOK ==
    ASSUME DebtsInd, NEW r \in DebtUsers,
           NEW code \in {"none", "ok", "400", "403", "404", "409", "500"},
           DebtAnswer(r, code), UNCHANGED <<debts, paid, deudores, dsends>>,
           receipt' \in [DebtUsers -> Receipts],
           debtOwner' \in [DebtIds -> Tx \cup {NoTx}],
           \A q \in AbonoReqs \ {r} : dpc[q] = "pay" => debtOwner'[Debt0(q)] = q
    PROVE  DebtsInd'
<1>1. DebtHandlersTypeOK'
  BY NoTermsOK DEF DebtsInd, DebtsTypeOK, DebtHandlersTypeOK, DebtAnswer, DebtGoto
<1>2. DebtTablesTypeOK'
  BY DEF DebtsInd, DebtsTypeOK, DebtTablesTypeOK
<1>3. DebtPhases'
  BY DEF DebtsInd, DebtsTypeOK, DebtHandlersTypeOK, DebtPhases, DebtAnswer, DebtGoto, DebtUsers
<1>4. PayerHoldsDebt'
  BY DEF DebtsInd, DebtsTypeOK, DebtHandlersTypeOK, PayerHoldsDebt, DebtAnswer, DebtGoto,
         DebtUsers, Debt0
<1>5. InitialPaymentFits'
  BY DEF DebtsInd, DebtsTypeOK, DebtHandlersTypeOK, InitialPaymentFits, DebtAnswer, DebtGoto,
         DebtUsers
<1>6. CollectedOnce'
  BY DEF DebtsInd, CollectedOnce, Settled
<1> QED
  BY <1>1, <1>2, <1>3, <1>4, <1>5, <1>6 DEF DebtsInd, DebtsTypeOK

(* An end that writes nothing. *)
LEMMA DebtRejectOK ==
    ASSUME DebtsInd, NEW r \in DebtUsers,
           NEW code \in {"none", "ok", "400", "403", "404", "409", "500"}, DebtReject(r, code)
    PROVE  DebtsInd'
BY DebtAnswerOK DEF DebtReject, debtTables, DebtsInd, DebtsTypeOK, DebtHandlersTypeOK,
   DebtTablesTypeOK, PayerHoldsDebt

(* A creation goes on without having changed a table. *)
LEMMA DebtGotoOK ==
    ASSUME DebtsInd, NEW r \in DebtReqs,
           NEW where \in {"idle", "replay", "take", "recover", "winner"},
           NEW e \in {"none", "400", "duplicate"}, NEW terms \in [total : Nat, cost : Nat \cup {Null}],
           DebtGoto(r, where), where = "take" => DebtBody[r].deudor # "unknown",
           derr' = [derr EXCEPT ![r] = e] \/ UNCHANGED derr,
           dterms' = [dterms EXCEPT ![r] = terms] \/ UNCHANGED dterms,
           UNCHANGED <<sum, dreply, receipt, dsends, debtTables>>
    PROVE  DebtsInd'
<1>0. r \in DebtUsers /\ r \notin AbonoReqs
  BY DebtBodyFacts
<1>1. DebtHandlersTypeOK'
  <2>1. dterms' \in [DebtUsers -> [total : Nat, cost : Nat \cup {Null}]]
    <3> DEFINE T == [total : Nat, cost : Nat \cup {Null}]
    <3>1. dterms \in [DebtUsers -> T] /\ terms \in T
      BY DEF DebtsInd, DebtsTypeOK, DebtHandlersTypeOK
    <3> HIDE DEF T
    <3>2. dterms' \in [DebtUsers -> T]
      BY <3>1
    <3> QED
      BY <3>2 DEF T
  <2>2. derr' \in [DebtUsers -> {"none", "400", "duplicate"}]
    BY <1>0 DEF DebtsInd, DebtsTypeOK, DebtHandlersTypeOK
  <2>3. dpc' \in [DebtUsers -> {"away", "idle", "replay", "take", "insert", "recover", "winner",
                               "lock", "pay", "done"}]
    BY <1>0 DEF DebtsInd, DebtsTypeOK, DebtHandlersTypeOK, DebtGoto
  <2> QED
    BY <2>1, <2>2, <2>3 DEF DebtsInd, DebtsTypeOK, DebtHandlersTypeOK, debtTables
<1>2. DebtTablesTypeOK'
  BY DEF DebtsInd, DebtsTypeOK, DebtTablesTypeOK, debtTables
<1>3. DebtPhases'
  BY <1>0 DEF DebtsInd, DebtsTypeOK, DebtHandlersTypeOK, DebtPhases, DebtGoto, DebtUsers
<1>4. PayerHoldsDebt'
  BY <1>0 DEF DebtsInd, DebtsTypeOK, DebtHandlersTypeOK, PayerHoldsDebt, DebtGoto,
              DebtUsers, Debt0, debtTables
<1>5. InitialPaymentFits'
  BY <1>0 DEF DebtsInd, DebtsTypeOK, DebtHandlersTypeOK, InitialPaymentFits, DebtGoto, DebtUsers
<1>6. CollectedOnce'
  BY DEF DebtsInd, CollectedOnce, Settled, debtTables
<1> QED
  BY <1>1, <1>2, <1>3, <1>4, <1>5, <1>6 DEF DebtsInd, DebtsTypeOK

(* The answer to an id that is already persisted. *)
LEMMA ReplayOK ==
    ASSUME DebtsInd, NEW r \in DebtReqs, Winner(r) # NoDebt, Replay(r)
    PROVE  DebtsInd'
<1>1. CASE DebtReject(r, "409")
  BY <1>1, DebtRejectOK, DebtBodyFacts
<1>2. CASE /\ DebtAnswer(r, "ok")
           /\ receipt' = [receipt EXCEPT ![r] = Winner(r).receipt]
           /\ UNCHANGED <<dsends, debtTables>>
  <2>1. DebtBody[r].id \in DebtIds /\ debts[DebtBody[r].id] \in DebtRows
    BY DebtBodyFacts DEF Winner, ClientId, DebtsInd, DebtsTypeOK, DebtTablesTypeOK
  <2>2. Winner(r).receipt \in Receipts
    BY <2>1 DEF Winner, ClientId, DebtRows
  <2>3. receipt' \in [DebtUsers -> Receipts]
    BY <1>2, <2>2 DEF DebtsInd, DebtsTypeOK, DebtHandlersTypeOK
  <2> QED
    BY <1>2, <2>3, DebtAnswerOK, DebtBodyFacts
    DEF debtTables, DebtsInd, DebtsTypeOK, DebtTablesTypeOK, PayerHoldsDebt
<1> QED
  BY <1>1, <1>2 DEF Replay

(* A creation that throws. *)
LEMMA DebtFailOK ==
    ASSUME RowsOK, DebtsInd, NEW r \in DebtReqs, NEW e \in {"400", "duplicate"},
           ClientId(r) \/ e = "400", DebtFail(r, e)
    PROVE  RowsOK' /\ DebtsInd'
<1>1. RowsOK'
  BY RollbackRowsOK, DebtBodyFacts DEF DebtFail
<1>2. CASE ClientId(r)
  BY <1>1, <1>2, DebtGotoOK, NoTermsOK DEF DebtFail
<1>3. CASE ~ClientId(r)
  BY <1>1, <1>3, DebtRejectOK, DebtBodyFacts DEF DebtFail
<1> QED
  BY <1>2, <1>3

(* The units of a debt are taken: never more than the locked row has. *)
LEMMA DebtTakeOK ==
    ASSUME RowsOK, DebtsInd, NEW r \in DebtReqs, DebtTake(r)
    PROVE  RowsOK' /\ DebtsInd'
<1> DEFINE b == DebtBody[r]
           v == View(r, b.product)
           tot == v.price * b.qty
           taken == [v EXCEPT !.stock = @ - b.qty]
<1>1. CASE DebtFail(r, "400")
  BY <1>1, DebtFailOK
<1>2. CASE RollbackRows(r) /\ DebtReject(r, "500")
  BY <1>2, RollbackRowsOK, DebtRejectOK, DebtBodyFacts
<1>3. CASE /\ Lendable(v, b.qty)
           /\ b.abono > 0 => WithinBalance(0, tot, b.abono)
           /\ WriteRow(r, b.product, taken)
           /\ dterms' = [dterms EXCEPT ![r] = [total |-> tot, cost |-> v.cost]]
           /\ DebtGoto(r, "insert")
           /\ UNCHANGED <<sum, derr, dreply, receipt, dsends, debtTables>>
  <2>1. /\ b.product \in Products /\ b.qty \in Nat \ {0} /\ b.abono \in Nat
        /\ r \in Tx /\ r \in DebtUsers /\ r \notin AbonoReqs
    BY DebtBodyFacts
  <2>2. v \in Writable
    BY <2>1, ViewOK
  <2>3. v \in Row /\ v.stock \in 0..MaxMinor /\ v.price \in Nat /\ v.cost \in Nat \cup {Null}
    BY <2>2 DEF Writable, Row
  <2>4. taken.stock = v.stock - b.qty /\ (v.stock - b.qty \in Int => taken \in Row)
    BY <2>3 DEF Row
  <2>5. tot \in Nat
    BY <2>1, <2>3
  <2>6. b.qty <= v.stock /\ b.abono <= tot
    BY <1>3, <2>1, <2>5 DEF Lendable, WithinBalance
  <2> HIDE DEF taken, tot, v
  <2>7. taken \in Writable
    BY <2>1, <2>3, <2>4, <2>6, MaxMinorIsPositive DEF Writable
  <2>8. RowsOK'
    BY <1>3, <2>1, <2>7, WriteRowOK
  <2>9. dterms[r]' = [total |-> tot, cost |-> v.cost] /\ dterms[r]'.total = tot
    BY <1>3, <2>1 DEF DebtsInd, DebtsTypeOK, DebtHandlersTypeOK
  <2>10. DebtHandlersTypeOK'
    <3>1. [total |-> tot, cost |-> v.cost] \in [total : Nat, cost : Nat \cup {Null}]
      BY <2>3, <2>5
    <3>2. dterms' \in [DebtUsers -> [total : Nat, cost : Nat \cup {Null}]]
      BY <1>3, <2>1, <3>1 DEF DebtsInd, DebtsTypeOK, DebtHandlersTypeOK
    <3> QED
      BY <1>3, <2>1, <3>2 DEF DebtsInd, DebtsTypeOK, DebtHandlersTypeOK, DebtGoto
  <2>11. DebtTablesTypeOK' /\ CollectedOnce'
    BY <1>3 DEF DebtsInd, DebtsTypeOK, DebtTablesTypeOK, debtTables, CollectedOnce, Settled
  <2>12. DebtPhases' /\ PayerHoldsDebt'
    BY <1>3, <2>1 DEF DebtTake, DebtsInd, DebtsTypeOK, DebtHandlersTypeOK, DebtPhases, PayerHoldsDebt,
                      DebtGoto, DebtUsers, Debt0, debtTables
  <2>13. InitialPaymentFits'
    <3>1. ASSUME NEW q \in DebtReqs, dpc'[q] = "insert"
          PROVE  DebtBody[q].abono <= dterms'[q].total
      <4>1. CASE q = r
        BY <4>1, <2>6, <2>9
      <4>2. CASE q # r
        BY <1>3, <2>1, <3>1, <4>2
        DEF DebtsInd, DebtsTypeOK, DebtHandlersTypeOK, InitialPaymentFits, DebtGoto, DebtUsers
      <4> QED
        BY <4>1, <4>2
    <3> QED
      BY <3>1 DEF InitialPaymentFits
  <2> QED
    BY <2>8, <2>10, <2>11, <2>12, <2>13 DEF DebtsInd, DebtsTypeOK
<1> QED
  BY <1>1, <1>2, <1>3 DEF DebtTake

(* The new row of a debt settles itself exactly when its payment does. *)
LEMMA DebtRowOK ==
    ASSUME DebtsInd, NEW r \in DebtReqs, dpc[r] = "insert"
    PROVE  /\ DebtRow(DebtBody[r], dterms[r]) \in DebtRows
           /\ DebtRow(DebtBody[r], dterms[r]).total = dterms[r].total
           /\ DebtRow(DebtBody[r], dterms[r]).status
                 = StatusOf(DebtBody[r].abono, dterms[r].total)
           /\ DebtRow(DebtBody[r], dterms[r]).receipt \in Receipts
<1>1. dterms[r].total \in Nat /\ dterms[r].cost \in Nat \cup {Null}
  BY DebtBodyFacts DEF DebtsInd, DebtsTypeOK, DebtHandlersTypeOK
<1>2. StatusOf(DebtBody[r].abono, dterms[r].total) \in {"pendiente", "saldada"}
  BY DEF StatusOf
<1> QED
  BY <1>1, <1>2, DebtBodyFacts DEF DebtRow, DebtRows, Receipts, Receipt, DebtsInd, DebtPhases

(* The insert of a debt with its initial payment. *)
LEMMA DebtInsertOK ==
    ASSUME RowsOK, DebtsInd, NEW r \in DebtReqs, DebtInsert(r)
    PROVE  RowsOK' /\ DebtsInd'
<1> DEFINE b == DebtBody[r]
           new == DebtRow(b, dterms[r])
<1>0. dpc[r] = "insert"
  BY DEF DebtInsert
<1>1. CASE Winner(r) # NoDebt /\ DebtFail(r, "duplicate")
  BY <1>1, DebtFailOK DEF Winner
<1>2. CASE /\ \E d \in IF ClientId(r) THEN {b.id} ELSE ServerIds :
                 /\ debts[d] = NoDebt
                 /\ debts' = [debts EXCEPT ![d] = new]
                 /\ paid' = [paid EXCEPT ![d] = b.abono]
           /\ deudores' = deudores \cup (IF b.deudor = "inline" THEN {r} ELSE {})
           /\ CommitRows(r)
           /\ DebtAnswer(r, "ok")
           /\ receipt' = [receipt EXCEPT ![r] = new.receipt]
           /\ UNCHANGED <<dsends, debtOwner>>
  <2>1. PICK d \in IF ClientId(r) THEN {b.id} ELSE ServerIds :
                 /\ debts[d] = NoDebt
                 /\ debts' = [debts EXCEPT ![d] = new]
                 /\ paid' = [paid EXCEPT ![d] = b.abono]
    BY <1>2
  <2>2. /\ d \in DebtIds /\ b.abono \in Nat
        /\ r \in Tx /\ r \in DebtUsers /\ r \notin AbonoReqs
    BY DebtBodyFacts DEF ClientId, ServerIds
  <2>3. /\ new \in DebtRows /\ new.total = dterms[r].total
        /\ new.status = StatusOf(b.abono, dterms[r].total) /\ new.receipt \in Receipts
    BY <1>0, DebtRowOK
  <2>4. dterms[r].total \in Nat /\ b.abono <= dterms[r].total
    BY <1>0, <2>2 DEF DebtsInd, DebtsTypeOK, DebtHandlersTypeOK, InitialPaymentFits
  <2> HIDE DEF new
  <2>5. RowsOK'
    BY <1>2, <2>2, CommitRowsOK
  <2>6. DebtHandlersTypeOK'
    BY <1>2, <2>2, <2>3, NoTermsOK
    DEF DebtsInd, DebtsTypeOK, DebtHandlersTypeOK, DebtAnswer, DebtGoto
  <2>7. DebtTablesTypeOK'
    BY <1>2, <2>1, <2>2, <2>3 DEF DebtsInd, DebtsTypeOK, DebtTablesTypeOK
  <2>8. DebtPhases' /\ InitialPaymentFits'
    BY <1>2, <2>2 DEF DebtsInd, DebtsTypeOK, DebtHandlersTypeOK, DebtPhases, InitialPaymentFits,
                      DebtAnswer, DebtGoto, DebtUsers
  <2>9. PayerHoldsDebt'
    <3>1. ASSUME NEW q \in AbonoReqs
          PROVE  /\ dpc'[q] \in {"lock", "pay"} => debts'[Debt0(q)] # NoDebt
                 /\ dpc'[q] = "pay" =>
                       debtOwner'[Debt0(q)] = q /\ sum'[q] = paid'[Debt0(q)]
      <4>1. q # r /\ q \in DebtUsers /\ Debt0(q) \in DebtIds
        BY <2>2, AbonoBodyFacts
      <4>2. dpc'[q] = dpc[q] /\ sum'[q] = sum[q]
        BY <1>2, <2>2, <4>1 DEF DebtAnswer, DebtGoto, DebtsInd, DebtsTypeOK, DebtHandlersTypeOK
      <4>3. dpc[q] \in {"lock", "pay"} => Debt0(q) # d
        BY <2>1 DEF DebtsInd, PayerHoldsDebt
      <4>4. Debt0(q) # d => debts'[Debt0(q)] = debts[Debt0(q)] /\ paid'[Debt0(q)] = paid[Debt0(q)]
        BY <2>1, <2>2, <4>1 DEF DebtsInd, DebtsTypeOK, DebtTablesTypeOK
      <4> QED
        BY <1>2, <4>2, <4>3, <4>4 DEF DebtsInd, PayerHoldsDebt
    <3> QED
      BY <3>1 DEF PayerHoldsDebt, Debt0
  <2>10. CollectedOnce'
    <3>1. ASSUME NEW e \in DebtIds, debts'[e] # NoDebt
          PROVE  /\ paid'[e] <= debts'[e].total
                 /\ debts'[e].status = "saldada" <=> Settled(paid'[e], debts'[e].total)
      <4>1. CASE e = d
        <5>1. debts'[e] = new /\ paid'[e] = b.abono
          BY <2>1, <2>2, <4>1 DEF DebtsInd, DebtsTypeOK, DebtTablesTypeOK
        <5> QED
          BY <2>3, <2>4, <5>1 DEF StatusOf
      <4>2. CASE e # d
        BY <2>1, <2>2, <3>1, <4>2 DEF DebtsInd, DebtsTypeOK, DebtTablesTypeOK, CollectedOnce
      <4> QED
        BY <4>1, <4>2
    <3> QED
      BY <3>1 DEF CollectedOnce, Settled
  <2> QED
    BY <2>5, <2>6, <2>7, <2>8, <2>9, <2>10 DEF DebtsInd, DebtsTypeOK
<1> QED
  BY <1>1, <1>2 DEF DebtInsert

(* The steps of a creation that only read. *)
LEMMA DebtLookupOK ==
    ASSUME RowsOK, DebtsInd, NEW r \in DebtReqs,
           DebtAuthorize(r) \/ DebtReplay(r) \/ DebtRecover(r) \/ DebtWinner(r)
    PROVE  RowsOK' /\ DebtsInd'
<1> DEFINE Kept == UNCHANGED <<rowVars, dterms, sum, derr, dreply, receipt, dsends, debtTables>>
<1>1. r \in DebtUsers
  BY DebtBodyFacts
<1>2. CASE UNCHANGED rowVars /\ \E code \in {"400", "403", "409"} : DebtReject(r, code)
  BY <1>1, <1>2, RowsUnchangedOK, DebtRejectOK
<1>3. CASE UNCHANGED rowVars /\ Winner(r) # NoDebt /\ Replay(r)
  BY <1>3, RowsUnchangedOK, ReplayOK
<1>4. CASE DebtFail(r, "400")
  BY <1>4, DebtFailOK
<1>5. CASE /\ Kept
           /\ \E where \in {"replay", "take", "winner"} :
                 DebtGoto(r, where) /\ (where = "take" => DebtBody[r].deudor # "unknown")
  BY <1>5, DebtGotoOK, NoTermsOK, RowsUnchangedOK
<1>6. CASE DebtAuthorize(r)
  BY <1>2, <1>5, <1>6 DEF DebtAuthorize
<1>7. CASE DebtReplay(r)
  BY <1>3, <1>4, <1>5, <1>7 DEF DebtReplay
<1>8. CASE DebtRecover(r)
  BY <1>2, <1>5, <1>8 DEF DebtRecover
<1>9. CASE DebtWinner(r)
  <2>1. CASE Winner(r) # NoDebt /\ Replay(r)
    BY <1>3, <1>9, <2>1 DEF DebtWinner
  <2>2. CASE DebtReject(r, IF derr[r] = "duplicate" THEN "409" ELSE derr[r])
    <3>1. derr[r] \in {"none", "400", "duplicate"}
      BY <1>1 DEF DebtsInd, DebtsTypeOK, DebtHandlersTypeOK
    <3> QED
      BY <1>1, <1>9, <2>2, <3>1, RowsUnchangedOK, DebtRejectOK DEF DebtWinner
  <2> QED
    BY <1>9, <2>1, <2>2 DEF DebtWinner
<1> QED
  BY <1>6, <1>7, <1>8, <1>9

(* Payments. *)

(* The start of a payment. *)
LEMMA AbonoStartOK ==
    ASSUME DebtsInd, NEW r \in AbonoReqs, AbonoStart(r)
    PROVE  DebtsInd'
<1>1. r \in DebtUsers /\ r \notin DebtReqs
  BY AbonoBodyFacts
<1>2. CASE DebtReject(r, "403") \/ DebtReject(r, "404")
  BY <1>1, <1>2, DebtRejectOK
<1>3. CASE /\ debts[Debt0(r)] # NoDebt
           /\ DebtGoto(r, "lock")
           /\ UNCHANGED <<dterms, sum, derr, dreply, receipt, dsends, debtTables>>
  <2>1. DebtHandlersTypeOK'
    BY <1>1, <1>3 DEF DebtsInd, DebtsTypeOK, DebtHandlersTypeOK, DebtGoto
  <2>2. DebtTablesTypeOK' /\ CollectedOnce'
    BY <1>3 DEF DebtsInd, DebtsTypeOK, DebtTablesTypeOK, debtTables, CollectedOnce, Settled
  <2>3. DebtPhases' /\ PayerHoldsDebt' /\ InitialPaymentFits'
    BY <1>1, <1>3 DEF DebtsInd, DebtsTypeOK, DebtHandlersTypeOK, DebtPhases, PayerHoldsDebt,
                      InitialPaymentFits, DebtGoto, DebtUsers, Debt0, debtTables
  <2> QED
    BY <2>1, <2>2, <2>3 DEF DebtsInd, DebtsTypeOK
<1> QED
  BY <1>2, <1>3 DEF AbonoStart

(* Whoever gets the lock of a debt finds no other payment under way. *)
LEMMA AbonoLockOK ==
    ASSUME DebtsInd, NEW r \in AbonoReqs, AbonoLock(r)
    PROVE  DebtsInd'
<1>1. r \in DebtUsers /\ r \notin DebtReqs /\ r \in Tx /\ Debt0(r) \in DebtIds
  BY AbonoBodyFacts
<1>2. DebtHandlersTypeOK'
  BY <1>1 DEF AbonoLock, DebtsInd, DebtsTypeOK, DebtHandlersTypeOK, DebtTablesTypeOK, DebtGoto
<1>3. DebtTablesTypeOK' /\ CollectedOnce'
  BY <1>1 DEF AbonoLock, DebtsInd, DebtsTypeOK, DebtTablesTypeOK, CollectedOnce, Settled
<1>4. DebtPhases' /\ InitialPaymentFits'
  BY <1>1 DEF AbonoLock, DebtsInd, DebtsTypeOK, DebtHandlersTypeOK, DebtPhases,
              InitialPaymentFits, DebtGoto, DebtUsers
<1>5. ASSUME NEW q \in AbonoReqs
      PROVE  /\ dpc'[q] \in {"lock", "pay"} => debts'[Debt0(q)] # NoDebt
             /\ dpc'[q] = "pay" => debtOwner'[Debt0(q)] = q /\ sum'[q] = paid'[Debt0(q)]
  <2>1. q \in DebtUsers /\ Debt0(q) \in DebtIds /\ q \in Tx /\ q # NoTx
    BY AbonoBodyFacts, NoTxIsNotATx
  <2>2. CASE q = r
    BY <1>1, <2>2 DEF AbonoLock, DebtGoto, DebtsInd, DebtsTypeOK, DebtHandlersTypeOK,
                      DebtTablesTypeOK, PayerHoldsDebt
  <2>3. CASE q # r
    <3>1. dpc'[q] = dpc[q] /\ sum'[q] = sum[q] /\ UNCHANGED <<debts, paid>>
      BY <1>1, <2>1, <2>3 DEF AbonoLock, DebtGoto, DebtsInd, DebtsTypeOK, DebtHandlersTypeOK
    <3>2. dpc[q] = "pay" => debtOwner'[Debt0(q)] = q
      BY <1>1, <2>1, <2>3 DEF AbonoLock, DebtFree, DebtsInd, PayerHoldsDebt, DebtsTypeOK,
                              DebtTablesTypeOK
    <3> QED
      BY <3>1, <3>2 DEF DebtsInd, PayerHoldsDebt
  <2> QED
    BY <2>2, <2>3
<1>6. PayerHoldsDebt'
  BY <1>5 DEF PayerHoldsDebt, Debt0
<1> QED
  BY <1>2, <1>3, <1>4, <1>6 DEF DebtsInd, DebtsTypeOK

(* Releasing the locks of r takes none from another payment. *)
LEMMA DebtUnlockOK ==
    ASSUME DebtsInd, NEW r \in DebtUsers, DebtUnlock(r)
    PROVE  /\ debtOwner' \in [DebtIds -> Tx \cup {NoTx}]
           /\ \A q \in AbonoReqs \ {r} : dpc[q] = "pay" => debtOwner'[Debt0(q)] = q
BY AbonoBodyFacts DEF DebtUnlock, DebtsInd, DebtsTypeOK, DebtTablesTypeOK, PayerHoldsDebt

(* The payment: what was read under the lock still holds. *)
LEMMA AbonoPayOK ==
    ASSUME DebtsInd, NEW r \in AbonoReqs, AbonoPay(r)
    PROVE  DebtsInd'
<1> DEFINE d == Debt0(r)
           amount == AbonoBody[r].amount
           status == IF sum[r] + amount >= debts[d].total THEN "saldada" ELSE debts[d].status
<1>1. r \in DebtUsers /\ r \notin DebtReqs /\ d \in DebtIds /\ amount \in Nat \ {0}
  BY AbonoBodyFacts
<1>2. /\ debtOwner' \in [DebtIds -> Tx \cup {NoTx}]
      /\ \A q \in AbonoReqs \ {r} : dpc[q] = "pay" => debtOwner'[Debt0(q)] = q
  BY <1>1, DebtUnlockOK DEF AbonoPay
<1>3. /\ dpc[r] = "pay" /\ debts[d] # NoDebt /\ debtOwner[d] = r /\ sum[r] = paid[d]
  BY DEF AbonoPay, DebtsInd, PayerHoldsDebt
<1>4. CASE DebtAnswer(r, "400") /\ UNCHANGED <<debts, paid>>
  BY <1>1, <1>2, <1>4, DebtAnswerOK DEF AbonoPay, DebtsInd, DebtsTypeOK, DebtHandlersTypeOK
<1>5. CASE /\ WithinBalance(sum[r], debts[d].total, amount)
           /\ DebtAnswer(r, "ok")
           /\ paid' = [paid EXCEPT ![d] = @ + amount]
           /\ debts' = [debts EXCEPT ![d].status = status]
  <2>1. /\ debts[d] \in DebtRows /\ debts[d].total \in Nat /\ paid[d] \in Nat
        /\ debts[d].status \in {"pendiente", "saldada"}
    BY <1>1, <1>3 DEF DebtsInd, DebtsTypeOK, DebtTablesTypeOK, DebtRows
  <2>2. /\ debts[d].status = "saldada" <=> Settled(paid[d], debts[d].total)
        /\ paid[d] + amount <= debts[d].total
    BY <1>1, <1>3, <1>5, <2>1 DEF WithinBalance, DebtsInd, CollectedOnce
  <2>3. status \in {"pendiente", "saldada"}
    BY <2>1
  <2>4. status = "saldada" <=> Settled(paid[d] + amount, debts[d].total)
    BY <1>1, <1>3, <2>1, <2>2 DEF Settled
  <2>5. /\ paid'[d] = paid[d] + amount
        /\ \A e \in DebtIds \ {d} : paid'[e] = paid[e] /\ debts'[e] = debts[e]
        /\ debts'[d] = [debts[d] EXCEPT !.status = status]
    BY <1>1, <1>5 DEF DebtsInd, DebtsTypeOK, DebtTablesTypeOK
  <2> HIDE DEF status
  <2>6. /\ debts'[d] \in DebtRows /\ debts'[d] # NoDebt
        /\ debts'[d].status = status /\ debts'[d].total = debts[d].total
    BY <2>1, <2>3, <2>5, NoDebtIsNoRow DEF DebtRows
  <2>7. DebtTablesTypeOK'
    BY <1>1, <1>2, <1>5, <2>1, <2>5, <2>6
    DEF AbonoPay, DebtsInd, DebtsTypeOK, DebtTablesTypeOK
  <2>8. DebtHandlersTypeOK'
    BY <1>1, <1>5, NoTermsOK
    DEF AbonoPay, DebtsInd, DebtsTypeOK, DebtHandlersTypeOK, DebtAnswer, DebtGoto
  <2>9. DebtPhases' /\ InitialPaymentFits'
    BY <1>1, <1>5 DEF DebtsInd, DebtsTypeOK, DebtHandlersTypeOK, DebtPhases, InitialPaymentFits,
                      DebtAnswer, DebtGoto, DebtUsers
  <2>10. CollectedOnce'
    <3>1. ASSUME NEW e \in DebtIds, debts'[e] # NoDebt
          PROVE  /\ paid'[e] <= debts'[e].total
                 /\ debts'[e].status = "saldada" <=> Settled(paid'[e], debts'[e].total)
      <4>1. CASE e = d
        BY <2>2, <2>4, <2>5, <2>6, <4>1
      <4>2. CASE e # d
        BY <2>5, <3>1, <4>2 DEF DebtsInd, CollectedOnce
      <4> QED
        BY <4>1, <4>2
    <3> QED
      BY <3>1 DEF CollectedOnce, Settled
  <2>11. PayerHoldsDebt'
    <3>1. ASSUME NEW q \in AbonoReqs
          PROVE  /\ dpc'[q] \in {"lock", "pay"} => debts'[Debt0(q)] # NoDebt
                 /\ dpc'[q] = "pay" =>
                       debtOwner'[Debt0(q)] = q /\ sum'[q] = paid'[Debt0(q)]
      <4>1. q \in DebtUsers /\ Debt0(q) \in DebtIds
        BY AbonoBodyFacts
      <4>2. CASE q = r
        BY <1>1, <1>5, <4>2 DEF DebtAnswer, DebtGoto, DebtsInd, DebtsTypeOK, DebtHandlersTypeOK
      <4>3. CASE q # r
        <5>1. dpc'[q] = dpc[q] /\ sum'[q] = sum[q]
          BY <1>1, <1>5, <4>1, <4>3
          DEF DebtAnswer, DebtGoto, DebtsInd, DebtsTypeOK, DebtHandlersTypeOK
        <5>2. dpc[q] = "pay" => Debt0(q) # d
          BY <1>3, <4>3 DEF DebtsInd, PayerHoldsDebt
        <5>3. dpc[q] \in {"lock", "pay"} => debts'[Debt0(q)] # NoDebt
          BY <2>5, <2>6, <4>1 DEF DebtsInd, PayerHoldsDebt
        <5> QED
          BY <1>2, <2>5, <4>1, <4>3, <5>1, <5>2, <5>3 DEF DebtsInd, PayerHoldsDebt
      <4> QED
        BY <4>2, <4>3
    <3> QED
      BY <3>1 DEF PayerHoldsDebt, Debt0
  <2> QED
    BY <2>7, <2>8, <2>9, <2>10, <2>11 DEF DebtsInd, DebtsTypeOK
<1> QED
  BY <1>4, <1>5 DEF AbonoPay

(* A handler that dies. *)
LEMMA DebtDropOK ==
    ASSUME RowsOK, DebtsInd, NEW r \in DebtUsers, DebtDrop(r)
    PROVE  RowsOK' /\ DebtsInd'
<1>1. r \in Tx
  BY DebtBodyFacts, AbonoBodyFacts DEF DebtUsers
<1>2. RowsOK'
  BY <1>1, RollbackRowsOK DEF DebtDrop
<1>3. DebtsInd'
  BY DebtAnswerOK, DebtUnlockOK DEF DebtDrop, DebtsInd, DebtsTypeOK, DebtHandlersTypeOK
<1> QED
  BY <1>2, <1>3

(* A client that tries again. *)
LEMMA DebtResendOK ==
    ASSUME RowsOK, DebtsInd, NEW r \in DebtUsers, DebtResend(r)
    PROVE  RowsOK' /\ DebtsInd'
<1>1. RowsOK'
  BY RowsUnchangedOK DEF DebtResend
<1>2. DebtHandlersTypeOK'
  BY MaxDebtSendsIsNat DEF DebtResend, DebtsInd, DebtsTypeOK, DebtHandlersTypeOK, DebtGoto
<1>3. DebtTablesTypeOK' /\ CollectedOnce'
  BY DEF DebtResend, DebtsInd, DebtsTypeOK, DebtTablesTypeOK, debtTables, CollectedOnce, Settled
<1>4. DebtPhases' /\ PayerHoldsDebt' /\ InitialPaymentFits'
  BY DEF DebtResend, DebtsInd, DebtsTypeOK, DebtHandlersTypeOK, DebtPhases, PayerHoldsDebt,
         InitialPaymentFits, DebtGoto, DebtUsers, Debt0, debtTables
<1> QED
  BY <1>1, <1>2, <1>3, <1>4 DEF DebtsInd, DebtsTypeOK

(* Every step of a debt keeps the rows and the debts well formed. *)
LEMMA DebtStepOK ==
    ASSUME RowsOK, DebtsInd, NEW r \in DebtUsers, DebtStep(r)
    PROVE  RowsOK' /\ DebtsInd'
<1>1. CASE r \in DebtReqs /\ CreateHandle(r)
  BY <1>1, DebtLookupOK, DebtTakeOK, DebtInsertOK DEF CreateHandle
<1>2. CASE r \in AbonoReqs /\ AbonoHandle(r)
  BY <1>2, AbonoStartOK, AbonoLockOK, AbonoPayOK, RowsUnchangedOK DEF AbonoHandle
<1> QED
  BY <1>1, <1>2, DebtDropOK, DebtResendOK DEF DebtStep

-----------------------------------------------------------------------------
(* The composition. *)

\* The inductive invariant: each service needs only the rows besides its own
\* variables.
IInv == RowsOK /\ ActorsTypeOK /\ SalesInd /\ CatalogInd /\ DebtsInd

(* A component nobody touches stays as it is. *)
LEMMA SalesUntouched ==
    ASSUME SalesInd, UNCHANGED saleVars
    PROVE  SalesInd'
BY DEF SalesInd, SalesTypeOK, HandlersTypeOK, SaleTablesTypeOK, OnAnItem, saleVars, requestVars

(* The same for the catalog. *)
LEMMA CatalogUntouched ==
    ASSUME CatalogInd, UNCHANGED catVars
    PROVE  CatalogInd'
BY DEF CatalogInd, CatHandlersOK, TrailsOK, catVars

(* The same for the debts. *)
LEMMA DebtsUntouched ==
    ASSUME DebtsInd, UNCHANGED debtVars
    PROVE  DebtsInd'
<1>1. DebtsTypeOK'
  BY DEF DebtsInd, DebtsTypeOK, DebtHandlersTypeOK, DebtTablesTypeOK, debtVars, debtReqVars,
         debtTables
<1>2. DebtPhases' /\ PayerHoldsDebt' /\ InitialPaymentFits' /\ CollectedOnce'
  BY DEF DebtsInd, DebtPhases, PayerHoldsDebt, InitialPaymentFits, CollectedOnce, Settled, Debt0,
         debtVars, debtReqVars, debtTables
<1> QED
  BY <1>1, <1>2 DEF DebtsInd

(* The sequences a trail may start with. *)
LEMMA ShortSequences ==
    ASSUME NEW S
    PROVE  << >> \in Seq(S) /\ \A x \in S : <<x>> \in Seq(S)
OBVIOUS

(* The initial states are well formed. *)
LEMMA InitOK ==
    ASSUME Init
    PROVE  IInv
<1>1. PICK arriving \in Arrivals : SalesInit(arriving) /\ CatInit(arriving) /\ DebtInit(arriving)
  BY DEF Init
<1>2. RowsOK
  BY ShelfIsValid DEF Init, RowsOK, RowsTypeOK, StockInRange
<1>3. ActorsTypeOK
  BY DEF Init, ActorsInit, ActorsTypeOK
<1>4. SalesInd
  <2>1. HandlersTypeOK /\ OnAnItem
    BY <1>1, NoLinesOK, MaxSendsIsNat DEF SalesInit, HandlersTypeOK, OnAnItem
  <2>2. SaleTablesTypeOK
    BY <1>1, HistoryIsValid DEF SalesInit, SaleTablesTypeOK
  <2> QED
    BY <2>1, <2>2 DEF SalesInd, SalesTypeOK
<1>5. CatalogInd
  <2>1. NoRow \in Row /\ NoRow \in Writable
    BY NoRowOK DEF Writable
  <2>2. CatHandlersOK
    BY <1>1, <2>1 DEF CatInit, CatHandlersOK
  <2>3. ASSUME NEW p \in Products
        PROVE  audits[p] \in Seq([before : Row, after : Row])
    <3>1. row[p] \in Row
      BY <1>2 DEF RowsOK, RowsTypeOK
    <3>2. Audit(NoRow, row[p]) \in [before : Row, after : Row]
      BY <2>1, <3>1 DEF Audit
    <3>3. audits[p] = IF row[p].state = "absent" THEN << >> ELSE <<Audit(NoRow, row[p])>>
      BY <1>1 DEF CatInit
    <3>4. << >> \in Seq([before : Row, after : Row])
      BY ShortSequences
    <3>5. <<Audit(NoRow, row[p])>> \in Seq([before : Row, after : Row])
      BY <3>2, ShortSequences
    <3> QED
      BY <3>3, <3>4, <3>5
  <2>4. audits \in [Products -> Seq([before : Row, after : Row])]
    <3>1. audits = [p \in Products |->
              IF row[p].state = "absent" THEN << >> ELSE <<Audit(NoRow, row[p])>>]
      BY <1>1 DEF CatInit
    <3> QED
      BY <2>3, <3>1
  <2>5. movements \in [Products -> Seq([qty : Nat, before : Int, after : Int])]
    BY <1>1, ShortSequences DEF CatInit
  <2>6. TrailsOK
    BY <2>4, <2>5 DEF TrailsOK
  <2> QED
    BY <2>2, <2>6 DEF CatalogInd
<1>6. DebtsInd
  <2>1. DebtHandlersTypeOK
    BY <1>1, NoTermsOK, MaxDebtSendsIsNat
    DEF DebtInit, DebtHandlersTypeOK, NoReceipt, Receipt, Receipts
  <2>2. DebtTablesTypeOK
    BY <1>1 DEF DebtInit, DebtTablesTypeOK
  <2>3. /\ \A r \in DebtUsers : dpc[r] \in {"away", "idle"}
        /\ \A d \in DebtIds : debts[d] = NoDebt
    BY <1>1 DEF DebtInit
  <2>4. DebtPhases /\ PayerHoldsDebt /\ InitialPaymentFits /\ CollectedOnce
    BY <2>3 DEF DebtPhases, PayerHoldsDebt, InitialPaymentFits, CollectedOnce, DebtUsers
  <2> QED
    BY <2>1, <2>2, <2>4 DEF DebtsInd, DebtsTypeOK
<1> QED
  BY <1>2, <1>3, <1>4, <1>5, <1>6 DEF IInv

(* Every step, of whichever service, keeps all of them well formed. *)
LEMMA NextOK ==
    ASSUME IInv, [Next]_vars
    PROVE  IInv'
<1> USE DEF IInv
<1>1. ASSUME NEW r \in SaleReqs, Sale(r) PROVE IInv'
  <2>1. SalesStep(r) /\ UNCHANGED catVars /\ UNCHANGED debtVars /\ UNCHANGED authorized
    BY <1>1 DEF Sale
  <2> QED
    BY <2>1, SalesStepOK, CatalogUntouched, DebtsUntouched DEF ActorsTypeOK
<1>2. ASSUME NEW o \in CatReqs, Management(o) PROVE IInv'
  <2>1. CatStep(o) /\ UNCHANGED saleVars /\ UNCHANGED debtVars /\ UNCHANGED authorized
    BY <1>2 DEF Management
  <2> QED
    BY <2>1, CatStepOK, SalesUntouched, DebtsUntouched DEF ActorsTypeOK
<1>3. ASSUME NEW r \in DebtUsers, Credit(r) PROVE IInv'
  <2>1. DebtStep(r) /\ UNCHANGED saleVars /\ UNCHANGED catVars /\ UNCHANGED authorized
    BY <1>3 DEF Credit
  <2> QED
    BY <2>1, DebtStepOK, SalesUntouched, CatalogUntouched DEF ActorsTypeOK
<1>4. ASSUME NEW a \in Actors, Authority(a) PROVE IInv'
  <2>1. /\ UNCHANGED rowVars /\ UNCHANGED saleVars
        /\ UNCHANGED catVars /\ UNCHANGED debtVars
    BY <1>4 DEF Authority
  <2>2. ActorsTypeOK'
    BY <1>4 DEF Authority, Revoke, Reinstate, ActorsTypeOK
  <2> QED
    BY <2>1, <2>2, RowsUnchangedOK, SalesUntouched, CatalogUntouched, DebtsUntouched
<1>5. CASE UNCHANGED vars
  <2>1. /\ UNCHANGED rowVars /\ UNCHANGED saleVars /\ UNCHANGED catVars
        /\ UNCHANGED debtVars /\ UNCHANGED authorized
    BY <1>5 DEF vars
  <2> QED
    BY <2>1, RowsUnchangedOK, SalesUntouched, CatalogUntouched, DebtsUntouched DEF ActorsTypeOK
<1> QED
  BY <1>1, <1>2, <1>3, <1>4, <1>5 DEF Next, Finished

(* Every reachable state is well formed. *)
LEMMA Invariant == Spec => []IInv
<1>1. Init => IInv
  BY InitOK
<1>2. IInv /\ [Next]_vars => IInv'
  BY NextOK
<1> QED
  BY <1>1, <1>2, PTL DEF Spec

(* Every variable of the three services keeps its type, whatever requests  *)
(* overlap, fail, are dropped or resent (SalesService, ProductsService,    *)
(* DeudasService).                                                         *)
THEOREM TypeCorrect == Spec => []TypeOK
<1>1. IInv => TypeOK
  BY DEF IInv, TypeOK, RowsOK, SalesInd, CatalogInd, CatHandlersOK, TrailsOK, CatalogTypeOK, DebtsInd
<1> QED
  BY <1>1, Invariant, PTL

(* No interleaving promises a product beyond its stock or raises it beyond *)
(* the Int range: the reads under the row lock in SalesService.create and  *)
(* DeudasService.create and the guarded increment of restock suffice.      *)
THEOREM StockStaysInRange == Spec => []StockInRange
<1>1. IInv => StockInRange
  BY DEF IInv, RowsOK
<1> QED
  BY <1>1, Invariant, PTL

(* However many tablets collect at once, a debt receives no more than it   *)
(* is worth and is "saldada" exactly when it is paid: the row lock of      *)
(* DeudasService.registerAbono, and the frozen total of create.            *)
THEOREM DebtsAreCollectedOnce == Spec => []CollectedOnce
<1>1. IInv => CollectedOnce
  BY DEF IInv, DebtsInd
<1> QED
  BY <1>1, Invariant, PTL

(* A sale on record is never rewritten by another request, a retry or a    *)
(* recorded conflict (SalesService.create only ever inserts).              *)
THEOREM SalesAreNeverRewritten == Spec => SalesNeverChange
<1>1. ASSUME IInv, Next
      PROVE  \A i \in SaleIds : sales[i] # NoSale => sales'[i] = sales[i]
  <2>1. ASSUME NEW r \in SaleReqs, Sale(r)
        PROVE  \A i \in SaleIds : sales[i] # NoSale => sales'[i] = sales[i]
    <3>1. CASE UNCHANGED sales
      BY <3>1
    <3>2. CASE \E new : /\ Sale0(r) = NoSale
                        /\ sales' = [sales EXCEPT ![Body[r].id] = new]
      BY <1>1, <3>2 DEF Sale0, IInv, SalesInd, SalesTypeOK, SaleTablesTypeOK
    <3>3. SalesStep(r) => \/ UNCHANGED sales
                          \/ \E new : /\ Sale0(r) = NoSale
                                      /\ sales' = [sales EXCEPT ![Body[r].id] = new]
      BY DEF SalesStep, Handle, Guard, Precheck, Authorize, ReadItem, LockItem, TakeItem, Insert, Recover,
             Persist, Reread, DeadlockAbort, Drop, Resend, Fail
    <3> QED
      BY <2>1, <3>1, <3>2, <3>3 DEF Sale
  <2>2. CASE UNCHANGED saleVars
    BY <2>2 DEF saleVars
  <2> QED
    BY <1>1, <2>1, <2>2 DEF Next, Management, Credit, Authority, Finished, vars
<1>2. IInv /\ [Next]_vars
        => [\A i \in SaleIds : sales[i] # NoSale => sales'[i] = sales[i]]_sales
  BY <1>1 DEF vars, saleVars
<1> QED
  BY <1>2, Invariant, PTL DEF Spec, SalesNeverChange

-----------------------------------------------------------------------------
(* The answers about a sale. *)

\* What the last answer says of the row, whatever the handler does next.
AnswerHolds(r) ==
    /\ reply[r] \in {"200", "201"} =>
          /\ pc[r] \in {"idle", "precheck", "done"}
          /\ Sale0(r) # NoSale /\ IsIdempotentReplay(Sale0(r), Body[r])
          /\ Body[r].seller = Body[r].actor
    /\ reply[r] = "409" => Sale0(r) # NoSale /\ ~IsIdempotentReplay(Sale0(r), Body[r])

\* One creator per id.
OneCreator ==
    \A r \in SaleReqs : \A q \in SaleReqs \ {r} :
        reply[r] = "201" /\ Body[q].id = Body[r].id => reply[q] # "201"

\* A handler past its first look acts for itself, and re-reads what exists.
HandlerHolds(r) ==
    /\ pc[r] \notin {"away", "idle", "precheck", "done"} => Body[r].seller = Body[r].actor
    /\ pc[r] = "reread" => Sale0(r) # NoSale

AnswersInd ==
    /\ \A r \in SaleReqs : AnswerHolds(r) /\ HandlerHolds(r)
    /\ OneCreator

\* The four things a step of r does to its answer and to its row.
Moves(r) ==
    /\ UNCHANGED <<sales, reply>>
    /\ \E w : /\ pc' = [pc EXCEPT ![r] = w]
              /\ \/ w = "idle" /\ pc[r] = "done"
                 \/ w = "precheck" /\ pc[r] = "idle"
                 \/ /\ w = "authorize" /\ pc[r] = "precheck"
                    /\ Sale0(r) = NoSale /\ Body[r].seller = Body[r].actor
                 \/ /\ {w, pc[r]} \cap {"away", "idle", "precheck", "done"} = {}
                    /\ w = "reread" => Sale0(r) # NoSale

AnswersWith(r, code) ==
    /\ pc' = [pc EXCEPT ![r] = "done"]
    /\ reply' = [reply EXCEPT ![r] = code]

Replays(r) ==
    /\ AnswersWith(r, ReplayAnswer(Sale0(r), Body[r]))
    /\ Sale0(r) # NoSale /\ Body[r].seller = Body[r].actor
    /\ UNCHANGED sales

Refuses(r) ==
    /\ \/ AnswersWith(r, "none")
       \/ AnswersWith(r, "400") /\ Sale0(r) = NoSale
       \/ AnswersWith(r, "403") /\ (~MayAct(Body[r].actor) \/ Body[r].seller # Body[r].actor)
       \/ AnswersWith(r, "500") /\ pc[r] \in {"lock", "insert"}
    /\ UNCHANGED sales

Records(r) ==
    /\ AnswersWith(r, "201")
    /\ Sale0(r) = NoSale /\ pc[r] \in {"insert", "persist"}
    /\ \E status \in {"completada", "rechazada_por_conflicto"} : \E ls \in Lines :
          \E tot \in Nat \cup {Null} :
              sales' = [sales EXCEPT ![Body[r].id] = SaleRow(Body[r], status, ls, tot)]

(* Every step of a sale is one of the four. *)
LEMMA SalesStepIs ==
    ASSUME SalesInd, AnswersInd, NEW r \in SaleReqs, SalesStep(r)
    PROVE  Moves(r) \/ Replays(r) \/ Refuses(r) \/ Records(r)
<1>1. HandlerHolds(r)
  BY DEF AnswersInd
<1>2. CASE Guard(r) \/ Precheck(r)
  BY <1>2 DEF Guard, Precheck, Answer, Goto, Moves, Replays, Refuses, AnswersWith
<1>3. CASE Authorize(r)
  BY <1>3 DEF Authorize, Answer, Goto, Moves, Refuses, AnswersWith
<1>4. CASE ReadItem(r)
  BY <1>4 DEF ReadItem, Fail, Goto, Moves
<1>5. CASE LockItem(r)
  <2>1. CASE Fail(r, "bad") \/ Fail(r, "conflict")
    BY <1>5, <2>1 DEF LockItem, Fail, Goto, Moves
  <2>2. CASE Answer(r, "500") /\ UNCHANGED sales
    BY <1>5, <2>2 DEF LockItem, Answer, Goto, Refuses, AnswersWith
  <2>3. CASE TakeItem(r)
    <3> DEFINE w == IF line[r] = Len(Body[r].items) THEN "insert" ELSE "read"
    <3>1. w \in {"insert", "read"} /\ pc[r] = "lock"
      BY <1>5 DEF LockItem
    <3>2. pc' = [pc EXCEPT ![r] = w] /\ UNCHANGED <<sales, reply>>
      BY <2>3 DEF TakeItem, Goto
    <3> HIDE DEF w
    <3> QED
      BY <3>1, <3>2 DEF Moves
  <2> QED
    BY <1>5, <2>1, <2>2, <2>3 DEF LockItem
<1>6. CASE Insert(r)
  <2>1. CASE Fail(r, "bad") \/ Fail(r, "duplicate")
    BY <1>6, <2>1 DEF Insert, Fail, Goto, Moves
  <2>2. CASE /\ Sale0(r) = NoSale /\ Answer(r, "201")
             /\ sales' = [sales EXCEPT ![Body[r].id] =
                             SaleRow(Body[r], "completada", lines[r], total[r])]
    <3>1. lines[r] \in Lines /\ total[r] \in Nat \cup {Null} /\ pc[r] = "insert"
      BY <1>6 DEF Insert, SalesInd, SalesTypeOK, HandlersTypeOK
    <3> QED
      BY <2>2, <3>1 DEF Answer, Goto, Records, AnswersWith
  <2>3. CASE Answer(r, "500") /\ UNCHANGED sales
    BY <1>6, <2>3 DEF Insert, Answer, Goto, Refuses, AnswersWith
  <2> QED
    BY <1>6, <2>1, <2>2, <2>3 DEF Insert
<1>7. CASE Recover(r)
  BY <1>1, <1>7 DEF Recover, Answer, Goto, Moves, Replays, Refuses, AnswersWith, HandlerHolds
<1>8. CASE Persist(r)
  <2>1. CASE Goto(r, "reread") /\ Sale0(r) # NoSale /\ UNCHANGED <<sales, reply>>
    BY <1>8, <2>1 DEF Persist, Goto, Moves
  <2>2. CASE /\ Sale0(r) = NoSale /\ Answer(r, "201")
             /\ sales' = [sales EXCEPT ![Body[r].id] =
                             SaleRow(Body[r], "rechazada_por_conflicto", NoLines, Null)]
    BY <1>8, <2>2, NoLinesOK DEF Persist, Answer, Goto, Records, AnswersWith
  <2> QED
    BY <1>8, <2>1, <2>2 DEF Persist
<1>9. CASE Reread(r)
  BY <1>1, <1>9 DEF Reread, Answer, Goto, Replays, AnswersWith, HandlerHolds
<1>10. CASE DeadlockAbort(r) \/ Drop(r)
  <2>1. DeadlockAbort(r) => pc[r] = "lock"
    BY DEF DeadlockAbort, Deadlocked, Waiting
  <2> QED
    BY <1>10, <2>1 DEF DeadlockAbort, Drop, Answer, Goto, Refuses, AnswersWith
<1>11. CASE Resend(r)
  BY <1>11 DEF Resend, Goto, Moves
<1> QED
  BY <1>2, <1>3, <1>4, <1>5, <1>6, <1>7, <1>8, <1>9, <1>10, <1>11 DEF SalesStep, Handle

(* A row that is written says what its request said. *)
LEMMA NewRowIsReplay ==
    ASSUME NEW r \in SaleReqs, NEW status \in {"completada", "rechazada_por_conflicto"},
           NEW ls \in Lines, NEW tot \in Nat \cup {Null}
    PROVE  /\ SaleRow(Body[r], status, ls, tot) # NoSale
           /\ IsIdempotentReplay(SaleRow(Body[r], status, ls, tot), Body[r])
<1>1. SaleRow(Body[r], status, ls, tot) # NoSale
  BY SaleRowOK, NoSaleIsNoRow
<1>2. Fingerprint(Body[r]) # NoFingerprint
  BY DEF Fingerprint, NoFingerprint
<1>3. /\ SaleRow(Body[r], status, ls, tot).header = Header(Body[r])
      /\ SaleRow(Body[r], status, ls, tot).fingerprint = Fingerprint(Body[r])
  BY DEF SaleRow
<1> QED
  BY <1>1, <1>2, <1>3 DEF IsIdempotentReplay

(* No step touches a row that exists. *)
LEMMA RowsAreKept ==
    ASSUME SalesInd, NEW r \in SaleReqs, Moves(r) \/ Replays(r) \/ Refuses(r) \/ Records(r),
           NEW i \in SaleIds, sales[i] # NoSale
    PROVE  sales'[i] = sales[i]
<1>1. CASE UNCHANGED sales
  BY <1>1
<1>2. CASE Records(r)
  <2>1. PICK new : sales' = [sales EXCEPT ![Body[r].id] = new] /\ Sale0(r) = NoSale
    BY <1>2 DEF Records
  <2> QED
    BY <2>1 DEF Sale0, SalesInd, SalesTypeOK, SaleTablesTypeOK
<1> QED
  BY <1>1, <1>2 DEF Moves, Replays, Refuses

(* The answers and phases of the other requests hold on. *)
LEMMA OthersHold ==
    ASSUME SalesInd, AnswersInd, NEW r \in SaleReqs,
           Moves(r) \/ Replays(r) \/ Refuses(r) \/ Records(r), NEW q \in SaleReqs \ {r}
    PROVE  /\ pc'[q] = pc[q] /\ reply'[q] = reply[q]
           /\ AnswerHolds(q)' /\ HandlerHolds(q)'
<1>1. pc'[q] = pc[q] /\ reply'[q] = reply[q]
  BY DEF Moves, Replays, Refuses, Records, AnswersWith, SalesInd, SalesTypeOK, HandlersTypeOK
<1>2. Sale0(q) # NoSale => Sale0(q)' = Sale0(q)
  BY RowsAreKept, BodyFacts DEF Sale0
<1> QED
  BY <1>1, <1>2 DEF AnswersInd, AnswerHolds, HandlerHolds

(* Every step of a sale keeps the answers true. *)
LEMMA AnswersStep ==
    ASSUME SalesInd, AnswersInd, NEW r \in SaleReqs, SalesStep(r)
    PROVE  AnswersInd'
<1>1. Moves(r) \/ Replays(r) \/ Refuses(r) \/ Records(r)
  BY SalesStepIs
<1>2. pc = [q \in SaleReqs |-> pc[q]] /\ reply = [q \in SaleReqs |-> reply[q]]
  BY DEF SalesInd, SalesTypeOK, HandlersTypeOK
<1>3. Sale0(r) # NoSale => Sale0(r)' = Sale0(r)
  BY <1>1, RowsAreKept, BodyFacts DEF Sale0
<1>4. AnswerHolds(r)' /\ HandlerHolds(r)'
  <2>1. AnswerHolds(r) /\ HandlerHolds(r)
    BY DEF AnswersInd
  <2>2. CASE Moves(r)
    <3>1. reply'[r] = reply[r] /\ Sale0(r)' = Sale0(r)
      BY <2>2 DEF Moves, Sale0
    <3>2. PICK w : /\ pc' = [pc EXCEPT ![r] = w]
                   /\ \/ w = "idle" /\ pc[r] = "done"
                      \/ w = "precheck" /\ pc[r] = "idle"
                      \/ /\ w = "authorize" /\ pc[r] = "precheck"
                         /\ Sale0(r) = NoSale /\ Body[r].seller = Body[r].actor
                      \/ /\ {w, pc[r]} \cap {"away", "idle", "precheck", "done"} = {}
                         /\ w = "reread" => Sale0(r) # NoSale
      BY <2>2 DEF Moves
    <3>3. pc'[r] = w
      BY <1>2, <3>2
    <3> QED
      BY <2>1, <3>1, <3>2, <3>3 DEF AnswerHolds, HandlerHolds
  <2>3. CASE Replays(r)
    <3>1. pc'[r] = "done" /\ reply'[r] = ReplayAnswer(Sale0(r), Body[r])
      BY <1>2, <2>3 DEF Replays, AnswersWith
    <3> QED
      BY <1>3, <2>3, <3>1 DEF Replays, ReplayAnswer, AnswerHolds, HandlerHolds
  <2>4. CASE Refuses(r)
    <3>1. pc'[r] = "done" /\ reply'[r] \in {"none", "400", "403", "500"}
      BY <1>2, <2>4 DEF Refuses, AnswersWith
    <3> QED
      BY <3>1 DEF AnswerHolds, HandlerHolds
  <2>5. CASE Records(r)
    <3>1. pc'[r] = "done" /\ reply'[r] = "201"
      BY <1>2, <2>5 DEF Records, AnswersWith
    <3>2. Body[r].seller = Body[r].actor
      BY <2>1, <2>5 DEF Records, HandlerHolds
    <3>3. Sale0(r)' # NoSale /\ IsIdempotentReplay(Sale0(r)', Body[r])
      <4>1. PICK status \in {"completada", "rechazada_por_conflicto"}, ls \in Lines, tot \in Nat \cup {Null} :
               sales' = [sales EXCEPT ![Body[r].id] = SaleRow(Body[r], status, ls, tot)]
        BY <2>5 DEF Records
      <4>2. Sale0(r)' = SaleRow(Body[r], status, ls, tot)
        BY <4>1, BodyFacts DEF Sale0, SalesInd, SalesTypeOK, SaleTablesTypeOK
      <4> QED
        BY <4>2, NewRowIsReplay
    <3> QED
      BY <3>1, <3>2, <3>3 DEF AnswerHolds, HandlerHolds
  <2> QED
    BY <1>1, <2>2, <2>3, <2>4, <2>5
<1>5. \A q \in SaleReqs \ {r} : AnswerHolds(q)' /\ HandlerHolds(q)'
  BY <1>1, OthersHold
<1>6. OneCreator'
  <2>1. \A q \in SaleReqs \ {r} : reply'[q] = reply[q]
    BY <1>1, OthersHold
  <2>2. CASE Records(r)
    <3>1. \A q \in SaleReqs : Body[q].id = Body[r].id => reply[q] # "201"
      BY <2>2 DEF Records, Sale0, AnswersInd, AnswerHolds
    <3> QED
      BY <2>1, <3>1 DEF AnswersInd, OneCreator
  <2>3. CASE Moves(r)
    BY <2>3 DEF Moves, AnswersInd, OneCreator
  <2>4. CASE reply'[r] # "201"
    BY <2>1, <2>4 DEF AnswersInd, OneCreator
  <2>5. Replays(r) \/ Refuses(r) => reply'[r] # "201"
    BY <1>2 DEF Replays, Refuses, AnswersWith, ReplayAnswer
  <2> QED
    BY <1>1, <2>2, <2>3, <2>4, <2>5
<1> QED
  BY <1>4, <1>5, <1>6 DEF AnswersInd

(* The answers stay true in every reachable state. *)
LEMMA AnswersInvariant == Spec => []AnswersInd
<1>1. Init => AnswersInd
  BY DEF Init, SalesInit, AnswersInd, AnswerHolds, HandlerHolds, OneCreator
<1>2. IInv /\ AnswersInd /\ [Next]_vars => AnswersInd'
  <2> SUFFICES ASSUME IInv, AnswersInd, [Next]_vars
               PROVE  AnswersInd'
    OBVIOUS
  <2>1. ASSUME NEW r \in SaleReqs, Sale(r) PROVE AnswersInd'
    BY <2>1, AnswersStep DEF Sale, IInv
  <2>2. CASE UNCHANGED saleVars
    BY <2>2 DEF saleVars, requestVars, AnswersInd, AnswerHolds, HandlerHolds, OneCreator, Sale0
  <2> QED
    BY <2>1, <2>2 DEF Next, Management, Credit, Authority, Finished, vars
<1> QED
  BY <1>1, <1>2, Invariant, PTL DEF Spec

(* Every answer POST /sales gives is true for good: 200 and 201 name the   *)
(* very sale on record, 409 another one, and one request per id is told    *)
(* that it created it (isIdempotentReplay, the catch block of create).     *)
THEOREM AnswersAreTrue == Spec => []AnswerAgreesWithRow
<1>1. AnswersInd => AnswerAgreesWithRow
  BY DEF AnswersInd, AnswerHolds, OneCreator, AnswerAgreesWithRow
<1> QED
  BY <1>1, AnswersInvariant, PTL

(* What is on record is recognised by the comparison the code makes. *)
LEMMA RecordedIsReplay ==
    ASSUME NEW r \in SaleReqs, OnRecord(r)
    PROVE  Sale0(r) # NoSale /\ IsIdempotentReplay(Sale0(r), Body[r])
<1>1. Fingerprint(Body[r]) # NoFingerprint
  BY DEF Fingerprint, NoFingerprint
<1>2. CASE Sale0(r).fingerprint = Fingerprint(Body[r])
  BY <1>1, <1>2 DEF OnRecord, IsIdempotentReplay
<1>3. CASE /\ Sale0(r).fingerprint = NoFingerprint
           /\ Sale0(r).status = "completada"
           /\ Sale0(r).items = Body[r].items
  <2>1. SameItems(Sale0(r).items, Body[r].items)
    BY <1>3 DEF SameItems
  <2> QED
    BY <1>3, <2>1 DEF OnRecord, IsIdempotentReplay
<1> QED
  BY <1>2, <1>3 DEF OnRecord

(* An attempt whose sale is on record is answered as a replay, whichever   *)
(* attempt wrote it and whatever became of the stock: refused only while   *)
(* its actor is not in force, failing only if it dies or, not told yet, in *)
(* a deadlock or at the range of the money (ContextGuard, and the look for *)
(* the id that precedes everything else in create).                        *)
THEOREM RetriesAreReplays == Spec => RetriesReplay
<1> DEFINE Excused(r) == \/ reply'[r] = "200"
                         \/ reply'[r] = "none"
                         \/ reply'[r] = "403" /\ ~MayAct(Body[r].actor)
                         \/ reply'[r] = "500" /\ reply[r] \notin {"200", "201"}
           Replayed == \A r \in SaleReqs :
              (/\ OnRecord(r) /\ Body[r].seller = Body[r].actor
               /\ pc[r] # "done" /\ pc'[r] = "done") => Excused(r)
<1>1. ASSUME IInv, AnswersInd, Next
      PROVE  Replayed
  <2>1. ASSUME NEW r \in SaleReqs, Sale(r) PROVE Replayed
    <3>1. \/ Moves(r) \/ Replays(r) \/ Refuses(r) \/ Records(r)
      BY <1>1, <2>1, SalesStepIs DEF Sale, IInv
    <3>2. ASSUME NEW q \in SaleReqs, q # r PROVE pc'[q] = pc[q]
      BY <1>1, <3>1, <3>2, OthersHold DEF IInv
    <3>3. pc = [q \in SaleReqs |-> pc[q]] /\ reply = [q \in SaleReqs |-> reply[q]]
      BY <1>1 DEF IInv, SalesInd, SalesTypeOK, HandlersTypeOK
    <3>4. ASSUME OnRecord(r), Body[r].seller = Body[r].actor, pc[r] # "done", pc'[r] = "done"
          PROVE  Excused(r)
      <4>1. Sale0(r) # NoSale /\ ReplayAnswer(Sale0(r), Body[r]) = "200"
        BY <3>4, RecordedIsReplay DEF ReplayAnswer
      <4>2. ~Moves(r)
        BY <3>3, <3>4 DEF Moves
      <4>3. CASE Replays(r)
        BY <3>3, <4>1, <4>3 DEF Replays, AnswersWith
      <4>4. CASE Refuses(r)
        BY <1>1, <3>3, <3>4, <4>1, <4>4 DEF Refuses, AnswersWith, AnswersInd, AnswerHolds
      <4> QED
        BY <3>1, <4>1, <4>2, <4>3, <4>4 DEF Records
    <3> QED
      BY <3>2, <3>4
  <2>2. CASE UNCHANGED saleVars
    BY <2>2 DEF saleVars, requestVars
  <2> QED
    BY <1>1, <2>1, <2>2 DEF Next, Management, Credit, Authority, Finished, vars
<1>2. IInv /\ AnswersInd /\ [Next]_vars => [Replayed]_requestVars
  BY <1>1 DEF vars, saleVars
<1> QED
  BY <1>2, Invariant, AnswersInvariant, PTL DEF Spec, RetriesReplay

-----------------------------------------------------------------------------
(* The creation responses of debts. *)

\* The response a row keeps is that of the request that wrote it.
RowReceipt(d) ==
    debts[d] # NoDebt =>
        /\ debts[d].receipt.total = debts[d].total
        /\ \A r \in DebtReqs : debts[d].fingerprint = FingerprintD(DebtBody[r]) =>
              debts[d].receipt.paid = DebtBody[r].abono

\* A client holds the response its row keeps.
ClientReceipt(r) ==
    dreply[r] = "ok" /\ ClientId(r) =>
        /\ Winner(r) # NoDebt
        /\ Winner(r).fingerprint = FingerprintD(DebtBody[r])
        /\ receipt[r] = Winner(r).receipt

ReceiptsInd ==
    /\ \A d \in DebtIds : RowReceipt(d)
    /\ \A r \in DebtReqs : ClientReceipt(r)

\* What a step may do to rows that exist: change their status.
DebtKept(d) ==
    \/ debts'[d] = debts[d]
    \/ /\ debts[d] # NoDebt /\ debts'[d] # NoDebt
       /\ debts'[d].total = debts[d].total
       /\ debts'[d].receipt = debts[d].receipt
       /\ debts'[d].fingerprint = debts[d].fingerprint

\* No row is added and nobody is told that one was.
Quiet ==
    /\ \A d \in DebtIds : DebtKept(d)
    /\ \A q \in DebtReqs : dreply'[q] = "ok" => dreply[q] = "ok" /\ receipt'[q] = receipt[q]

\* r gets the response of its row.
GetsReceipt(r) ==
    /\ UNCHANGED debts
    /\ Winner(r) # NoDebt /\ Winner(r).fingerprint = FingerprintD(DebtBody[r])
    /\ receipt' = [receipt EXCEPT ![r] = Winner(r).receipt]
    /\ dreply' = [dreply EXCEPT ![r] = "ok"]

\* r writes its row and gets the response of it.
Opens(r) ==
    \E d \in DebtIds, terms \in [total : Nat, cost : Nat \cup {Null}] :
        /\ ClientId(r) => d = DebtBody[r].id
        /\ debts[d] = NoDebt /\ DebtRow(DebtBody[r], terms) # NoDebt
        /\ debts' = [debts EXCEPT ![d] = DebtRow(DebtBody[r], terms)]
        /\ receipt' = [receipt EXCEPT ![r] = DebtRow(DebtBody[r], terms).receipt]
        /\ dreply' = [dreply EXCEPT ![r] = "ok"]

(* A step that neither adds a row nor answers "ok" is quiet. *)
LEMMA RefusalIsQuiet ==
    ASSUME DebtsInd, NEW r \in DebtUsers, NEW code, code # "ok",
           DebtReject(r, code) \/ DebtFail(r, code)
    PROVE  Quiet
BY DEF DebtReject, DebtFail, DebtAnswer, debtTables, Quiet, DebtKept, DebtsInd, DebtsTypeOK,
       DebtHandlersTypeOK, DebtUsers

(* A replay gives the response of the row, or a conflict. *)
LEMMA ReplayGives ==
    ASSUME DebtsInd, NEW r \in DebtReqs, Winner(r) # NoDebt, Replay(r)
    PROVE  Quiet \/ GetsReceipt(r)
BY RefusalIsQuiet, DebtBodyFacts DEF Replay, DebtAnswer, GetsReceipt, debtTables, DebtUsers

(* Every step of a debt is one of the three. *)
LEMMA DebtStepIs ==
    ASSUME RowsOK, DebtsInd, NEW r \in DebtUsers, DebtStep(r)
    PROVE  Quiet \/ (r \in DebtReqs /\ (GetsReceipt(r) \/ Opens(r)))
<1>1. CASE UNCHANGED <<debts, receipt, dreply>>
  BY <1>1 DEF Quiet, DebtKept
<1>2. CASE r \in DebtReqs /\ DebtAuthorize(r)
  BY <1>1, <1>2, RefusalIsQuiet DEF DebtAuthorize, debtTables
<1>3. CASE r \in DebtReqs /\ DebtReplay(r)
  BY <1>1, <1>3, RefusalIsQuiet, ReplayGives DEF DebtReplay, debtTables
<1>4. CASE r \in DebtReqs /\ DebtTake(r)
  BY <1>1, <1>4, RefusalIsQuiet DEF DebtTake, debtTables
<1>5. CASE r \in DebtReqs /\ DebtInsert(r)
  <2>1. CASE DebtFail(r, "duplicate")
    BY <2>1, RefusalIsQuiet
  <2>2. CASE ~DebtFail(r, "duplicate")
    <3> DEFINE new == DebtRow(DebtBody[r], dterms[r])
    <3>1. PICK d \in IF ClientId(r) THEN {DebtBody[r].id} ELSE ServerIds :
             debts[d] = NoDebt /\ debts' = [debts EXCEPT ![d] = new]
      BY <1>5, <2>2 DEF DebtInsert
    <3>2. /\ receipt' = [receipt EXCEPT ![r] = new.receipt]
          /\ dreply' = [dreply EXCEPT ![r] = "ok"]
      BY <1>5, <2>2 DEF DebtInsert, DebtAnswer
    <3>3. dterms[r] \in [total : Nat, cost : Nat \cup {Null}]
      BY DEF DebtsInd, DebtsTypeOK, DebtHandlersTypeOK
    <3>4. d \in DebtIds /\ (ClientId(r) => d = DebtBody[r].id)
      BY <1>5, <3>1, DebtBodyFacts DEF ServerIds, ClientId
    <3>5. new # NoDebt
      BY <1>5, DebtRowOK, NoDebtIsNoRow DEF DebtInsert
    <3> QED
      BY <1>5, <3>1, <3>2, <3>3, <3>4, <3>5 DEF Opens
  <2> QED
    BY <2>1, <2>2
<1>6. CASE r \in DebtReqs /\ (DebtRecover(r) \/ DebtWinner(r))
  <2>1. derr[r] # "ok"
    BY DEF DebtsInd, DebtsTypeOK, DebtHandlersTypeOK
  <2> QED
    BY <1>1, <1>6, <2>1, RefusalIsQuiet, ReplayGives DEF DebtRecover, DebtWinner, debtTables
<1>7. CASE r \in AbonoReqs /\ (AbonoStart(r) \/ AbonoLock(r))
  BY <1>1, <1>7, RefusalIsQuiet DEF AbonoStart, AbonoLock, debtTables
<1>8. CASE r \in AbonoReqs /\ AbonoPay(r)
  <2>1. \A q \in DebtReqs : dreply'[q] = dreply[q] /\ receipt'[q] = receipt[q]
    BY <1>8, AbonoReqsAreTx DEF AbonoPay, DebtAnswer, DebtsInd, DebtsTypeOK, DebtHandlersTypeOK,
                                   DebtUsers
  <2>2. debts[Debt0(r)] # NoDebt /\ Debt0(r) \in DebtIds
    BY <1>8, AbonoBodyFacts DEF AbonoPay, DebtsInd, PayerHoldsDebt
  <2>3. debts[Debt0(r)] \in DebtRows
    BY <2>2 DEF DebtsInd, DebtsTypeOK, DebtTablesTypeOK
  <2>4. CASE UNCHANGED debts
    BY <2>1, <2>4 DEF Quiet, DebtKept
  <2>5. CASE \E status \in {"saldada", debts[Debt0(r)].status} :
                debts' = [debts EXCEPT ![Debt0(r)].status = status]
    <3>1. PICK status \in {"pendiente", "saldada"} :
             debts' = [debts EXCEPT ![Debt0(r)].status = status]
      BY <2>3, <2>5 DEF DebtRows
    <3>2. /\ debts'[Debt0(r)] = [debts[Debt0(r)] EXCEPT !.status = status]
          /\ \A d \in DebtIds \ {Debt0(r)} : debts'[d] = debts[d]
      BY <2>2, <3>1 DEF DebtsInd, DebtsTypeOK, DebtTablesTypeOK
    <3>3. debts'[Debt0(r)] \in DebtRows
      BY <2>3, <3>1, <3>2 DEF DebtRows
    <3>4. DebtKept(Debt0(r))
      BY <2>2, <2>3, <3>2, <3>3, NoDebtIsNoRow DEF DebtRows, DebtKept
    <3> QED
      BY <2>1, <3>2, <3>4 DEF Quiet, DebtKept
  <2>6. \/ UNCHANGED debts
        \/ \E status \in {"saldada", debts[Debt0(r)].status} :
              debts' = [debts EXCEPT ![Debt0(r)].status = status]
    BY <1>8 DEF AbonoPay
  <2> QED
    BY <2>4, <2>5, <2>6
<1>9. CASE DebtDrop(r) \/ DebtResend(r)
  BY <1>1, <1>9 DEF DebtDrop, DebtResend, DebtAnswer, debtTables, Quiet, DebtKept, DebtsInd,
                    DebtsTypeOK, DebtHandlersTypeOK, DebtUsers
<1> QED
  BY <1>2, <1>3, <1>4, <1>5, <1>6, <1>7, <1>8, <1>9 DEF DebtStep, CreateHandle, AbonoHandle

(* Every step of a debt keeps the responses. *)
LEMMA ReceiptsStep ==
    ASSUME RowsOK, DebtsInd, ReceiptsInd, NEW r \in DebtUsers, DebtStep(r)
    PROVE  ReceiptsInd'
<1>1. \A q \in DebtReqs : ClientId(q) => DebtBody[q].id \in DebtIds
  BY DebtBodyFacts DEF ClientId
<1>2. CASE Quiet
  <2>1. ASSUME NEW d \in DebtIds PROVE RowReceipt(d)'
    BY <1>2 DEF Quiet, DebtKept, ReceiptsInd, RowReceipt
  <2>2. ASSUME NEW q \in DebtReqs PROVE ClientReceipt(q)'
    BY <1>1, <1>2 DEF Quiet, DebtKept, ReceiptsInd, ClientReceipt, Winner, ClientId
  <2> QED
    BY <2>1, <2>2 DEF ReceiptsInd
<1>3. CASE r \in DebtReqs /\ GetsReceipt(r)
  <2>1. ASSUME NEW d \in DebtIds PROVE RowReceipt(d)'
    BY <1>3 DEF GetsReceipt, ReceiptsInd, RowReceipt
  <2>2. ASSUME NEW q \in DebtReqs PROVE ClientReceipt(q)'
    BY <1>3 DEF GetsReceipt, ReceiptsInd, ClientReceipt, Winner, ClientId, DebtsInd, DebtsTypeOK,
                DebtHandlersTypeOK, DebtUsers
  <2> QED
    BY <2>1, <2>2 DEF ReceiptsInd
<1>4. CASE r \in DebtReqs /\ Opens(r)
  <2>1. PICK d \in DebtIds, terms \in [total : Nat, cost : Nat \cup {Null}] :
           /\ ClientId(r) => d = DebtBody[r].id
           /\ debts[d] = NoDebt /\ DebtRow(DebtBody[r], terms) # NoDebt
           /\ debts' = [debts EXCEPT ![d] = DebtRow(DebtBody[r], terms)]
           /\ receipt' = [receipt EXCEPT ![r] = DebtRow(DebtBody[r], terms).receipt]
           /\ dreply' = [dreply EXCEPT ![r] = "ok"]
    BY <1>4 DEF Opens
  <2> DEFINE new == DebtRow(DebtBody[r], terms)
  <2>2. /\ new.receipt.total = new.total /\ new.receipt.paid = DebtBody[r].abono
        /\ new.fingerprint = IF ClientId(r) THEN FingerprintD(DebtBody[r]) ELSE NoFingerprintD
    BY DEF DebtRow, Receipt, ClientId
  <2>3. /\ debts'[d] = new
        /\ \A e \in DebtIds \ {d} : debts'[e] = debts[e]
    BY <2>1 DEF DebtsInd, DebtsTypeOK, DebtTablesTypeOK
  <2>4. /\ receipt'[r] = new.receipt
        /\ \A q \in DebtReqs \ {r} : receipt'[q] = receipt[q] /\ dreply'[q] = dreply[q]
    BY <1>4, <2>1 DEF DebtsInd, DebtsTypeOK, DebtHandlersTypeOK, DebtUsers
  <2>5. debts'[d] # NoDebt
    BY <2>1, <2>3
  <2> HIDE DEF new
  <2>6. \A q \in DebtReqs : new.fingerprint = FingerprintD(DebtBody[q]) =>
           DebtBody[q].abono = DebtBody[r].abono
    BY <2>2 DEF FingerprintD, NoFingerprintD
  <2>7. ASSUME NEW e \in DebtIds PROVE RowReceipt(e)'
    BY <2>2, <2>3, <2>6 DEF ReceiptsInd, RowReceipt
  <2>8. ASSUME NEW q \in DebtReqs PROVE ClientReceipt(q)'
    <3>1. CASE q = r
      BY <2>1, <2>2, <2>3, <2>4, <2>5, <3>1 DEF ClientReceipt, Winner, ClientId
    <3>2. CASE q # r
      BY <1>1, <2>1, <2>3, <2>4, <3>2 DEF ReceiptsInd, ClientReceipt, Winner, ClientId
    <3> QED
      BY <3>1, <3>2
  <2> QED
    BY <2>7, <2>8 DEF ReceiptsInd
<1> QED
  BY <1>2, <1>3, <1>4, DebtStepIs

(* The responses hold in every reachable state. *)
LEMMA ReceiptsInvariant == Spec => []ReceiptsInd
<1>1. Init => ReceiptsInd
  BY DEF Init, DebtInit, ReceiptsInd, RowReceipt, ClientReceipt, DebtUsers
<1>2. IInv /\ ReceiptsInd /\ [Next]_vars => ReceiptsInd'
  <2> SUFFICES ASSUME IInv, ReceiptsInd, [Next]_vars
               PROVE  ReceiptsInd'
    OBVIOUS
  <2>1. ASSUME NEW r \in DebtUsers, Credit(r) PROVE ReceiptsInd'
    BY <2>1, ReceiptsStep DEF Credit, IInv
  <2>2. CASE UNCHANGED debtVars
    BY <2>2 DEF debtVars, debtReqVars, debtTables, ReceiptsInd, RowReceipt, ClientReceipt, Winner,
                ClientId
  <2> QED
    BY <2>1, <2>2 DEF Next, Sale, Management, Authority, Finished, vars
<1> QED
  BY <1>1, <1>2, Invariant, PTL DEF Spec

(* A client-generated debt id has one creation response, the same for every*)
(* attempt and whatever has been paid since (the replay snapshot that      *)
(* DeudasService.create stores with the row).                              *)
THEOREM ReceiptsAreFrozen == Spec => []ReceiptIsFrozen
<1>1. DebtsInd /\ ReceiptsInd => ReceiptIsFrozen
  BY DebtBodyFacts DEF ReceiptsInd, RowReceipt, ClientReceipt, ReceiptIsFrozen, Winner, ClientId
<1>2. IInv => DebtsInd
  BY DEF IInv
<1> QED
  BY <1>1, <1>2, Invariant, ReceiptsInvariant, PTL

-----------------------------------------------------------------------------
(* What locked rows and half-done requests are like. *)

SameTerms(v, w) == v.price = w.price /\ v.cost = w.cost

\* The uncommitted version differs from the row by units taken, but for a
\* restock that still has to record what it has added.  Requests to the
\* catalog lock the row they are about.
TakenOnly(p) ==
    owner[p] # NoTx =>
        /\ row[p].state # "absent"
        /\ owner[p] \in CatReqs => CatOp[owner[p]].product = p
        /\ draft[p].state = row[p].state /\ SameTerms(draft[p], row[p])
        /\ \/ draft[p].stock <= row[p].stock
           \/ \E o \in CatReqs : owner[p] = o /\ cpc[o] = "record"

\* A request past its lock holds it, and what it noted is the row.
HoldsItsRow(o) ==
    LET p == CatOp[o].product
    IN  /\ cpc[o] \in {"locked", "record"} => owner[p] = o
        /\ cpc[o] = "record" => SameTerms(caudit[o], row[p]) /\ caudit[o].stock <= row[p].stock

Ends(a, v) == a # << >> => SameTerms(a[Len(a)].after, v)
Linked(a) == \A i \in 1..Len(a) - 1 : SameTerms(a[i + 1].before, a[i].after)

Rising(m) == \A i \in 1..Len(m) - 1 : m[i + 1].before <= m[i].after
Tops(m, v) == m # << >> => v.stock <= m[Len(m)].after

Trail(p) ==
    /\ row[p].state = "absent" <=> audits[p] = << >>
    /\ row[p].state = "absent" => movements[p] = << >>
    /\ Linked(audits[p]) /\ Ends(audits[p], row[p])
    /\ Rising(movements[p]) /\ Tops(movements[p], row[p])

RowsInd == \A p \in Products : TakenOnly(p) /\ Trail(p)
HistInd == RowsInd /\ \A o \in CatReqs : HoldsItsRow(o)

-----------------------------------------------------------------------------
(* Histories that grow by one entry. *)

LEMMA Grows ==
    ASSUME NEW S, NEW a \in Seq(S), NEW e
    PROVE  LET b == Append(a, e)
           IN  /\ b # << >> /\ Len(b) \in Nat /\ Len(b) = Len(a) + 1 /\ b[Len(b)] = e
               /\ \A i \in 1..Len(a) : b[i] = a[i]
               /\ a # << >> => Len(a) \in 1..Len(a)
               /\ a = << >> => Len(a) = 0
  <1> DEFINE b == Append(a, e)
  <1>1. a \in Seq(S \cup {e}) /\ e \in S \cup {e}
    OBVIOUS
  <1>2. Len(b) = Len(a) + 1 /\ Len(a) \in Nat /\ b[Len(a) + 1] = e /\ \A i \in 1..Len(a) : b[i] = a[i]
    BY <1>1
  <1>3. b # << >>
    BY <1>2
  <1>4. a # << >> => Len(a) # 0
    OBVIOUS
  <1> HIDE DEF b
  <1> QED BY <1>2, <1>3, <1>4 DEF b

LEMMA LinkedGrows ==
    ASSUME NEW S, NEW a \in Seq(S), NEW v, NEW e, Linked(a), Ends(a, v), SameTerms(e.before, v)
    PROVE  Linked(Append(a, e)) /\ Ends(Append(a, e), e.after) /\ Append(a, e) # << >>
  <1> DEFINE b == Append(a, e)
  <1>1. /\ b # << >> /\ Len(b) \in Nat /\ Len(b) = Len(a) + 1 /\ b[Len(b)] = e /\ Len(a) \in Nat
        /\ \A i \in 1..Len(a) : b[i] = a[i]
        /\ a # << >> => Len(a) \in 1..Len(a)
        /\ a = << >> => Len(a) = 0
    BY Grows
  <1> HIDE DEF b
  <1>2. ASSUME NEW i \in 1..Len(b) - 1 PROVE SameTerms(b[i + 1].before, b[i].after)
    <2>1. CASE i = Len(a)
      <3>1. a # << >> /\ b[i + 1] = e /\ b[i] = a[Len(a)]
        BY <1>1, <1>2, <2>1
      <3> QED BY <3>1 DEF Ends, SameTerms
    <2>2. CASE i # Len(a)
      <3>1. i \in 1..Len(a) - 1 /\ b[i + 1] = a[i + 1] /\ b[i] = a[i]
        BY <1>1, <1>2, <2>2
      <3> QED BY <3>1 DEF Linked
    <2> QED BY <2>1, <2>2
  <1>3. Linked(b)
    BY <1>2 DEF Linked
  <1>4. Ends(b, e.after)
    BY <1>1 DEF Ends, SameTerms
  <1> QED BY <1>1, <1>3, <1>4 DEF b

LEMMA RisingGrows ==
    ASSUME NEW S, NEW m \in Seq(S), NEW v, NEW e, Rising(m), Tops(m, v), e.before <= v.stock,
           e.before \in Int, v.stock \in Int, \A x \in S : x.after \in Int
    PROVE  Rising(Append(m, e)) /\ \A w : w.stock = e.after /\ w.stock \in Int => Tops(Append(m, e), w)
  <1> DEFINE b == Append(m, e)
  <1>1. /\ b # << >> /\ Len(b) \in Nat /\ Len(b) = Len(m) + 1 /\ b[Len(b)] = e /\ Len(m) \in Nat
        /\ \A i \in 1..Len(m) : b[i] = m[i]
        /\ m # << >> => Len(m) \in 1..Len(m)
        /\ m = << >> => Len(m) = 0
    BY Grows
  <1>2. m # << >> => m[Len(m)].after \in Int
    BY <1>1
  <1> HIDE DEF b
  <1>3. ASSUME NEW i \in 1..Len(b) - 1 PROVE b[i + 1].before <= b[i].after
    <2>1. CASE i = Len(m)
      <3>1. m # << >> /\ b[i + 1] = e /\ b[i] = m[Len(m)]
        BY <1>1, <1>3, <2>1
      <3>2. v.stock <= m[Len(m)].after
        BY <3>1 DEF Tops
      <3> QED BY <1>2, <3>1, <3>2
    <2>2. CASE i # Len(m)
      <3>1. i \in 1..Len(m) - 1 /\ b[i + 1] = m[i + 1] /\ b[i] = m[i]
        BY <1>1, <1>3, <2>2
      <3> QED BY <3>1 DEF Rising
    <2> QED BY <2>1, <2>2
  <1>4. Rising(b)
    BY <1>3 DEF Rising
  <1>5. \A w : w.stock = e.after /\ w.stock \in Int => Tops(b, w)
    BY <1>1 DEF Tops
  <1> QED BY <1>4, <1>5 DEF b

\* Both go on when the row keeps its terms and loses units.
LEMMA TrailEnds ==
    ASSUME NEW p \in Products, Trail(p), UNCHANGED <<audits, movements>>, RowsOK, CatalogInd,
           NEW v \in Row, row'[p] = v, v.state = "absent" <=> row[p].state = "absent",
           SameTerms(v, row[p]), v.stock <= row[p].stock
    PROVE  Trail(p)'
  <1>1. Ends(audits[p], v)
    BY DEF Trail, Ends, SameTerms
  <1>2. Tops(movements[p], v)
    <2>1. row[p].stock \in Int /\ v.stock \in Int
      BY DEF RowsOK, RowsTypeOK, Row
    <2>2. movements[p] # << >> => movements[p][Len(movements[p])].after \in Int
      <3> DEFINE M == [qty : Nat, before : Int, after : Int]
      <3>1. movements[p] \in Seq(M) /\ \A x \in M : x.after \in Int
        BY DEF CatalogInd, TrailsOK
      <3> HIDE DEF M
      <3> QED BY <3>1
    <2> QED BY <2>1, <2>2 DEF Trail, Tops
  <1> QED BY <1>1, <1>2 DEF Trail

-----------------------------------------------------------------------------
(* What sales and debts do to the rows. *)

\* A statement takes units of a row that is there and that it may lock, or
\* the transaction ends.
TakesUnits(t, p, new) ==
    /\ LockFree(t, p) /\ WriteRow(t, p, new)
    /\ View(t, p).state # "absent" /\ new.state = View(t, p).state
    /\ SameTerms(new, View(t, p)) /\ new.stock <= View(t, p).stock

OtherRowStep(t) ==
    \/ UNCHANGED rowVars
    \/ CommitRows(t)
    \/ RollbackRows(t)
    \/ \E p \in Products, new \in Row : TakesUnits(t, p, new)

LEMMA TakingUnits ==
    ASSUME NEW v \in Row, NEW q \in Nat
    PROVE  LET new == [v EXCEPT !.stock = @ - q]
           IN  new \in Row /\ new.state = v.state /\ SameTerms(new, v) /\ new.stock <= v.stock
  BY DEF Row, SameTerms

LEMMA SalesTouchRows ==
    ASSUME IInv, NEW r \in SaleReqs, SalesStep(r)
    PROVE  OtherRowStep(r)
  <1>1. CASE UNCHANGED rowVars \/ RollbackRows(r) \/ CommitRows(r)
    BY <1>1 DEF OtherRowStep
  <1>2. CASE pc[r] = "lock" /\ LockFree(r, Item0(r).product) /\ TakeItem(r)
    <2> DEFINE p == Item0(r).product
               q == Item0(r).qty
               v == View(r, p)
               new == [v EXCEPT !.stock = @ - q]
    <2>1. p \in Products /\ q \in Nat
      BY <1>2, ItemFacts DEF IInv
    <2>2. v \in Row
      BY <2>1, ViewOK, SaleReqsAreTx DEF IInv, Writable
    <2>3. new \in Row /\ new.state = v.state /\ SameTerms(new, v) /\ new.stock <= v.stock
      BY <2>1, <2>2, TakingUnits
    <2>4. v.state = "active" /\ WriteRow(r, p, new) /\ LockFree(r, p)
      BY <1>2 DEF TakeItem
    <2>5. TakesUnits(r, p, new)
      <3> HIDE DEF new
      <3> QED BY <2>3, <2>4 DEF TakesUnits
    <2> HIDE DEF new, p
    <2> QED BY <2>1, <2>3, <2>5 DEF OtherRowStep
  <1> QED
    BY <1>1, <1>2
       DEF SalesStep, Handle, Guard, Precheck, Authorize, ReadItem, LockItem, Insert, Recover,
           Persist, Reread, DeadlockAbort, Drop, Resend, Fail

LEMMA DebtsTouchRows ==
    ASSUME IInv, NEW r \in DebtUsers, DebtStep(r)
    PROVE  OtherRowStep(r)
  <1>1. CASE UNCHANGED rowVars \/ RollbackRows(r) \/ CommitRows(r)
    BY <1>1 DEF OtherRowStep
  <1>2. CASE /\ r \in DebtReqs /\ LockFree(r, DebtBody[r].product)
             /\ LET v == View(r, DebtBody[r].product)
                IN  /\ Lendable(v, DebtBody[r].qty)
                    /\ WriteRow(r, DebtBody[r].product, [v EXCEPT !.stock = @ - DebtBody[r].qty])
    <2> DEFINE p == DebtBody[r].product
               q == DebtBody[r].qty
               v == View(r, p)
               new == [v EXCEPT !.stock = @ - q]
    <2>1. p \in Products /\ q \in Nat /\ r \in Tx
      BY <1>2, DebtBodyFacts
    <2>2. v \in Row
      BY <2>1, ViewOK DEF IInv, Writable
    <2>3. new \in Row /\ new.state = v.state /\ SameTerms(new, v) /\ new.stock <= v.stock
      BY <2>1, <2>2, TakingUnits
    <2>4. v.state = "active" /\ WriteRow(r, p, new) /\ LockFree(r, p)
      BY <1>2 DEF Lendable
    <2>5. TakesUnits(r, p, new)
      <3> HIDE DEF new
      <3> QED BY <2>3, <2>4 DEF TakesUnits
    <2> HIDE DEF new, p
    <2> QED BY <2>1, <2>3, <2>5 DEF OtherRowStep
  <1>3. CASE r \in DebtReqs /\ DebtTake(r)
    BY <1>1, <1>2, <1>3 DEF DebtTake, DebtFail
  <1>4. CASE r \in DebtReqs /\ CreateHandle(r) /\ ~DebtTake(r)
    BY <1>1, <1>4 DEF CreateHandle, DebtAuthorize, DebtReplay, DebtInsert, DebtRecover, DebtWinner, DebtFail
  <1>5. CASE AbonoHandle(r) \/ DebtDrop(r) \/ DebtResend(r)
    BY <1>1, <1>5 DEF AbonoHandle, DebtDrop, DebtResend
  <1> QED BY <1>3, <1>4, <1>5 DEF DebtStep

LEMMA OthersAreNotCatalog ==
    /\ \A r \in SaleReqs : r \in Tx \ CatReqs
    /\ \A r \in DebtUsers : r \in Tx \ CatReqs
  BY RequestsAreDistinct, TxIsEveryRequest DEF DebtUsers

\* None of this disturbs what the histories say.
LEMMA OtherRowsStep ==
    ASSUME IInv, HistInd, NEW t \in Tx \ CatReqs, OtherRowStep(t), UNCHANGED catVars
    PROVE  HistInd'
  <1>1. /\ row \in [Products -> Row] /\ draft \in [Products -> Row]
        /\ owner \in [Products -> Tx \cup {NoTx}] /\ t # NoTx
        /\ UNCHANGED <<cpc, caudit, audits, movements>>
        /\ \A v \in Row : v.stock \in Int
        /\ RowsOK /\ CatalogInd
    BY NoTxIsNotATx DEF IInv, RowsOK, RowsTypeOK, catVars, Row
  <1>2. \A o \in CatReqs : CatOp[o].product \in Products
    BY OpFacts
  <1>3. ASSUME UNCHANGED row,
               \A p \in Products : owner[p] \in CatReqs => owner'[p] = owner[p],
               \A p \in Products : \/ owner'[p] = NoTx
                                   \/ owner'[p] = owner[p] /\ draft'[p] = draft[p]
                                   \/ /\ owner'[p] = t /\ row[p].state # "absent" /\ draft'[p].state = row[p].state
                                      /\ SameTerms(draft'[p], row[p]) /\ draft'[p].stock <= row[p].stock
        PROVE  HistInd'
    <2>1. \A p \in Products : TakenOnly(p)'
      BY <1>1, <1>3 DEF HistInd, RowsInd, TakenOnly
    <2>2. \A p \in Products : Trail(p)'
      BY <1>1, <1>3 DEF HistInd, RowsInd, Trail
    <2>3. \A o \in CatReqs : HoldsItsRow(o)'
      BY <1>1, <1>2, <1>3 DEF HistInd, HoldsItsRow
    <2> QED BY <2>1, <2>2, <2>3 DEF HistInd, RowsInd
  <1>4. CASE UNCHANGED rowVars
    BY <1>3, <1>4 DEF rowVars
  <1>5. CASE RollbackRows(t)
    BY <1>1, <1>3, <1>5 DEF RollbackRows, Release
  <1>6. CASE \E p \in Products, new \in Row : TakesUnits(t, p, new)
    <2>1. PICK p \in Products, new \in Row : TakesUnits(t, p, new)
      BY <1>6
    <2>2. /\ UNCHANGED row /\ owner' = [owner EXCEPT ![p] = t] /\ draft' = [draft EXCEPT ![p] = new]
          /\ owner[p] \in {NoTx, t}
      BY <2>1 DEF TakesUnits, WriteRow, LockFree
    <2>3. /\ row[p].state # "absent" /\ new.state = row[p].state
          /\ SameTerms(new, row[p]) /\ new.stock <= row[p].stock
      <3>1. CASE owner[p] = t
        <4>1. /\ View(t, p) = draft[p] /\ draft[p].state = row[p].state
              /\ SameTerms(draft[p], row[p]) /\ draft[p].stock <= row[p].stock
          BY <1>1, <3>1 DEF View, HistInd, RowsInd, TakenOnly
        <4>2. draft[p] \in Row /\ row[p] \in Row
          BY <1>1
        <4> QED BY <1>1, <2>1, <4>1, <4>2 DEF TakesUnits, SameTerms
      <3>2. CASE owner[p] # t
        BY <2>1, <3>2 DEF TakesUnits, View
      <3> QED BY <3>1, <3>2
    <2> QED BY <1>1, <1>3, <2>2, <2>3, NoTxIsNotATx, CatReqsAreTx
  <1>7. CASE CommitRows(t)
    <2>1. \A p \in Products : /\ owner[p] = t => row'[p] = draft[p] /\ owner'[p] = NoTx
                              /\ owner[p] # t => row'[p] = row[p] /\ owner'[p] = owner[p]
                              /\ draft'[p] = draft[p]
      BY <1>1, <1>7 DEF CommitRows, Release, View
    <2>2. ASSUME NEW p \in Products PROVE Trail(p)'
      <3>1. CASE owner[p] = t
        <4>1. /\ row[p].state # "absent" /\ draft[p].state = row[p].state
              /\ SameTerms(draft[p], row[p]) /\ draft[p].stock <= row[p].stock
          BY <1>1, <3>1 DEF HistInd, RowsInd, TakenOnly
        <4> QED BY <1>1, <2>1, <3>1, <4>1, TrailEnds DEF HistInd, RowsInd
      <3>2. CASE owner[p] # t
        BY <1>1, <2>1, <3>2 DEF HistInd, RowsInd, Trail
      <3> QED BY <3>1, <3>2
    <2>3. \A p \in Products : TakenOnly(p)'
      BY <1>1, <2>1 DEF HistInd, RowsInd, TakenOnly
    <2>4. \A o \in CatReqs : HoldsItsRow(o)'
      BY <1>1, <1>2, <2>1 DEF HistInd, HoldsItsRow
    <2> QED BY <2>2, <2>3, <2>4 DEF HistInd, RowsInd
  <1> QED BY <1>4, <1>5, <1>6, <1>7 DEF OtherRowStep

-----------------------------------------------------------------------------
(* What the catalog does. *)

LEMMA CatalogFacts ==
    ASSUME IInv, HistInd, NEW o \in CatReqs
    PROVE  /\ row \in [Products -> Row] /\ draft \in [Products -> Row]
           /\ owner \in [Products -> Tx \cup {NoTx}] /\ o # NoTx /\ o \in Tx
           /\ cpc \in [CatReqs -> {"away", "idle", "locked", "increment", "record", "done"}]
           /\ caudit \in [CatReqs -> Row]
           /\ audits \in [Products -> Seq([before : Row, after : Row])]
           /\ movements \in [Products -> Seq([qty : Nat, before : Int, after : Int])]
           /\ \A q \in CatReqs : CatOp[q].product \in Products /\ q # NoTx
           /\ \A v \in Row : v.stock \in Int
  BY OpFacts, NoTxIsNotATx DEF IInv, RowsOK, RowsTypeOK, CatalogInd, CatHandlersOK, TrailsOK, Row

\* What a request sees of a product it may lock keeps the terms of the row.
LEMMA Seen ==
    ASSUME IInv, HistInd, NEW o \in CatReqs
    PROVE  LET p == CatOp[o].product
               v == View(o, p)
           IN  /\ v \in Row /\ SameTerms(v, row[p]) /\ v.state = row[p].state
               /\ cpc[o] # "record" => v.stock <= row[p].stock
  <1> DEFINE p == CatOp[o].product
  <1>1. p \in Products /\ row[p] \in Row /\ draft[p] \in Row /\ row[p].stock \in Int /\ o # NoTx
    BY CatalogFacts
  <1>4. TakenOnly(p)
    BY <1>1 DEF HistInd, RowsInd
  <1> HIDE DEF p
  <1>2. CASE owner[p] = o
    BY <1>1, <1>2, <1>4 DEF View, TakenOnly
  <1>3. CASE owner[p] # o
    <2>1. View(o, p) = row[p] /\ row[p].stock <= row[p].stock
      BY <1>1, <1>3 DEF View
    <2>2. SameTerms(View(o, p), row[p])
      BY <2>1 DEF SameTerms
    <2> HIDE DEF View
    <2> QED BY <1>1, <2>1, <2>2 DEF p
  <1> QED BY <1>2, <1>3 DEF p

LEMMA RejectKeepsHistory ==
    ASSUME IInv, HistInd, NEW o \in CatReqs, NEW code, CatReject(o, code)
    PROVE  HistInd'
  <1>1. /\ UNCHANGED <<row, audits, movements>> /\ cpc'[o] = "done"
        /\ \A q \in CatReqs \ {o} : cpc'[q] = cpc[q] /\ caudit'[q] = caudit[q]
        /\ \A p \in Products : IF owner[p] = o THEN owner'[p] = NoTx
                               ELSE owner'[p] = owner[p] /\ draft'[p] = draft[p]
    BY CatalogFacts DEF CatReject, CatAnswer, CatGoto, RollbackRows, Release
  <1>2. \A p \in Products : TakenOnly(p)'
    BY <1>1, CatalogFacts DEF HistInd, RowsInd, TakenOnly
  <1>3. \A p \in Products : Trail(p)'
    BY <1>1 DEF HistInd, RowsInd, Trail
  <1>4. \A q \in CatReqs : HoldsItsRow(q)'
    BY <1>1, CatalogFacts DEF HistInd, HoldsItsRow
  <1> QED BY <1>2, <1>3, <1>4 DEF HistInd, RowsInd

LEMMA WriteKeepsHistory ==
    ASSUME IInv, HistInd, NEW o \in CatReqs, NEW p \in Products, p = CatOp[o].product, NEW new,
           CatWrite(o, p, new), owner[p] \in {o, NoTx}, Trail(p)',
           \A x \in Products \ {p} : audits'[x] = audits[x] /\ movements'[x] = movements[x]
    PROVE  HistInd'
  <1>1. /\ cpc'[o] = "done" /\ owner'[p] = NoTx
        /\ \A q \in CatReqs \ {o} : cpc'[q] = cpc[q] /\ caudit'[q] = caudit[q]
        /\ \A x \in Products \ {p} : owner'[x] = owner[x] /\ draft'[x] = draft[x] /\ row'[x] = row[x]
    BY CatalogFacts DEF CatWrite, CatAnswer, CatGoto
  <1>2. ASSUME NEW x \in Products PROVE TakenOnly(x)' /\ Trail(x)'
    <2>1. CASE x = p
      BY <1>1, <2>1 DEF TakenOnly
    <2>2. CASE x # p
      <3>1. TakenOnly(x)'
        <4>1. TakenOnly(x)
          BY DEF HistInd, RowsInd
        <4>2. owner[x] # o
          BY <2>2, <4>1, CatalogFacts DEF TakenOnly
        <4> QED BY <1>1, <2>2, <4>1, <4>2, CatalogFacts DEF TakenOnly
      <3>2. Trail(x)'
        BY <1>1, <2>2 DEF HistInd, RowsInd, Trail
      <3> QED BY <3>1, <3>2
    <2> QED BY <2>1, <2>2
  <1>3. ASSUME NEW q \in CatReqs PROVE HoldsItsRow(q)'
    <2>1. CASE q = o
      BY <1>1, <2>1 DEF HoldsItsRow
    <2>2. CASE q # o
      <3> DEFINE x == CatOp[q].product
      <3>1. x \in Products /\ q # NoTx /\ HoldsItsRow(q) /\ cpc'[q] = cpc[q] /\ caudit'[q] = caudit[q]
        BY <1>1, <2>2, CatalogFacts DEF HistInd
      <3>2. CASE x = p
        BY <1>1, <2>2, <3>1, <3>2 DEF HoldsItsRow
      <3>3. CASE x # p
        <4>1. owner'[x] = owner[x] /\ row'[x] = row[x]
          BY <1>1, <3>1, <3>3
        <4> HIDE DEF x
        <4> QED BY <3>1, <4>1 DEF HoldsItsRow, x
      <3> QED BY <3>2, <3>3
    <2> QED BY <2>1, <2>2
  <1> QED BY <1>2, <1>3 DEF HistInd, RowsInd

\* The row of a request is locked by it or by nobody when it may write.
LEMMA CreateKeepsHistory ==
    ASSUME IInv, HistInd, NEW o \in CatReqs, Create(o)
    PROVE  HistInd'
  <1> DEFINE op == CatOp[o]
             p == op.product
             new == [state |-> "active", price |-> op.price, cost |-> op.cost,
                     stock |-> IF p \in Unica THEN 1 ELSE op.stock]
  <1>1. CASE CatReject(o, "403")
    BY <1>1, RejectKeepsHistory
  <1>2. CASE CatWrite(o, p, new) /\ AppendAudit(p, NoRow, new) /\ UNCHANGED movements
    <2>1. p \in Products /\ row[p].state = "absent" /\ TakenOnly(p) /\ Trail(p)
      BY CatalogFacts DEF Create, HistInd, RowsInd
    <2>2. owner[p] = NoTx
      BY <2>1 DEF TakenOnly
    <2>3. audits[p] = << >> /\ Rising(movements[p])
      BY <2>1 DEF Trail
    <2>4. /\ audits' = [audits EXCEPT ![p] = Append(audits[p], Audit(NoRow, new))] /\ audits'[p] = <<Audit(NoRow, new)>>
      BY <1>2, <2>1, <2>3, CatalogFacts DEF AppendAudit
    <2>5. row'[p] = new
      BY <1>2, <2>1, CatalogFacts DEF CatWrite
    <2>6. movements[p] = << >>
      BY <2>1 DEF Trail
    <2>7. Trail(p)'
      <3>1. new.state = "active"
        OBVIOUS
      <3>2. Linked(<<Audit(NoRow, new)>>) /\ Ends(<<Audit(NoRow, new)>>, new)
        BY DEF Linked, Ends, Audit, SameTerms
      <3>3. Tops(movements[p], new)
        BY <2>6 DEF Tops
      <3> HIDE DEF new, p
      <3> QED BY <1>2, <2>3, <2>4, <2>5, <3>1, <3>2, <3>3 DEF Trail
    <2>8. \A x \in Products \ {p} : audits'[x] = audits[x] /\ movements'[x] = movements[x]
      BY <1>2, <2>4, CatalogFacts
    <2> HIDE DEF new
    <2> QED BY <1>2, <2>1, <2>2, <2>7, <2>8, WriteKeepsHistory
  <1> QED BY <1>1, <1>2 DEF Create

\* WriteRow of the catalog: the lock is taken, and what is written is still
\* the row but for the units that a restock adds.
LEMMA LockKeepsHistory ==
    ASSUME IInv, HistInd, NEW o \in CatReqs, NEW p \in Products, p = CatOp[o].product, LockFree(o, p),
           NEW new \in Row, WriteRow(o, p, new), UNCHANGED <<audits, movements>>,
           row[p].state # "absent", new.state = row[p].state, SameTerms(new, row[p]),
           \A q \in CatReqs \ {o} : cpc'[q] = cpc[q] /\ caudit'[q] = caudit[q],
           cpc'[o] # "record" => new.stock <= row[p].stock,
           cpc'[o] = "record" => SameTerms(caudit'[o], row[p]) /\ caudit'[o].stock <= row[p].stock
    PROVE  HistInd'
  <1>1. /\ UNCHANGED row /\ owner' = [owner EXCEPT ![p] = o] /\ draft' = [draft EXCEPT ![p] = new]
        /\ owner[p] \in {NoTx, o}
    BY DEF WriteRow, LockFree
  <1>2. /\ owner'[p] = o /\ draft'[p] = new
        /\ \A x \in Products \ {p} : owner'[x] = owner[x] /\ draft'[x] = draft[x]
    BY <1>1, CatalogFacts
  <1>3. ASSUME NEW x \in Products PROVE TakenOnly(x)'
    <2>1. CASE x = p
      BY <1>1, <1>2, <2>1 DEF TakenOnly
    <2>2. CASE x # p
      <3>1. TakenOnly(x)
        BY DEF HistInd, RowsInd
      <3>2. owner[x] # o
        BY <2>2, <3>1, CatalogFacts DEF TakenOnly
      <3> QED BY <1>1, <1>2, <2>2, <3>1, <3>2, CatalogFacts DEF TakenOnly
    <2> QED BY <2>1, <2>2
  <1>4. ASSUME NEW x \in Products PROVE Trail(x)'
    BY <1>1 DEF HistInd, RowsInd, Trail
  <1>5. ASSUME NEW q \in CatReqs PROVE HoldsItsRow(q)'
    <2>1. CASE q = o
      BY <1>1, <1>2, <2>1 DEF HoldsItsRow
    <2>2. CASE q # o
      <3> DEFINE x == CatOp[q].product
      <3>1. x \in Products /\ q # NoTx /\ HoldsItsRow(q) /\ cpc'[q] = cpc[q] /\ caudit'[q] = caudit[q]
        BY <2>2, CatalogFacts DEF HistInd
      <3>2. CASE x = p
        BY <1>1, <2>2, <3>1, <3>2 DEF HoldsItsRow
      <3>3. CASE x # p
        <4>1. owner'[x] = owner[x] /\ row'[x] = row[x]
          BY <1>1, <1>2, <3>1, <3>3
        <4> HIDE DEF x
        <4> QED BY <3>1, <4>1 DEF HoldsItsRow, x
      <3> QED BY <3>2, <3>3
    <2> QED BY <2>1, <2>2
  <1> QED BY <1>3, <1>4, <1>5 DEF HistInd, RowsInd

LEMMA LockRowKeepsHistory ==
    ASSUME IInv, HistInd, NEW o \in CatReqs, LockRow(o)
    PROVE  HistInd'
  <1> DEFINE p == CatOp[o].product
             v == View(o, p)
  <1>1. CASE \E code : CatReject(o, code)
    BY <1>1, RejectKeepsHistory
  <1>2. CASE /\ LockFree(o, p) /\ v.state # "absent" /\ WriteRow(o, p, v) /\ CatGoto(o, "locked")
             /\ UNCHANGED <<caudit, creply, audits, movements>>
    <2>1. /\ p \in Products /\ v \in Row /\ SameTerms(v, row[p]) /\ v.state = row[p].state
          /\ cpc[o] = "idle" /\ v.stock <= row[p].stock
      BY Seen, CatalogFacts DEF LockRow
    <2>2. cpc'[o] = "locked" /\ \A q \in CatReqs \ {o} : cpc'[q] = cpc[q] /\ caudit'[q] = caudit[q]
      BY <1>2, CatalogFacts DEF CatGoto
    <2> HIDE DEF v
    <2> QED BY <1>2, <2>1, <2>2, LockKeepsHistory
  <1> QED BY <1>1, <1>2 DEF LockRow

LEMMA PatchKeepsHistory ==
    ASSUME IInv, HistInd, NEW o \in CatReqs, Patch(o)
    PROVE  HistInd'
  <1> DEFINE op == CatOp[o]
             p == op.product
             before == View(o, p)
             after == [before EXCEPT !.price = IF op.price = Keep THEN @ ELSE op.price,
                                     !.cost  = IF op.cost = Keep THEN @ ELSE op.cost]
  <1>1. CASE \E code : CatReject(o, code)
    BY <1>1, RejectKeepsHistory
  <1>2. CASE CatWrite(o, p, after) /\ AppendAudit(p, before, after) /\ UNCHANGED movements
    <2>1. /\ p \in Products /\ before \in Row /\ SameTerms(before, row[p]) /\ before.state = row[p].state
          /\ before.stock <= row[p].stock /\ cpc[o] = "locked"
      BY Seen, CatalogFacts DEF Patch
    <2>2. owner[p] = o /\ TakenOnly(p) /\ Trail(p)
      BY <2>1 DEF HistInd, RowsInd, HoldsItsRow
    <2>3. row[p].state # "absent"
      BY <2>2, CatalogFacts DEF TakenOnly
    <2>4. after.state = before.state /\ after.stock = before.stock
      BY <2>1 DEF Row
    <2> DEFINE e == Audit(before, after)
               S == [before : Row, after : Row]
    <2>5. e.before = before /\ e.after = after
      BY DEF Audit
    <2>6. audits[p] \in Seq(S)
      BY <2>1, CatalogFacts
    <2>7. audits'[p] = Append(audits[p], e) /\ row'[p] = after /\ movements'[p] = movements[p]
          /\ \A x \in Products \ {p} : audits'[x] = audits[x] /\ movements'[x] = movements[x]
      BY <1>2, <2>1, CatalogFacts DEF AppendAudit, CatWrite
    <2> HIDE DEF e, S, after, before, p
    <2>8. Linked(audits'[p]) /\ Ends(audits'[p], row'[p]) /\ audits'[p] # << >>
      <3>1. Linked(audits[p]) /\ Ends(audits[p], row[p]) /\ SameTerms(e.before, row[p])
        BY <2>1, <2>2, <2>5 DEF Trail
      <3> QED BY <2>5, <2>6, <2>7, <3>1, LinkedGrows
    <2>9. Tops(movements[p], after)
      <3> DEFINE M == [qty : Nat, before : Int, after : Int]
      <3>1. movements[p] \in Seq(M) /\ (\A x \in M : x.after \in Int) /\ row[p].stock \in Int /\ before.stock \in Int
        BY <2>1, CatalogFacts
      <3> HIDE DEF M
      <3>2. movements[p] # << >> => movements[p][Len(movements[p])].after \in Int
        BY <3>1
      <3> QED BY <2>1, <2>2, <2>4, <3>1, <3>2 DEF Trail, Tops
    <2>10. Trail(p)'
      BY <2>1, <2>2, <2>3, <2>4, <2>7, <2>8, <2>9 DEF Trail
    <2> QED BY <1>2, <2>1, <2>2, <2>7, <2>10, WriteKeepsHistory DEF p
  <1> QED BY <1>1, <1>2 DEF Patch

LEMMA SetActiveKeepsHistory ==
    ASSUME IInv, HistInd, NEW o \in CatReqs, SetActive(o)
    PROVE  HistInd'
  <1> DEFINE p == CatOp[o].product
             v == View(o, p)
  <1>1. CASE \E code : CatReject(o, code)
    BY <1>1, RejectKeepsHistory
  <1>2. ASSUME NEW target \in {"active", "inactive"}, CatWrite(o, p, [v EXCEPT !.state = target]),
               UNCHANGED <<audits, movements>>
        PROVE  HistInd'
    <2> DEFINE new == [v EXCEPT !.state = target]
    <2>1. /\ p \in Products /\ v \in Row /\ SameTerms(v, row[p]) /\ v.stock <= row[p].stock /\ cpc[o] = "locked"
      BY Seen, CatalogFacts DEF SetActive
    <2>2. owner[p] = o /\ TakenOnly(p) /\ Trail(p)
      BY <2>1 DEF HistInd, RowsInd, HoldsItsRow
    <2>3. row[p].state # "absent"
      BY <2>2, CatalogFacts DEF TakenOnly
    <2>4. new \in Row /\ new.state # "absent" /\ SameTerms(new, row[p]) /\ new.stock <= row[p].stock
      BY <2>1 DEF Row, SameTerms
    <2> HIDE DEF new
    <2>5. row'[p] = new
      BY <1>2, <2>1, CatalogFacts DEF CatWrite, new
    <2> HIDE DEF p
    <2>6. Trail(p)'
      BY <1>2, <2>1, <2>2, <2>3, <2>4, <2>5, TrailEnds DEF IInv
    <2> QED BY <1>2, <2>1, <2>2, <2>6, WriteKeepsHistory DEF p
  <1> QED BY <1>1, <1>2 DEF SetActive

LEMMA AuthorizeKeepsHistory ==
    ASSUME IInv, HistInd, NEW o \in CatReqs, RestockAuthorize(o)
    PROVE  HistInd'
  <1>1. CASE \E code : CatReject(o, code)
    BY <1>1, RejectKeepsHistory
  <1>2. CASE CatGoto(o, "increment") /\ UNCHANGED <<rowVars, caudit, creply, audits, movements>>
    <2>1. /\ UNCHANGED <<row, draft, owner, audits, movements, caudit>> /\ cpc[o] = "idle" /\ cpc'[o] = "increment"
          /\ \A q \in CatReqs \ {o} : cpc'[q] = cpc[q]
      BY <1>2, CatalogFacts DEF RestockAuthorize, CatGoto, rowVars
    <2>2. \A x \in Products : TakenOnly(x)'
      BY <2>1 DEF HistInd, RowsInd, TakenOnly
    <2>3. \A x \in Products : Trail(x)'
      BY <2>1 DEF HistInd, RowsInd, Trail
    <2>4. \A q \in CatReqs : HoldsItsRow(q)'
      BY <2>1 DEF HistInd, HoldsItsRow
    <2> QED BY <2>2, <2>3, <2>4 DEF HistInd, RowsInd
  <1> QED BY <1>1, <1>2 DEF RestockAuthorize

LEMMA IncrementKeepsHistory ==
    ASSUME IInv, HistInd, NEW o \in CatReqs, RestockIncrement(o)
    PROVE  HistInd'
  <1> DEFINE p == CatOp[o].product
             v == View(o, p)
             n == CatOp[o].qty
             new == [v EXCEPT !.stock = @ + n]
  <1>1. CASE \E code : CatReject(o, code)
    BY <1>1, RejectKeepsHistory
  <1>2. CASE /\ LockFree(o, p) /\ v.state = "active" /\ WriteRow(o, p, new)
             /\ caudit' = [caudit EXCEPT ![o] = v] /\ CatGoto(o, "record")
             /\ UNCHANGED <<creply, audits, movements>>
    <2>1. /\ p \in Products /\ v \in Row /\ SameTerms(v, row[p]) /\ v.state = row[p].state /\ v.stock <= row[p].stock
          /\ n \in Nat
      BY Seen, CatalogFacts, OpFacts DEF RestockIncrement
    <2>2. new \in Row /\ new.state = row[p].state /\ SameTerms(new, row[p])
      BY <2>1 DEF Row, SameTerms
    <2>3. cpc'[o] = "record" /\ caudit'[o] = v /\ \A q \in CatReqs \ {o} : cpc'[q] = cpc[q] /\ caudit'[q] = caudit[q]
      BY <1>2, CatalogFacts DEF CatGoto
    <2> HIDE DEF new, v
    <2> QED BY <1>2, <2>1, <2>2, <2>3, LockKeepsHistory
  <1> QED BY <1>1, <1>2 DEF RestockIncrement

LEMMA RecordKeepsHistory ==
    ASSUME IInv, HistInd, NEW o \in CatReqs, RestockRecord(o)
    PROVE  HistInd'
  <1> DEFINE op == CatOp[o]
             p == op.product
             before == caudit[o]
             v == View(o, p)
             cost == NextProductCost(before.stock, before.cost, op.qty, op.cost)
             after == [v EXCEPT !.cost = IF cost = Null THEN @ ELSE cost]
             e == Audit(before, after)
             m == [qty |-> op.qty, before |-> before.stock, after |-> after.stock]
             S == [before : Row, after : Row]
             M == [qty : Nat, before : Int, after : Int]
  <1>1. /\ CatWrite(o, p, after) /\ AppendAudit(p, before, after) /\ cpc[o] = "record"
        /\ movements' = [movements EXCEPT ![p] = Append(movements[p], m)]
    BY DEF RestockRecord
  <1>2. /\ p \in Products /\ v \in Row /\ v.state = row[p].state /\ before \in Row
        /\ row[p].stock \in Int /\ before.stock \in Int /\ v.stock \in Int
    BY Seen, CatalogFacts
  <1>3. /\ owner[p] = o /\ SameTerms(before, row[p]) /\ before.stock <= row[p].stock /\ TakenOnly(p) /\ Trail(p)
    BY <1>1, <1>2 DEF HistInd, RowsInd, HoldsItsRow
  <1>4. row[p].state # "absent"
    BY <1>3, CatalogFacts DEF TakenOnly
  <1>5. after.state = v.state /\ after.stock = v.stock
    BY <1>2 DEF Row
  <1>6. e.before = before /\ e.after = after /\ m.before = before.stock /\ m.after = after.stock
    BY DEF Audit
  <1>7. audits[p] \in Seq(S) /\ movements[p] \in Seq(M) /\ \A x \in M : x.after \in Int
    BY <1>2, CatalogFacts
  <1>8. /\ audits'[p] = Append(audits[p], e) /\ row'[p] = after /\ movements'[p] = Append(movements[p], m)
        /\ \A x \in Products \ {p} : audits'[x] = audits[x] /\ movements'[x] = movements[x]
    BY <1>1, <1>2, CatalogFacts DEF AppendAudit, CatWrite
  <1> HIDE DEF e, m, S, M, after, before, v, p
  <1>9. Linked(audits'[p]) /\ Ends(audits'[p], row'[p]) /\ audits'[p] # << >>
    <2>1. Linked(audits[p]) /\ Ends(audits[p], row[p]) /\ SameTerms(e.before, row[p])
      BY <1>3, <1>6 DEF Trail
    <2> QED BY <1>6, <1>7, <1>8, <2>1, LinkedGrows
  <1>10. Rising(movements'[p]) /\ Tops(movements'[p], row'[p])
    <2>1. Rising(movements[p]) /\ Tops(movements[p], row[p])
      BY <1>3 DEF Trail
    <2>2. m.before <= row[p].stock /\ m.before \in Int
      BY <1>2, <1>3, <1>6
    <2>3. Rising(Append(movements[p], m)) /\ \A w : w.stock = m.after /\ w.stock \in Int => Tops(Append(movements[p], m), w)
      BY <1>2, <1>7, <2>1, <2>2, RisingGrows
    <2>4. after.stock = m.after /\ after.stock \in Int
      BY <1>2, <1>5, <1>6
    <2> QED BY <1>8, <2>3, <2>4
  <1>11. Trail(p)'
    BY <1>2, <1>4, <1>5, <1>8, <1>9, <1>10 DEF Trail
  <1> QED BY <1>1, <1>2, <1>3, <1>8, <1>11, WriteKeepsHistory DEF p

-----------------------------------------------------------------------------
(* Every step, and the theorems. *)

LEMMA CatalogKeepsHistory ==
    ASSUME IInv, HistInd, NEW o \in CatReqs, CatStep(o)
    PROVE  HistInd'
  BY CreateKeepsHistory, LockRowKeepsHistory, PatchKeepsHistory, SetActiveKeepsHistory, AuthorizeKeepsHistory,
     IncrementKeepsHistory, RecordKeepsHistory, RejectKeepsHistory DEF CatStep, CatHandle, CatDrop

LEMMA HistoryInit ==
    ASSUME Init
    PROVE  HistInd
  <1>1. PICK arriving \in Arrivals : CatInit(arriving)
    BY DEF Init
  <1>2. /\ \A p \in Products : owner[p] = NoTx
        /\ \A o \in CatReqs : cpc[o] \in {"idle", "away"}
    BY <1>1 DEF Init, CatInit
  <1>3. ASSUME NEW p \in Products PROVE Trail(p)
    <2>1. movements[p] = << >> /\ audits[p] = IF row[p].state = "absent" THEN << >> ELSE <<Audit(NoRow, row[p])>>
      BY <1>1 DEF CatInit
    <2>2. Rising(<< >>) /\ Tops(<< >>, row[p]) /\ Linked(<< >>) /\ Ends(<< >>, row[p])
      BY DEF Rising, Tops, Linked, Ends
    <2>3. Linked(<<Audit(NoRow, row[p])>>) /\ Ends(<<Audit(NoRow, row[p])>>, row[p])
      BY DEF Linked, Ends, Audit, SameTerms
    <2> QED BY <2>1, <2>2, <2>3 DEF Trail
  <1> QED BY <1>2, <1>3 DEF HistInd, RowsInd, TakenOnly, HoldsItsRow

LEMMA HistoryNext ==
    ASSUME IInv, HistInd, [Next]_vars
    PROVE  HistInd'
  <1>1. ASSUME NEW r \in SaleReqs, Sale(r) PROVE HistInd'
    BY <1>1, SalesTouchRows, OthersAreNotCatalog, OtherRowsStep DEF Sale
  <1>2. ASSUME NEW o \in CatReqs, Management(o) PROVE HistInd'
    BY <1>2, CatalogKeepsHistory DEF Management
  <1>3. ASSUME NEW r \in DebtUsers, Credit(r) PROVE HistInd'
    BY <1>3, DebtsTouchRows, OthersAreNotCatalog, OtherRowsStep DEF Credit
  <1>4. CASE UNCHANGED rowVars /\ UNCHANGED catVars
    BY <1>4 DEF HistInd, RowsInd, TakenOnly, Trail, HoldsItsRow, rowVars, catVars
  <1> QED BY <1>1, <1>2, <1>3, <1>4 DEF Next, Authority, Finished, vars

LEMMA HistoryInvariant == Spec => []HistInd
  <1>1. Init => HistInd
    BY HistoryInit
  <1>2. IInv /\ HistInd /\ [Next]_vars => HistInd'
    BY HistoryNext
  <1> QED BY <1>1, <1>2, Invariant, PTL DEF Spec

(* However edits, restocks, sales and debts overlap, each audit row of a   *)
(* product starts at the terms the previous one ended with, and the last   *)
(* one ends with those of the row (ProductsService.mutate and restock).    *)
THEOREM AuditsFormAChain == Spec => []AuditTrailIsAChain
  <1>1. HistInd => AuditTrailIsAChain
    BY DEF HistInd, RowsInd, Trail, Linked, Ends, SameTerms, AuditTrailIsAChain
  <1> QED BY <1>1, HistoryInvariant, PTL

(* No stock appears but by a recorded movement: each starts no higher than *)
(* the previous one ended, and the row is no higher than the last          *)
(* (ProductsService.restock).                                              *)
THEOREM StockRisesByMovements == Spec => []MovementsExplainStock
  <1>1. HistInd => MovementsExplainStock
    BY DEF HistInd, RowsInd, Trail, Rising, Tops, MovementsExplainStock
  <1> QED BY <1>1, HistoryInvariant, PTL

-----------------------------------------------------------------------------
(* The incidents of the sales. *)

LEMMA IncidentsStep ==
    ASSUME IInv, RejectionsHaveIncident, [Next]_vars
    PROVE  RejectionsHaveIncident'
  <1> DEFINE Conflict == "conflicto_stock"
  <1>1. sales \in [SaleIds -> SaleRows \cup {NoSale}]
    BY DEF IInv, SalesInd, SalesTypeOK, SaleTablesTypeOK
  <1>2. CASE UNCHANGED <<sales, incidencias>>
    BY <1>2 DEF RejectionsHaveIncident
  <1>3. ASSUME NEW r \in SaleReqs, SalesStep(r), ~UNCHANGED <<sales, incidencias>>
        PROVE  RejectionsHaveIncident'
    <2> DEFINE id == Body[r].id
    <2>1. id \in SaleIds
      BY BodyFacts
    <2>2. CASE /\ sales[id] = NoSale
               /\ sales' = [sales EXCEPT ![id] = SaleRow(Body[r], "completada", lines[r], total[r])]
               /\ incidencias' = incidencias \cup
                     (IF Body[r].late THEN {Incidencia(id, "incidencia_fecha")} ELSE {})
      <3>1. SaleRow(Body[r], "completada", lines[r], total[r]).status = "completada"
        BY DEF SaleRow
      <3>2. \A i : Incidencia(i, Conflict) \in incidencias' <=> Incidencia(i, Conflict) \in incidencias
        BY <2>2 DEF Incidencia
      <3> QED BY <1>1, <2>1, <2>2, <3>1, <3>2 DEF RejectionsHaveIncident
    <2>3. CASE /\ sales[id] = NoSale
               /\ sales' = [sales EXCEPT ![id] = SaleRow(Body[r], "rechazada_por_conflicto", NoLines, Null)]
               /\ incidencias' = incidencias \cup {Incidencia(id, Conflict)}
      <3> DEFINE new == SaleRow(Body[r], "rechazada_por_conflicto", NoLines, Null)
      <3>1. new.status = "rechazada_por_conflicto" /\ new # NoSale
        <4>1. new \in SaleRows
          BY SaleRowOK, BodyFacts, NoLinesOK DEF Null
        <4> QED BY <4>1, NoSaleIsNoRow DEF SaleRow
      <3>2. \A i : Incidencia(i, Conflict) \in incidencias' <=> Incidencia(i, Conflict) \in incidencias \/ i = id
        BY <2>3 DEF Incidencia
      <3> HIDE DEF new
      <3> QED BY <1>1, <2>1, <2>3, <3>1, <3>2 DEF RejectionsHaveIncident, new
    <2> QED
      BY <1>3, <2>2, <2>3
         DEF SalesStep, Handle, Guard, Precheck, Authorize, ReadItem, LockItem, TakeItem, Insert, Recover,
             Persist, Reread, DeadlockAbort, Drop, Resend, Fail, Sale0
  <1> QED BY <1>2, <1>3 DEF Next, Sale, Management, Credit, Authority, Finished, vars, saleVars

(* A lost race for the stock is recorded once, with its incident, and no   *)
(* incident is there without its rejected sale (the second write of        *)
(* SalesService.create).                                                   *)
THEOREM RejectionsAreRecorded == Spec => []RejectionsHaveIncident
  <1>1. Init => RejectionsHaveIncident
    BY DEF Init, SalesInit, RejectionsHaveIncident
  <1>2. IInv /\ RejectionsHaveIncident /\ [Next]_vars => RejectionsHaveIncident'
    BY IncidentsStep
  <1> QED BY <1>1, <1>2, Invariant, PTL DEF Spec

-----------------------------------------------------------------------------
(* The sums. *)

NewSales == {i \in SaleIds : sales[i] # NoSale /\ History[i] = NoSale}
Lent(p) == {d \in DebtIds : debts[d] # NoDebt /\ debts[d].product = p}

\* What has left the shelf for good, less what was brought.
Gone(p) == Sold(p) + Owed(p) - Restocked(p)

\* Sales on file stay, and only finitely many rows have come.
TablesFinite ==
    /\ \A i \in SaleIds : History[i] # NoSale => sales[i] # NoSale
    /\ IsFiniteSet(NewSales)
    /\ \A p \in Products : IsFiniteSet(Lent(p))

\* What a transaction has taken of a product and not committed; a restock
\* has taken less than nothing.
Taken(t, p) ==
    IF t \in SaleReqs THEN lines[t][p].qty
    ELSE IF t \in DebtReqs /\ dpc[t] = "insert" /\ DebtBody[t].product = p THEN DebtBody[t].qty
    ELSE IF t \in CatReqs /\ cpc[t] = "record" /\ CatOp[t].product = p THEN 0 - CatOp[t].qty
    ELSE 0

\* Only the lock holder has taken anything, and its draft says how much.
DraftIsRow(p) ==
    /\ \A t \in Tx : Taken(t, p) # 0 => owner[p] = t
    /\ owner[p] # NoTx => draft[p].stock = row[p].stock - Taken(owner[p], p)

\* A sale that is not inside its transaction has no lines.
HasNoLines(r) == pc[r] \notin {"read", "lock", "insert"} => \A p \in Products : lines[r][p].qty = 0

Balanced(p) ==
    IF row[p].state = "absent" THEN Gone(p) = 0
    ELSE row[p].stock + Gone(p) = audits[p][1].after.stock

\* Only a restock has something to record.
RecordsRestock(o) == cpc[o] = "record" => CatOp[o].kind = "restock"

GoodsOK == \A p \in Products : DraftIsRow(p) /\ Balanced(p)

ConsInd == TablesFinite /\ GoodsOK /\ (\A r \in SaleReqs : HasNoLines(r)) /\ \A o \in CatReqs : RecordsRestock(o)

-----------------------------------------------------------------------------
(* The tables. *)

LEMMA TableTypes ==
    ASSUME IInv
    PROVE  /\ sales \in [SaleIds -> SaleRows \cup {NoSale}]
           /\ debts \in [DebtIds -> DebtRows \cup {NoDebt}]
           /\ lines \in [SaleReqs -> Lines]
           /\ \A s \in SaleRows : s # NoSale /\ \A p \in Products : s.lines[p].qty \in Nat
           /\ \A d \in DebtRows : d # NoDebt /\ d.qty \in Nat
           /\ movements \in [Products -> Seq([qty : Nat, before : Int, after : Int])]
           /\ audits \in [Products -> Seq([before : Row, after : Row])]
<1>1. /\ sales \in [SaleIds -> SaleRows \cup {NoSale}]
      /\ debts \in [DebtIds -> DebtRows \cup {NoDebt}]
      /\ lines \in [SaleReqs -> Lines]
      /\ movements \in [Products -> Seq([qty : Nat, before : Int, after : Int])]
      /\ audits \in [Products -> Seq([before : Row, after : Row])]
  BY DEF IInv, SalesInd, SalesTypeOK, SaleTablesTypeOK, HandlersTypeOK, CatalogInd, TrailsOK,
         DebtsInd, DebtsTypeOK, DebtTablesTypeOK
<1>2. \A s \in SaleRows : s # NoSale /\ \A p \in Products : s.lines[p].qty \in Nat
  BY NoSaleIsNoRow DEF SaleRows, Lines
<1>3. \A d \in DebtRows : d # NoDebt /\ d.qty \in Nat
  BY NoDebtIsNoRow DEF DebtRows
<1> QED
  BY <1>1, <1>2, <1>3

\* The quantities of a sequence of movements, and one more.
LEMMA QuantitiesAdd ==
    ASSUME NEW M, \A x \in M : x.qty \in Int, NEW a \in Seq(M)
    PROVE  /\ SumFunction([i \in DOMAIN a |-> a[i].qty]) \in Int
           /\ \A m \in M : LET b == Append(a, m)
                           IN  SumFunction([i \in DOMAIN b |-> b[i].qty])
                                  = SumFunction([i \in DOMAIN a |-> a[i].qty]) + m.qty
<1> DEFINE f == [i \in DOMAIN a |-> a[i].qty]
<1>1. DOMAIN a = 1..Len(a) /\ Len(a) \in Nat /\ \A i \in 1..Len(a) : a[i] \in M
  OBVIOUS
<1>2. IsFiniteSet(DOMAIN a) /\ DOMAIN f = DOMAIN a /\ \A i \in DOMAIN f : f[i] \in Int
  BY <1>1, FS_Interval
<1>3. SumFunction(f) \in Int
  <2> HIDE DEF f
  <2> QED BY <1>2, SumIsInt
<1>4. ASSUME NEW m \in M
      PROVE  LET b == Append(a, m)
             IN  SumFunction([i \in DOMAIN b |-> b[i].qty]) = SumFunction(f) + m.qty
  <2> DEFINE b == Append(a, m)
             g == [i \in DOMAIN b |-> b[i].qty]
             n == Len(a) + 1
  <2>1. b \in Seq(M) /\ Len(b) = n /\ b[n] = m /\ \A i \in 1..Len(a) : b[i] = a[i]
    OBVIOUS
  <2> HIDE DEF b
  <2>2. DOMAIN b = 1..n /\ \A i \in 1..n : b[i] \in M
    BY <2>1
  <2>3. 1..n = DOMAIN a \cup {n} /\ n \notin DOMAIN a
    BY <1>1
  <2>4. /\ DOMAIN g = DOMAIN f \cup {n} /\ n \notin DOMAIN f /\ g[n] = m.qty
        /\ \A i \in DOMAIN f : g[i] = f[i]
        /\ \A i \in DOMAIN g : g[i] \in Int
    BY <1>1, <1>2, <2>1, <2>2, <2>3
  <2>5. SumFunction(g) = SumFunction(f) + m.qty
    <3> HIDE DEF f, g, n
    <3> QED BY <1>2, <2>4, SumGrows
  <2> QED BY <2>5 DEF b
<1> QED
  BY <1>3, <1>4

\* All of these are sums of integers.
LEMMA SumsAreInts ==
    ASSUME IInv, TablesFinite, NEW p \in Products
    PROVE  Sold(p) \in Int /\ Owed(p) \in Int /\ Restocked(p) \in Int /\ Gone(p) \in Int
<1>1. Sold(p) \in Int
  <2> DEFINE f == [i \in NewSales |-> sales[i].lines[p].qty]
  <2>1. DOMAIN f = NewSales /\ \A i \in NewSales : f[i] \in Int
    BY TableTypes DEF NewSales
  <2>2. Sold(p) = SumFunction(f)
    BY DEF Sold, NewSales
  <2> HIDE DEF f
  <2> QED BY <2>1, <2>2, SumIsInt DEF TablesFinite
<1>2. Owed(p) \in Int
  <2> DEFINE f == [d \in Lent(p) |-> debts[d].qty]
  <2>1. DOMAIN f = Lent(p) /\ \A d \in Lent(p) : f[d] \in Int
    BY TableTypes DEF Lent
  <2>2. Owed(p) = SumFunction(f)
    BY DEF Owed, Lent
  <2> HIDE DEF f
  <2> QED BY <2>1, <2>2, SumIsInt DEF TablesFinite
<1>3. Restocked(p) \in Int
  <2> DEFINE M == [qty : Nat, before : Int, after : Int]
  <2>1. movements[p] \in Seq(M) /\ \A x \in M : x.qty \in Int
    BY TableTypes
  <2> HIDE DEF M
  <2> QED BY <2>1, QuantitiesAdd DEF Restocked
<1> QED
  BY <1>1, <1>2, <1>3 DEF Gone

\* A sale more, completed or rejected.
LEMMA SoldGrows ==
    ASSUME IInv, TablesFinite, NEW id \in SaleIds, sales[id] = NoSale,
           NEW s \in SaleRows, sales' = [sales EXCEPT ![id] = s], UNCHANGED debts
    PROVE  /\ TablesFinite'
           /\ \A p \in Products : /\ Sold(p)' = Sold(p) + s.lines[p].qty
                                  /\ Owed(p)' = Owed(p)
<1>1. History[id] = NoSale /\ id \notin NewSales /\ NewSales' = NewSales \cup {id}
  BY TableTypes DEF TablesFinite, NewSales
<1>2. TablesFinite'
  <2>1. IsFiniteSet(NewSales')
    BY <1>1, FS_AddElement DEF TablesFinite
  <2> QED BY <2>1, TableTypes DEF TablesFinite, Lent
<1>3. ASSUME NEW p \in Products PROVE Sold(p)' = Sold(p) + s.lines[p].qty
  <2> DEFINE f == [i \in NewSales |-> sales[i].lines[p].qty]
             g == [i \in NewSales' |-> sales'[i].lines[p].qty]
  <2>1. /\ DOMAIN f = NewSales /\ DOMAIN g = NewSales \cup {id}
        /\ \A i \in NewSales : g[i] = f[i]
        /\ \A i \in NewSales \cup {id} : g[i] \in Int
        /\ g[id] = s.lines[p].qty
    BY <1>1, TableTypes DEF NewSales
  <2>2. Sold(p) = SumFunction(f) /\ Sold(p)' = SumFunction(g)
    BY DEF Sold, NewSales
  <2> HIDE DEF f, g
  <2> QED BY <1>1, <2>1, <2>2, SumGrows DEF TablesFinite
<1>4. \A p \in Products : Owed(p)' = Owed(p)
  BY DEF Owed
<1> QED
  BY <1>2, <1>3, <1>4

\* A debt more.
LEMMA OwedGrows ==
    ASSUME IInv, TablesFinite, NEW d \in DebtIds, debts[d] = NoDebt,
           NEW n \in DebtRows, debts' = [debts EXCEPT ![d] = n], UNCHANGED sales
    PROVE  /\ TablesFinite'
           /\ \A p \in Products : /\ Owed(p)' = Owed(p) + IF n.product = p THEN n.qty ELSE 0
                                  /\ Sold(p)' = Sold(p)
<1>1. ASSUME NEW p \in Products
      PROVE  d \notin Lent(p) /\ Lent(p)' = IF n.product = p THEN Lent(p) \cup {d} ELSE Lent(p)
  BY TableTypes DEF Lent
<1>2. TablesFinite'
  <2>1. \A p \in Products : IsFiniteSet(Lent(p)')
    BY <1>1, FS_AddElement DEF TablesFinite
  <2> QED BY <2>1 DEF TablesFinite, NewSales
<1>3. ASSUME NEW p \in Products PROVE Owed(p)' = Owed(p) + IF n.product = p THEN n.qty ELSE 0
  <2> DEFINE f == [e \in Lent(p) |-> debts[e].qty]
             g == [e \in Lent(p)' |-> debts'[e].qty]
  <2>1. Owed(p) = SumFunction(f) /\ Owed(p)' = SumFunction(g)
    BY DEF Owed, Lent
  <2>2. CASE n.product # p
    <3>1. f = g
      BY <1>1, <2>2 DEF Lent
    <3> QED BY <2>1, <2>2, <3>1, SumsAreInts
  <2>3. CASE n.product = p
    <3>1. /\ DOMAIN f = Lent(p) /\ DOMAIN g = Lent(p) \cup {d}
          /\ \A e \in Lent(p) : g[e] = f[e]
          /\ \A e \in Lent(p) \cup {d} : g[e] \in Int
          /\ g[d] = n.qty
      BY <1>1, <2>3, TableTypes DEF Lent
    <3> HIDE DEF f, g
    <3> QED BY <1>1, <2>1, <2>3, <3>1, SumGrows DEF TablesFinite
  <2> QED BY <2>2, <2>3
<1>4. \A p \in Products : Sold(p)' = Sold(p)
  BY DEF Sold
<1> QED
  BY <1>2, <1>3, <1>4

\* Payments change the status of a debt, not what was lent.
LEMMA OwedStays ==
    ASSUME IInv, TablesFinite, NEW d \in DebtIds, debts[d] # NoDebt, NEW st \in {"pendiente", "saldada"},
           debts' = [debts EXCEPT ![d].status = st], UNCHANGED sales
    PROVE  TablesFinite' /\ \A p \in Products : Owed(p)' = Owed(p) /\ Sold(p)' = Sold(p)
<1>1. \A e \in DebtIds : /\ debts'[e] # NoDebt <=> debts[e] # NoDebt
                         /\ debts[e] # NoDebt => /\ debts'[e].product = debts[e].product
                                                 /\ debts'[e].qty = debts[e].qty
  <2>1. debts \in [DebtIds -> DebtRows \cup {NoDebt}] /\ debts[d] \in DebtRows
    BY TableTypes
  <2> DEFINE repaid == [debts[d] EXCEPT !.status = st]
  <2>2. repaid \in DebtRows /\ repaid.product = debts[d].product /\ repaid.qty = debts[d].qty
    BY <2>1 DEF DebtRows
  <2> HIDE DEF repaid
  <2>3. repaid # NoDebt
    BY <2>2, NoDebtIsNoRow
  <2>4. debts' = [debts EXCEPT ![d] = repaid]
    BY DEF repaid
  <2> QED BY <2>1, <2>2, <2>3, <2>4
<1>2. ASSUME NEW p \in Products PROVE Lent(p)' = Lent(p) /\ Owed(p)' = Owed(p)
  <2>1. Lent(p)' = Lent(p)
    BY <1>1 DEF Lent
  <2>2. [e \in Lent(p)' |-> debts'[e].qty] = [e \in Lent(p) |-> debts[e].qty]
    BY <1>1, <2>1 DEF Lent
  <2> QED BY <2>1, <2>2 DEF Owed, Lent
<1> QED
  BY <1>2 DEF TablesFinite, NewSales, Sold

\* A movement more.
LEMMA RestockedGrows ==
    ASSUME IInv, NEW p \in Products, NEW m \in [qty : Nat, before : Int, after : Int],
           movements' = [movements EXCEPT ![p] = Append(@, m)]
    PROVE  /\ Restocked(p)' = Restocked(p) + m.qty
           /\ \A x \in Products \ {p} : Restocked(x)' = Restocked(x)
<1> DEFINE M == [qty : Nat, before : Int, after : Int]
           a == movements[p]
<1>1. a \in Seq(M) /\ Append(a, m) = movements'[p] /\ \A x \in Products \ {p} : movements'[x] = movements[x]
  BY TableTypes
<1>2. (\A x \in M : x.qty \in Int) /\ m \in M
  OBVIOUS
<1> HIDE DEF M
<1>3. SumFunction([i \in DOMAIN Append(a, m) |-> Append(a, m)[i].qty])
         = SumFunction([i \in DOMAIN a |-> a[i].qty]) + m.qty
  BY <1>1, <1>2, QuantitiesAdd
<1>4. Restocked(p) = SumFunction([i \in DOMAIN a |-> a[i].qty])
  BY DEF Restocked
<1>5. Restocked(p)' = Restocked(p) + m.qty
  <2> DEFINE b == movements'[p]
  <2>1. Restocked(p)' = SumFunction([i \in DOMAIN b |-> b[i].qty])
    BY DEF Restocked
  <2>2. b = Append(a, m)
    BY <1>1
  <2> HIDE DEF a, b
  <2> QED BY <1>3, <1>4, <2>1, <2>2
<1>6. ASSUME NEW x \in Products \ {p} PROVE Restocked(x)' = Restocked(x)
  BY <1>1 DEF Restocked
<1> QED
  BY <1>5, <1>6

-----------------------------------------------------------------------------
(* The rows. *)

\* What a transaction of a sale or a debt does to the goods: nothing, taking
\* n units under the lock, giving up what it has taken, or making it count.
Keeps(t) ==
    /\ UNCHANGED rowVars
    /\ \A p \in Products : Taken(t, p)' = Taken(t, p) /\ Gone(p)' = Gone(p)

Takes(t, p, n, new) ==
    /\ LockFree(t, p) /\ WriteRow(t, p, new) /\ new.stock = View(t, p).stock - n
    /\ Taken(t, p)' = Taken(t, p) + n
    /\ \A x \in Products \ {p} : Taken(t, x)' = Taken(t, x)
    /\ \A x \in Products : Gone(x)' = Gone(x)

GivesUp(t) ==
    /\ RollbackRows(t)
    /\ \A p \in Products : Taken(t, p)' = 0 /\ Gone(p)' = Gone(p)

Settles(t) ==
    /\ CommitRows(t)
    /\ \A p \in Products : Taken(t, p)' = 0 /\ Gone(p)' = Gone(p) + Taken(t, p)

\* The amounts are integers, and rows that are locked are there.
LEMMA GoodsFacts ==
    ASSUME IInv, HistInd, ConsInd
    PROVE  /\ row \in [Products -> Row] /\ draft \in [Products -> Row]
           /\ owner \in [Products -> Tx \cup {NoTx}] /\ NoTx \notin Tx
           /\ \A v \in Row : v.stock \in Int
           /\ \A p \in Products : Gone(p) \in Int
           /\ \A t \in Tx, p \in Products : Taken(t, p) \in Int
           /\ \A p \in Products : owner[p] # NoTx =>
                 row[p].state # "absent" /\ draft[p].state = row[p].state
<1>1. ASSUME NEW t \in Tx, NEW p \in Products PROVE Taken(t, p) \in Int
  <2>1. t \in SaleReqs => lines[t][p].qty \in Int
    BY TableTypes DEF Lines
  <2>2. t \in DebtReqs => DebtBody[t].qty \in Int
    BY DebtBodyFacts
  <2>3. t \in CatReqs /\ cpc[t] = "record" => 0 - CatOp[t].qty \in Int
    BY OpFacts DEF ConsInd, RecordsRestock
  <2> QED BY <2>1, <2>2, <2>3 DEF Taken
<1> QED
  BY <1>1, SumsAreInts, NoTxIsNotATx
     DEF IInv, RowsOK, RowsTypeOK, Row, HistInd, RowsInd, TakenOnly, ConsInd

\* None of these loses or makes up a unit.
LEMMA GoodsStay ==
    ASSUME IInv, HistInd, ConsInd, NEW t \in Tx, UNCHANGED audits,
           \A u \in Tx \ {t}, p \in Products : Taken(u, p)' = Taken(u, p),
           \/ Keeps(t) \/ GivesUp(t) \/ Settles(t)
           \/ \E p \in Products, n \in Int, new \in Row : Takes(t, p, n, new)
    PROVE  GoodsOK'
<1> USE GoodsFacts
<1>1. ASSUME NEW p \in Products
      PROVE  /\ row[p] \in Row /\ row[p].stock \in Int /\ draft[p] \in Row /\ draft[p].stock \in Int
             /\ Gone(p) \in Int /\ Taken(t, p) \in Int
             /\ DraftIsRow(p) /\ Balanced(p)
  BY DEF ConsInd, GoodsOK
<1>2. CASE Keeps(t)
  BY <1>1, <1>2 DEF Keeps, rowVars, GoodsOK, DraftIsRow, Balanced
<1>3. CASE GivesUp(t)
  <2>1. \A p \in Products : /\ owner'[p] = IF owner[p] = t THEN NoTx ELSE owner[p]
                            /\ owner[p] # t => draft'[p] = draft[p]
                            /\ row'[p] = row[p]
                            /\ Taken(t, p)' = 0 /\ Gone(p)' = Gone(p)
    BY <1>3 DEF GivesUp, RollbackRows, Release
  <2>2. ASSUME NEW p \in Products PROVE DraftIsRow(p)'
    BY <1>1, <2>1 DEF DraftIsRow
  <2> QED BY <1>1, <2>1, <2>2 DEF GoodsOK, Balanced
<1>4. CASE Settles(t)
  <2>1. \A p \in Products : /\ owner'[p] = IF owner[p] = t THEN NoTx ELSE owner[p]
                            /\ row'[p] = IF owner[p] = t THEN draft[p] ELSE row[p]
                            /\ draft'[p] = draft[p]
                            /\ Taken(t, p)' = 0 /\ Gone(p)' = Gone(p) + Taken(t, p)
    BY <1>4 DEF Settles, CommitRows, Release, View
  <2>2. ASSUME NEW p \in Products PROVE DraftIsRow(p)'
    BY <1>1, <2>1 DEF DraftIsRow
  <2>3. ASSUME NEW p \in Products PROVE Balanced(p)'
    <3>1. CASE owner[p] = t
      BY <1>1, <2>1, <3>1 DEF DraftIsRow, Balanced
    <3>2. CASE owner[p] # t
      <4>1. Taken(t, p) = 0
        BY <1>1, <3>2 DEF DraftIsRow
      <4> QED BY <1>1, <2>1, <3>2, <4>1 DEF Balanced
    <3> QED BY <3>1, <3>2
  <2> QED BY <2>2, <2>3 DEF GoodsOK
<1>5. ASSUME NEW p \in Products, NEW n \in Int, NEW new \in Row, Takes(t, p, n, new)
      PROVE  GoodsOK'
  <2>1. /\ owner[p] \in {NoTx, t} /\ owner'[p] = t /\ draft'[p] = new /\ row' = row
        /\ \A x \in Products \ {p} : owner'[x] = owner[x] /\ draft'[x] = draft[x]
    BY <1>5 DEF Takes, LockFree, WriteRow
  <2>2. new.stock = row[p].stock - Taken(t, p) - n
    <3>1. owner[p] = NoTx => Taken(t, p) = 0
      BY <1>1 DEF DraftIsRow
    <3> QED BY <1>1, <1>5, <2>1, <3>1 DEF Takes, View, DraftIsRow
  <2>3. DraftIsRow(p)'
    BY <1>1, <1>5, <2>1, <2>2 DEF Takes, DraftIsRow
  <2>4. ASSUME NEW x \in Products \ {p} PROVE DraftIsRow(x)'
    BY <1>1, <1>5, <2>1 DEF Takes, DraftIsRow
  <2> QED BY <1>1, <1>5, <2>1, <2>3, <2>4 DEF Takes, GoodsOK, Balanced
<1> QED
  BY <1>2, <1>3, <1>4, <1>5

-----------------------------------------------------------------------------
(* The sales. *)

LEMMA TakenByOthers ==
    ASSUME NEW t \in Tx, NEW p \in Products,
           t \in SaleReqs => lines'[t] = lines[t],
           t \in DebtReqs => dpc'[t] = dpc[t],
           t \in CatReqs => cpc'[t] = cpc[t]
    PROVE  Taken(t, p)' = Taken(t, p)
BY DEF Taken

\* What a step of r does to its lines, its rows and the table of sales.
InSale(r) == pc[r] \in {"read", "lock", "insert"}

SaleMoves(r) == pc' = [pc EXCEPT ![r] = pc'[r]]

SaleEnds(r) ==
    /\ SaleMoves(r) /\ pc'[r] \in {"done", "recover"}
    /\ line' = [line EXCEPT ![r] = 1]
    /\ lines' = [lines EXCEPT ![r] = NoLines]
    /\ total' = [total EXCEPT ![r] = 0]

SaleShape(r) ==
    \/ /\ UNCHANGED <<rowVars, line, lines, total, sales>> /\ SaleMoves(r)
       /\ \/ pc[r] = "authorize" /\ pc'[r] = "read"
          \/ pc[r] = "read" /\ pc'[r] = "lock"
          \/ ~InSale(r) /\ pc'[r] \notin {"read", "lock", "insert"}
    \/ UNCHANGED <<rowVars, sales>> /\ SaleEnds(r) /\ ~InSale(r)
    \/ RollbackRows(r) /\ UNCHANGED sales /\ SaleEnds(r)
    \/ /\ pc[r] = "lock" /\ LockFree(r, Item0(r).product) /\ TakeItem(r) /\ SaleMoves(r)
       /\ pc'[r] = IF line[r] = Len(Body[r].items) THEN "insert" ELSE "read"
    \/ /\ pc[r] = "insert" /\ Sale0(r) = NoSale /\ CommitRows(r) /\ SaleEnds(r)
       /\ sales' = [sales EXCEPT ![Body[r].id] = SaleRow(Body[r], "completada", lines[r], total[r])]
    \/ /\ Sale0(r) = NoSale /\ UNCHANGED rowVars /\ SaleEnds(r) /\ pc[r] = "persist"
       /\ sales' = [sales EXCEPT ![Body[r].id] =
                       SaleRow(Body[r], "rechazada_por_conflicto", NoLines, Null)]

LEMMA SaleShapes ==
    ASSUME IInv, NEW r \in SaleReqs, SalesStep(r)
    PROVE  SaleShape(r)
<1>1. pc \in [SaleReqs -> {"away", "idle", "precheck", "authorize", "read", "lock", "insert",
                          "recover", "persist", "reread", "done"}]
  BY DEF IInv, SalesInd, SalesTypeOK, HandlersTypeOK
<1>2. ASSUME NEW where, Goto(r, where)
      PROVE  pc'[r] = where /\ SaleMoves(r)
  BY <1>1, <1>2 DEF Goto, SaleMoves
<1>3. ASSUME NEW code, Answer(r, code)
      PROVE  pc'[r] = "done" /\ SaleEnds(r)
  BY <1>2, <1>3 DEF Answer, ForgetLines, SaleEnds
<1>4. ASSUME NEW e, Fail(r, e)
      PROVE  SaleShape(r)
  BY <1>2, <1>4 DEF Fail, ForgetLines, SaleEnds, SaleShape
<1>5. CASE Guard(r) \/ Precheck(r) \/ Authorize(r) \/ Recover(r) \/ Reread(r) \/ Resend(r)
  BY <1>2, <1>3, <1>5 DEF Guard, Precheck, Authorize, Recover, Reread, Resend, SaleShape, InSale
<1>6. CASE ReadItem(r)
  BY <1>2, <1>4, <1>6 DEF ReadItem, SaleShape
<1>7. CASE LockItem(r)
  <2>1. CASE TakeItem(r)
    BY <1>2, <1>7, <2>1 DEF LockItem, TakeItem, SaleShape
  <2>2. CASE RollbackRows(r) /\ Answer(r, "500") /\ UNCHANGED <<sales, incidencias>>
    BY <1>3, <2>2 DEF SaleShape
  <2> QED BY <1>4, <1>7, <2>1, <2>2 DEF LockItem
<1>8. CASE Insert(r)
  BY <1>3, <1>4, <1>8 DEF Insert, SaleShape
<1>9. CASE Persist(r)
  BY <1>2, <1>3, <1>9 DEF Persist, SaleShape, InSale
<1>10. CASE DeadlockAbort(r) \/ Drop(r)
  BY <1>3, <1>10 DEF DeadlockAbort, Drop, SaleShape
<1> QED
  BY <1>5, <1>6, <1>7, <1>8, <1>9, <1>10 DEF SalesStep, Handle

LEMMA SaleKeepsGoods ==
    ASSUME IInv, HistInd, ConsInd, NEW r \in SaleReqs, SalesStep(r),
           UNCHANGED catVars, UNCHANGED debtVars
    PROVE  ConsInd'
<1>1. /\ r \in Tx /\ lines \in [SaleReqs -> Lines] /\ pc \in [SaleReqs -> {"away", "idle", "precheck", "authorize",
             "read", "lock", "insert", "recover", "persist", "reread", "done"}]
      /\ UNCHANGED <<cpc, audits, movements, dpc, debts>>
      /\ HasNoLines(r) /\ \A x \in Products : lines[r][x].qty \in Int
      /\ \A x \in Products : Taken(r, x) = lines[r][x].qty /\ Taken(r, x)' = lines'[r][x].qty
      /\ \A x \in Products : NoLines[x].qty = 0
      /\ TablesFinite /\ \A x \in Products : Gone(x) \in Int /\ Sold(x) \in Int /\ Owed(x) \in Int
                                                                       /\ Restocked(x) \in Int
  BY SaleReqsAreTx, TableTypes, SumsAreInts
     DEF IInv, SalesInd, SalesTypeOK, HandlersTypeOK, catVars, debtVars, debtReqVars, debtTables,
         ConsInd, Taken, Lines, NoLines, NoLine
<1>2. ASSUME \A u \in SaleReqs \ {r} : lines'[u] = lines[u] /\ pc'[u] = pc[u],
             HasNoLines(r)', TablesFinite',
             \/ Keeps(r) \/ GivesUp(r) \/ Settles(r)
             \/ \E p \in Products, n \in Int, new \in Row : Takes(r, p, n, new)
      PROVE  ConsInd'
  <2>1. \A u \in Tx \ {r}, p \in Products : Taken(u, p)' = Taken(u, p)
    BY <1>1, <1>2, TakenByOthers
  <2>2. GoodsOK'
    BY <1>1, <1>2, <2>1, GoodsStay
  <2> QED BY <1>1, <1>2, <2>2 DEF ConsInd, HasNoLines, RecordsRestock
<1>3. ASSUME UNCHANGED sales PROVE TablesFinite' /\ \A p \in Products : Gone(p)' = Gone(p)
  BY <1>1, <1>3 DEF TablesFinite, NewSales, Lent, Gone, Sold, Owed, Restocked
<1>4. ASSUME SaleEnds(r)
      PROVE  /\ \A u \in SaleReqs \ {r} : lines'[u] = lines[u] /\ pc'[u] = pc[u]
             /\ HasNoLines(r)' /\ \A x \in Products : Taken(r, x)' = 0
  BY <1>1, <1>4 DEF SaleEnds, SaleMoves, HasNoLines
<1>5. CASE /\ UNCHANGED <<rowVars, lines, sales>> /\ SaleMoves(r)
           /\ pc'[r] \in {"read", "lock"} \/ ~InSale(r)
  BY <1>1, <1>2, <1>3, <1>5 DEF Keeps, HasNoLines, SaleMoves, InSale
<1>6. CASE UNCHANGED <<rowVars, sales>> /\ SaleEnds(r) /\ ~InSale(r)
  BY <1>1, <1>2, <1>3, <1>4, <1>6 DEF Keeps, HasNoLines, InSale
<1>7. CASE RollbackRows(r) /\ UNCHANGED sales /\ SaleEnds(r)
  BY <1>2, <1>3, <1>4, <1>7 DEF GivesUp
<1>8. CASE /\ pc[r] = "lock" /\ LockFree(r, Item0(r).product) /\ TakeItem(r) /\ SaleMoves(r)
           /\ pc'[r] \in {"read", "insert"}
  <2>1. PICK p \in Products, q \in Int, v \in Row :
           p = Item0(r).product /\ q = Item0(r).qty /\ v = View(r, p)
    BY <1>1, <1>8, ItemFacts, ViewOK DEF IInv, Writable
  <2> DEFINE new == [v EXCEPT !.stock = @ - q]
             ls == [lines[r] EXCEPT ![p] = [qty |-> @.qty + q, price |-> v.price, cost |-> v.cost]]
  <2>2. new \in Row /\ new.stock = v.stock - q
    BY <2>1 DEF Row
  <2>3. /\ LockFree(r, p) /\ WriteRow(r, p, new) /\ UNCHANGED sales
        /\ lines' = [lines EXCEPT ![r] = ls]
    BY <1>8, <2>1 DEF TakeItem
  <2>4. /\ \A u \in SaleReqs \ {r} : lines'[u] = lines[u] /\ pc'[u] = pc[u]
        /\ HasNoLines(r)' /\ lines'[r] = ls
    BY <1>1, <1>8, <2>3 DEF HasNoLines, SaleMoves
  <2>5. ls[p].qty = lines[r][p].qty + q /\ \A x \in Products \ {p} : ls[x] = lines[r][x]
    BY <1>1, <2>1 DEF Lines
  <2> HIDE DEF ls, new
  <2>6. Takes(r, p, q, new)
    <3>1. Taken(r, p)' = Taken(r, p) + q /\ \A x \in Products \ {p} : Taken(r, x)' = Taken(r, x)
      BY <1>1, <2>4, <2>5
    <3>2. \A x \in Products : Gone(x)' = Gone(x)
      BY <1>3, <2>3
    <3> QED BY <2>1, <2>2, <2>3, <3>1, <3>2 DEF Takes
  <2> QED BY <1>2, <1>3, <2>2, <2>3, <2>4, <2>6
<1>9. ASSUME NEW s \in SaleRows, Sale0(r) = NoSale, sales' = [sales EXCEPT ![Body[r].id] = s]
      PROVE  TablesFinite' /\ \A p \in Products : Gone(p)' = Gone(p) + s.lines[p].qty
  <2>1. /\ TablesFinite'
        /\ \A p \in Products : Sold(p)' = Sold(p) + s.lines[p].qty /\ Owed(p)' = Owed(p)
    BY <1>1, <1>9, BodyFacts, SoldGrows DEF Sale0
  <2>2. \A p \in Products : Restocked(p)' = Restocked(p) /\ s.lines[p].qty \in Int
    BY <1>1, TableTypes DEF Restocked
  <2> QED BY <1>1, <2>1, <2>2 DEF Gone
<1>10. CASE /\ Sale0(r) = NoSale /\ CommitRows(r) /\ SaleEnds(r)
            /\ sales' = [sales EXCEPT ![Body[r].id] =
                            SaleRow(Body[r], "completada", lines[r], total[r])]
  <2> DEFINE s == SaleRow(Body[r], "completada", lines[r], total[r])
  <2>1. s \in SaleRows /\ s.lines = lines[r]
    BY SaleRowOK DEF IInv, SalesInd, SalesTypeOK, HandlersTypeOK, SaleRow
  <2> HIDE DEF s
  <2>2. TablesFinite' /\ \A p \in Products : Gone(p)' = Gone(p) + Taken(r, p)
    BY <1>1, <1>9, <1>10, <2>1 DEF s
  <2>3. Settles(r)
    BY <1>4, <1>10, <2>2 DEF Settles
  <2> QED BY <1>2, <1>4, <1>10, <2>2, <2>3
<1>11. CASE /\ Sale0(r) = NoSale /\ UNCHANGED rowVars /\ SaleEnds(r) /\ pc[r] = "persist"
            /\ sales' = [sales EXCEPT ![Body[r].id] =
                            SaleRow(Body[r], "rechazada_por_conflicto", NoLines, Null)]
  <2> DEFINE s == SaleRow(Body[r], "rechazada_por_conflicto", NoLines, Null)
  <2>1. s \in SaleRows /\ \A x \in Products : s.lines[x].qty = 0
    BY <1>1, SaleRowOK, NoLinesOK DEF SaleRow
  <2> HIDE DEF s
  <2>2. TablesFinite' /\ \A p \in Products : Gone(p)' = Gone(p)
    <3>1. Sale0(r) = NoSale /\ sales' = [sales EXCEPT ![Body[r].id] = s]
      BY <1>11 DEF s
    <3>2. TablesFinite' /\ \A p \in Products : Gone(p)' = Gone(p) + s.lines[p].qty
      BY <1>9, <2>1, <3>1
    <3> QED BY <1>1, <2>1, <3>2
  <2>3. Keeps(r)
    BY <1>1, <1>4, <1>11, <2>2 DEF Keeps, HasNoLines
  <2> QED BY <1>2, <1>4, <1>11, <2>2, <2>3
<1> QED
  BY <1>5, <1>6, <1>7, <1>8, <1>10, <1>11, SaleShapes DEF SaleShape

-----------------------------------------------------------------------------
(* The debts. *)

\* What a step of r does to its phase, its rows and the table of debts.
DebtMoves(r) ==
    /\ dpc' = [dpc EXCEPT ![r] = dpc'[r]]
    /\ dterms' = [dterms EXCEPT ![r] = dterms'[r]]

DebtShape(r) ==
    \/ /\ UNCHANGED <<rowVars, debts, paid>> /\ DebtMoves(r)
       /\ dpc[r] # "insert" /\ dpc'[r] # "insert"
    \/ RollbackRows(r) /\ UNCHANGED <<debts, paid>> /\ DebtMoves(r) /\ dpc'[r] # "insert"
    \/ /\ r \in DebtReqs /\ dpc[r] = "take" /\ LockFree(r, DebtBody[r].product)
       /\ LET v == View(r, DebtBody[r].product)
          IN  /\ WriteRow(r, DebtBody[r].product, [v EXCEPT !.stock = @ - DebtBody[r].qty])
              /\ v.state = "active" /\ dterms'[r].total = v.price * DebtBody[r].qty
       /\ UNCHANGED <<debts, paid>> /\ DebtMoves(r) /\ dpc'[r] = "insert"
    \/ /\ r \in DebtReqs /\ dpc[r] = "insert" /\ CommitRows(r) /\ DebtMoves(r) /\ dpc'[r] = "done"
       /\ \E d \in DebtIds : /\ debts[d] = NoDebt
                             /\ debts' = [debts EXCEPT ![d] = DebtRow(DebtBody[r], dterms[r])]
                             /\ paid' = [paid EXCEPT ![d] = DebtBody[r].abono]
    \/ /\ r \in AbonoReqs /\ UNCHANGED rowVars /\ DebtMoves(r) /\ dpc[r] = "pay" /\ dpc'[r] = "done"
       /\ LET d == Debt0(r)
              amount == AbonoBody[r].amount
          IN  /\ d \in DebtIds /\ debts[d] # NoDebt /\ paid[d] + amount <= debts[d].total
              /\ paid' = [paid EXCEPT ![d] = @ + amount]
              /\ debts' = [debts EXCEPT ![d].status =
                    IF paid[d] + amount >= debts[d].total THEN "saldada" ELSE @]

LEMMA DebtShapes ==
    ASSUME IInv, NEW r \in DebtUsers, DebtStep(r)
    PROVE  DebtShape(r)
<1>1. /\ dpc \in [DebtUsers -> {"away", "idle", "replay", "take", "insert", "recover", "winner",
                              "lock", "pay", "done"}]
      /\ dterms \in [DebtUsers -> [total : Nat, cost : Nat \cup {Null}]]
      /\ DebtPhases /\ PayerHoldsDebt
  BY DEF IInv, DebtsInd, DebtsTypeOK, DebtHandlersTypeOK
<1>2. ASSUME NEW where, DebtGoto(r, where),
             UNCHANGED dterms \/ \E x : dterms' = [dterms EXCEPT ![r] = x]
      PROVE  dpc'[r] = where /\ DebtMoves(r)
  BY <1>1, <1>2 DEF DebtGoto, DebtMoves
<1>3. ASSUME NEW code, DebtAnswer(r, code)
      PROVE  dpc'[r] = "done" /\ DebtMoves(r)
  BY <1>2, <1>3 DEF DebtAnswer
<1>4. ASSUME NEW code, DebtReject(r, code)
      PROVE  dpc'[r] = "done" /\ DebtMoves(r) /\ UNCHANGED <<debts, paid>>
  BY <1>3, <1>4 DEF DebtReject, debtTables
<1>5. ASSUME NEW e, DebtFail(r, e)
      PROVE  DebtShape(r)
  BY <1>2, <1>4, <1>5 DEF DebtFail, DebtShape, debtTables
<1>6. ASSUME Replay(r)
      PROVE  dpc'[r] = "done" /\ DebtMoves(r) /\ UNCHANGED <<debts, paid>>
  BY <1>3, <1>4, <1>6 DEF Replay, debtTables
<1>7. CASE DebtAuthorize(r) \/ DebtRecover(r) \/ DebtWinner(r) \/ DebtReplay(r) \/ DebtResend(r)
  BY <1>2, <1>4, <1>5, <1>6, <1>7
     DEF DebtAuthorize, DebtRecover, DebtWinner, DebtReplay, DebtResend, DebtShape, debtTables
<1>8. CASE r \in DebtReqs /\ DebtTake(r)
  <2> DEFINE b == DebtBody[r]
             v == View(r, b.product)
             tot == v.price * b.qty
  <2>1. CASE DebtFail(r, "400") \/ (RollbackRows(r) /\ DebtReject(r, "500"))
    BY <1>4, <1>5, <2>1 DEF DebtShape
  <2>2. CASE /\ Lendable(v, b.qty) /\ WriteRow(r, b.product, [v EXCEPT !.stock = @ - b.qty])
             /\ dterms' = [dterms EXCEPT ![r] = [total |-> tot, cost |-> v.cost]]
             /\ DebtGoto(r, "insert") /\ UNCHANGED debtTables
    <3>1. dpc'[r] = "insert" /\ DebtMoves(r) /\ UNCHANGED <<debts, paid>>
      BY <1>2, <2>2 DEF debtTables
    <3>2. dterms'[r].total = tot
      BY <1>1, <2>2
    <3> QED BY <1>8, <2>2, <3>1, <3>2 DEF DebtTake, DebtShape, Lendable
  <2> QED BY <1>8, <2>1, <2>2 DEF DebtTake
<1>9. CASE r \in DebtReqs /\ DebtInsert(r)
  <2>1. CASE DebtFail(r, "duplicate")
    BY <1>5, <2>1
  <2>2. CASE ~DebtFail(r, "duplicate")
    <3>1. /\ dpc[r] = "insert" /\ CommitRows(r) /\ DebtAnswer(r, "ok")
          /\ \E d \in IF ClientId(r) THEN {DebtBody[r].id} ELSE ServerIds :
                /\ debts[d] = NoDebt /\ debts' = [debts EXCEPT ![d] = DebtRow(DebtBody[r], dterms[r])]
                /\ paid' = [paid EXCEPT ![d] = DebtBody[r].abono]
      BY <1>9, <2>2 DEF DebtInsert
    <3>2. (IF ClientId(r) THEN {DebtBody[r].id} ELSE ServerIds) \subseteq DebtIds
      BY <1>9, DebtBodyFacts DEF ClientId, ServerIds
    <3>3. dpc'[r] = "done" /\ DebtMoves(r)
      BY <1>3, <3>1
    <3> QED BY <1>9, <3>1, <3>2, <3>3 DEF DebtShape
  <2> QED BY <2>1, <2>2
<1>10. CASE r \in AbonoReqs /\ AbonoHandle(r)
  <2>1. CASE AbonoStart(r) \/ AbonoLock(r)
    BY <1>2, <1>4, <1>10, <2>1 DEF AbonoHandle, AbonoStart, AbonoLock, DebtShape, debtTables
  <2>2. CASE AbonoPay(r)
    <3> DEFINE d == Debt0(r)
               amount == AbonoBody[r].amount
    <3>1. d \in DebtIds /\ debts[d] # NoDebt /\ sum[r] = paid[d] /\ dpc[r] = "pay" /\ UNCHANGED rowVars
          /\ amount \in Nat
      BY <1>1, <1>10, <2>2, AbonoBodyFacts DEF AbonoHandle, AbonoPay, PayerHoldsDebt
    <3>2. debts[d].total \in Nat /\ paid[d] \in Nat
      BY <3>1 DEF IInv, DebtsInd, DebtsTypeOK, DebtTablesTypeOK, DebtRows
    <3>3. CASE DebtAnswer(r, "400") /\ UNCHANGED <<debts, paid>>
      BY <1>3, <3>1, <3>3 DEF DebtShape
    <3>4. CASE /\ WithinBalance(sum[r], debts[d].total, amount) /\ DebtAnswer(r, "ok")
               /\ paid' = [paid EXCEPT ![d] = @ + amount]
               /\ debts' = [debts EXCEPT ![d].status =
                     IF sum[r] + amount >= debts[d].total THEN "saldada" ELSE @]
      <4>1. paid[d] + amount <= debts[d].total
        BY <3>1, <3>2, <3>4 DEF WithinBalance
      <4> QED BY <1>3, <1>10, <3>1, <3>4, <4>1 DEF DebtShape
    <3> QED BY <2>2, <3>3, <3>4 DEF AbonoPay
  <2> QED BY <1>10, <2>1, <2>2 DEF AbonoHandle
<1>11. CASE DebtDrop(r)
  BY <1>3, <1>11 DEF DebtDrop, DebtShape
<1> QED
  BY <1>7, <1>8, <1>9, <1>10, <1>11 DEF DebtStep, CreateHandle

LEMMA DebtKeepsGoods ==
    ASSUME IInv, HistInd, ConsInd, NEW r \in DebtUsers, DebtStep(r),
           UNCHANGED saleVars, UNCHANGED catVars
    PROVE  ConsInd'
<1>1. /\ r \in Tx /\ r \notin SaleReqs /\ r \notin CatReqs
      /\ dpc \in [DebtUsers -> {"away", "idle", "replay", "take", "insert", "recover", "winner",
                              "lock", "pay", "done"}]
      /\ UNCHANGED <<cpc, audits, movements, pc, lines, sales>>
      /\ TablesFinite /\ \A x \in Products : Gone(x) \in Int /\ Sold(x) \in Int /\ Owed(x) \in Int
                                                                       /\ Restocked(x) \in Int
      /\ DebtReqs \subseteq DebtUsers
  BY OthersAreNotCatalog, RequestsAreDistinct, SumsAreInts
     DEF IInv, DebtsInd, DebtsTypeOK, DebtHandlersTypeOK, saleVars, requestVars, catVars, DebtUsers,
         ConsInd
<1>2. ASSUME DebtMoves(r), TablesFinite',
             \/ Keeps(r) \/ GivesUp(r) \/ Settles(r)
             \/ \E p \in Products, n \in Int, new \in Row : Takes(r, p, n, new)
      PROVE  ConsInd'
  <2>1. \A u \in Tx \ {r}, p \in Products : Taken(u, p)' = Taken(u, p)
    BY <1>1, <1>2, TakenByOthers DEF DebtMoves
  <2>2. GoodsOK'
    BY <1>1, <1>2, <2>1, GoodsStay
  <2> QED BY <1>1, <1>2, <2>2 DEF ConsInd, HasNoLines, RecordsRestock
<1>3. ASSUME UNCHANGED debts PROVE TablesFinite' /\ \A p \in Products : Gone(p)' = Gone(p)
  BY <1>1, <1>3 DEF TablesFinite, NewSales, Lent, Gone, Sold, Owed, Restocked
<1>4. /\ dpc[r] # "insert" => \A x \in Products : Taken(r, x) = 0
      /\ dpc'[r] # "insert" => \A x \in Products : Taken(r, x)' = 0
  BY <1>1 DEF Taken
<1>5. CASE /\ UNCHANGED <<rowVars, debts>> /\ DebtMoves(r)
           /\ dpc[r] # "insert" /\ dpc'[r] # "insert"
  BY <1>2, <1>3, <1>4, <1>5 DEF Keeps
<1>6. CASE RollbackRows(r) /\ UNCHANGED debts /\ DebtMoves(r) /\ dpc'[r] # "insert"
  BY <1>2, <1>3, <1>4, <1>6 DEF GivesUp
<1>7. CASE /\ r \in DebtReqs /\ dpc[r] = "take" /\ LockFree(r, DebtBody[r].product)
           /\ LET v == View(r, DebtBody[r].product)
              IN  WriteRow(r, DebtBody[r].product, [v EXCEPT !.stock = @ - DebtBody[r].qty])
           /\ UNCHANGED debts /\ DebtMoves(r) /\ dpc'[r] = "insert"
  <2> DEFINE p == DebtBody[r].product
             q == DebtBody[r].qty
  <2>1. p \in Products /\ q \in Int
    BY <1>7, DebtBodyFacts
  <2>2. PICK v \in Row : v = View(r, p)
    BY <1>1, <2>1, ViewOK DEF IInv, Writable
  <2> DEFINE new == [v EXCEPT !.stock = @ - q]
  <2>3. new \in Row /\ new.stock = v.stock - q
    BY <2>1, <2>2 DEF Row
  <2>4. WriteRow(r, p, new) /\ LockFree(r, p)
    BY <1>7, <2>2
  <2> HIDE DEF new
  <2>5. Taken(r, p)' = Taken(r, p) + q /\ \A x \in Products \ {p} : Taken(r, x)' = Taken(r, x)
    BY <1>1, <1>7, <2>1 DEF Taken
  <2>6. Takes(r, p, q, new)
    BY <1>3, <1>7, <2>1, <2>2, <2>3, <2>4, <2>5 DEF Takes
  <2> QED BY <1>2, <1>3, <1>7, <2>1, <2>3, <2>6
<1>8. CASE /\ r \in DebtReqs /\ dpc[r] = "insert" /\ CommitRows(r) /\ DebtMoves(r) /\ dpc'[r] = "done"
           /\ \E d \in DebtIds : /\ debts[d] = NoDebt
                                 /\ debts' = [debts EXCEPT ![d] = DebtRow(DebtBody[r], dterms[r])]
  <2> DEFINE n == DebtRow(DebtBody[r], dterms[r])
  <2>1. n \in DebtRows /\ n.product = DebtBody[r].product /\ n.qty = DebtBody[r].qty /\ n.qty \in Int
    BY <1>8, DebtRowOK, DebtBodyFacts DEF IInv, DebtRow
  <2>2. PICK d \in DebtIds : debts[d] = NoDebt /\ debts' = [debts EXCEPT ![d] = n]
    BY <1>8
  <2> HIDE DEF n
  <2>3. /\ TablesFinite'
        /\ \A p \in Products : /\ Owed(p)' = Owed(p) + IF n.product = p THEN n.qty ELSE 0
                               /\ Sold(p)' = Sold(p)
    BY <1>1, <2>1, <2>2, OwedGrows
  <2>4. \A p \in Products : Restocked(p)' = Restocked(p)
    BY <1>1 DEF Restocked
  <2>5. \A p \in Products : Taken(r, p) = IF n.product = p THEN n.qty ELSE 0
    BY <1>1, <1>8, <2>1 DEF Taken
  <2>6. \A p \in Products : Gone(p)' = Gone(p) + Taken(r, p)
    BY <1>1, <2>1, <2>3, <2>4, <2>5 DEF Gone
  <2>7. Settles(r)
    BY <1>4, <1>8, <2>6 DEF Settles
  <2> QED BY <1>2, <1>8, <2>3, <2>7
<1>9. CASE /\ UNCHANGED rowVars /\ DebtMoves(r) /\ dpc[r] = "pay" /\ dpc'[r] = "done"
           /\ \E d \in DebtIds, st \in {"pendiente", "saldada"} :
                 debts[d] # NoDebt /\ debts' = [debts EXCEPT ![d].status = st]
  <2>1. TablesFinite' /\ \A p \in Products : Owed(p)' = Owed(p) /\ Sold(p)' = Sold(p)
    BY <1>1, <1>9, OwedStays
  <2>2. \A p \in Products : Gone(p)' = Gone(p)
    BY <1>1, <2>1 DEF Gone, Restocked
  <2>3. Keeps(r)
    BY <1>4, <1>9, <2>2 DEF Keeps
  <2> QED BY <1>2, <1>9, <2>1, <2>3
<1>10. ASSUME NEW d \in DebtIds, debts[d] # NoDebt PROVE debts[d].status \in {"pendiente", "saldada"}
  BY <1>1, <1>10, TableTypes DEF DebtRows
<1> QED
  BY <1>5, <1>6, <1>7, <1>8, <1>9, <1>10, DebtShapes DEF DebtShape

-----------------------------------------------------------------------------
(* The catalog. *)

\* The rest of a request to the catalog.
LEMMA CatalogStays ==
    ASSUME IInv, HistInd, ConsInd, NEW o \in CatReqs, UNCHANGED saleVars, UNCHANGED debtVars,
           cpc' = [cpc EXCEPT ![o] = cpc'[o]], cpc'[o] = "record" => CatOp[o].kind = "restock"
    PROVE  /\ TablesFinite' /\ UNCHANGED <<sales, debts>>
           /\ (\A r \in SaleReqs : HasNoLines(r)') /\ \A q \in CatReqs : RecordsRestock(q)'
           /\ \A u \in Tx \ {o}, x \in Products : Taken(u, x)' = Taken(u, x)
           /\ \A x \in Products : Sold(x)' = Sold(x) /\ Owed(x)' = Owed(x)
           /\ \A x \in Products : movements'[x] = movements[x] => Gone(x)' = Gone(x)
           /\ cpc[o] # "record" => \A x \in Products : Taken(o, x) = 0
           /\ cpc'[o] # "record" => \A x \in Products : Taken(o, x)' = 0
           /\ \A x \in Products \ {CatOp[o].product} : Taken(o, x) = 0 /\ Taken(o, x)' = 0
<1>1. /\ UNCHANGED <<pc, lines, sales, dpc, debts>> /\ o \notin SaleReqs /\ o \notin DebtReqs
      /\ \A q \in CatReqs \ {o} : cpc'[q] = cpc[q]
      /\ ConsInd
  BY RequestsAreDistinct, CatalogFacts DEF saleVars, requestVars, debtVars, debtReqVars, debtTables
<1>2. TablesFinite' /\ \A x \in Products : Sold(x)' = Sold(x) /\ Owed(x)' = Owed(x)
  BY <1>1 DEF ConsInd, TablesFinite, NewSales, Lent, Sold, Owed
<1>3. \A x \in Products : movements'[x] = movements[x] => Gone(x)' = Gone(x)
  BY <1>2 DEF Gone, Restocked
<1>4. (\A r \in SaleReqs : HasNoLines(r)') /\ \A q \in CatReqs : RecordsRestock(q)'
  BY <1>1 DEF ConsInd, HasNoLines, RecordsRestock
<1>5. \A u \in Tx \ {o}, x \in Products : Taken(u, x)' = Taken(u, x)
  BY <1>1, TakenByOthers
<1>6. /\ cpc[o] # "record" => \A x \in Products : Taken(o, x) = 0
      /\ cpc'[o] # "record" => \A x \in Products : Taken(o, x)' = 0
      /\ \A x \in Products \ {CatOp[o].product} : Taken(o, x) = 0 /\ Taken(o, x)' = 0
  BY <1>1 DEF Taken
<1> QED
  BY <1>1, <1>2, <1>3, <1>4, <1>5, <1>6

\* A committed write of the row that o has locked, or that nobody has.
LEMMA WriteKeepsGoods ==
    ASSUME IInv, HistInd, ConsInd, NEW o \in CatReqs, NEW p \in Products, p = CatOp[o].product,
           NEW new \in Row, CatWrite(o, p, new), new.state # "absent", owner[p] \in {o, NoTx},
           UNCHANGED saleVars, UNCHANGED debtVars,
           \A x \in Products \ {p} : audits'[x] = audits[x] /\ movements'[x] = movements[x],
           new.stock + Gone(p)' = audits'[p][1].after.stock
    PROVE  ConsInd'
<1>1. /\ cpc' = [cpc EXCEPT ![o] = cpc'[o]] /\ cpc'[o] = "done"
      /\ owner'[p] = NoTx /\ draft'[p] = new /\ row'[p] = new
      /\ \A x \in Products \ {p} : owner'[x] = owner[x] /\ draft'[x] = draft[x] /\ row'[x] = row[x]
  BY CatalogFacts DEF CatWrite, CatAnswer, CatGoto
<1>2. /\ \A u \in Tx \ {o}, x \in Products : Taken(u, x)' = Taken(u, x)
      /\ \A x \in Products : Taken(o, x)' = 0
      /\ \A x \in Products \ {p} : Gone(x)' = Gone(x) /\ Taken(o, x) = 0
  BY <1>1, CatalogStays
<1>3. DraftIsRow(p) /\ \A x \in Products \ {p} : DraftIsRow(x) /\ Balanced(x)
  BY DEF ConsInd, GoodsOK
<1>4. DraftIsRow(p)' /\ Balanced(p)'
  BY <1>1, <1>2, <1>3, GoodsFacts DEF DraftIsRow, Balanced
<1>5. ASSUME NEW x \in Products \ {p} PROVE DraftIsRow(x)' /\ Balanced(x)'
  <2>1. PICK u \in Tx \cup {NoTx} : u = owner[x]
    BY GoodsFacts
  <2>2. \A t \in Tx : Taken(t, x)' = Taken(t, x)
    BY <1>2
  <2>3. DraftIsRow(x)'
    BY <1>1, <1>3, <2>1, <2>2 DEF DraftIsRow
  <2>4. Balanced(x)'
    BY <1>1, <1>2, <1>3 DEF Balanced
  <2> QED BY <2>3, <2>4
<1>6. GoodsOK'
  BY <1>4, <1>5 DEF GoodsOK
<1> QED
  BY <1>1, <1>6, CatalogStays DEF ConsInd

\* What o sees of the row that it has locked.
LEMMA LockedRow ==
    ASSUME IInv, HistInd, ConsInd, NEW o \in CatReqs, NEW p \in Products, p = CatOp[o].product,
           cpc[o] \in {"locked", "record"}
    PROVE  /\ owner[p] = o /\ row[p].state # "absent" /\ View(o, p) \in Row
           /\ View(o, p).state = row[p].state
           /\ View(o, p).stock = row[p].stock - Taken(o, p)
           /\ audits[p] # << >> /\ row[p].stock + Gone(p) = audits[p][1].after.stock
<1>1. owner[p] = o /\ o # NoTx /\ TakenOnly(p) /\ Trail(p) /\ DraftIsRow(p) /\ Balanced(p)
  BY CatalogFacts DEF HistInd, RowsInd, HoldsItsRow, ConsInd, GoodsOK
<1>2. row[p].state # "absent" /\ draft[p].state = row[p].state /\ draft[p] \in Row
  BY <1>1, CatalogFacts DEF TakenOnly
<1> QED
  BY <1>1, <1>2 DEF View, DraftIsRow, Balanced, Trail

LEMMA FirstStays ==
    ASSUME NEW S, NEW a \in Seq(S), a # << >>, NEW e
    PROVE  Append(a, e)[1] = a[1]
<1>1. 1 \in 1..Len(a)
  OBVIOUS
<1> QED
  BY <1>1, Grows

LEMMA CatKeepsGoods ==
    ASSUME IInv, HistInd, ConsInd, NEW o \in CatReqs, CatStep(o),
           UNCHANGED saleVars, UNCHANGED debtVars
    PROVE  ConsInd'
<1> DEFINE p == CatOp[o].product
<1>1. /\ p \in Products /\ o \in Tx
      /\ cpc \in [CatReqs -> {"away", "idle", "locked", "increment", "record", "done"}]
      /\ audits \in [Products -> Seq([before : Row, after : Row])]
      /\ \A v \in Row : v.stock \in Int
      /\ \A x \in Products : Gone(x) \in Int /\ Sold(x) \in Int /\ Owed(x) \in Int
                                                                 /\ Restocked(x) \in Int
  BY CatalogFacts, SumsAreInts DEF ConsInd
<1> HIDE DEF p
<1>2. ASSUME UNCHANGED <<audits, movements>>, cpc' = [cpc EXCEPT ![o] = cpc'[o]],
             cpc'[o] = "record" => CatOp[o].kind = "restock",
             \/ Keeps(o) \/ GivesUp(o)
             \/ \E x \in Products, n \in Int, new \in Row : Takes(o, x, n, new)
      PROVE  ConsInd'
  <2>1. GoodsOK'
    BY <1>1, <1>2, CatalogStays, GoodsStay
  <2> QED BY <1>2, <2>1, CatalogStays DEF ConsInd
<1>3. ASSUME NEW code, CatReject(o, code)
      PROVE  ConsInd'
  <2>1. /\ UNCHANGED <<audits, movements>> /\ cpc' = [cpc EXCEPT ![o] = cpc'[o]] /\ cpc'[o] = "done"
        /\ RollbackRows(o)
    BY <1>1, <1>3 DEF CatReject, CatAnswer, CatGoto
  <2>2. GivesUp(o)
    BY <2>1, CatalogStays DEF GivesUp
  <2> QED BY <1>2, <2>1, <2>2
<1>4. CASE Create(o)
  <2> DEFINE op == CatOp[o]
             new == [state |-> "active", price |-> op.price, cost |-> op.cost,
                     stock |-> IF op.product \in Unica THEN 1 ELSE op.stock]
  <2>1. CASE CatWrite(o, p, new) /\ AppendAudit(p, NoRow, new) /\ UNCHANGED movements
    <3>1. row[p].state = "absent" /\ TakenOnly(p) /\ Trail(p) /\ Balanced(p) /\ op.kind = "create"
      BY <1>1, <1>4 DEF Create, HistInd, RowsInd, ConsInd, GoodsOK, p
    <3>2. owner[p] = NoTx /\ audits[p] = << >> /\ Gone(p) = 0
      BY <3>1 DEF TakenOnly, Trail, Balanced
    <3>3. new \in Row /\ new.state # "absent"
      BY <3>1, OpFacts DEF Row
    <3> HIDE DEF new
    <3>4. /\ audits'[p] = Append(audits[p], Audit(NoRow, new))
          /\ \A x \in Products \ {p} : audits'[x] = audits[x] /\ movements'[x] = movements[x]
      BY <1>1, <2>1 DEF AppendAudit
    <3>5. audits'[p][1].after = new
      BY <3>2, <3>4 DEF Audit
    <3>6. cpc' = [cpc EXCEPT ![o] = cpc'[o]] /\ cpc'[o] = "done"
      BY <1>1, <2>1 DEF CatWrite, CatAnswer, CatGoto
    <3>7. Gone(p)' = 0
      BY <1>1, <2>1, <3>2, <3>6, CatalogStays
    <3>8. new.stock + Gone(p)' = audits'[p][1].after.stock
      BY <1>1, <3>3, <3>5, <3>7
    <3> QED BY <1>1, <2>1, <3>2, <3>3, <3>4, <3>8, WriteKeepsGoods DEF p
  <2> QED BY <1>3, <1>4, <2>1 DEF Create, p
<1>5. CASE LockRow(o)
  <2>1. CASE LockFree(o, p) /\ WriteRow(o, p, View(o, p)) /\ CatGoto(o, "locked")
             /\ UNCHANGED <<audits, movements>>
    <3>1. cpc' = [cpc EXCEPT ![o] = cpc'[o]] /\ cpc'[o] = "locked" /\ cpc[o] = "idle"
      BY <1>1, <1>5, <2>1 DEF CatGoto, LockRow
    <3>2. PICK v \in Row : v = View(o, p)
      BY <1>1, ViewOK DEF IInv, Writable
    <3>3. \A x \in Products : Taken(o, x) = 0 /\ Taken(o, x)' = 0 /\ Gone(x)' = Gone(x)
      BY <2>1, <3>1, CatalogStays
    <3>4. v.stock = View(o, p).stock - 0
      BY <1>1, <3>2
    <3>5. Takes(o, p, 0, v)
      BY <1>1, <2>1, <3>2, <3>3, <3>4 DEF Takes
    <3> QED BY <1>1, <1>2, <2>1, <3>1, <3>5
  <2> QED BY <1>3, <1>5, <2>1 DEF LockRow, p
<1>6. CASE Patch(o)
  <2> DEFINE op == CatOp[o]
             before == View(o, p)
             after == [before EXCEPT !.price = IF op.price = Keep THEN @ ELSE op.price,
                                     !.cost  = IF op.cost = Keep THEN @ ELSE op.cost]
  <2>1. CASE CatWrite(o, p, after) /\ AppendAudit(p, before, after) /\ UNCHANGED movements
    <3>1. cpc[o] = "locked" /\ op.kind = "patch"
      BY <1>6 DEF Patch
    <3>2. cpc' = [cpc EXCEPT ![o] = cpc'[o]] /\ cpc'[o] = "done"
      BY <1>1, <2>1 DEF CatWrite, CatAnswer, CatGoto
    <3>3. /\ owner[p] = o /\ before \in Row /\ before.state # "absent" /\ before.stock = row[p].stock
          /\ audits[p] # << >> /\ row[p].stock + Gone(p) = audits[p][1].after.stock
          /\ row[p].stock \in Int
      <4>1. Taken(o, p) = 0 /\ row[p].stock \in Int
        BY <1>1, <3>1, <3>2, CatalogStays, CatalogFacts
      <4> QED BY <1>1, <3>1, <4>1, LockedRow DEF p
    <3>4. after \in Row /\ after.state # "absent" /\ after.stock = row[p].stock
      BY <3>1, <3>3, OpFacts DEF Row
    <3> HIDE DEF after, before
    <3>5. /\ audits'[p] = Append(audits[p], Audit(before, after))
          /\ \A x \in Products \ {p} : audits'[x] = audits[x] /\ movements'[x] = movements[x]
      BY <1>1, <2>1 DEF AppendAudit
    <3>6. audits'[p][1] = audits[p][1]
      BY <1>1, <3>3, <3>5, FirstStays
    <3>7. Gone(p)' = Gone(p)
      BY <1>1, <2>1, <3>2, CatalogStays
    <3> QED BY <1>1, <2>1, <3>3, <3>4, <3>5, <3>6, <3>7, WriteKeepsGoods DEF p
  <2> QED BY <1>3, <1>6, <2>1 DEF Patch, p
<1>7. ASSUME NEW target \in {"active", "inactive"}, cpc[o] = "locked",
             CatWrite(o, p, [View(o, p) EXCEPT !.state = target]), UNCHANGED <<audits, movements>>
      PROVE  ConsInd'
  <2> DEFINE new == [View(o, p) EXCEPT !.state = target]
  <2>1. cpc' = [cpc EXCEPT ![o] = cpc'[o]] /\ cpc'[o] = "done"
    BY <1>1, <1>7 DEF CatWrite, CatAnswer, CatGoto
  <2>2. /\ owner[p] = o /\ View(o, p) \in Row /\ View(o, p).stock = row[p].stock
        /\ row[p].stock + Gone(p) = audits[p][1].after.stock /\ row[p].stock \in Int
    <3>1. Taken(o, p) = 0 /\ row[p].stock \in Int
      BY <1>1, <1>7, <2>1, CatalogStays, CatalogFacts
    <3> QED BY <1>1, <1>7, <3>1, LockedRow DEF p
  <2>3. new \in Row /\ new.state # "absent" /\ new.stock = row[p].stock
    BY <2>2 DEF Row
  <2>4. CatWrite(o, p, new)
    BY <1>7
  <2> HIDE DEF new
  <2>5. Gone(p)' = Gone(p)
    BY <1>1, <1>7, <2>1, CatalogStays
  <2> QED BY <1>1, <1>7, <2>2, <2>3, <2>4, <2>5, WriteKeepsGoods DEF p
<1>8. CASE SetActive(o)
  BY <1>3, <1>7, <1>8 DEF SetActive, p
<1>9. CASE RestockAuthorize(o)
  <2>1. CASE CatGoto(o, "increment") /\ UNCHANGED <<rowVars, audits, movements>>
    <3>1. cpc' = [cpc EXCEPT ![o] = cpc'[o]] /\ cpc'[o] = "increment" /\ cpc[o] = "idle"
      BY <1>1, <1>9, <2>1 DEF CatGoto, RestockAuthorize
    <3>2. Keeps(o)
      BY <1>1, <2>1, <3>1, CatalogStays DEF Keeps
    <3> QED BY <1>2, <2>1, <3>1, <3>2
  <2> QED BY <1>3, <1>9, <2>1 DEF RestockAuthorize
<1>10. CASE RestockIncrement(o)
  <2> DEFINE n == CatOp[o].qty
  <2>1. CASE /\ LockFree(o, p) /\ WriteRow(o, p, [View(o, p) EXCEPT !.stock = @ + n])
             /\ CatGoto(o, "record") /\ UNCHANGED <<audits, movements>>
    <3>1. /\ cpc' = [cpc EXCEPT ![o] = cpc'[o]] /\ cpc'[o] = "record" /\ cpc[o] = "increment"
          /\ CatOp[o].kind = "restock"
      BY <1>1, <1>10, <2>1 DEF CatGoto, RestockIncrement
    <3>2. PICK v \in Row : v = View(o, p)
      BY <1>1, ViewOK DEF IInv, Writable
    <3>3. n \in Int /\ 0 - n \in Int
      BY <3>1, OpFacts
    <3> DEFINE new == [v EXCEPT !.stock = @ + n]
    <3>4. new \in Row /\ new.stock = v.stock - (0 - n)
      BY <3>2, <3>3 DEF Row
    <3>5. WriteRow(o, p, new)
      BY <2>1, <3>2
    <3> HIDE DEF new
    <3>6. Taken(o, p) = 0 /\ Taken(o, p)' = 0 - n
      <4>1. o \notin SaleReqs /\ o \notin DebtReqs
        BY RequestsAreDistinct
      <4> QED BY <3>1, <4>1 DEF Taken, p
    <3>7. \A x \in Products \ {p} : Taken(o, x)' = Taken(o, x)
      BY <3>1, CatalogStays DEF p
    <3>8. \A x \in Products : Gone(x)' = Gone(x)
      BY <2>1, <3>1, CatalogStays
    <3>9. Takes(o, p, 0 - n, new)
      BY <2>1, <3>2, <3>3, <3>4, <3>5, <3>6, <3>7, <3>8 DEF Takes
    <3> QED BY <1>1, <1>2, <2>1, <3>1, <3>3, <3>4, <3>9
  <2> QED BY <1>3, <1>10, <2>1 DEF RestockIncrement, p
<1>11. CASE RestockRecord(o)
  <2> DEFINE op == CatOp[o]
             before == caudit[o]
             v == View(o, p)
             cost == NextProductCost(before.stock, before.cost, op.qty, op.cost)
             after == [v EXCEPT !.cost = IF cost = Null THEN @ ELSE cost]
             m == [qty |-> op.qty, before |-> before.stock, after |-> after.stock]
  <2>1. /\ CatWrite(o, p, after) /\ AppendAudit(p, before, after) /\ cpc[o] = "record"
        /\ movements' = [movements EXCEPT ![p] = Append(movements[p], m)] /\ op.kind = "restock"
    BY <1>11 DEF RestockRecord, p
  <2>2. cpc' = [cpc EXCEPT ![o] = cpc'[o]] /\ cpc'[o] = "done"
    BY <1>1, <2>1 DEF CatWrite, CatAnswer, CatGoto
  <2>3. Taken(o, p) = 0 - op.qty /\ op.qty \in Nat \ {0} /\ op.cost \in Nat \cup {Null}
    <3>1. o \notin SaleReqs /\ o \notin DebtReqs
      BY RequestsAreDistinct
    <3> QED BY <2>1, <3>1, OpFacts DEF Taken, p
  <2>4. /\ owner[p] = o /\ v \in Row /\ v.state # "absent" /\ v.stock = row[p].stock - Taken(o, p)
        /\ audits[p] # << >> /\ row[p].stock + Gone(p) = audits[p][1].after.stock
        /\ row[p].stock \in Int /\ v.stock \in Int
    <3>1. row[p].stock \in Int
      BY <1>1, CatalogFacts
    <3>2. /\ owner[p] = o /\ v \in Row /\ v.state = row[p].state /\ row[p].state # "absent"
          /\ v.stock = row[p].stock - Taken(o, p)
          /\ audits[p] # << >> /\ row[p].stock + Gone(p) = audits[p][1].after.stock
      BY <1>1, <2>1, LockedRow DEF p
    <3> HIDE DEF v
    <3> QED BY <1>1, <3>1, <3>2
  <2>5. before \in Row /\ before.stock \in Nat
    BY CatalogFacts, MaxMinorIsPositive DEF IInv, CatalogInd, CatHandlersOK, Writable
  <2>6. cost \in Nat \cup {Null}
    BY <2>3, <2>5, NextProductCostType DEF Row
  <2> HIDE DEF cost
  <2>7. after \in Row /\ after.state # "absent" /\ after.stock = v.stock
    BY <2>4, <2>6 DEF Row
  <2> HIDE DEF after
  <2>8. m \in [qty : Nat, before : Int, after : Int] /\ m.qty = op.qty
    BY <2>3, <2>4, <2>5, <2>7
  <2> HIDE DEF m
  <2>9. /\ audits'[p] = Append(audits[p], Audit(before, after))
        /\ \A x \in Products \ {p} : audits'[x] = audits[x] /\ movements'[x] = movements[x]
    BY <1>1, <2>1, CatalogFacts DEF AppendAudit
  <2>10. audits'[p][1] = audits[p][1]
    BY <1>1, <2>4, <2>9, FirstStays
  <2>11. Restocked(p)' = Restocked(p) + op.qty
    BY <1>1, <2>1, <2>8, RestockedGrows
  <2>12. Gone(p)' = Gone(p) - op.qty
    <3>1. Sold(p)' = Sold(p) /\ Owed(p)' = Owed(p)
      BY <1>1, <2>2, CatalogStays
    <3> QED BY <1>1, <2>3, <2>11, <3>1 DEF Gone
  <2>13. after.stock + Gone(p)' = audits'[p][1].after.stock
    <3> DEFINE start == audits[p][1].after.stock
    <3>1. start = row[p].stock + Gone(p) /\ audits'[p][1].after.stock = start
      BY <2>4, <2>10
    <3>2. after.stock = row[p].stock + op.qty
      BY <2>3, <2>4, <2>7
    <3>3. Gone(p) \in Int /\ row[p].stock \in Int /\ op.qty \in Int
      BY <1>1, <2>3, <2>4
    <3> HIDE DEF start
    <3> QED BY <2>12, <3>1, <3>2, <3>3
  <2> QED BY <1>1, <2>1, <2>4, <2>7, <2>9, <2>13, WriteKeepsGoods DEF p
<1> QED
  BY <1>3, <1>4, <1>5, <1>6, <1>8, <1>9, <1>10, <1>11 DEF CatStep, CatHandle, CatDrop

-----------------------------------------------------------------------------
(* Every step, and the theorem. *)

LEMMA ConservationInit ==
    ASSUME Init
    PROVE  ConsInd
<1>1. PICK arriving \in Arrivals : SalesInit(arriving) /\ CatInit(arriving) /\ DebtInit(arriving)
  BY DEF Init
<1>2. /\ sales = History /\ \A d \in DebtIds : debts[d] = NoDebt
      /\ \A p \in Products : owner[p] = NoTx /\ movements[p] = << >>
      /\ \A r \in SaleReqs : lines[r] = NoLines
      /\ \A o \in CatReqs : cpc[o] # "record"
      /\ \A r \in DebtReqs : dpc[r] # "insert"
  BY <1>1 DEF Init, SalesInit, CatInit, DebtInit, DebtUsers
<1>3. NewSales = {} /\ \A p \in Products : Lent(p) = {}
  BY <1>2 DEF NewSales, Lent
<1>4. TablesFinite
  BY <1>2, <1>3, FS_EmptySet DEF TablesFinite
<1>5. ASSUME NEW p \in Products PROVE Gone(p) = 0
  <2>1. Sold(p) = 0
    <3> DEFINE f == [i \in NewSales |-> sales[i].lines[p].qty]
    <3>1. Sold(p) = SumFunction(f) /\ DOMAIN f = {}
      BY <1>3 DEF Sold, NewSales
    <3> HIDE DEF f
    <3> QED BY <3>1, SumOfNone
  <2>2. Owed(p) = 0
    <3> DEFINE f == [d \in Lent(p) |-> debts[d].qty]
    <3>1. Owed(p) = SumFunction(f) /\ DOMAIN f = {}
      BY <1>3 DEF Owed, Lent
    <3> HIDE DEF f
    <3> QED BY <3>1, SumOfNone
  <2>3. Restocked(p) = 0
    <3> DEFINE f == [i \in DOMAIN movements[p] |-> movements[p][i].qty]
    <3>1. Restocked(p) = SumFunction(f) /\ DOMAIN f = {}
      BY <1>2 DEF Restocked
    <3> HIDE DEF f
    <3> QED BY <3>1, SumOfNone
  <2> QED BY <2>1, <2>2, <2>3 DEF Gone
<1>6. \A t \in Tx, p \in Products : Taken(t, p) = 0
  <2>1. \A p \in Products : NoLines[p].qty = 0
    BY DEF NoLines, NoLine
  <2> QED BY <1>2, <2>1 DEF Taken
<1>7. ASSUME NEW p \in Products PROVE Balanced(p)
  <2>1. audits[p] = IF row[p].state = "absent" THEN << >> ELSE <<Audit(NoRow, row[p])>>
    BY <1>1 DEF CatInit
  <2>2. row[p].stock \in Int
    BY InitOK DEF IInv, RowsOK, RowsTypeOK, Row
  <2> QED BY <1>5, <2>1, <2>2 DEF Balanced, Audit
<1> QED
  BY <1>2, <1>4, <1>6, <1>7 DEF ConsInd, GoodsOK, DraftIsRow, HasNoLines, RecordsRestock, NoLines, NoLine

LEMMA ConservationNext ==
    ASSUME IInv, HistInd, ConsInd, [Next]_vars
    PROVE  ConsInd'
<1>1. ASSUME NEW r \in SaleReqs, Sale(r) PROVE ConsInd'
  BY <1>1, SaleKeepsGoods DEF Sale
<1>2. ASSUME NEW o \in CatReqs, Management(o) PROVE ConsInd'
  BY <1>2, CatKeepsGoods DEF Management
<1>3. ASSUME NEW r \in DebtUsers, Credit(r) PROVE ConsInd'
  BY <1>3, DebtKeepsGoods DEF Credit
<1>4. CASE UNCHANGED <<rowVars, saleVars, catVars, debtVars>>
  <2>1. UNCHANGED <<row, draft, owner, pc, lines, sales, cpc, audits, movements, dpc, debts>>
    BY <1>4 DEF rowVars, saleVars, requestVars, catVars, debtVars, debtReqVars, debtTables
  <2>2. TablesFinite' /\ \A p \in Products : Gone(p)' = Gone(p)
    BY <2>1 DEF ConsInd, TablesFinite, NewSales, Lent, Gone, Sold, Owed, Restocked
  <2>3. \A t \in Tx, p \in Products : Taken(t, p)' = Taken(t, p)
    BY <2>1, TakenByOthers
  <2>4. GoodsOK'
    BY <2>1, <2>2, <2>3, GoodsFacts DEF ConsInd, GoodsOK, DraftIsRow, Balanced
  <2> QED BY <2>1, <2>2, <2>4 DEF ConsInd, HasNoLines, RecordsRestock
<1> QED
  BY <1>1, <1>2, <1>3, <1>4 DEF Next, Authority, Finished, vars

LEMMA ConservationInvariant == Spec => []ConsInd
<1>1. Init => ConsInd
  BY ConservationInit
<1>2. IInv /\ HistInd /\ ConsInd /\ [Next]_vars => ConsInd'
  BY ConservationNext
<1> QED BY <1>1, <1>2, Invariant, HistoryInvariant, PTL DEF Spec

(* What a product started with and was restocked with is on the shelf, in  *)
(* a completed sale or in a debt: no retry applies twice, no transaction   *)
(* is half applied and no update is lost between SalesService.create,      *)
(* DeudasService.create and ProductsService.restock.                       *)
THEOREM GoodsAreConserved == Spec => []StockConserved
<1>1. IInv /\ ConsInd => StockConserved
  <2> SUFFICES ASSUME IInv, ConsInd, NEW p \in Products, row[p].state # "absent"
               PROVE  row[p].stock + Sold(p) + Owed(p) = audits[p][1].after.stock + Restocked(p)
    BY DEF StockConserved
  <2>1. row[p].stock + Gone(p) = audits[p][1].after.stock
    BY DEF ConsInd, GoodsOK, Balanced
  <2>2. row[p].stock \in Int /\ Sold(p) \in Int /\ Owed(p) \in Int /\ Restocked(p) \in Int
    BY SumsAreInts DEF ConsInd, IInv, RowsOK, RowsTypeOK, Row
  <2> QED BY <2>1, <2>2 DEF Gone
<1> QED
  BY <1>1, Invariant, ConservationInvariant, PTL

-----------------------------------------------------------------------------
(* The terms of what is under way. *)

\* The units of p in the first n items.
Counted(items, n, p) ==
    SumFunction([i \in {j \in 1..n : items[j].product = p} |-> items[i].qty])

Cost(ls) == SumFunction([p \in Products |-> ls[p].qty * ls[p].price])

\* The lines of a sale under way are its items so far, at the terms of the
\* rows that it has locked.
LineOK(r, p) ==
    /\ lines[r][p].qty = Counted(Body[r].items, line[r] - 1, p)
    /\ IF lines[r][p].qty = 0 THEN lines[r][p] = NoLine ELSE SameTerms(lines[r][p], row[p])

LinesOK(r) ==
    IF InSale(r)
    THEN /\ pc[r] = "insert" => line[r] = Len(Body[r].items) + 1
         /\ \A p \in Products : LineOK(r, p)
         /\ total[r] = Cost(lines[r])
    ELSE lines[r] = NoLines /\ total[r] = 0

\* So is the total of a debt.
TermsOK(r) ==
    dpc[r] = "insert" => dterms[r].total = row[DebtBody[r].product].price * DebtBody[r].qty

\* What is being sold, lent or restocked is on sale.
OnSaleWhenLocked(p) ==
    /\ owner[p] \in SaleReqs \cup DebtReqs => row[p].state = "active"
    /\ owner[p] \in CatReqs => (cpc[owner[p]] = "record" => row[p].state = "active")

LedgerInd ==
    /\ \A r \in SaleReqs : LinesOK(r)
    /\ \A r \in DebtReqs : TermsOK(r)
    /\ \A p \in Products : OnSaleWhenLocked(p)

-----------------------------------------------------------------------------
(* Sums over the items and over the products. *)

LEMMA CountedNone ==
    ASSUME NEW items, NEW p
    PROVE  Counted(items, 0, p) = 0
<1> DEFINE f == [i \in {j \in 1..0 : items[j].product = p} |-> items[i].qty]
<1>1. DOMAIN f = {} /\ Counted(items, 0, p) = SumFunction(f)
  BY DEF Counted
<1> HIDE DEF f
<1> QED BY <1>1, SumOfNone

LEMMA CountedMore ==
    ASSUME NEW items \in Seq(Item), NEW n \in 0..(Len(items) - 1), NEW p
    PROVE  /\ Counted(items, n, p) \in Int
           /\ Counted(items, n + 1, p)
                 = Counted(items, n, p) + IF items[n + 1].product = p THEN items[n + 1].qty ELSE 0
<1> DEFINE S(m) == {j \in 1..m : items[j].product = p}
           f(m) == [i \in S(m) |-> items[i].qty]
<1>1. n \in Nat /\ n + 1 \in 1..Len(items) /\ Len(items) \in Nat
  OBVIOUS
<1>2. \A i \in 1..Len(items) : items[i] \in Item /\ items[i].qty \in Int
  <2>1. \A i \in 1..Len(items) : items[i] \in Item
    OBVIOUS
  <2> QED BY <2>1 DEF Item
<1>3. IsFiniteSet(S(n)) /\ \A i \in S(n + 1) : items[i].qty \in Int
  <2>1. IsFiniteSet(1..n)
    BY <1>1, FS_Interval
  <2> QED BY <1>1, <1>2, <2>1, FS_Subset
<1>4. S(n + 1) = (IF items[n + 1].product = p THEN S(n) \cup {n + 1} ELSE S(n)) /\ n + 1 \notin S(n)
  BY <1>1
<1>5. Counted(items, n, p) = SumFunction(f(n)) /\ Counted(items, n + 1, p) = SumFunction(f(n + 1))
  BY DEF Counted
<1>6. /\ DOMAIN f(n) = S(n) /\ DOMAIN f(n + 1) = S(n + 1)
      /\ \A i \in S(n) : f(n)[i] = items[i].qty
      /\ \A i \in S(n + 1) : f(n + 1)[i] = items[i].qty
  OBVIOUS
<1>7. S(n) \subseteq S(n + 1)
  BY <1>4
<1>8. Counted(items, n, p) \in Int
  <2> HIDE DEF S, f
  <2> QED BY <1>3, <1>5, <1>6, <1>7, SumIsInt
<1>9. CASE items[n + 1].product # p
  BY <1>4, <1>5, <1>8, <1>9
<1>10. CASE items[n + 1].product = p
  <2> HIDE DEF S, f
  <2>1. /\ IsFiniteSet(DOMAIN f(n)) /\ n + 1 \notin DOMAIN f(n)
        /\ DOMAIN f(n + 1) = DOMAIN f(n) \cup {n + 1}
        /\ \A i \in DOMAIN f(n) : f(n + 1)[i] = f(n)[i]
        /\ \A i \in DOMAIN f(n + 1) : f(n + 1)[i] \in Int
        /\ f(n + 1)[n + 1] = items[n + 1].qty
    BY <1>3, <1>4, <1>6, <1>7, <1>10
  <2>2. SumFunction(f(n + 1)) = SumFunction(f(n)) + items[n + 1].qty
    BY <2>1, SumGrows
  <2> QED BY <1>5, <1>10, <2>2, <1>8
<1> QED
  BY <1>8, <1>9, <1>10

LEMMA OrderCounted ==
    ASSUME NEW r \in SaleReqs, NEW p \in Products
    PROVE  OrderOf(Body[r])[p] = Counted(Body[r].items, Len(Body[r].items), p)
<1>1. DOMAIN Body[r].items = 1..Len(Body[r].items)
  BY BodyFacts
<1> QED
  BY <1>1 DEF OrderOf, Counted

LEMMA CostGrows ==
    ASSUME NEW ls \in Lines, NEW p \in Products, NEW d \in Int,
           NEW new \in [qty : Nat, price : Nat, cost : Nat \cup {Null}],
           new.qty * new.price = ls[p].qty * ls[p].price + d
    PROVE  Cost([ls EXCEPT ![p] = new]) = Cost(ls) + d
<1> DEFINE ls2 == [ls EXCEPT ![p] = new]
           f == [x \in Products |-> ls[x].qty * ls[x].price]
           g == [x \in Products |-> ls2[x].qty * ls2[x].price]
<1>1. ls2 \in Lines /\ ls2[p] = new /\ \A x \in Products \ {p} : ls2[x] = ls[x]
  BY DEF Lines
<1> HIDE DEF ls2
<1>2. \A x \in Products : f[x] \in Int /\ g[x] \in Int
  <2>1. \A x \in Products : /\ ls[x].qty \in Nat /\ ls[x].price \in Nat
                            /\ ls2[x].qty \in Nat /\ ls2[x].price \in Nat
    BY <1>1 DEF Lines
  <2>2. \A m, n \in Nat : m * n \in Int
    OBVIOUS
  <2> QED BY <2>1, <2>2
<1>3. g[p] = f[p] + d /\ \A x \in Products \ {p} : f[x] = g[x]
  BY <1>1
<1>4. /\ Cost(ls) = SumFunctionOnSet(f, Products) /\ Cost(ls2) = SumFunctionOnSet(g, Products)
  BY DEF Cost, SumFunction
<1> HIDE DEF f, g
<1>5. SumFunctionOnSet(g, Products) = SumFunctionOnSet(f, Products) - f[p] + g[p]
  BY <1>2, <1>3, ProductsAreFinite, SumChange
<1>6. SumFunctionOnSet(f, Products) \in Int
  BY <1>2, ProductsAreFinite, SumInt
<1> QED
  BY <1>2, <1>3, <1>4, <1>5, <1>6 DEF ls2

LEMMA CostOfNone == Cost(NoLines) = 0
<1> DEFINE f == [p \in Products |-> NoLines[p].qty * NoLines[p].price]
<1>1. DOMAIN f = Products /\ \A p \in Products : f[p] = 0
  BY DEF NoLines, NoLine
<1>2. Cost(NoLines) = SumFunction(f)
  BY DEF Cost
<1> HIDE DEF f
<1> QED BY <1>1, <1>2, SumOfZeros, ProductsAreFinite

-----------------------------------------------------------------------------
(* Rows that somebody has locked. *)

\* A step of t leaves the rows alone that another transaction has locked.
Spares(t) ==
    \A p \in Products : owner[p] \notin {t, NoTx} => row'[p] = row[p] /\ owner'[p] = owner[p]

LEMMA OtherRowsAreSpared ==
    ASSUME IInv, NEW t \in Tx, OtherRowStep(t)
    PROVE  Spares(t)
<1>1. row \in [Products -> Row] /\ owner \in [Products -> Tx \cup {NoTx}]
  BY DEF IInv, RowsOK, RowsTypeOK
<1> QED
  BY <1>1 DEF OtherRowStep, TakesUnits, Spares, rowVars, CommitRows, RollbackRows, Release, View,
              WriteRow, LockFree

\* What a committed write of the catalog makes of a row: a new product, other
\* terms, on sale or not, or the units of a restock.
Rewrites(o, p, new) ==
    \/ row[p].state = "absent" /\ new.state = "active"
    \/ row[p].state # "absent" /\ new.state = row[p].state /\ new.stock = row[p].stock
    \/ row[p].state # "absent" /\ \E st \in {"active", "inactive"} : new = [row[p] EXCEPT !.state = st]
    \/ /\ cpc[o] = "record" /\ CatOp[o].kind = "restock"
       /\ new = [row[p] EXCEPT !.stock = @ + CatOp[o].qty, !.cost = new.cost]

CatMoves(o) == cpc' = [cpc EXCEPT ![o] = cpc'[o]]

CatShape(o, p) ==
    /\ CatMoves(o)
    /\ \/ UNCHANGED rowVars /\ cpc[o] = "idle" /\ cpc'[o] = "increment"
       \/ RollbackRows(o) /\ cpc'[o] = "done"
       \/ /\ LockFree(o, p) /\ \E new \in Row : WriteRow(o, p, new)
          /\ cpc[o] \in {"idle", "increment"} /\ cpc'[o] \in {"locked", "record"}
          /\ cpc'[o] = "record" => row[p].state = "active"
       \/ /\ owner[p] \in {o, NoTx} /\ cpc'[o] = "done"
          /\ \E new \in Row : CatWrite(o, p, new) /\ new.state # "absent" /\ Rewrites(o, p, new)

LEMMA RowsEqual ==
    ASSUME NEW v \in Row, NEW w \in Row, v.state = w.state, v.stock = w.stock, SameTerms(v, w)
    PROVE  v = w
BY DEF Row, SameTerms

LEMMA CatShapes ==
    ASSUME IInv, HistInd, ConsInd, NEW o \in CatReqs, NEW p \in Products, p = CatOp[o].product,
           CatStep(o)
    PROVE  CatShape(o, p)
<1>1. /\ cpc \in [CatReqs -> {"away", "idle", "locked", "increment", "record", "done"}]
      /\ row[p] \in Row /\ row[p].stock \in Int
  BY CatalogFacts
<1>2. ASSUME NEW where, CatGoto(o, where) PROVE CatMoves(o) /\ cpc'[o] = where
  BY <1>1, <1>2 DEF CatGoto, CatMoves
<1>3. ASSUME NEW code, CatReject(o, code) PROVE CatShape(o, p)
  BY <1>2, <1>3 DEF CatReject, CatAnswer, CatShape
<1>4. ASSUME owner[p] \in {o, NoTx}, NEW new \in Row, CatWrite(o, p, new), new.state # "absent",
             Rewrites(o, p, new)
      PROVE  CatShape(o, p)
  <2>1. CatMoves(o) /\ cpc'[o] = "done"
    BY <1>2, <1>4 DEF CatWrite, CatAnswer
  <2> QED BY <1>4, <2>1 DEF CatShape
<1>5. ASSUME LockFree(o, p), NEW new \in Row, WriteRow(o, p, new), cpc[o] \in {"idle", "increment"},
             NEW where \in {"locked", "record"}, CatGoto(o, where),
             where = "record" => row[p].state = "active"
      PROVE  CatShape(o, p)
  <2>1. CatMoves(o) /\ cpc'[o] = where
    BY <1>2, <1>5
  <2> QED BY <1>5, <2>1 DEF CatShape
<1>6. View(o, p) \in Row /\ SameTerms(View(o, p), row[p]) /\ View(o, p).state = row[p].state
  BY Seen
<1>7. cpc[o] = "locked" => owner[p] = o /\ row[p].state # "absent" /\ View(o, p).stock = row[p].stock
  <2>1. cpc[o] = "locked" => Taken(o, p) = 0
    BY RequestsAreDistinct DEF Taken
  <2> QED BY <1>1, <2>1, LockedRow
<1>8. CASE Create(o)
  <2> DEFINE op == CatOp[o]
             new == [state |-> "active", price |-> op.price, cost |-> op.cost,
                     stock |-> IF op.product \in Unica THEN 1 ELSE op.stock]
  <2>1. CASE CatWrite(o, p, new)
    <3>1. row[p].state = "absent" /\ TakenOnly(p) /\ op.kind = "create"
      BY <1>8 DEF Create, HistInd, RowsInd
    <3>2. owner[p] = NoTx
      BY <3>1 DEF TakenOnly
    <3>3. new \in Row /\ new.state = "active"
      BY <3>1, OpFacts DEF Row
    <3> HIDE DEF new
    <3> QED BY <1>4, <2>1, <3>1, <3>2, <3>3 DEF Rewrites
  <2> QED BY <1>3, <1>8, <2>1 DEF Create
<1>9. CASE LockRow(o)
  BY <1>3, <1>5, <1>6, <1>9 DEF LockRow
<1>10. CASE Patch(o)
  <2> DEFINE op == CatOp[o]
             v == View(o, p)
             new == [v EXCEPT !.price = IF op.price = Keep THEN @ ELSE op.price,
                              !.cost  = IF op.cost = Keep THEN @ ELSE op.cost]
  <2>1. CASE CatWrite(o, p, new)
    <3>1. op.kind = "patch" /\ cpc[o] = "locked"
      BY <1>10 DEF Patch
    <3>2. new \in Row /\ new.state = row[p].state /\ new.stock = row[p].stock
      BY <1>6, <1>7, <3>1, OpFacts DEF Row
    <3> HIDE DEF new
    <3> QED BY <1>4, <1>7, <2>1, <3>1, <3>2 DEF Rewrites
  <2> QED BY <1>3, <1>10, <2>1 DEF Patch
<1>11. ASSUME NEW st \in {"active", "inactive"}, cpc[o] = "locked",
              CatWrite(o, p, [View(o, p) EXCEPT !.state = st])
       PROVE  CatShape(o, p)
  <2>1. View(o, p) = row[p]
    BY <1>1, <1>6, <1>7, <1>11, RowsEqual
  <2> DEFINE new == [row[p] EXCEPT !.state = st]
  <2>2. new \in Row /\ new.state = st
    BY <1>1 DEF Row
  <2>3. CatWrite(o, p, new)
    BY <1>11, <2>1
  <2>4. Rewrites(o, p, new)
    BY <1>7, <1>11 DEF Rewrites
  <2> HIDE DEF new
  <2> QED BY <1>4, <1>7, <1>11, <2>2, <2>3, <2>4
<1>12. CASE SetActive(o)
  BY <1>3, <1>11, <1>12 DEF SetActive
<1>13. CASE RestockAuthorize(o)
  BY <1>2, <1>3, <1>13 DEF RestockAuthorize, CatShape
<1>14. CASE RestockIncrement(o)
  <2> DEFINE n == CatOp[o].qty
             new == [View(o, p) EXCEPT !.stock = @ + n]
  <2>1. CASE /\ View(o, p).state = "active" /\ LockFree(o, p) /\ WriteRow(o, p, new)
             /\ CatGoto(o, "record")
    <3>1. CatOp[o].kind = "restock" /\ cpc[o] = "increment"
      BY <1>14 DEF RestockIncrement
    <3>2. new \in Row
      BY <1>6, <3>1, OpFacts DEF Row
    <3> HIDE DEF new
    <3> QED BY <1>5, <1>6, <2>1, <3>1, <3>2
  <2> QED BY <1>3, <1>14, <2>1 DEF RestockIncrement
<1>15. CASE RestockRecord(o)
  <2> DEFINE op == CatOp[o]
             before == caudit[o]
             v == View(o, p)
             cost == NextProductCost(before.stock, before.cost, op.qty, op.cost)
             new == [v EXCEPT !.cost = IF cost = Null THEN @ ELSE cost]
  <2>1. op.kind = "restock" /\ cpc[o] = "record" /\ CatWrite(o, p, new)
    BY <1>15 DEF RestockRecord
  <2>2. op.qty \in Nat /\ op.cost \in Nat \cup {Null} /\ Taken(o, p) = 0 - op.qty
    BY <2>1, OpFacts, RequestsAreDistinct DEF Taken
  <2>3. owner[p] = o /\ row[p].state # "absent" /\ v.stock = row[p].stock + op.qty
    <3>1. owner[p] = o /\ row[p].state # "absent" /\ v.stock = row[p].stock - Taken(o, p)
      BY <2>1, LockedRow
    <3> HIDE DEF v
    <3> QED BY <1>1, <2>2, <3>1
  <2>4. cost \in Nat \cup {Null}
    <3>1. before \in Row /\ before.stock \in Nat
      BY CatalogFacts, MaxMinorIsPositive DEF IInv, CatalogInd, CatHandlersOK, Writable
    <3> QED BY <2>1, <3>1, OpFacts, NextProductCostType DEF Row
  <2> HIDE DEF cost
  <2> DEFINE to == [row[p] EXCEPT !.stock = @ + op.qty, !.cost = new.cost]
  <2>5. new \in Row /\ new.state = row[p].state /\ new.price = row[p].price /\ new.stock = row[p].stock + op.qty
    BY <1>6, <2>3, <2>4 DEF Row, SameTerms
  <2>6. new = to
    <3> HIDE DEF new
    <3>1. to \in Row /\ to.state = new.state /\ to.price = new.price /\ to.cost = new.cost /\ to.stock = new.stock
      BY <1>1, <2>2, <2>5 DEF Row
    <3> HIDE DEF to
    <3> QED BY <2>5, <3>1, RowsEqual DEF SameTerms
  <2>7. Rewrites(o, p, new)
    <3> HIDE DEF new
    <3> QED BY <2>1, <2>6 DEF Rewrites
  <2> HIDE DEF new
  <2> QED BY <1>4, <2>1, <2>3, <2>5, <2>7
<1> QED
  BY <1>3, <1>8, <1>9, <1>10, <1>12, <1>13, <1>14, <1>15 DEF CatStep, CatHandle, CatDrop

LEMMA CatalogSparesRows ==
    ASSUME IInv, HistInd, ConsInd, NEW o \in CatReqs, NEW p \in Products, p = CatOp[o].product,
           CatStep(o)
    PROVE  Spares(o) /\ \A x \in Products \ {p} : row'[x] = row[x]
<1>1. /\ row \in [Products -> Row] /\ owner \in [Products -> Tx \cup {NoTx}] /\ CatShape(o, p)
  BY CatalogFacts, CatShapes
<1> QED
  BY <1>1 DEF CatShape, RollbackRows, Release, Spares, WriteRow, LockFree, CatWrite, rowVars

\* The row as a lock holder, or one who may lock it, sees it.
LEMMA ViewTerms ==
    ASSUME IInv, HistInd, NEW t \in Tx \ CatReqs, NEW p \in Products
    PROVE  /\ View(t, p) \in Row /\ SameTerms(View(t, p), row[p]) /\ View(t, p).state = row[p].state
           /\ row[p] \in Row /\ draft[p] \in Row /\ owner[p] \in Tx \cup {NoTx} /\ t # NoTx
<1>1. /\ row[p] \in Row /\ draft[p] \in Row /\ owner[p] \in Tx \cup {NoTx} /\ t # NoTx
      /\ TakenOnly(p)
  BY NoTxIsNotATx DEF IInv, RowsOK, RowsTypeOK, HistInd, RowsInd
<1> QED
  BY <1>1 DEF View, TakenOnly, SameTerms

-----------------------------------------------------------------------------
(* What is under way stays as it is while others make a step ... *)

LEMMA LinesStay ==
    ASSUME IInv, ConsInd, NEW t \in Tx, Spares(t), NEW u \in SaleReqs \ {t}, LinesOK(u),
           pc'[u] = pc[u], line'[u] = line[u], lines'[u] = lines[u], total'[u] = total[u]
    PROVE  LinesOK(u)'
<1>1. ASSUME NEW p \in Products, lines[u][p].qty # 0 PROVE row'[p] = row[p]
  <2>1. Taken(u, p) # 0 /\ u \in Tx
    BY <1>1, SaleReqsAreTx DEF Taken
  <2>2. owner[p] = u /\ u # NoTx
    BY <2>1, NoTxIsNotATx DEF ConsInd, GoodsOK, DraftIsRow
  <2> QED BY <2>2 DEF Spares
<1> QED
  BY <1>1 DEF LinesOK, LineOK, InSale, SameTerms

LEMMA TermsStay ==
    ASSUME IInv, ConsInd, NEW t \in Tx, Spares(t), NEW u \in DebtReqs \ {t}, TermsOK(u),
           dpc'[u] = dpc[u], dterms'[u] = dterms[u]
    PROVE  TermsOK(u)'
<1>1. ASSUME dpc[u] = "insert" PROVE row'[DebtBody[u].product] = row[DebtBody[u].product]
  <2> DEFINE p == DebtBody[u].product
  <2>1. p \in Products /\ DebtBody[u].qty # 0 /\ u \in Tx /\ u \notin SaleReqs
    BY DebtBodyFacts, RequestsAreDistinct
  <2>2. Taken(u, p) # 0
    BY <1>1, <2>1 DEF Taken
  <2>3. owner[p] = u /\ u # NoTx
    BY <2>1, <2>2, NoTxIsNotATx DEF ConsInd, GoodsOK, DraftIsRow
  <2> QED BY <2>1, <2>3 DEF Spares
<1> QED
  BY <1>1 DEF TermsOK

LEMMA OnSaleStays ==
    ASSUME IInv, NEW t \in Tx, Spares(t), \A p \in Products : OnSaleWhenLocked(p),
           \A o \in CatReqs \ {t} : cpc'[o] = cpc[o],
           \A p \in Products : owner[p] \in {t, NoTx} =>
              \/ owner'[p] = NoTx
              \/ /\ owner'[p] = t
                 /\ \/ row'[p].state = "active"
                    \/ t \notin SaleReqs \cup DebtReqs /\ (t \in CatReqs => cpc'[t] # "record")
    PROVE  \A p \in Products : OnSaleWhenLocked(p)'
<1>1. \A p \in Products : owner[p] \in Tx \cup {NoTx}
  BY DEF IInv, RowsOK, RowsTypeOK
<1>2. NoTx \notin SaleReqs \cup DebtReqs \cup CatReqs /\ CatReqs \cap (SaleReqs \cup DebtReqs) = {}
  BY NoTxIsNotATx, TxIsEveryRequest, RequestsAreDistinct
<1> QED
  BY <1>1, <1>2 DEF OnSaleWhenLocked, Spares

(* ... and is as it should be after one of its own. *)

LEMMA TakenTerms ==
    ASSUME NEW a \in Nat, NEW q \in Nat, NEW price \in Nat
    PROVE  (a + q) * price = a * price + price * q
OBVIOUS

LEMMA TakingKeepsLines ==
    ASSUME IInv, HistInd, NEW r \in SaleReqs, LinesOK(r), pc[r] = "lock", TakeItem(r),
           pc'[r] = IF line[r] = Len(Body[r].items) THEN "insert" ELSE "read"
    PROVE  LinesOK(r)'
<1> DEFINE items == Body[r].items
<1>1. /\ line[r] \in 1..Len(items) /\ items \in Seq(Item) /\ Len(items) \in Nat
      /\ r \in Tx \ CatReqs /\ SalesInd
      /\ lines \in [SaleReqs -> Lines] /\ total \in [SaleReqs -> Nat] /\ line \in [SaleReqs -> Nat \ {0}]
  BY ItemFacts, BodyFacts, OthersAreNotCatalog DEF IInv, SalesInd, SalesTypeOK, HandlersTypeOK
<1>2. PICK p \in Products, q \in Nat \ {0} : p = Item0(r).product /\ q = Item0(r).qty
  BY <1>1, ItemFacts
<1>3. PICK v \in Row : v = View(r, p) /\ SameTerms(v, row[p])
  BY <1>1, ViewTerms
<1> DEFINE old == lines[r]
           new == [qty |-> old[p].qty + q, price |-> v.price, cost |-> v.cost]
           ls == [old EXCEPT ![p] = new]
           n == line[r] - 1
<1>4. /\ lines' = [lines EXCEPT ![r] = ls] /\ total' = [total EXCEPT ![r] = @ + v.price * q]
      /\ line' = [line EXCEPT ![r] = @ + 1] /\ UNCHANGED row
  BY <1>2, <1>3 DEF TakeItem, WriteRow
<1>5. lines'[r] = ls /\ total'[r] = total[r] + v.price * q /\ line'[r] = line[r] + 1
  BY <1>1, <1>4
<1>6. /\ old \in Lines /\ old[p].qty \in Nat /\ old[p].price \in Nat
      /\ v.price \in Nat /\ v.cost \in Nat \cup {Null}
  BY <1>1 DEF Lines, Row
<1>7. /\ new \in [qty : Nat, price : Nat, cost : Nat \cup {Null}]
      /\ new.qty = old[p].qty + q /\ new.price = v.price /\ new.cost = v.cost
  BY <1>2, <1>6
<1>8. ls[p] = new /\ \A x \in Products \ {p} : ls[x] = old[x]
  BY <1>6 DEF Lines
<1>9. InSale(r) /\ InSale(r)' /\ (pc'[r] = "insert" => line'[r] = Len(items) + 1)
  BY <1>5 DEF InSale
<1>10. (\A x \in Products : LineOK(r, x)) /\ total[r] = Cost(old)
  BY <1>9 DEF LinesOK
<1>11. /\ n \in 0..(Len(items) - 1) /\ n + 1 = line[r] /\ line'[r] - 1 = n + 1
       /\ items[n + 1].product = p /\ items[n + 1].qty = q
  BY <1>1, <1>2, <1>5 DEF Item0
<1> HIDE DEF new, ls, n, items
<1>12. \A x \in Products : /\ Counted(items, n, x) \in Int
                           /\ Counted(items, n + 1, x) = Counted(items, n, x) + IF p = x THEN q ELSE 0
  BY <1>1, <1>11, CountedMore
<1>13. \A x \in Products : old[x].qty = Counted(items, n, x)
  BY <1>10 DEF LineOK, n, items
<1>14. LineOK(r, p)'
  <2>1. ls[p].qty = Counted(items, n + 1, p) /\ ls[p].qty # 0 /\ SameTerms(ls[p], row[p])
    BY <1>3, <1>6, <1>7, <1>8, <1>12, <1>13, <1>2 DEF SameTerms
  <2> QED BY <1>4, <1>5, <1>11, <2>1 DEF LineOK, SameTerms, items
<1>15. ASSUME NEW x \in Products \ {p} PROVE LineOK(r, x)'
  <2>1. old[x].qty = Counted(items, n + 1, x)
    BY <1>12, <1>13
  <2> QED BY <1>4, <1>5, <1>8, <1>10, <1>11, <2>1 DEF LineOK, SameTerms, items
<1>16. new.qty * new.price = old[p].qty * old[p].price + v.price * q
  <2>1. CASE old[p].qty = 0
    <3>1. new.qty * new.price = q * v.price
      BY <1>7, <2>1, <1>2
    <3>2. old[p].qty * old[p].price = 0
      BY <1>6, <2>1
    <3>3. q * v.price = 0 + v.price * q
      BY <1>6, <1>2
    <3> QED BY <3>1, <3>2, <3>3
  <2>2. CASE old[p].qty # 0
    <3>1. old[p].price = v.price
      BY <1>3, <1>10, <2>2 DEF LineOK, SameTerms
    <3> QED BY <1>6, <1>7, <3>1, TakenTerms
  <2> QED BY <2>1, <2>2
<1>17. total'[r] = Cost(lines'[r])
  <2> DEFINE d == v.price * q
  <2>1. d \in Int
    BY <1>6, <1>2
  <2>2. new.qty * new.price = old[p].qty * old[p].price + d /\ total'[r] = total[r] + d
    BY <1>5, <1>16
  <2> HIDE DEF d
  <2>3. Cost([old EXCEPT ![p] = new]) = Cost(old) + d
    BY <1>6, <1>7, <2>1, <2>2, CostGrows
  <2> QED BY <1>5, <1>10, <2>2, <2>3 DEF ls
<1> QED
  BY <1>9, <1>14, <1>15, <1>17 DEF LinesOK, items

LEMMA SaleKeepsLedger ==
    ASSUME IInv, HistInd, ConsInd, LedgerInd, NEW r \in SaleReqs, SalesStep(r),
           UNCHANGED catVars, UNCHANGED debtVars
    PROVE  LedgerInd'
<1>1. /\ r \in Tx \ CatReqs /\ r \in Tx /\ Spares(r) /\ SaleShape(r)
      /\ UNCHANGED <<cpc, dpc, dterms>> /\ r \notin DebtReqs
  BY OthersAreNotCatalog, SalesTouchRows, OtherRowsAreSpared, SaleShapes, RequestsAreDistinct
     DEF catVars, debtVars, debtReqVars
<1>2. /\ pc \in [SaleReqs -> {"away", "idle", "precheck", "authorize", "read", "lock", "insert",
                              "recover", "persist", "reread", "done"}]
      /\ lines \in [SaleReqs -> Lines] /\ total \in [SaleReqs -> Nat] /\ line \in [SaleReqs -> Nat \ {0}]
      /\ OnAnItem
  BY DEF IInv, SalesInd, SalesTypeOK, HandlersTypeOK
<1>3. ASSUME NEW u \in SaleReqs \ {r} PROVE LinesOK(u)'
  <2>1. pc'[u] = pc[u] /\ line'[u] = line[u] /\ lines'[u] = lines[u] /\ total'[u] = total[u]
    BY <1>1, <1>2 DEF SaleShape, SaleMoves, SaleEnds, TakeItem
  <2> QED BY <1>1, <2>1, LinesStay DEF LedgerInd
<1>4. ASSUME NEW u \in DebtReqs PROVE TermsOK(u)'
  BY <1>1, TermsStay DEF LedgerInd
<1>5. LinesOK(r)'
  <2>1. CASE SaleEnds(r)
    BY <1>2, <2>1 DEF SaleEnds, SaleMoves, LinesOK, InSale
  <2>2. CASE /\ UNCHANGED <<rowVars, line, lines, total>> /\ pc[r] = "authorize" /\ pc'[r] = "read"
    <3>1. line[r] = 1 /\ lines[r] = NoLines /\ total[r] = 0
      BY <2>2, <1>2 DEF OnAnItem, LedgerInd, LinesOK, InSale
    <3>2. ASSUME NEW p \in Products PROVE LineOK(r, p)'
      <4>1. Counted(Body[r].items, line'[r] - 1, p) = 0
        BY <2>2, <3>1, CountedNone
      <4> QED BY <2>2, <3>1, <4>1 DEF LineOK, NoLines, NoLine
    <3> QED BY <2>2, <3>1, <3>2, CostOfNone DEF LinesOK, InSale
  <2>3. CASE /\ UNCHANGED <<rowVars, line, lines, total>>
             /\ \/ pc[r] = "read" /\ pc'[r] = "lock"
                \/ ~InSale(r) /\ pc'[r] \notin {"read", "lock", "insert"}
    BY <2>3 DEF LedgerInd, LinesOK, LineOK, InSale, rowVars
  <2>4. CASE /\ pc[r] = "lock" /\ TakeItem(r)
             /\ pc'[r] = IF line[r] = Len(Body[r].items) THEN "insert" ELSE "read"
    BY <2>4, TakingKeepsLines DEF LedgerInd
  <2> QED BY <1>1, <2>1, <2>2, <2>3, <2>4 DEF SaleShape
<1>6. \A p \in Products : OnSaleWhenLocked(p)'
  <2>1. \A p \in Products : /\ owner[p] \in Tx \cup {NoTx} /\ r # NoTx
                            /\ View(r, p).state = row[p].state
                            /\ owner[p] = r => row[p].state = "active"
    BY <1>1, ViewTerms DEF LedgerInd, OnSaleWhenLocked
  <2>2. owner \in [Products -> Tx \cup {NoTx}]
    BY DEF IInv, RowsOK, RowsTypeOK
  <2>3. CASE UNCHANGED rowVars \/ RollbackRows(r) \/ CommitRows(r)
    <3>1. ASSUME NEW p \in Products, owner[p] \in {r, NoTx}
          PROVE  owner'[p] = NoTx \/ (owner'[p] = r /\ row'[p].state = "active")
      BY <2>1, <2>2, <2>3, <3>1 DEF rowVars, RollbackRows, CommitRows, Release
    <3> QED BY <1>1, <3>1, OnSaleStays DEF LedgerInd
  <2>4. CASE pc[r] = "lock" /\ TakeItem(r)
    <3>1. PICK p \in Products : p = Item0(r).product
      BY <2>4, ItemFacts DEF IInv
    <3>2. PICK new : WriteRow(r, p, new) /\ View(r, p).state = "active"
      BY <2>4, <3>1 DEF TakeItem
    <3>3. ASSUME NEW x \in Products, owner[x] \in {r, NoTx}
          PROVE  owner'[x] = NoTx \/ (owner'[x] = r /\ row'[x].state = "active")
      BY <2>1, <2>2, <3>2, <3>3 DEF WriteRow
    <3> QED BY <1>1, <3>3, OnSaleStays DEF LedgerInd
  <2> QED BY <1>1, <2>3, <2>4 DEF SaleShape
<1> QED
  BY <1>3, <1>4, <1>5, <1>6 DEF LedgerInd

LEMMA DebtKeepsLedger ==
    ASSUME IInv, HistInd, ConsInd, LedgerInd, NEW r \in DebtUsers, DebtStep(r),
           UNCHANGED catVars, UNCHANGED saleVars
    PROVE  LedgerInd'
<1>1. /\ r \in Tx \ CatReqs /\ r \in Tx /\ Spares(r) /\ DebtShape(r)
      /\ UNCHANGED <<cpc, pc, line, lines, total>> /\ r \notin SaleReqs
  BY OthersAreNotCatalog, DebtsTouchRows, OtherRowsAreSpared, DebtShapes, RequestsAreDistinct
     DEF catVars, saleVars, requestVars, DebtUsers
<1>2. /\ dpc \in [DebtUsers -> {"away", "idle", "replay", "take", "insert", "recover", "winner",
                                "lock", "pay", "done"}]
      /\ dterms \in [DebtUsers -> [total : Nat, cost : Nat \cup {Null}]]
      /\ DebtReqs \subseteq DebtUsers
  BY DEF IInv, DebtsInd, DebtsTypeOK, DebtHandlersTypeOK, DebtUsers
<1>3. ASSUME NEW u \in SaleReqs PROVE LinesOK(u)'
  BY <1>1, LinesStay DEF LedgerInd
<1>4. DebtMoves(r)
  BY <1>1 DEF DebtShape
<1>5. ASSUME NEW u \in DebtReqs \ {r} PROVE TermsOK(u)'
  <2>1. dpc'[u] = dpc[u] /\ dterms'[u] = dterms[u]
    BY <1>2, <1>4 DEF DebtMoves
  <2> QED BY <1>1, <2>1, TermsStay DEF LedgerInd
<1>6. owner \in [Products -> Tx \cup {NoTx}] /\ r # NoTx
  BY <1>1, NoTxIsNotATx DEF IInv, RowsOK, RowsTypeOK
<1>7. \A p \in Products : owner[p] = r => row[p].state = "active" \/ r \notin SaleReqs \cup DebtReqs
  BY <1>1 DEF LedgerInd, OnSaleWhenLocked
<1>8. CASE /\ UNCHANGED rowVars \/ RollbackRows(r) \/ CommitRows(r)
           /\ dpc'[r] # "insert"
  <2>1. r \in DebtReqs => TermsOK(r)'
    BY <1>8 DEF TermsOK
  <2>2. ASSUME NEW p \in Products, owner[p] \in {r, NoTx}
        PROVE  \/ owner'[p] = NoTx
               \/ /\ owner'[p] = r
                  /\ row'[p].state = "active" \/ r \notin SaleReqs \cup DebtReqs
    BY <1>6, <1>7, <1>8, <2>2 DEF rowVars, RollbackRows, CommitRows, Release
  <2>3. \A p \in Products : OnSaleWhenLocked(p)'
    BY <1>1, <2>2, OnSaleStays DEF LedgerInd
  <2> QED BY <1>3, <1>5, <2>1, <2>3 DEF LedgerInd
<1>9. CASE /\ r \in DebtReqs /\ dpc'[r] = "insert"
           /\ LET v == View(r, DebtBody[r].product)
              IN  /\ WriteRow(r, DebtBody[r].product, [v EXCEPT !.stock = @ - DebtBody[r].qty])
                  /\ v.state = "active" /\ dterms'[r].total = v.price * DebtBody[r].qty
  <2>1. PICK p \in Products : p = DebtBody[r].product
    BY <1>9, DebtBodyFacts
  <2>2. PICK v \in Row : /\ v = View(r, p) /\ v.price = row[p].price /\ v.state = row[p].state
                         /\ WriteRow(r, p, [v EXCEPT !.stock = @ - DebtBody[r].qty])
                         /\ v.state = "active" /\ dterms'[r].total = v.price * DebtBody[r].qty
    BY <1>1, <1>9, <2>1, ViewTerms DEF SameTerms
  <2>3. TermsOK(r)'
    BY <2>1, <2>2 DEF TermsOK, WriteRow
  <2>4. ASSUME NEW x \in Products, owner[x] \in {r, NoTx}
        PROVE  \/ owner'[x] = NoTx
               \/ /\ owner'[x] = r
                  /\ row'[x].state = "active" \/ r \notin SaleReqs \cup DebtReqs
    BY <1>6, <1>7, <2>2, <2>4 DEF WriteRow
  <2>5. \A x \in Products : OnSaleWhenLocked(x)'
    BY <1>1, <2>4, OnSaleStays DEF LedgerInd
  <2> QED BY <1>3, <1>5, <2>3, <2>5 DEF LedgerInd
<1> QED
  BY <1>1, <1>8, <1>9 DEF DebtShape

LEMMA CatalogKeepsLedger ==
    ASSUME IInv, HistInd, ConsInd, LedgerInd, NEW o \in CatReqs, CatStep(o),
           UNCHANGED saleVars, UNCHANGED debtVars
    PROVE  LedgerInd'
<1>1. PICK p \in Products : p = CatOp[o].product
  BY OpFacts
<1>2. /\ o \in Tx /\ Spares(o) /\ CatShape(o, p) /\ o \notin SaleReqs \cup DebtReqs /\ CatMoves(o)
      /\ UNCHANGED <<pc, line, lines, total, dpc, dterms>> /\ o # NoTx
      /\ owner \in [Products -> Tx \cup {NoTx}]
      /\ cpc \in [CatReqs -> {"away", "idle", "locked", "increment", "record", "done"}]
  BY <1>1, CatalogSparesRows, CatShapes, RequestsAreDistinct, CatalogFacts
     DEF saleVars, requestVars, debtVars, debtReqVars, CatShape
<1>3. /\ \A u \in SaleReqs : LinesOK(u)'
      /\ \A u \in DebtReqs : TermsOK(u)'
  BY <1>2, LinesStay, TermsStay DEF LedgerInd
<1>4. \A q \in CatReqs \ {o} : cpc'[q] = cpc[q]
  BY <1>2 DEF CatMoves
<1>5. ASSUME NEW x \in Products, owner[x] \in {o, NoTx}
      PROVE  \/ owner'[x] = NoTx
             \/ /\ owner'[x] = o
                /\ row'[x].state = "active" \/ cpc'[o] # "record"
  <2>1. owner[x] = o => x = p
    BY <1>1, <1>2 DEF HistInd, RowsInd, TakenOnly
  <2> QED BY <1>2, <1>5, <2>1 DEF CatShape, rowVars, RollbackRows, Release, WriteRow, CatWrite
<1>6. \A x \in Products : OnSaleWhenLocked(x)'
  BY <1>2, <1>4, <1>5, OnSaleStays DEF LedgerInd
<1> QED
  BY <1>3, <1>6 DEF LedgerInd

LEMMA LedgerStart ==
    ASSUME Init
    PROVE  LedgerInd
<1>1. PICK arriving \in Arrivals : SalesInit(arriving) /\ DebtInit(arriving)
  BY DEF Init
<1>2. /\ \A r \in SaleReqs : pc[r] \in {"idle", "away"} /\ lines[r] = NoLines /\ total[r] = 0
      /\ \A r \in DebtReqs : dpc[r] \in {"idle", "away"}
      /\ \A p \in Products : owner[p] = NoTx
  BY <1>1 DEF Init, SalesInit, DebtInit, DebtUsers
<1>3. NoTx \notin SaleReqs \cup DebtReqs \cup CatReqs
  BY NoTxIsNotATx, TxIsEveryRequest
<1> QED
  BY <1>2, <1>3 DEF LedgerInd, LinesOK, InSale, TermsOK, OnSaleWhenLocked

LEMMA LedgerStep ==
    ASSUME IInv, HistInd, ConsInd, LedgerInd, [Next]_vars
    PROVE  LedgerInd'
<1>1. ASSUME NEW r \in SaleReqs, Sale(r) PROVE LedgerInd'
  BY <1>1, SaleKeepsLedger DEF Sale
<1>2. ASSUME NEW o \in CatReqs, Management(o) PROVE LedgerInd'
  BY <1>2, CatalogKeepsLedger DEF Management
<1>3. ASSUME NEW r \in DebtUsers, Credit(r) PROVE LedgerInd'
  BY <1>3, DebtKeepsLedger DEF Credit
<1>4. CASE UNCHANGED <<rowVars, saleVars, catVars, debtVars>>
  BY <1>4 DEF rowVars, saleVars, requestVars, catVars, debtVars, debtReqVars, LedgerInd, LinesOK,
     LineOK, InSale, TermsOK, OnSaleWhenLocked
<1> QED
  BY <1>1, <1>2, <1>3, <1>4 DEF Next, Authority, Finished, vars

LEMMA LedgerInvariant == Spec => []LedgerInd
<1>1. Init => LedgerInd
  BY LedgerStart
<1>2. IInv /\ HistInd /\ ConsInd /\ LedgerInd /\ [Next]_vars => LedgerInd'
  BY LedgerStep
<1> QED BY <1>1, <1>2, Invariant, HistoryInvariant, ConservationInvariant, PTL DEF Spec

-----------------------------------------------------------------------------
(* What the services do, as the ledger sees it. *)

\* A lock holder's version of a row is the row less what it has taken.
LEMMA DraftIsRowLess ==
    ASSUME IInv, HistInd, ConsInd, NEW t \in Tx \ CatReqs, NEW p \in Products
    PROVE  /\ View(t, p) = [row[p] EXCEPT !.stock = @ - Taken(t, p)]
           /\ Taken(t, p) # 0 => owner[p] = t
           /\ Taken(t, p) <= row[p].stock \/ Taken(t, p) = 0
<1>1. /\ View(t, p) \in Row /\ SameTerms(View(t, p), row[p]) /\ View(t, p).state = row[p].state
      /\ row[p] \in Row /\ draft[p] \in Row /\ t # NoTx /\ t \in Tx
  BY ViewTerms
<1>2. Taken(t, p) \in Int /\ row[p].stock \in Int /\ draft[p].stock \in Nat /\ DraftIsRow(p)
  BY GoodsFacts, MaxMinorIsPositive DEF IInv, RowsOK, StockInRange, ConsInd, GoodsOK
<1>3. Taken(t, p) # 0 => owner[p] = t
  BY <1>1, <1>2 DEF DraftIsRow
<1>4. View(t, p).stock = row[p].stock - Taken(t, p)
  BY <1>1, <1>2, <1>3 DEF DraftIsRow, View
<1>5. Taken(t, p) <= row[p].stock \/ Taken(t, p) = 0
  BY <1>2, <1>3, <1>4 DEF View
<1> DEFINE to == [row[p] EXCEPT !.stock = @ - Taken(t, p)]
<1>6. /\ to \in Row /\ to.state = row[p].state /\ SameTerms(to, row[p])
      /\ to.stock = row[p].stock - Taken(t, p)
  BY <1>1, <1>2 DEF Row, SameTerms
<1>7. View(t, p) = to
  <2> HIDE DEF to
  <2> QED BY <1>1, <1>4, <1>6, RowsEqual DEF SameTerms
<1> QED
  BY <1>3, <1>5, <1>7

\* The ledger's sums are ours.
LEMMA LedgerSums ==
    ASSUME NEW f
    PROVE  Ledger!SumFunction(f) = SumFunction(f)
<1>1. Ledger!SumFunction(f) = (CHOOSE g : Adds(g, f, DOMAIN f))[DOMAIN f]
  BY Zenon DEF Ledger!SumFunction, Ledger!SumFunctionOnSet, Ledger!FoldFunctionOnSet,
               Ledger!MapThenFoldSet, Adds, Choice
<1> QED
  BY <1>1, SumIsChosen DEF SumFunction

LEMMA LinesEqual ==
    ASSUME NEW l \in [qty : Nat, price : Nat, cost : Nat \cup {Null}], NEW v \in Row,
           SameTerms(l, v)
    PROVE  l = [qty |-> l.qty, price |-> v.price, cost |-> v.cost]
BY DEF SameTerms

LEMMA OrderIsTaken ==
    ASSUME IInv, HistInd, ConsInd, LedgerInd, NEW r \in SaleReqs, pc[r] = "insert"
    PROVE  LET o == OrderOf(Body[r])
           IN  /\ o \in [Products -> Nat]
               /\ \A p \in Products : o[p] = Taken(r, p) /\ o[p] = lines[r][p].qty
               /\ lines[r] = [p \in Products |->
                     IF o[p] = 0 THEN NoLine
                     ELSE [qty |-> o[p], price |-> row[p].price, cost |-> row[p].cost]]
               /\ total[r] = SumFunction([p \in Products |-> o[p] * row[p].price])
<1> DEFINE o == OrderOf(Body[r])
           n == Len(Body[r].items)
<1>1. /\ lines[r] \in Lines /\ line[r] \in Nat /\ n \in Nat
      /\ row \in [Products -> Row]
  BY BodyFacts DEF IInv, SalesInd, SalesTypeOK, HandlersTypeOK, RowsOK, RowsTypeOK
<1>2. line[r] = n + 1 /\ (\A p \in Products : LineOK(r, p)) /\ total[r] = Cost(lines[r])
  BY DEF LedgerInd, LinesOK, InSale
<1>3. ASSUME NEW p \in Products
      PROVE  /\ o[p] = lines[r][p].qty /\ o[p] = Taken(r, p) /\ o[p] \in Nat
             /\ lines[r][p] = IF o[p] = 0 THEN NoLine
                              ELSE [qty |-> o[p], price |-> row[p].price, cost |-> row[p].cost]
             /\ lines[r][p].qty * lines[r][p].price = o[p] * row[p].price
  <2>1. o[p] = Counted(Body[r].items, n, p)
    BY OrderCounted
  <2> HIDE DEF o
  <2>2. o[p] = lines[r][p].qty /\ o[p] = Taken(r, p)
    BY <1>1, <1>2, <2>1 DEF LineOK, Taken
  <2>3. /\ lines[r][p] \in [qty : Nat, price : Nat, cost : Nat \cup {Null}]
        /\ row[p].price \in Nat
    BY <1>1 DEF Lines, Row
  <2>4. CASE o[p] = 0
    <3>1. lines[r][p] = NoLine
      BY <1>2, <2>2, <2>4 DEF LineOK
    <3>2. lines[r][p].qty * lines[r][p].price = 0 /\ 0 * row[p].price = 0
      BY <2>3, <3>1 DEF NoLine
    <3> QED BY <2>2, <2>4, <3>1, <3>2
  <2>5. CASE o[p] # 0
    <3>1. SameTerms(lines[r][p], row[p])
      BY <1>2, <2>2, <2>5 DEF LineOK
    <3>2. lines[r][p] = [qty |-> o[p], price |-> row[p].price, cost |-> row[p].cost]
      <4>1. row[p] \in Row
        BY <1>1
      <4>2. lines[r][p] = [qty |-> lines[r][p].qty, price |-> row[p].price, cost |-> row[p].cost]
        BY <2>3, <3>1, <4>1, LinesEqual
      <4> QED BY <2>2, <4>2
    <3> QED BY <2>2, <2>3, <2>5, <3>1, <3>2 DEF SameTerms
  <2> QED BY <2>2, <2>3, <2>4, <2>5
<1>4. o \in [Products -> Nat]
  <2>1. o = [p \in Products |-> o[p]]
    BY DEF OrderOf
  <2> HIDE DEF o
  <2> QED BY <1>3, <2>1
<1>5. lines[r] = [p \in Products |-> IF o[p] = 0 THEN NoLine
                     ELSE [qty |-> o[p], price |-> row[p].price, cost |-> row[p].cost]]
  <2>1. lines[r] = [p \in Products |-> lines[r][p]]
    BY <1>1 DEF Lines
  <2> HIDE DEF o
  <2> QED BY <1>3, <2>1
<1>6. total[r] = SumFunction([p \in Products |-> o[p] * row[p].price])
  <2>1. [p \in Products |-> lines[r][p].qty * lines[r][p].price] = [p \in Products |-> o[p] * row[p].price]
    <3> HIDE DEF o
    <3> QED BY <1>3
  <2> QED BY <1>2, <2>1 DEF Cost
<1> QED
  BY <1>3, <1>4, <1>5, <1>6

LEMMA SaleIsSold ==
    ASSUME IInv, HistInd, ConsInd, LedgerInd, NEW r \in SaleReqs, pc[r] = "insert",
           Sale0(r) = NoSale, CommitRows(r), UNCHANGED <<debts, paid>>,
           sales' = [sales EXCEPT ![Body[r].id] = SaleRow(Body[r], "completada", lines[r], total[r])]
    PROVE  Ledger!LedgerNext
<1> DEFINE id == Body[r].id
           o == OrderOf(Body[r])
<1>1. /\ o \in [Products -> Nat]
      /\ \A p \in Products : o[p] = Taken(r, p)
      /\ lines[r] = [p \in Products |->
            IF o[p] = 0 THEN NoLine
            ELSE [qty |-> o[p], price |-> row[p].price, cost |-> row[p].cost]]
      /\ total[r] = SumFunction([p \in Products |-> o[p] * row[p].price])
  BY OrderIsTaken
<1> HIDE DEF o
<1>2. r \in Tx \ CatReqs /\ id \in SaleIds /\ sales \in [SaleIds -> SaleRows \cup {NoSale}]
      /\ SaleRow(Body[r], "completada", lines[r], total[r]) \in SaleRows /\ NoSale \notin SaleRows
  BY OthersAreNotCatalog, BodyFacts, TableTypes, SaleRowOK, NoSaleIsNoRow
     DEF IInv, SalesInd, SalesTypeOK, HandlersTypeOK
<1>3. \A p \in Products : o[p] > 0 => Ledger!OnSale(p, o[p])
  <2>1. ASSUME NEW p \in Products, o[p] > 0 PROVE row[p].state = "active" /\ o[p] <= row[p].stock
    <3>1. Taken(r, p) # 0
      BY <1>1, <2>1
    <3>2. owner[p] = r /\ Taken(r, p) <= row[p].stock
      BY <1>2, <3>1, DraftIsRowLess
    <3> QED BY <1>1, <3>2 DEF LedgerInd, OnSaleWhenLocked
  <2> QED BY <2>1 DEF Ledger!OnSale
<1>4. SoldView(sales)[id] = NoSale
  BY <1>2 DEF SoldView, Sale0
<1>5. SoldView(sales)' = [SoldView(sales) EXCEPT ![id] = Ledger!SoldNow(o)]
  <2>1. Ledger!SoldNow(o) = [lines |-> lines[r], total |-> total[r]]
    <3>1. Ledger!Total(o) = total[r]
      BY <1>1, LedgerSums DEF Ledger!Total
    <3> QED BY <1>1, <3>1 DEF Ledger!SoldNow
  <2>2. /\ sales'[id] # NoSale /\ sales'[id].status = "completada"
        /\ sales'[id].lines = lines[r] /\ sales'[id].total = total[r]
        /\ \A i \in SaleIds \ {id} : sales'[i] = sales[i]
    BY <1>2 DEF SaleRow
  <2>3. SoldView(sales)'[id] = Ledger!SoldNow(o)
    BY <1>2, <2>1, <2>2 DEF SoldView
  <2>4. \A i \in SaleIds \ {id} : SoldView(sales)'[i] = SoldView(sales)[i]
    BY <2>2 DEF SoldView
  <2>5. SoldView(sales) = [i \in SaleIds |-> SoldView(sales)[i]]
        /\ SoldView(sales)' = [i \in SaleIds |-> SoldView(sales)'[i]]
    BY DEF SoldView
  <2> QED BY <1>2, <2>3, <2>4, <2>5
<1>6. row' = [p \in Products |-> [row[p] EXCEPT !.stock = @ - o[p]]]
  <2>1. \A p \in Products : View(r, p) = [row[p] EXCEPT !.stock = @ - o[p]]
    BY <1>1, <1>2, DraftIsRowLess
  <2> QED BY <2>1 DEF CommitRows
<1>7. UNCHANGED OwedView
  BY DEF OwedView
<1>8. Ledger!Sell(id)
  BY <1>3, <1>4, <1>5, <1>6, <1>7 DEF Ledger!Sell, o
<1> QED
  BY <1>2, <1>8 DEF Ledger!LedgerNext

LEMMA SaleIsRejected ==
    ASSUME IInv, NEW r \in SaleReqs, Sale0(r) = NoSale, UNCHANGED <<row, debts, paid>>,
           sales' = [sales EXCEPT ![Body[r].id] =
                        SaleRow(Body[r], "rechazada_por_conflicto", NoLines, Null)]
    PROVE  Ledger!LedgerNext
<1> DEFINE id == Body[r].id
<1>1. id \in SaleIds /\ sales \in [SaleIds -> SaleRows \cup {NoSale}]
      /\ SaleRow(Body[r], "rechazada_por_conflicto", NoLines, Null) \in SaleRows /\ NoSale \notin SaleRows
  BY BodyFacts, TableTypes, SaleRowOK, NoSaleIsNoRow, NoLinesOK
<1>2. /\ sales'[id] # NoSale /\ sales'[id].status = "rechazada_por_conflicto"
      /\ \A i \in SaleIds \ {id} : sales'[i] = sales[i]
  BY <1>1 DEF SaleRow
<1>3. SoldView(sales)' = [SoldView(sales) EXCEPT ![id] = Ledger!Rejected]
  <2>1. SoldView(sales)'[id] = Ledger!Rejected
    BY <1>1, <1>2 DEF SoldView, Ledger!Rejected
  <2>2. \A i \in SaleIds \ {id} : SoldView(sales)'[i] = SoldView(sales)[i]
    BY <1>2 DEF SoldView
  <2>3. SoldView(sales) = [i \in SaleIds |-> SoldView(sales)[i]]
        /\ SoldView(sales)' = [i \in SaleIds |-> SoldView(sales)'[i]]
    BY DEF SoldView
  <2> QED BY <1>1, <2>1, <2>2, <2>3
<1>4. SoldView(sales)[id] = NoSale /\ UNCHANGED OwedView
  BY <1>1 DEF SoldView, Sale0, OwedView
<1>5. Ledger!RecordRejection(id)
  BY <1>3, <1>4 DEF Ledger!RecordRejection
<1> QED
  BY <1>1, <1>5 DEF Ledger!LedgerNext

\* What the ledger sees of one debt.
OwedFor(d) ==
    IF debts[d] = NoDebt THEN NoSale
    ELSE [total |-> debts[d].total, paid |-> paid[d], settled |-> debts[d].status = "saldada"]

LEMMA OwedChanges ==
    ASSUME NEW d \in DebtIds, NEW new, OwedFor(d)' = new,
           \A e \in DebtIds \ {d} : debts'[e] = debts[e] /\ paid'[e] = paid[e]
    PROVE  OwedView' = [OwedView EXCEPT ![d] = new] /\ OwedView[d] = OwedFor(d)
<1>1. /\ OwedView = [e \in DebtIds |-> OwedFor(e)]
      /\ OwedView' = [e \in DebtIds |-> OwedFor(e)']
  BY DEF OwedView, OwedFor
<1>2. \A e \in DebtIds \ {d} : OwedFor(e)' = OwedFor(e)
  BY DEF OwedFor
<1> QED
  BY <1>1, <1>2

LEMMA DebtIsLent ==
    ASSUME IInv, HistInd, ConsInd, LedgerInd, NEW r \in DebtReqs, dpc[r] = "insert", CommitRows(r),
           UNCHANGED sales, NEW d \in DebtIds, debts[d] = NoDebt,
           debts' = [debts EXCEPT ![d] = DebtRow(DebtBody[r], dterms[r])],
           paid' = [paid EXCEPT ![d] = DebtBody[r].abono]
    PROVE  Ledger!LedgerNext
<1> DEFINE b == DebtBody[r]
           tot == dterms[r].total
<1>1. PICK p \in Products, n \in Nat \ {0}, down \in Nat :
          p = b.product /\ n = b.qty /\ down = b.abono
  BY DebtBodyFacts
<1>2. /\ debts \in [DebtIds -> DebtRows \cup {NoDebt}] /\ paid \in [DebtIds -> Nat]
      /\ DebtRow(b, dterms[r]) \in DebtRows /\ NoDebt \notin DebtRows
      /\ DebtRow(b, dterms[r]).total = tot
      /\ DebtRow(b, dterms[r]).status = StatusOf(down, tot)
      /\ tot = row[p].price * n /\ down <= tot /\ tot \in Nat
  BY <1>1, DebtRowOK, NoDebtIsNoRow, DebtBodyFacts
     DEF IInv, DebtsInd, DebtsTypeOK, DebtTablesTypeOK, DebtHandlersTypeOK, InitialPaymentFits,
         LedgerInd, TermsOK
<1>3. r \in Tx \ CatReqs /\ r \notin SaleReqs /\ \A x \in Products : Taken(r, x) = IF x = p THEN n ELSE 0
  BY <1>1, OthersAreNotCatalog, DebtBodyFacts, RequestsAreDistinct DEF Taken
<1>4. Ledger!OnSale(p, n)
  <2>1. owner[p] = r /\ n <= row[p].stock
    BY <1>1, <1>3, DraftIsRowLess
  <2> QED BY <2>1 DEF LedgerInd, OnSaleWhenLocked, Ledger!OnSale
<1>5. OwedView' = [OwedView EXCEPT ![d] = Ledger!Owe(tot, down)] /\ OwedView[d] = NoSale
  <2>1. /\ debts'[d] = DebtRow(b, dterms[r]) /\ paid'[d] = down
        /\ \A e \in DebtIds \ {d} : debts'[e] = debts[e] /\ paid'[e] = paid[e]
    BY <1>1, <1>2
  <2>2. (StatusOf(down, tot) = "saldada") = (down > 0 /\ down >= tot)
    BY DEF StatusOf, Settled
  <2>3. OwedFor(d)' = Ledger!Owe(tot, down)
    BY <1>2, <2>1, <2>2 DEF OwedFor, Ledger!Owe
  <2>4. OwedFor(d) = NoSale
    BY DEF OwedFor
  <2> QED BY <2>1, <2>3, <2>4, OwedChanges
<1>6. row' = [row EXCEPT ![p].stock = @ - n]
  <2>1. \A x \in Products : View(r, x) = [row[x] EXCEPT !.stock = @ - Taken(r, x)]
    BY <1>3, DraftIsRowLess
  <2>2. row \in [Products -> Row] /\ \A x \in Products : row[x] \in Row /\ row[x].stock \in Int
    BY DEF IInv, RowsOK, RowsTypeOK, Row
  <2>3. \A x \in Products : [row[x] EXCEPT !.stock = @ - 0] = row[x]
    BY <2>2 DEF Row
  <2>4. row' = [x \in Products |-> IF x = p THEN [row[x] EXCEPT !.stock = @ - n] ELSE row[x]]
    BY <1>3, <2>1, <2>3 DEF CommitRows
  <2> QED BY <2>2, <2>4
<1>7. LoanOf(b) \in {LoanOf(DebtBody[q]) : q \in DebtReqs}
  OBVIOUS
<1>8. LoanOf(b).product = p /\ LoanOf(b).qty = n /\ LoanOf(b).down = down
  BY <1>1 DEF LoanOf
<1>9. UNCHANGED SoldView(sales)
  BY DEF SoldView
<1>10. Ledger!Lend(d)
  <2> DEFINE l == LoanOf(b)
  <2> HIDE DEF l
  <2>1. l.product = p /\ l.qty = n /\ l.down = down /\ l \in {LoanOf(DebtBody[q]) : q \in DebtReqs}
    BY <1>7, <1>8 DEF l
  <2>2. row[l.product].price * l.qty = tot
    BY <1>2, <2>1
  <2> QED BY <1>2, <1>4, <1>5, <1>6, <1>9, <2>1, <2>2 DEF Ledger!Lend
<1> QED
  BY <1>10 DEF Ledger!LedgerNext

LEMMA DebtIsCollected ==
    ASSUME IInv, NEW r \in AbonoReqs, NEW d \in DebtIds, d = Debt0(r), debts[d] # NoDebt,
           UNCHANGED <<row, sales>>,
           paid[d] + AbonoBody[r].amount <= debts[d].total,
           paid' = [paid EXCEPT ![d] = @ + AbonoBody[r].amount],
           debts' = [debts EXCEPT ![d].status =
                        IF paid[d] + AbonoBody[r].amount >= debts[d].total THEN "saldada" ELSE @]
    PROVE  Ledger!LedgerNext
<1>1. PICK amount \in Nat \ {0} : amount = AbonoBody[r].amount
  BY AbonoBodyFacts
<1>2. /\ debts \in [DebtIds -> DebtRows \cup {NoDebt}] /\ paid \in [DebtIds -> Nat]
      /\ debts[d] \in DebtRows /\ debts[d].total \in Nat /\ paid[d] \in Nat
      /\ debts[d].status = "saldada" <=> Settled(paid[d], debts[d].total)
  BY DEF IInv, DebtsInd, DebtsTypeOK, DebtTablesTypeOK, CollectedOnce, DebtRows
<1> DEFINE tot == debts[d].total
           st == IF paid[d] + amount >= tot THEN "saldada" ELSE debts[d].status
<1>3. /\ debts'[d] = [debts[d] EXCEPT !.status = st] /\ paid'[d] = paid[d] + amount
      /\ \A e \in DebtIds \ {d} : debts'[e] = debts[e] /\ paid'[e] = paid[e]
  BY <1>1, <1>2
<1>4. debts'[d] # NoDebt /\ debts'[d].total = tot /\ debts'[d].status = st
  BY <1>2, <1>3, NoDebtIsNoRow DEF DebtRows
<1>5. (st = "saldada") = (paid[d] + amount > 0 /\ paid[d] + amount >= tot)
  BY <1>2 DEF Settled
<1>6. OwedFor(d)' = Ledger!Owe(tot, paid[d] + amount)
  <2> HIDE DEF tot, st
  <2> QED BY <1>3, <1>4, <1>5 DEF OwedFor, Ledger!Owe
<1>7. /\ OwedView' = [OwedView EXCEPT ![d] = Ledger!Owe(tot, paid[d] + amount)]
      /\ OwedView[d] = OwedFor(d)
  BY <1>3, <1>6, OwedChanges
<1>8. OwedFor(d) # NoSale /\ OwedFor(d).total = tot /\ OwedFor(d).paid = paid[d]
  <2>1. OwedFor(d) = [total |-> tot, paid |-> paid[d], settled |-> debts[d].status = "saldada"]
    BY DEF OwedFor
  <2>2. OwedFor(d) \in [total : Nat, paid : Nat, settled : BOOLEAN]
    BY <1>2, <2>1
  <2>3. OwedFor(d) # NoSale
    BY <2>2, NoSaleIsNoEntry
  <2> DEFINE done == debts[d].status = "saldada"
  <2>4. OwedFor(d) = [total |-> tot, paid |-> paid[d], settled |-> done]
    BY <2>1
  <2> HIDE DEF done
  <2> QED BY <2>3, <2>4
<1>9. UNCHANGED SoldView(sales)
  BY DEF SoldView
<1>10. Ledger!Collect(d)
  <2>1. amount \in {AbonoBody[q].amount : q \in AbonoReqs}
    BY <1>1
  <2> HIDE DEF tot
  <2> QED BY <1>1, <1>7, <1>8, <1>9, <2>1 DEF Ledger!Collect, tot
<1> QED
  BY <1>10 DEF Ledger!LedgerNext

LEMMA CatalogIsManaged ==
    ASSUME IInv, LedgerInd, NEW o \in CatReqs, NEW p \in Products, NEW new \in Row,
           owner[p] \in {o, NoTx}, cpc[o] = "record" => owner[p] = o,
           CatWrite(o, p, new), new.state # "absent", Rewrites(o, p, new),
           UNCHANGED <<sales, debts, paid>>
    PROVE  Ledger!LedgerNext
<1>1. row \in [Products -> Row] /\ row[p] \in Row
  BY DEF IInv, RowsOK, RowsTypeOK
<1>2. row' = [row EXCEPT ![p] = new] /\ row'[p] = new
  BY <1>1 DEF CatWrite
<1>3. UNCHANGED SoldView(sales) /\ UNCHANGED OwedView
  BY DEF SoldView, OwedView
<1>4. CASE \/ row[p].state = "absent"
           \/ new.state = row[p].state /\ new.stock = row[p].stock
           \/ \E st \in {"active", "inactive"} : new = [row[p] EXCEPT !.state = st]
  <2>1. row[p].state # "absent" => new.stock = row[p].stock
    BY <1>1, <1>4 DEF Row
  <2>2. new.state # row[p].state =>
          row[p].state = "absent" \/ new = [row[p] EXCEPT !.state = new.state]
    BY <1>1, <1>4 DEF Row
  <2>3. Ledger!Manage(p)
    BY <1>2, <1>3, <2>1, <2>2 DEF Ledger!Manage
  <2> QED BY <2>3 DEF Ledger!LedgerNext
<1>5. CASE /\ cpc[o] = "record" /\ CatOp[o].kind = "restock"
           /\ new = [row[p] EXCEPT !.stock = @ + CatOp[o].qty, !.cost = new.cost]
  <2>1. row[p].state = "active"
    BY <1>5 DEF LedgerInd, OnSaleWhenLocked
  <2>2. CatOp[o].qty \in {CatOp[q].qty : q \in {c \in CatReqs : CatOp[c].kind = "restock"}}
    BY <1>5
  <2>3. row' = [row EXCEPT ![p].stock = @ + CatOp[o].qty, ![p].cost = row'[p].cost]
    BY <1>1, <1>2, <1>5
  <2>4. Ledger!Restock(p)
    BY <1>3, <2>1, <2>2, <2>3 DEF Ledger!Restock
  <2> QED BY <2>4 DEF Ledger!LedgerNext
<1> QED
  BY <1>4, <1>5 DEF Rewrites

-----------------------------------------------------------------------------
(* Every step, and the theorem. *)

\* Nothing of what the ledger sees has changed.
LEMMA LedgerUnchanged ==
    ASSUME UNCHANGED <<row, sales, debts, paid>>
    PROVE  UNCHANGED Ledger!ledgerVars
BY DEF Ledger!ledgerVars, SoldView, OwedView

LEMMA StepIsALedgerStep ==
    ASSUME IInv, HistInd, ConsInd, LedgerInd, [Next]_vars
    PROVE  [Ledger!LedgerNext]_Ledger!ledgerVars
<1>1. ASSUME NEW r \in SaleReqs, Sale(r) PROVE Ledger!LedgerNext \/ UNCHANGED Ledger!ledgerVars
  <2>1. SaleShape(r) /\ UNCHANGED <<debts, paid>>
    BY <1>1, SaleShapes DEF Sale, debtVars, debtTables
  <2>2. CASE UNCHANGED <<row, sales>>
    BY <2>1, <2>2, LedgerUnchanged
  <2>3. CASE /\ pc[r] = "insert" /\ Sale0(r) = NoSale /\ CommitRows(r)
             /\ sales' = [sales EXCEPT ![Body[r].id] =
                             SaleRow(Body[r], "completada", lines[r], total[r])]
    BY <2>1, <2>3, SaleIsSold
  <2>4. CASE /\ Sale0(r) = NoSale /\ UNCHANGED rowVars
             /\ sales' = [sales EXCEPT ![Body[r].id] =
                             SaleRow(Body[r], "rechazada_por_conflicto", NoLines, Null)]
    BY <2>1, <2>4, SaleIsRejected DEF rowVars
  <2> QED BY <2>1, <2>2, <2>3, <2>4 DEF SaleShape, rowVars, RollbackRows, TakeItem, WriteRow
<1>2. ASSUME NEW r \in DebtUsers, Credit(r) PROVE Ledger!LedgerNext \/ UNCHANGED Ledger!ledgerVars
  <2>1. DebtShape(r) /\ UNCHANGED sales
    BY <1>2, DebtShapes DEF Credit, saleVars
  <2>2. CASE UNCHANGED <<row, debts, paid>>
    BY <2>1, <2>2, LedgerUnchanged
  <2>3. ASSUME r \in DebtReqs, dpc[r] = "insert", CommitRows(r), NEW d \in DebtIds, debts[d] = NoDebt,
               debts' = [debts EXCEPT ![d] = DebtRow(DebtBody[r], dterms[r])],
               paid' = [paid EXCEPT ![d] = DebtBody[r].abono]
        PROVE  Ledger!LedgerNext
    BY <2>1, <2>3, DebtIsLent
  <2>4. ASSUME r \in AbonoReqs, UNCHANGED rowVars, NEW d \in DebtIds, d = Debt0(r), debts[d] # NoDebt,
               paid[d] + AbonoBody[r].amount <= debts[d].total,
               paid' = [paid EXCEPT ![d] = @ + AbonoBody[r].amount],
               debts' = [debts EXCEPT ![d].status =
                     IF paid[d] + AbonoBody[r].amount >= debts[d].total THEN "saldada" ELSE @]
        PROVE  Ledger!LedgerNext
    BY <2>1, <2>4, DebtIsCollected DEF rowVars
  <2> QED BY <2>1, <2>2, <2>3, <2>4 DEF DebtShape, rowVars, RollbackRows, WriteRow
<1>3. ASSUME NEW o \in CatReqs, Management(o) PROVE Ledger!LedgerNext \/ UNCHANGED Ledger!ledgerVars
  <2>1. PICK p \in Products : p = CatOp[o].product
    BY OpFacts
  <2>2. CatShape(o, p) /\ UNCHANGED <<sales, debts, paid>>
    BY <1>3, <2>1, CatShapes DEF Management, saleVars, debtVars, debtTables
  <2>3. CASE UNCHANGED row
    BY <2>2, <2>3, LedgerUnchanged
  <2>4. ASSUME owner[p] \in {o, NoTx}, NEW new \in Row, CatWrite(o, p, new), new.state # "absent",
               Rewrites(o, p, new)
        PROVE  Ledger!LedgerNext
    <3>1. cpc[o] = "record" => owner[p] = o
      BY <2>1 DEF HistInd, HoldsItsRow
    <3> QED BY <2>2, <2>4, <3>1, CatalogIsManaged
  <2> QED BY <2>2, <2>3, <2>4 DEF CatShape, rowVars, RollbackRows, WriteRow
<1>4. CASE UNCHANGED <<rowVars, saleVars, catVars, debtVars>>
  BY <1>4, LedgerUnchanged DEF rowVars, saleVars, debtVars, debtTables
<1> QED
  BY <1>1, <1>2, <1>3, <1>4 DEF Next, Authority, Finished, vars

LEMMA StartIsALedgerStart ==
    ASSUME Init
    PROVE  Ledger!LedgerInit
<1>1. PICK arriving \in Arrivals : SalesInit(arriving) /\ DebtInit(arriving)
  BY DEF Init
<1>2. sales = History /\ \A d \in DebtIds : debts[d] = NoDebt
  BY <1>1 DEF SalesInit, DebtInit
<1>3. SoldView(sales) = SoldView(History) /\ OwedView = [d \in DebtIds |-> NoSale]
  BY <1>2 DEF OwedView
<1>4. \A p \in Products : row[p].stock >= 0
  <2>1. \A p \in Products : row[p].stock \in 0..MaxMinor
    BY InitOK DEF IInv, RowsOK, StockInRange
  <2>2. ASSUME NEW n \in 0..MaxMinor PROVE n >= 0
    BY MaxMinorIsPositive
  <2> QED BY <2>1, <2>2
<1> QED
  BY <1>3, <1>4 DEF Ledger!LedgerInit

(* Every interleaving of the sales, the debts, their payments and the      *)
(* socios' writes to the catalog, with crashes, deadlocks, resends and     *)
(* revocations, looks like a sequence of indivisible ledger operations: a  *)
(* sale applies to all of its products at the terms of one instant or to   *)
(* none, and never twice; a debt is collected up to its total and settled  *)
(* exactly then; goods come by restocks only.                              *)
THEOREM ServicesImplementTheLedger == Spec => ImplementsLedger
<1>1. Init => Ledger!LedgerInit
  BY StartIsALedgerStart
<1>2. IInv /\ HistInd /\ ConsInd /\ LedgerInd /\ [Next]_vars => [Ledger!LedgerNext]_Ledger!ledgerVars
  BY StepIsALedgerStep
<1> QED
  BY <1>1, <1>2, Invariant, HistoryInvariant, ConservationInvariant, LedgerInvariant, PTL
     DEF Spec, ImplementsLedger, Ledger!LedgerSpec
=============================================================================
