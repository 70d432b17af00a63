------------------------------- MODULE Sales -------------------------------
(***************************************************************************)
(* POST /sales (SalesService.create): one process per request, one step    *)
(* per database statement whose result another request can change.  The    *)
(* product rows it sells from are those of ProductRows, shared with the    *)
(* catalog and the debts.                                                  *)
(***************************************************************************)
EXTENDS ProductRows, Actors, Sequences, FiniteSets

CONSTANTS
    SaleReqs,   \* submissions: a device sending one body, possibly again and again
    SaleIds,    \* client-generated sale ids
    Body,       \* the body each request carries
    History,    \* the table "Sale" at the start
    NoSale,     \* no row with that id
    MaxSends    \* bound: how often a client submits the same request

LOCAL SX == INSTANCE SequencesExt

Item == [product : Products, qty : Nat \ {0}]

Bodies == [id : SaleIds, seller : Actors, actor : Actors, items : Seq(Item),
           method : {"EFECTIVO", "TRANSFERENCIA", "TARJETA"},
           cash : Nat \cup {Null}, late : BOOLEAN]

\* What the DTO validation lets through: at least one item, and cash received
\* exactly for EFECTIVO.
ASSUME SaleReqsAreTx == SaleReqs \subseteq Tx
ASSUME BodiesAreValid ==
    /\ Body \in [SaleReqs -> Bodies]
    /\ \A r \in SaleReqs : /\ Len(Body[r].items) > 0
                           /\ Body[r].cash # Null <=> Body[r].method = "EFECTIVO"
ASSUME MaxSendsIsNat == MaxSends \in Nat

VARIABLES
    pc,          \* where the handler of each request is
    line,        \* the item it is processing
    lines,       \* what it has taken and at which terms, by product
    total,       \* running total
    err,         \* the failure its catch block is handling
    reply,       \* the last HTTP answer
    sends,       \* submissions made so far
    sales,       \* the table "Sale" with its items
    incidencias  \* the table "Incidencia"

requestVars == <<pc, line, lines, total, err, reply, sends>>
saleVars == <<requestVars, sales, incidencias>>

-----------------------------------------------------------------------------
(* Identity of a request. *)

Header(b) == [seller |-> b.seller, method |-> b.method, cash |-> b.cash, late |-> b.late]

\* Order-independent: the items are sorted before they are hashed.
Fingerprint(b) == <<Header(b), SX!ToBag(b.items)>>

\* Rows older than the fingerprint column.
NoFingerprint == << >>

\* Sorted by product only (the sort is stable): per product, the same
\* quantities in the same order.
SameItems(a, b) ==
    /\ Len(a) = Len(b)
    /\ \A p \in Products : LET OfP(i) == i.product = p
                           IN  SelectSeq(a, OfP) = SelectSeq(b, OfP)

\* Mutant: rows older than the fingerprint column are not recognised.
IsIdempotentReplayMutant(existing, b) ==
    /\ existing.header = Header(b)
    /\ existing.fingerprint = Fingerprint(b)

IsIdempotentReplay(existing, b) ==
    /\ existing.header = Header(b)
    /\ IF existing.fingerprint # NoFingerprint
       THEN existing.fingerprint = Fingerprint(b)
       ELSE /\ existing.status = "completada"
            /\ SameItems(existing.items, b.items)

\* Mutant: the payload of a resend is not compared.
ReplayAnswerMutant(existing, b) == "200"

\* The answer to a resend of an id that is already persisted.
ReplayAnswer(existing, b) == IF IsIdempotentReplay(existing, b) THEN "200" ELSE "409"

-----------------------------------------------------------------------------
(* Rows of the tables. *)

NoLine == [qty |-> 0, price |-> 0, cost |-> Null]
NoLines == [p \in Products |-> NoLine]
Lines == [Products -> [qty : Nat, price : Nat, cost : Nat \cup {Null}]]

SaleRow(b, status, ls, tot) ==
    [header |-> Header(b), fingerprint |-> Fingerprint(b), status |-> status,
     items |-> IF status = "completada" THEN b.items ELSE << >>,
     lines |-> ls, total |-> tot]

Incidencia(id, type) == [sale |-> id, type |-> type]

Item0(r) == Body[r].items[line[r]]
Sale0(r) == sales[Body[r].id]

-----------------------------------------------------------------------------
(* Ends of the handler and of its transaction. *)

Goto(r, where) == pc' = [pc EXCEPT ![r] = where]

\* Mutant: items are counted from 0.
ForgetLinesMutant(r) ==
    /\ line' = [line EXCEPT ![r] = 0]
    /\ lines' = [lines EXCEPT ![r] = NoLines]
    /\ total' = [total EXCEPT ![r] = 0]

ForgetLines(r) ==
    /\ line' = [line EXCEPT ![r] = 1]
    /\ lines' = [lines EXCEPT ![r] = NoLines]
    /\ total' = [total EXCEPT ![r] = 0]

Answer(r, code) ==
    /\ Goto(r, "done")
    /\ reply' = [reply EXCEPT ![r] = code]
    /\ err' = [err EXCEPT ![r] = "none"]
    /\ ForgetLines(r)
    /\ UNCHANGED sends

\* Mutant: what was already processed is kept.
FailMutant(r, e) ==
    /\ CommitRows(r)
    /\ Goto(r, "recover")
    /\ err' = [err EXCEPT ![r] = e]
    /\ ForgetLines(r)
    /\ UNCHANGED <<reply, sends, sales, incidencias>>

\* Mutant: the error leaves the transaction open.
LeakMutant(r, e) ==
    /\ UNCHANGED rowVars
    /\ Goto(r, "recover")
    /\ err' = [err EXCEPT ![r] = e]
    /\ ForgetLines(r)
    /\ UNCHANGED <<reply, sends, sales, incidencias>>

\* The transaction throws e: it is rolled back and the catch block starts.
Fail(r, e) ==
    /\ RollbackRows(r)
    /\ Goto(r, "recover")
    /\ err' = [err EXCEPT ![r] = e]
    /\ ForgetLines(r)
    /\ UNCHANGED <<reply, sends, sales, incidencias>>

-----------------------------------------------------------------------------
(* The handler. *)

\* ContextGuard, before the handler: the account, its member and the device
\* are looked up without a lock, and a selection no longer in force goes no
\* further.  (AuthGuard's 401 for the account counts as the same refusal.)
Guard(r) ==
    /\ pc[r] = "idle"
    /\ UNCHANGED <<rowVars, sales, incidencias>>
    /\ \/ /\ ~MayAct(Body[r].actor)
          /\ Answer(r, "403")
       \/ /\ MayAct(Body[r].actor)
          /\ Goto(r, "precheck")
          /\ UNCHANGED <<line, lines, total, err, reply, sends>>

\* Attribution, then an unlocked look for a row with this id, outside any
\* transaction.
Precheck(r) ==
    /\ pc[r] = "precheck"
    /\ UNCHANGED <<rowVars, sales, incidencias>>
    /\ \/ /\ Body[r].seller # Body[r].actor
          /\ Answer(r, "403")
       \/ /\ Body[r].seller = Body[r].actor
          /\ Sale0(r) # NoSale
          /\ Answer(r, ReplayAnswer(Sale0(r), Body[r]))
       \/ /\ Body[r].seller = Body[r].actor
          /\ Sale0(r) = NoSale
          /\ Goto(r, "authorize")
          /\ UNCHANGED <<line, lines, total, err, reply, sends>>

\* The transaction starts by re-validating the actor, without locking what it
\* reads.
Authorize(r) ==
    /\ pc[r] = "authorize"
    /\ UNCHANGED <<rowVars, sales, incidencias>>
    /\ \/ /\ ~MayAct(Body[r].actor)
          /\ Answer(r, "403")
       \/ /\ MayAct(Body[r].actor)
          /\ Goto(r, "read")
          /\ UNCHANGED <<line, lines, total, err, reply, sends>>

Unsellable(v, it) == v.state # "active" \/ it.qty > v.stock

\* The snapshot taken before contending for the row: what is already
\* impossible here is a plain bad request.
ReadItem(r) ==
    /\ pc[r] = "read"
    /\ LET v == View(r, Item0(r).product)
       IN  \/ /\ Unsellable(v, Item0(r))
              /\ Fail(r, "bad")
           \/ /\ ~Unsellable(v, Item0(r))
              /\ Goto(r, "lock")
              /\ UNCHANGED <<rowVars, line, lines, total, err, reply, sends,
                             sales, incidencias>>

\* Under the row lock: read again, take the units and note the line at the
\* price and cost of the locked row.
TakeItem(r) ==
    LET p == Item0(r).product
        q == Item0(r).qty
        v == View(r, p)
    IN  /\ v.state = "active"
        /\ q <= v.stock
        /\ ~TooMuchMoney(v.price * q)
        /\ WriteRow(r, p, [v EXCEPT !.stock = @ - q])
        /\ lines' = [lines EXCEPT ![r][p] =
                        [qty |-> @.qty + q, price |-> v.price, cost |-> v.cost]]
        /\ total' = [total EXCEPT ![r] = @ + v.price * q]
        /\ line' = [line EXCEPT ![r] = @ + 1]
        /\ Goto(r, IF line[r] = Len(Body[r].items) THEN "insert" ELSE "read")
        /\ UNCHANGED <<err, reply, sends, sales, incidencias>>

\* Mutant: the row is read and written without waiting for its lock.
LockItemMutant(r) == pc[r] = "lock" /\ TakeItem(r)

\* SELECT ... FOR UPDATE waits until the row is free.  The read that follows
\* it sees the row as locked, so both are one step.
LockItem(r) ==
    /\ pc[r] = "lock"
    /\ LockFree(r, Item0(r).product)
    /\ LET v == View(r, Item0(r).product)
       IN  \/ /\ v.state # "active"
              /\ Fail(r, "bad")
           \/ /\ v.state = "active"
              /\ Item0(r).qty > v.stock
              /\ Fail(r, "conflict")
           \/ /\ ~Unsellable(v, Item0(r))
              /\ TooMuchMoney(v.price * Item0(r).qty)
              /\ RollbackRows(r)
              /\ Answer(r, "500")
              /\ UNCHANGED <<sales, incidencias>>
           \/ TakeItem(r)

ShortOfCash(r) == Body[r].method = "EFECTIVO" /\ Body[r].cash < total[r]

\* The range check of the total, the cash check, and the INSERT of the sale
\* with its items and its date incident.  It is the last statement of the
\* transaction: a concurrent INSERT of the same id waits for this commit, so
\* insert and commit are one step.
Insert(r) ==
    LET b == Body[r]
    IN  /\ pc[r] = "insert"
        /\ \/ /\ TooMuchMoney(total[r])
              /\ RollbackRows(r)
              /\ Answer(r, "500")
              /\ UNCHANGED <<sales, incidencias>>
           \/ /\ ~TooMuchMoney(total[r]) /\ ShortOfCash(r)
              /\ Fail(r, "bad")
           \/ /\ ~TooMuchMoney(total[r]) /\ ~ShortOfCash(r)
              /\ Sale0(r) # NoSale
              /\ Fail(r, "duplicate")
           \/ /\ ~TooMuchMoney(total[r]) /\ ~ShortOfCash(r)
              /\ Sale0(r) = NoSale
              /\ CommitRows(r)
              /\ sales' = [sales EXCEPT ![b.id] =
                              SaleRow(b, "completada", lines[r], total[r])]
              /\ incidencias' = incidencias \cup
                    (IF b.late THEN {Incidencia(b.id, "incidencia_fecha")} ELSE {})
              /\ Answer(r, "201")

\* The catch block: whoever won the id first decides the answer; only a lost
\* stock race that left no row behind goes on to be recorded.
Recover(r) ==
    /\ pc[r] = "recover"
    /\ UNCHANGED <<rowVars, sales, incidencias>>
    /\ \/ /\ Sale0(r) # NoSale
          /\ Answer(r, ReplayAnswer(Sale0(r), Body[r]))
       \/ /\ Sale0(r) = NoSale /\ err[r] = "bad"
          /\ Answer(r, "400")
       \/ /\ Sale0(r) = NoSale /\ err[r] = "conflict"
          /\ Goto(r, "persist")
          /\ UNCHANGED <<line, lines, total, err, reply, sends>>

\* Mutant: the rejected sale is recorded without its incident.
PersistMutant(r) ==
    /\ pc[r] = "persist"
    /\ Sale0(r) = NoSale
    /\ sales' = [sales EXCEPT ![Body[r].id] =
                    SaleRow(Body[r], "rechazada_por_conflicto", NoLines, Null)]
    /\ Answer(r, "201")
    /\ UNCHANGED <<rowVars, incidencias>>

\* A write of its own, after the rollback: the rejected sale and its incident.
Persist(r) ==
    /\ pc[r] = "persist"
    /\ UNCHANGED rowVars
    /\ \/ /\ Sale0(r) = NoSale
          /\ sales' = [sales EXCEPT ![Body[r].id] =
                          SaleRow(Body[r], "rechazada_por_conflicto", NoLines, Null)]
          /\ incidencias' = incidencias \cup {Incidencia(Body[r].id, "conflicto_stock")}
          /\ Answer(r, "201")
       \/ /\ Sale0(r) # NoSale
          /\ Goto(r, "reread")
          /\ UNCHANGED <<line, lines, total, err, reply, sends, sales, incidencias>>

Reread(r) ==
    /\ pc[r] = "reread"
    /\ Answer(r, ReplayAnswer(Sale0(r), Body[r]))
    /\ UNCHANGED <<rowVars, sales, incidencias>>

-----------------------------------------------------------------------------
(* What can happen to a handler from outside. *)

Waiting(r) == pc[r] = "lock" /\ ~LockFree(r, Item0(r).product)
WaitsFor(r) == owner[Item0(r).product]

\* r is on a cycle of transactions each waiting for the row of the next.
Deadlocked(r) ==
    \E S \in SUBSET {t \in SaleReqs : Waiting(t)} :
        r \in S /\ {WaitsFor(t) : t \in S} = S

\* PostgreSQL detects the deadlock and cancels a transaction of the cycle.
\* The error is none of those the catch block knows: it surfaces as a 500.
DeadlockAbort(r) ==
    /\ Deadlocked(r)
    /\ RollbackRows(r)
    /\ Answer(r, "500")
    /\ UNCHANGED <<sales, incidencias>>

\* The handler dies: transaction timeout, lost connection, server restart.
\* Nothing uncommitted survives and nobody answers.
Drop(r) ==
    /\ pc[r] \notin {"away", "idle", "done"}
    /\ RollbackRows(r)
    /\ Answer(r, "none")
    /\ UNCHANGED <<sales, incidencias>>

\* The client submits the same body again: its queue retries, or the answer
\* was lost.
Resend(r) ==
    /\ pc[r] = "done"
    /\ sends[r] < MaxSends
    /\ Goto(r, "idle")
    /\ sends' = [sends EXCEPT ![r] = @ + 1]
    /\ UNCHANGED <<rowVars, line, lines, total, err, reply, sales, incidencias>>

\* arriving: the requests that will be submitted at all.
SalesInit(arriving) ==
    /\ pc = [r \in SaleReqs |-> IF r \in arriving THEN "idle" ELSE "away"]
    /\ line = [r \in SaleReqs |-> 1]
    /\ lines = [r \in SaleReqs |-> NoLines]
    /\ total = [r \in SaleReqs |-> 0]
    /\ err = [r \in SaleReqs |-> "none"]
    /\ reply = [r \in SaleReqs |-> "none"]
    /\ sends = [r \in SaleReqs |-> 0]
    /\ sales = History
    /\ incidencias = {}

\* The steps the server itself takes for r.
Handle(r) ==
    \/ Guard(r) \/ Precheck(r) \/ Authorize(r) \/ ReadItem(r) \/ LockItem(r)
    \/ Insert(r) \/ Recover(r) \/ Persist(r) \/ Reread(r)
    \/ DeadlockAbort(r)

SalesStep(r) == Handle(r) \/ Drop(r) \/ Resend(r)

-----------------------------------------------------------------------------
SaleRows ==
    [header : [seller : Actors, method : {"EFECTIVO", "TRANSFERENCIA", "TARJETA"},
               cash : Nat \cup {Null}, late : BOOLEAN],
     fingerprint : {NoFingerprint} \cup {Fingerprint(Body[r]) : r \in SaleReqs},
     status : {"completada", "rechazada_por_conflicto"},
     items : Seq(Item), lines : Lines, total : Nat \cup {Null}]

ASSUME NoSaleIsNoRow == NoSale \notin SaleRows
ASSUME HistoryIsValid == History \in [SaleIds -> SaleRows \cup {NoSale}]

HandlersTypeOK ==
    /\ pc \in [SaleReqs -> {"away", "idle", "precheck", "authorize", "read", "lock", "insert",
                            "recover", "persist", "reread", "done"}]
    /\ line \in [SaleReqs -> Nat \ {0}]
    /\ lines \in [SaleReqs -> Lines]
    /\ total \in [SaleReqs -> Nat]
    /\ err \in [SaleReqs -> {"none", "bad", "conflict", "duplicate"}]
    /\ reply \in [SaleReqs -> {"none", "200", "201", "400", "403", "409", "500"}]
    /\ sends \in [SaleReqs -> 0..MaxSends]

SaleTablesTypeOK ==
    /\ sales \in [SaleIds -> SaleRows \cup {NoSale}]
    /\ incidencias \subseteq [sale : SaleIds, type : {"incidencia_fecha", "conflicto_stock"}]

(* Every variable of the sales has its type. *)
SalesTypeOK == HandlersTypeOK /\ SaleTablesTypeOK

(* An answer is true for good.  200 and 201 say that the row of this id is *)
(* this very request, 409 that it is another one, and only one request per *)
(* id is told that it created it, whoever won the race for the id and      *)
(* however often it was sent (isIdempotentReplay).                         *)
AnswerAgreesWithRow ==
    \A r \in SaleReqs : pc[r] = "done" =>
        /\ reply[r] \in {"200", "201"} =>
              Sale0(r) # NoSale /\ IsIdempotentReplay(Sale0(r), Body[r])
        /\ reply[r] = "409" =>
              Sale0(r) # NoSale /\ ~IsIdempotentReplay(Sale0(r), Body[r])
        /\ reply[r] = "201" =>
              \A q \in SaleReqs \ {r} :
                  Body[q].id = Body[r].id => pc[q] # "done" \/ reply[q] # "201"

(* One incident per rejected sale, none without its sale: the two are      *)
(* written together, and a lost race is recorded once.                     *)
RejectionsHaveIncident ==
    \A i \in SaleIds : History[i] = NoSale =>
        (Incidencia(i, "conflicto_stock") \in incidencias
            <=> sales[i] # NoSale /\ sales[i].status = "rechazada_por_conflicto")

\* The very body of r is on record under its id, said without the comparison
\* the code makes: by its fingerprint or, in a row older than those, as it was
\* stored.
OnRecord(r) ==
    /\ Sale0(r) # NoSale
    /\ Sale0(r).header = Header(Body[r])
    /\ \/ Sale0(r).fingerprint = Fingerprint(Body[r])
       \/ /\ Sale0(r).fingerprint = NoFingerprint
          /\ Sale0(r).status = "completada"
          /\ Sale0(r).items = Body[r].items

(* Once a sale is on record, by whichever attempt, another attempt with its *)
(* body is answered as a replay: never a second 201, a conflict or a bad    *)
(* request, whatever became of the stock.  It is refused only while its     *)
(* actor is not in force (ContextGuard, authorize), and fails only if it    *)
(* dies or, when its client has not been told yet, in a deadlock or at the  *)
(* range of the money.                                                      *)
RetriesReplay ==
    [][\A r \in SaleReqs :
          (/\ OnRecord(r) /\ Body[r].seller = Body[r].actor
           /\ pc[r] # "done" /\ pc'[r] = "done")
              => \/ reply'[r] = "200"
                 \/ reply'[r] = "none"
                 \/ reply'[r] = "403" /\ ~MayAct(Body[r].actor)
                 \/ reply'[r] = "500" /\ reply[r] \notin {"200", "201"}]_requestVars

(* A sale on record never changes: no answer, retry or conflict rewrites   *)
(* it or its items.                                                        *)
SalesNeverChange ==
    [][\A i \in SaleIds : sales[i] # NoSale => sales'[i] = sales[i]]_sales
=============================================================================
