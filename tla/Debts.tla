------------------------------- MODULE Debts -------------------------------
(***************************************************************************)
(* Fiados and apartados (DeudasService): creating a debt, which takes its  *)
(* product out of stock, and collecting payments (abonos) against it.  One *)
(* process per request; the product rows are those of ProductRows.         *)
(***************************************************************************)
EXTENDS ProductRows, Actors, Sequences, FiniteSets

CONSTANTS
    DebtReqs,    \* submissions of POST /deudas
    AbonoReqs,   \* submissions of POST /deudas/:id/abonos
    DebtIds,     \* ids of debts
    DebtBody,    \* the body of each creation
    AbonoBody,   \* the body of each payment
    NoId,        \* the body carries no client-generated id
    NoDebt,      \* no row with that id
    MaxDebtSends \* bound: how often a client submits the same request

DebtBodies == [id : DebtIds \cup {NoId}, actor : Actors, product : Products,
               qty : Nat \ {0}, deudor : {"inline", "known", "unknown"}, abono : Nat]

AbonoBodies == [debt : DebtIds, actor : Actors, amount : Nat \ {0}]

ASSUME DebtReqsAreTx == DebtReqs \subseteq Tx
ASSUME DebtBodiesAreValid == DebtBody \in [DebtReqs -> DebtBodies]
ASSUME AbonoReqsAreTx == AbonoReqs \subseteq Tx /\ AbonoReqs \cap DebtReqs = {}
ASSUME AbonoBodiesAreValid == AbonoBody \in [AbonoReqs -> AbonoBodies]
ASSUME MaxDebtSendsIsNat == MaxDebtSends \in Nat

VARIABLES
    dpc,         \* where the handler of each request is
    dterms,      \* the total and the cost of what a creation has taken
    sum,         \* the payments so far that a payment has read
    derr,        \* the failure a creation is recovering from
    dreply,      \* the last HTTP answer
    receipt,     \* the creation response answered last
    dsends,      \* submissions made so far
    debts,       \* the table "Deuda"
    paid,        \* per debt, the sum of its rows of "Abono"
    deudores,    \* the debtors created inline, by the request that did
    debtOwner    \* per debt, the transaction that holds its row lock

debtReqVars == <<dpc, dterms, sum, derr, dreply, receipt, dsends>>
debtTables == <<debts, paid, deudores, debtOwner>>
debtVars == <<debtReqVars, debtTables>>

DebtUsers == DebtReqs \cup AbonoReqs

-----------------------------------------------------------------------------
(* The fingerprint is a hash of the normalised body, the actor included.   *)
(* Rows without a client id have none.                                     *)
NoFingerprintD == << >>
FingerprintD(b) == <<b>>

NoReceipt == [status |-> "none", total |-> 0, paid |-> 0]
Receipt(status, tot, amount) == [status |-> status, total |-> tot, paid |-> amount]

Settled(amount, tot) == amount > 0 /\ amount >= tot
StatusOf(amount, tot) == IF Settled(amount, tot) THEN "saldada" ELSE "pendiente"

NoTerms == [total |-> 0, cost |-> Null]

DebtRow(b, terms) ==
    [product |-> b.product, qty |-> b.qty, deudor |-> b.deudor,
     total |-> terms.total, cost |-> terms.cost,
     status |-> StatusOf(b.abono, terms.total),
     fingerprint |-> IF b.id = NoId THEN NoFingerprintD ELSE FingerprintD(b),
     receipt |-> Receipt(StatusOf(b.abono, terms.total), terms.total, b.abono)]

\* Mutant: the locked stock check is missing.
LendableMutant(v, qty) == v.state = "active"

Lendable(v, qty) == v.state = "active" /\ qty <= v.stock

\* The shared guard of every payment.
WithinBalance(paidSoFar, tot, amount) == amount <= tot - paidSoFar

ClientId(r) == DebtBody[r].id # NoId
Winner(r) == IF ClientId(r) THEN debts[DebtBody[r].id] ELSE NoDebt

-----------------------------------------------------------------------------
DebtGoto(r, where) == dpc' = [dpc EXCEPT ![r] = where]

DebtAnswer(r, code) ==
    /\ DebtGoto(r, "done")
    /\ dreply' = [dreply EXCEPT ![r] = code]
    /\ derr' = [derr EXCEPT ![r] = "none"]
    /\ dterms' = [dterms EXCEPT ![r] = NoTerms]
    /\ sum' = [sum EXCEPT ![r] = 0]

DebtReject(r, code) ==
    /\ DebtAnswer(r, code)
    /\ UNCHANGED <<receipt, dsends, debtTables>>

\* Mutant: a replay answers the present balance.
ReplayMutant(r) ==
    IF Winner(r).fingerprint = FingerprintD(DebtBody[r])
    THEN /\ DebtAnswer(r, "ok")
         /\ receipt' = [receipt EXCEPT ![r] =
                Receipt(Winner(r).status, Winner(r).total, paid[DebtBody[r].id])]
         /\ UNCHANGED <<dsends, debtTables>>
    ELSE DebtReject(r, "409")

\* The answer to a request whose id is already persisted.
Replay(r) ==
    IF Winner(r).fingerprint = FingerprintD(DebtBody[r])
    THEN /\ DebtAnswer(r, "ok")
         /\ receipt' = [receipt EXCEPT ![r] = Winner(r).receipt]
         /\ UNCHANGED <<dsends, debtTables>>
    ELSE DebtReject(r, "409")

\* The creation throws: it is rolled back, and the catch block looks for a
\* winner when the error may be a race lost by a request with a client id.
DebtFail(r, e) ==
    /\ RollbackRows(r)
    /\ \/ /\ ClientId(r)
          /\ DebtGoto(r, "recover")
          /\ derr' = [derr EXCEPT ![r] = e]
          /\ dterms' = [dterms EXCEPT ![r] = NoTerms]
          /\ UNCHANGED <<sum, dreply, receipt, dsends, debtTables>>
       \/ /\ ~ClientId(r)
          /\ DebtReject(r, e)

-----------------------------------------------------------------------------
(* POST /deudas *)

DebtAuthorize(r) ==
    /\ dpc[r] = "idle"
    /\ UNCHANGED rowVars
    /\ \/ /\ ~MayActAsSocio(DebtBody[r].actor)
          /\ DebtReject(r, "403")
       \/ /\ MayActAsSocio(DebtBody[r].actor)
          /\ DebtGoto(r, "replay")
          /\ UNCHANGED <<dterms, sum, derr, dreply, receipt, dsends, debtTables>>

\* The look for a row with this id, inside the transaction; then the debtor,
\* existing or created here (its row is committed with the debt).
DebtReplay(r) ==
    /\ dpc[r] = "replay"
    /\ \/ /\ Winner(r) # NoDebt
          /\ Replay(r)
          /\ UNCHANGED rowVars
       \/ /\ Winner(r) = NoDebt
          /\ DebtBody[r].deudor = "unknown"
          /\ DebtFail(r, "400")
       \/ /\ Winner(r) = NoDebt
          /\ DebtBody[r].deudor # "unknown"
          /\ DebtGoto(r, "take")
          /\ UNCHANGED <<rowVars, dterms, sum, derr, dreply, receipt, dsends, debtTables>>

\* SELECT ... FOR UPDATE, the locked read, the checks, the units taken and
\* the total at the locked price.
DebtTake(r) ==
    LET b == DebtBody[r]
        v == View(r, b.product)
        tot == v.price * b.qty
    IN  /\ dpc[r] = "take"
        /\ LockFree(r, b.product)
        /\ \/ /\ ~Lendable(v, b.qty)
              /\ DebtFail(r, "400")
           \/ /\ Lendable(v, b.qty)
              /\ TooMuchMoney(tot)
              /\ RollbackRows(r)
              /\ DebtReject(r, "500")
           \/ /\ Lendable(v, b.qty)
              /\ ~TooMuchMoney(tot)
              /\ b.abono > 0 /\ ~WithinBalance(0, tot, b.abono)
              /\ DebtFail(r, "400")
           \/ /\ Lendable(v, b.qty)
              /\ ~TooMuchMoney(tot)
              /\ b.abono > 0 => WithinBalance(0, tot, b.abono)
              /\ WriteRow(r, b.product, [v EXCEPT !.stock = @ - b.qty])
              /\ dterms' = [dterms EXCEPT ![r] = [total |-> tot, cost |-> v.cost]]
              /\ DebtGoto(r, "insert")
              /\ UNCHANGED <<sum, derr, dreply, receipt, dsends, debtTables>>

\* Ids the server draws: no client chooses one of them.
ServerIds == DebtIds \ {DebtBody[r].id : r \in DebtReqs}

\* The debt, its initial payment, its frozen creation response, the commit.
\* A concurrent INSERT of the same id waits for this commit.  Without a
\* client id the server picks an unused one.
DebtInsert(r) ==
    LET b == DebtBody[r]
        new == DebtRow(b, dterms[r])
    IN  /\ dpc[r] = "insert"
        /\ \/ /\ Winner(r) # NoDebt
              /\ DebtFail(r, "duplicate")
           \/ /\ Winner(r) = NoDebt
              /\ \E d \in IF ClientId(r) THEN {b.id} ELSE ServerIds :
                    /\ debts[d] = NoDebt
                    /\ debts' = [debts EXCEPT ![d] = new]
                    /\ paid' = [paid EXCEPT ![d] = b.abono]
              /\ deudores' = deudores \cup (IF b.deudor = "inline" THEN {r} ELSE {})
              /\ CommitRows(r)
              /\ DebtAnswer(r, "ok")
              /\ receipt' = [receipt EXCEPT ![r] = new.receipt]
              /\ UNCHANGED <<dsends, debtOwner>>

\* The catch block runs a transaction of its own: authorize, then replay.
DebtRecover(r) ==
    /\ dpc[r] = "recover"
    /\ UNCHANGED rowVars
    /\ \/ /\ ~MayActAsSocio(DebtBody[r].actor)
          /\ DebtReject(r, "403")
       \/ /\ MayActAsSocio(DebtBody[r].actor)
          /\ DebtGoto(r, "winner")
          /\ UNCHANGED <<dterms, sum, derr, dreply, receipt, dsends, debtTables>>

DebtWinner(r) ==
    /\ dpc[r] = "winner"
    /\ UNCHANGED rowVars
    /\ \/ /\ Winner(r) # NoDebt
          /\ Replay(r)
       \/ /\ Winner(r) = NoDebt
          /\ DebtReject(r, IF derr[r] = "duplicate" THEN "409" ELSE derr[r])

-----------------------------------------------------------------------------
(* POST /deudas/:id/abonos: not idempotent, a resend is another payment. *)

Debt0(r) == AbonoBody[r].debt

AbonoStart(r) ==
    /\ dpc[r] = "idle"
    /\ \/ /\ ~MayAct(AbonoBody[r].actor)
          /\ DebtReject(r, "403")
       \/ /\ MayAct(AbonoBody[r].actor)
          /\ debts[Debt0(r)] = NoDebt
          /\ DebtReject(r, "404")
       \/ /\ MayAct(AbonoBody[r].actor)
          /\ debts[Debt0(r)] # NoDebt
          /\ DebtGoto(r, "lock")
          /\ UNCHANGED <<dterms, sum, derr, dreply, receipt, dsends, debtTables>>

DebtFree(r, d) == debtOwner[d] \in {NoTx, r}

DebtUnlock(r) ==
    debtOwner' = [d \in DebtIds |-> IF debtOwner[d] = r THEN NoTx ELSE debtOwner[d]]

\* Mutant: the payments are summed without locking the debt.
AbonoLockMutant(r) ==
    /\ dpc[r] = "lock"
    /\ sum' = [sum EXCEPT ![r] = paid[Debt0(r)]]
    /\ DebtGoto(r, "pay")
    /\ UNCHANGED <<dterms, derr, dreply, receipt, dsends, debtTables>>

\* SELECT ... FOR UPDATE on the debt, then the sum of its payments.
AbonoLock(r) ==
    /\ dpc[r] = "lock"
    /\ DebtFree(r, Debt0(r))
    /\ debtOwner' = [debtOwner EXCEPT ![Debt0(r)] = r]
    /\ sum' = [sum EXCEPT ![r] = paid[Debt0(r)]]
    /\ DebtGoto(r, "pay")
    /\ UNCHANGED <<dterms, derr, dreply, receipt, dsends, debts, paid, deudores>>

\* The balance check, the payment, the flip to "saldada" and the commit.
AbonoPay(r) ==
    LET d == Debt0(r)
        amount == AbonoBody[r].amount
    IN  /\ dpc[r] = "pay"
        /\ DebtUnlock(r)
        /\ UNCHANGED <<receipt, dsends, deudores>>
        /\ \/ /\ ~WithinBalance(sum[r], debts[d].total, amount)
              /\ DebtAnswer(r, "400")
              /\ UNCHANGED <<debts, paid>>
           \/ /\ WithinBalance(sum[r], debts[d].total, amount)
              /\ DebtAnswer(r, "ok")
              /\ paid' = [paid EXCEPT ![d] = @ + amount]
              /\ debts' = [debts EXCEPT ![d].status =
                    IF sum[r] + amount >= debts[d].total THEN "saldada" ELSE @]

-----------------------------------------------------------------------------
\* The handler dies before its commit.
DebtDrop(r) ==
    /\ dpc[r] \notin {"away", "idle", "done"}
    /\ RollbackRows(r)
    /\ DebtAnswer(r, "none")
    /\ DebtUnlock(r)
    /\ UNCHANGED <<receipt, dsends, debts, paid, deudores>>

\* The client submits the same request again.
DebtResend(r) ==
    /\ dpc[r] = "done"
    /\ dsends[r] < MaxDebtSends
    /\ DebtGoto(r, "idle")
    /\ dsends' = [dsends EXCEPT ![r] = @ + 1]
    /\ UNCHANGED <<rowVars, dterms, sum, derr, dreply, receipt, debtTables>>

DebtInit(arriving) ==
    /\ dpc = [r \in DebtUsers |-> IF r \in arriving THEN "idle" ELSE "away"]
    /\ dterms = [r \in DebtUsers |-> NoTerms]
    /\ sum = [r \in DebtUsers |-> 0]
    /\ derr = [r \in DebtUsers |-> "none"]
    /\ dreply = [r \in DebtUsers |-> "none"]
    /\ receipt = [r \in DebtUsers |-> NoReceipt]
    /\ dsends = [r \in DebtUsers |-> 0]
    /\ debts = [d \in DebtIds |-> NoDebt]
    /\ paid = [d \in DebtIds |-> 0]
    /\ deudores = {}
    /\ debtOwner = [d \in DebtIds |-> NoTx]

CreateHandle(r) ==
    \/ DebtAuthorize(r) \/ DebtReplay(r) \/ DebtTake(r) \/ DebtInsert(r)
    \/ DebtRecover(r) \/ DebtWinner(r)

AbonoHandle(r) == (AbonoStart(r) \/ AbonoLock(r) \/ AbonoPay(r)) /\ UNCHANGED rowVars

DebtStep(r) ==
    \/ r \in DebtReqs /\ CreateHandle(r)
    \/ r \in AbonoReqs /\ AbonoHandle(r)
    \/ DebtDrop(r)
    \/ DebtResend(r)

-----------------------------------------------------------------------------
Receipts == [status : {"none", "pendiente", "saldada"}, total : Nat, paid : Nat]

DebtRows ==
    [product : Products, qty : Nat \ {0}, deudor : {"inline", "known"},
     total : Nat, cost : Nat \cup {Null}, status : {"pendiente", "saldada"},
     fingerprint : {NoFingerprintD} \cup {FingerprintD(DebtBody[r]) : r \in DebtReqs},
     receipt : Receipts]

ASSUME NoDebtIsNoRow == NoDebt \notin DebtRows

DebtHandlersTypeOK ==
    /\ dpc \in [DebtUsers -> {"away", "idle", "replay", "take", "insert", "recover", "winner",
                              "lock", "pay", "done"}]
    /\ dterms \in [DebtUsers -> [total : Nat, cost : Nat \cup {Null}]]
    /\ sum \in [DebtUsers -> Nat]
    /\ derr \in [DebtUsers -> {"none", "400", "duplicate"}]
    /\ dreply \in [DebtUsers -> {"none", "ok", "400", "403", "404", "409", "500"}]
    /\ receipt \in [DebtUsers -> Receipts]
    /\ dsends \in [DebtUsers -> 0..MaxDebtSends]

DebtTablesTypeOK ==
    /\ debts \in [DebtIds -> DebtRows \cup {NoDebt}]
    /\ paid \in [DebtIds -> Nat]
    /\ deudores \subseteq DebtReqs
    /\ debtOwner \in [DebtIds -> Tx \cup {NoTx}]

(* Every variable of the debts has its type. *)
DebtsTypeOK == DebtHandlersTypeOK /\ DebtTablesTypeOK

(* However many tablets collect at once, a debt never receives more than   *)
(* it is worth (the row lock of registerAbono), and it is "saldada" exactly*)
(* when something was paid and nothing is left.                            *)
CollectedOnce ==
    \A d \in DebtIds : debts[d] # NoDebt =>
        /\ paid[d] <= debts[d].total
        /\ debts[d].status = "saldada" <=> Settled(paid[d], debts[d].total)

(* The creation response of a client id is one and the same for ever, for  *)
(* every attempt, whatever has been paid since.                            *)
ReceiptIsFrozen ==
    \A r \in DebtReqs : dpc[r] = "done" /\ dreply[r] = "ok" /\ ClientId(r) =>
        /\ Winner(r) # NoDebt
        /\ receipt[r] = Winner(r).receipt
        /\ receipt[r].total = Winner(r).total
        /\ receipt[r].paid = DebtBody[r].abono
=============================================================================
