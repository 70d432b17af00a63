------------------------------ MODULE Payments ------------------------------
(***************************************************************************)
(* Payments of what an agreement promised (FinancePaymentsService):        *)
(* recording one and reversing it.  READ COMMITTED transactions: each      *)
(* statement sees what is committed, so the locks are all there is.        *)
(***************************************************************************)
EXTENDS Agreements

CONSTANTS
    PayReqs,      \* submissions of POST /finance/distribution-agreements/:id/payments
    UndoReqs,     \* submissions of POST /finance/distribution-payments/:id/reversals
    PayIds,       \* ids of payments
    UndoIds,      \* ids of their reversals
    ForeignPays,  \* those of either kind that another business uses already
    Members,      \* members, ordered as their ids are
    PayBody,      \* the body of each payment
    UndoBody,     \* the body of each reversal
    NoPayment,    \* no row with that id
    NoUndo        \* no row with that id

\* timely: dated between the agreement, or the payment, and the present.
PayBodies == [id : PayIds, agreement : Ids, member : Members, amount : Nat \ {0},
              timely : BOOLEAN]
UndoBodies == [id : UndoIds, payment : PayIds, timely : BOOLEAN]

ASSUME PayBodiesAreValid ==
    PayReqs \subseteq Requests /\ PayBody \in [PayReqs -> PayBodies]
ASSUME UndoBodiesAreValid ==
    UndoReqs \subseteq Requests /\ UndoBody \in [UndoReqs -> UndoBodies]

ASSUME MembersAreFinite == Members \subseteq Nat /\ IsFiniteSet(Members)
ASSUME LedgersAreValid ==
    \A l \in Ledgers : /\ l.available \in Int /\ l.socios \subseteq Members
                        /\ DOMAIN l.work \subseteq Members
                        /\ l.work = [m \in DOMAIN l.work |-> l.work[m]]
                        /\ \A m \in DOMAIN l.work : l.work[m] \in Nat

VARIABLES
    paidSoFar,   \* the sum that each payment has read
    payments,    \* the table "DistributionPayment"
    undos        \* the table "DistributionPaymentReversal"

payTables == <<payments, undos>>
payVars == <<paidSoFar, payTables>>

-----------------------------------------------------------------------------
Undone(p) == \E u \in UndoIds : undos[u] # NoUndo /\ undos[u].payment = p

\* What member m has received of agreement i: payments that are not reversed.
Received(i, m) ==
    {p \in PayIds : /\ payments[p] # NoPayment
                    /\ payments[p].body.agreement = i /\ payments[p].body.member = m
                    /\ ~Undone(p)}
Paid(i, m) == SumFunction([p \in Received(i, m) |-> payments[p].body.amount])

PayFingerprint(r) == <<ActorOf[r], PayBody[r]>>
UndoFingerprint(r) == <<ActorOf[r], UndoBody[r]>>

AgreementShare(i) == Share(<<"agreement", i>>)
ParticipantLock(i, m) == Exclusive(<<"participant", i, m>>)

PayReject(r, code) ==
    /\ Finish(r, code)
    /\ paidSoFar' = [paidSoFar EXCEPT ![r] = 0]
    /\ UNCHANGED payTables

Proceed(r, where) == Goto(r, where) /\ UNCHANGED payVars

-----------------------------------------------------------------------------
(* POST /finance/distribution-agreements/:id/payments *)

AuthorizePay(r) ==
    /\ pc[r] = "idle"
    /\ Authorize(r, "identity")
    /\ UNCHANGED payVars

\* Mutant: the identity of the payment is not locked.
LockPayIdMutant(r) == pc[r] = "identity" /\ Proceed(r, "replay")

LockPayId(r) ==
    /\ pc[r] = "identity"
    /\ Acquire(r, Exclusive(<<"payment id", PayBody[r].id>>), "replay")
    /\ UNCHANGED payVars

\* Mutant: the agreement is not locked.
LockAgreementMutant(r) == Proceed(r, "agreement")

\* The agreement FOR SHARE.
LockAgreement(r) ==
    /\ Acquire(r, AgreementShare(PayBody[r].agreement), "agreement")
    /\ UNCHANGED payVars

\* The replay comes before every rule; then the agreement must exist.
ReplayPay(r) ==
    LET b == PayBody[r]
        row == payments[b.id]
    IN  /\ pc[r] = "replay"
        /\ \/ /\ row # NoPayment
              /\ PayReject(r, IF row.fingerprint = PayFingerprint(r) THEN "200" ELSE "409 id")
           \/ /\ row = NoPayment
              /\ agreements[b.agreement] = NoAgreement
              /\ PayReject(r, "404")
           \/ /\ row = NoPayment
              /\ agreements[b.agreement] # NoAgreement
              /\ LockAgreement(r)

CheckAgreement(r) ==
    LET b == PayBody[r]
        shares == agreements[b.agreement].shares
    IN  /\ pc[r] = "agreement"
        /\ \/ Voided(voids, b.agreement) /\ PayReject(r, "409 voided")
           \/ /\ ~Voided(voids, b.agreement)
              /\ b.member \notin DOMAIN shares
              /\ PayReject(r, "404")
           \/ /\ ~Voided(voids, b.agreement)
              /\ b.member \in DOMAIN shares /\ shares[b.member] = 0
              /\ PayReject(r, "422 nothing")
           \/ /\ ~Voided(voids, b.agreement)
              /\ b.member \in DOMAIN shares /\ shares[b.member] > 0
              /\ Proceed(r, "participant")

\* Mutant: the participant is not locked.
LockParticipantMutant(r) == pc[r] = "participant" /\ Proceed(r, "balance")

\* Every payment and reversal of one participant is serialized here.
LockParticipant(r) ==
    /\ pc[r] = "participant"
    /\ Acquire(r, ParticipantLock(PayBody[r].agreement, PayBody[r].member), "balance")
    /\ UNCHANGED payVars

ReadBalance(r) ==
    LET b == PayBody[r]
        paid == Paid(b.agreement, b.member)
    IN  /\ pc[r] = "balance"
        /\ \/ ~b.timely /\ PayReject(r, "422 time")
           \/ /\ b.timely
              /\ Goto(r, "pay")
              /\ paidSoFar' = [paidSoFar EXCEPT ![r] = paid]
              /\ UNCHANGED payTables

\* The cap, the insert and the commit.
InsertPayment(r) ==
    LET b == PayBody[r]
        over == paidSoFar[r] + b.amount > agreements[b.agreement].shares[b.member]
        clash == b.id \in ForeignPays \/ payments[b.id] # NoPayment
    IN  /\ pc[r] = "pay"
        /\ \/ over /\ PayReject(r, "422 pending")
           \/ ~over /\ clash /\ PayReject(r, "409 id")
           \/ /\ ~over /\ ~clash
              /\ payments' = [payments EXCEPT ![b.id] =
                     [body |-> b, fingerprint |-> PayFingerprint(r)]]
              /\ Finish(r, "201")
              /\ paidSoFar' = [paidSoFar EXCEPT ![r] = 0]
              /\ UNCHANGED undos

Paying(r) ==
    \/ LockPayId(r) \/ ReplayPay(r) \/ CheckAgreement(r)
    \/ LockParticipant(r) \/ ReadBalance(r) \/ InsertPayment(r)

-----------------------------------------------------------------------------
(* POST /finance/distribution-payments/:id/reversals *)

AuthorizeUndo(r) ==
    /\ pc[r] = "idle"
    /\ Authorize(r, "undo identity")
    /\ UNCHANGED payVars

LockUndoId(r) ==
    /\ pc[r] = "undo identity"
    /\ Acquire(r, Exclusive(<<"payment reversal id", UndoBody[r].id>>), "undo replay")
    /\ UNCHANGED payVars

\* The replay, then the payment is read and its participant locked.
ReplayUndo(r) ==
    LET b == UndoBody[r]
        row == undos[b.id]
        target == payments[b.payment]
    IN  /\ pc[r] = "undo replay"
        /\ \/ /\ row # NoUndo
              /\ PayReject(r, IF row.fingerprint = UndoFingerprint(r) THEN "200" ELSE "409 id")
           \/ row = NoUndo /\ target = NoPayment /\ PayReject(r, "404")
           \/ /\ row = NoUndo /\ target # NoPayment
              /\ Acquire(r, ParticipantLock(target.body.agreement, target.body.member),
                         "undo row")
              /\ UNCHANGED payVars

LockPayment(r) ==
    /\ pc[r] = "undo row"
    /\ Acquire(r, Exclusive(<<"payment", UndoBody[r].payment>>), "undo check")
    /\ UNCHANGED payVars

CheckUndo(r) ==
    LET b == UndoBody[r]
    IN  /\ pc[r] = "undo check"
        /\ \/ Undone(b.payment) /\ PayReject(r, "409 voided")
           \/ ~Undone(b.payment) /\ ~b.timely /\ PayReject(r, "422 time")
           \/ ~Undone(b.payment) /\ b.timely /\ Proceed(r, "undo")

InsertUndo(r) ==
    LET b == UndoBody[r]
        clash == b.id \in ForeignPays \/ undos[b.id] # NoUndo \/ Undone(b.payment)
    IN  /\ pc[r] = "undo"
        /\ \/ clash /\ PayReject(r, "409 id")
           \/ /\ ~clash
              /\ undos' = [undos EXCEPT ![b.id] =
                     [payment |-> b.payment, fingerprint |-> UndoFingerprint(r)]]
              /\ Finish(r, "201")
              /\ UNCHANGED <<paidSoFar, payments>>

Undoing(r) ==
    \/ LockUndoId(r) \/ ReplayUndo(r) \/ LockPayment(r) \/ CheckUndo(r) \/ InsertUndo(r)

ExpirePay(r) == Running(r) /\ PayReject(r, "500")

PaymentsInit ==
    /\ paidSoFar = [r \in PayReqs \cup UndoReqs |-> 0]
    /\ payments = [p \in PayIds |-> NoPayment]
    /\ undos = [u \in UndoIds |-> NoUndo]
=============================================================================
