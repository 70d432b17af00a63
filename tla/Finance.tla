------------------------------ MODULE Finance ------------------------------
(***************************************************************************)
(* Agreements and their payments at work together, served by several       *)
(* processes, while the business goes on, time passes, actors are revoked, *)
(* transactions expire and processes stop.                                 *)
(***************************************************************************)
EXTENDS Payments

CONSTANTS
    Homes,      \* which requests arrive together, and at which process
    Filed,      \* the agreements at the start
    Opening,    \* what each period amounts to at the start
    MaxEvents   \* bound: how many things happen around the requests

Places == {"away", "idle", "done",
           "queued", "authorize", "identity", "decide", "folio", "insert",
           "first", "second", "row", "check", "void",
           "replay", "agreement", "participant", "balance", "pay",
           "undo identity", "undo replay", "undo row", "undo check", "undo"}

VoidRows == [target : Ids, fingerprint : Actors \X VoidBodies]
PaymentRows == [body : PayBodies, fingerprint : Actors \X PayBodies]
UndoRows == [payment : PayIds, fingerprint : Actors \X UndoBodies]

IsAgreement(a) ==
    /\ a.body \in CreateBodies /\ a.fingerprint \in Actors \X CreateBodies
    /\ a.folio \in [year : Years, number : Nat \ {0}] /\ a.available \in Int
    /\ DOMAIN a.shares \subseteq Members /\ \A m \in DOMAIN a.shares : a.shares[m] \in Nat

\* The folios of a year are the numbers from 1 on, one agreement each.
InYear(table, y) == {i \in Ids : table[i] # NoAgreement /\ table[i].folio.year = y}
Numbers(table, y) == {table[i].folio.number : i \in InYear(table, y)}
Gapless(table) == \A y \in Years : Numbers(table, y) = 1..Cardinality(InYear(table, y))

ASSUME RequestsAreOfFourKinds ==
    /\ Requests = CreateReqs \cup VoidReqs \cup PayReqs \cup UndoReqs
    /\ CreateReqs \cap (VoidReqs \cup PayReqs \cup UndoReqs) = {}
    /\ VoidReqs \cap (PayReqs \cup UndoReqs) = {}
    /\ PayReqs \cap UndoReqs = {}
ASSUME HomesAreHomes == Homes \subseteq [Requests -> Instances \cup {Nowhere}]
ASSUME OpeningIsValid == Opening \in [Periods -> Ledgers]
ASSUME FiledIsValid ==
    /\ Filed = [i \in Ids |-> Filed[i]]
    /\ \A i \in Ids : \/ Filed[i] = NoAgreement
                      \/ /\ IsAgreement(Filed[i]) /\ Filed[i].body.replaces = NoId
                         /\ TotalOf(Filed[i].shares) = Filed[i].body.requested
    /\ Gapless(Filed)
ASSUME MaxEventsIsNat == MaxEvents \in Nat

VARIABLE events     \* how many have happened

vars == <<txVars, agreementVars, payVars, authorized, events>>

Init ==
    /\ ActorsInit
    /\ \E homes \in Homes : TxInit(homes)
    /\ AgreementsInit(Filed, Opening)
    /\ PaymentsInit
    /\ events = 0

\* One request goes one step further.
Receive(r) ==
    \/ r \in CreateReqs /\ Enqueue(r) /\ UNCHANGED payVars
    \/ r \in VoidReqs /\ AuthorizeVoid(r) /\ UNCHANGED payVars
    \/ r \in PayReqs /\ AuthorizePay(r) /\ UNCHANGED agreementVars
    \/ r \in UndoReqs /\ AuthorizeUndo(r) /\ UNCHANGED agreementVars

Serve(r) ==
    \/ r \in CreateReqs /\ Creating(r) /\ UNCHANGED payVars
    \/ r \in VoidReqs /\ Voiding(r) /\ UNCHANGED payVars
    \/ r \in PayReqs /\ Paying(r) /\ UNCHANGED agreementVars
    \/ r \in UndoReqs /\ Undoing(r) /\ UNCHANGED agreementVars

Handle(r) == (Receive(r) \/ Serve(r)) /\ UNCHANGED <<authorized, events>>

Repeat(r) == Resend(r) /\ UNCHANGED <<agreementVars, payVars, authorized, events>>

Expire(r) ==
    /\ UNCHANGED authorized
    /\ \/ r \in CreateReqs /\ ExpireCreate(r) /\ UNCHANGED payVars
       \/ r \in VoidReqs /\ ExpireVoid(r) /\ UNCHANGED payVars
       \/ r \in PayReqs \cup UndoReqs /\ ExpirePay(r) /\ UNCHANGED agreementVars

Stop(i) ==
    /\ Crash(i)
    /\ paidSoFar' = [r \in PayReqs \cup UndoReqs |-> IF home[r] = i THEN 0 ELSE paidSoFar[r]]
    /\ UNCHANGED <<payTables, authorized>>

Authority(a) ==
    /\ Unshared(a)
    /\ Revoke(a) \/ Reinstate(a)
    /\ UNCHANGED <<txVars, agreementVars, payVars>>

Surroundings ==
    \/ \E r \in Requests : Expire(r)
    \/ \E i \in Instances : Stop(i)
    \/ \E a \in Actors : Authority(a)
    \/ \E p \in Periods, l \in Ledgers : Book(p, l) /\ UNCHANGED <<payVars, authorized>>
    \/ NewYear /\ UNCHANGED <<payVars, authorized>>

Event == events < MaxEvents /\ events' = events + 1 /\ Surroundings

Finished ==
    /\ \A r \in Requests : pc[r] = "away" \/ (pc[r] = "done" /\ sends[r] = MaxSends)
    /\ UNCHANGED vars

Next ==
    \/ \E r \in Requests : Handle(r) \/ Repeat(r)
    \/ Event
    \/ Finished

Spec == Init /\ [][Next]_vars

\* The processes and the database, together, go on while any request can.
FairSpec == Spec /\ WF_vars(\E r \in Requests : Handle(r))

-----------------------------------------------------------------------------
(* Every variable has its type: requests and locks, tables and attempts.   *)
TypeOK ==
    /\ ActorsTypeOK
    /\ home \in [Requests -> Instances \cup {Nowhere}]
    /\ pc \in [Requests -> Places]
    /\ held = [r \in Requests |-> held[r]]
    /\ sends \in [Requests -> 0..MaxSends]
    /\ queue \in [Instances -> Seq(CreateReqs)]
    /\ attempt \in [CreateReqs -> 0..MaxAttempts]
    /\ folioYear \in [CreateReqs -> Years \cup {0}]
    /\ agreements = [i \in Ids |-> agreements[i]]
    /\ \A i \in Ids : agreements[i] = NoAgreement \/ IsAgreement(agreements[i])
    /\ voids \in [Ids -> VoidRows \cup {NoVoid}]
    /\ counter \in [Years -> Nat]
    /\ books \in [Periods -> Ledgers]
    /\ year \in Years
    /\ paidSoFar \in [PayReqs \cup UndoReqs -> Nat]
    /\ payments \in [PayIds -> PaymentRows \cup {NoPayment}]
    /\ undos \in [UndoIds -> UndoRows \cup {NoUndo}]
    /\ events \in 0..MaxEvents

(* The same available money is never agreed twice: whenever an agreement   *)
(* is committed, what the live ones of its exact period distribute is no   *)
(* more than what its snapshot said is available.  Only agreements of      *)
(* another folio year that the snapshot missed escape (a known limit:      *)
(* "two creations that straddle New Year use different folio counters").   *)
NeverAgreedTwice ==
    [][\A r \in CreateReqs :
          LET b == CreateBody[r]
              missed == {i \in Ids : /\ snap[r].agreements[i] = NoAgreement
                                     /\ agreements'[i] # NoAgreement
                                     /\ agreements'[i].folio.year # folioYear[r]}
          IN  (pc[r] = "insert" /\ agreements[b.id] # agreements'[b.id]) =>
                  Distributed(agreements', LiveIn(agreements', voids', b.period) \ missed)
                      <= snap[r].books[b.period].available]_vars

(* Folios have no gaps and no repetitions, whatever is rolled back: those  *)
(* of a year are the numbers from 1 to its counter, one agreement each.    *)
FoliosAreGapless ==
    \A y \in Years : /\ Numbers(agreements, y) = 1..counter[y]
                     /\ Cardinality(InYear(agreements, y)) = counter[y]

(* An agreement replaces only one that was voided, and no other one        *)
(* replaces the same: corrections are chains, never trees.                 *)
ReplacementsAreChains ==
    \A i \in Ids : agreements[i] # NoAgreement =>
        LET old == agreements[i].body.replaces
        IN  old # NoId =>
                /\ agreements[old] # NoAgreement
                /\ Voided(voids, old)
                /\ \A j \in Ids \ {i} :
                       agreements[j] # NoAgreement => agreements[j].body.replaces # old

(* Creations of one process never fight over the counter: one that finds   *)
(* it changed was overtaken by a creation of another process.              *)
RetriesComeFromElsewhere ==
    [][\A r \in CreateReqs :
          (pc[r] = "folio" /\ snap[r].counter[folioYear[r]] # counter[folioYear[r]]
             /\ pc'[r] # "folio" /\ reply'[r] \notin {"500", "lost"}) =>
              \E q \in CreateReqs : /\ home[q] # home[r]
                                    /\ snap[r].agreements[CreateBody[q].id] = NoAgreement
                                    /\ agreements[CreateBody[q].id] # NoAgreement]_vars

\* The row that the request asks for is there already, by this very request.
Recorded(r) ==
    LET is(row, none, mark) == row # none /\ row.fingerprint = mark
    IN  \/ r \in CreateReqs /\ is(agreements[CreateBody[r].id], NoAgreement, CreateFingerprint(r))
        \/ r \in VoidReqs /\ is(voids[VoidBody[r].id], NoVoid, VoidFingerprint(r))
        \/ r \in PayReqs /\ is(payments[PayBody[r].id], NoPayment, PayFingerprint(r))
        \/ r \in UndoReqs /\ is(undos[UndoBody[r].id], NoUndo, UndoFingerprint(r))

Refusals == {"404", "409 id", "409 drift", "409 voided", "422 replacement", "422 simulation",
             "422 uncommitted", "422 nothing", "422 time", "422 pending"}

Refuses(r) == Running(r) /\ pc'[r] = "done" /\ reply'[r] \in Refusals

(* What was accepted is never refused to a retry, even a concurrent one,   *)
(* "even after the payment filled the balance, was reversed or the         *)
(* agreement voided": payments, their reversals and voids.                 *)
AcceptedIsNotRefused ==
    [][\A r \in VoidReqs \cup PayReqs \cup UndoReqs : Refuses(r) => ~Recorded(r)]_vars

(* A revocation that has been committed is honoured: no row is inserted in *)
(* the name of an actor who is not in force at the commit.                 *)
RevocationIsHonored ==
    [][\A r \in Requests :
          (reply'[r] = "201" /\ pc'[r] = "done" /\ pc[r] # "done") => MayActAsSocio(ActorOf[r])]_vars

(* Nobody is paid more than the share the agreement froze, however many    *)
(* payments and reversals race (READ COMMITTED and the participant's lock);*)
(* and the shares are what was requested, to the last minor unit, so that  *)
(* all together are never paid more than that.                             *)
PaidWithinShare ==
    \A i \in Ids : agreements[i] # NoAgreement =>
        LET shares == agreements[i].shares
            paid == [m \in DOMAIN shares |-> Paid(i, m)]
        IN  /\ \A m \in DOMAIN shares : paid[m] <= shares[m]
            /\ TotalOf(shares) = agreements[i].body.requested
            /\ TotalOf(paid) <= agreements[i].body.requested

(* A payment is committed before the agreement is voided or not at all.    *)
NoPaymentAfterVoid ==
    [][\A p \in PayIds : (payments[p] = NoPayment /\ payments'[p] # NoPayment) =>
          ~Voided(voids, payments'[p].body.agreement)]_vars

\* What the tables say, as accounts.
Accounts == INSTANCE DistributionAccounts WITH
    Nothing <- NoAgreement,
    filed <- agreements,
    voided <- {i \in Ids : Voided(voids, i)},
    paid <- [i \in Ids |-> [m \in Members |-> Paid(i, m)]]

(* Whatever the processes, snapshots, locks and retries do to each other,  *)
(* every commit is one whole operation on the accounts: an agreement with  *)
(* the next folio and free money, the void of a live one, a payment to a   *)
(* participant within its share, or the reversal of what was paid.  All    *)
(* else is not seen there.                                                 *)
ImplementsTheAccounts == Accounts!Spec

(* Nobody waits for ever, not in the queue, not for a lock, not retrying:  *)
(* in the end every submission has been answered.                          *)
EverySubmissionIsAnswered == <>[](\A r \in Requests : pc[r] \in {"away", "done"})
=============================================================================
