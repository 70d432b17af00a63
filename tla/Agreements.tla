----------------------------- MODULE Agreements -----------------------------
(***************************************************************************)
(* Distribution agreements (FinanceAgreementsService): creating one out of *)
(* a simulation, and voiding it.  A creation is a REPEATABLE READ          *)
(* transaction: it decides on the snapshot it took when it began, and      *)
(* finds out that others were faster when it takes its folio.              *)
(***************************************************************************)
EXTENDS FinanceTx, Allocation, Integers, Sequences

CONSTANTS
    CreateReqs,   \* submissions of POST /finance/distribution-agreements
    VoidReqs,     \* submissions of POST /finance/distribution-agreements/:id/reversals
    Ids,          \* ids of agreements and of reversals, ordered as UUIDs are
    ForeignIds,   \* those another business uses already, which no query shows
    Periods,      \* exact periods (from, to)
    Ledgers,      \* what a period may amount to: money available or lost, work, socios
    Years,        \* the years the server's clock goes through
    CreateBody,   \* the body of each creation
    VoidBody,     \* the body of each reversal
    NoAgreement,  \* no row with that id
    NoVoid,       \* no row with that id
    NoId,         \* the agreement replaces none
    MaxAttempts   \* MAX_CREATE_ATTEMPTS

\* seen: what the period amounted to in the simulation the client accepted,
\* which is what simulationFingerprint stands for.
CreateBodies == [id : Ids, period : Periods, requested : Nat \ {0}, bps : 0..BpsTotal,
                 replaces : Ids \cup {NoId}, seen : Ledgers]

\* timely: the reversal is dated between the agreement and the present.
VoidBodies == [id : Ids, target : Ids, timely : BOOLEAN]

ASSUME CreateBodiesAreValid ==
    CreateReqs \subseteq Requests /\ CreateBody \in [CreateReqs -> CreateBodies]
ASSUME VoidBodiesAreValid ==
    VoidReqs \subseteq Requests /\ VoidBody \in [VoidReqs -> VoidBodies]
ASSUME IdsAreOrdered == Ids \subseteq Nat /\ IsFiniteSet(Ids) /\ NoId \notin Ids
ASSUME YearsAreNat == Years \subseteq Nat
ASSUME MaxAttemptsIsPositive == MaxAttempts \in Nat \ {0}

VARIABLES
    queue,        \* per process, the creations waiting for their turn (createQueues)
    attempt,      \* attempts of each creation so far
    snap,         \* the snapshot its transaction reads
    folioYear,    \* the year of the folio it is about to take
    agreements,   \* the table "DistributionAgreement" with its participants
    voids,        \* the table "DistributionAgreementReversal"
    counter,      \* the table "DistributionAgreementCounter"
    books,        \* what each period amounts to, as sales, expenses, shifts and members say
    year          \* the year of the server's clock

creationVars == <<queue, attempt, snap, folioYear>>
agreementTables == <<agreements, voids, counter>>
agreementVars == <<creationVars, agreementTables, books, year>>

-----------------------------------------------------------------------------
NoSnap == << >>
Snapshot == [authorized |-> authorized, agreements |-> agreements, voids |-> voids,
             counter |-> counter, books |-> books]

Voided(table, i) == \E v \in Ids : table[v] # NoVoid /\ table[v].target = i

\* The live agreements of exactly this period, and what they distribute.
LiveIn(ags, table, p) ==
    {i \in Ids : ags[i] # NoAgreement /\ ags[i].body.period = p /\ ~Voided(table, i)}
Distributed(ags, ids) == SumFunction([i \in ids |-> ags[i].body.requested])

\* Mutant: what is agreed already is not subtracted.
FreeMoneyMutant(s, p) == s.books[p].available

FreeMoney(s, p) ==
    LET available == s.books[p].available
        committed == Distributed(s.agreements, LiveIn(s.agreements, s.voids, p))
    IN  IF available > committed THEN available - committed ELSE 0

Replaceable(s, i, by) ==
    /\ i # by
    /\ s.agreements[i] # NoAgreement
    /\ Voided(s.voids, i)
    /\ ~\E j \in Ids : s.agreements[j] # NoAgreement /\ s.agreements[j].body.replaces = i

\* The hash of the normalised body, with the account that sends it.
CreateFingerprint(r) == <<ActorOf[r], CreateBody[r]>>
VoidFingerprint(r) == <<ActorOf[r], VoidBody[r]>>

IdLock(i) == Exclusive(<<"agreement id", i>>)
CounterLock(y) == Exclusive(<<"counter", y>>)
RowLock(i) == Exclusive(<<"agreement", i>>)

-----------------------------------------------------------------------------
(* POST /finance/distribution-agreements *)

\* The creation joins the queue of its process.
Enqueue(r) ==
    /\ pc[r] = "idle"
    /\ Goto(r, "queued")
    /\ queue' = [queue EXCEPT ![home[r]] = Append(@, r)]
    /\ UNCHANGED <<attempt, snap, folioYear, agreementTables, books, year>>

\* It is answered, and the next one of the queue has its turn.
CreateFinish(r, code) ==
    /\ Finish(r, code)
    /\ queue' = [queue EXCEPT ![home[r]] = Tail(@)]
    /\ attempt' = [attempt EXCEPT ![r] = 0]
    /\ snap' = [snap EXCEPT ![r] = NoSnap]
    /\ folioYear' = [folioYear EXCEPT ![r] = 0]

CreateReject(r, code) ==
    /\ CreateFinish(r, code)
    /\ UNCHANGED <<agreementTables, books, year>>

\* Mutant: one attempt too many.
RetryMutant(r, exhausted) ==
    \/ /\ attempt[r] <= MaxAttempts
       /\ Leave(r, "queued")
       /\ snap' = [snap EXCEPT ![r] = NoSnap]
       /\ folioYear' = [folioYear EXCEPT ![r] = 0]
       /\ UNCHANGED <<queue, attempt, agreementTables, books, year>>
    \/ /\ attempt[r] > MaxAttempts
       /\ CreateReject(r, exhausted)

\* A serialization failure or a unique violation: the whole unit runs again,
\* on a new snapshot, until its attempts run out.
Retry(r, exhausted) ==
    \/ /\ attempt[r] < MaxAttempts
       /\ Leave(r, "queued")
       /\ snap' = [snap EXCEPT ![r] = NoSnap]
       /\ folioYear' = [folioYear EXCEPT ![r] = 0]
       /\ UNCHANGED <<queue, attempt, agreementTables, books, year>>
    \/ /\ attempt[r] = MaxAttempts
       /\ CreateReject(r, exhausted)

\* Mutant: creations of one business are not queued in their process.
BeginMutant(r) ==
    /\ pc[r] = "queued"
    /\ Goto(r, "authorize")
    /\ attempt' = [attempt EXCEPT ![r] = @ + 1]
    /\ snap' = [snap EXCEPT ![r] = Snapshot]
    /\ UNCHANGED <<queue, folioYear, agreementTables, books, year>>

\* Mutant: every attempt counts as the first.
BeginAnewMutant(r) ==
    /\ pc[r] = "queued"
    /\ Head(queue[home[r]]) = r
    /\ Goto(r, "authorize")
    /\ attempt' = [attempt EXCEPT ![r] = 1]
    /\ snap' = [snap EXCEPT ![r] = Snapshot]
    /\ UNCHANGED <<queue, folioYear, agreementTables, books, year>>

\* Its turn: the transaction begins, and sees the database as it is now.
Begin(r) ==
    /\ pc[r] = "queued"
    /\ Head(queue[home[r]]) = r
    /\ Goto(r, "authorize")
    /\ attempt' = [attempt EXCEPT ![r] = @ + 1]
    /\ snap' = [snap EXCEPT ![r] = Snapshot]
    /\ UNCHANGED <<queue, folioYear, agreementTables, books, year>>

\* FOR SHARE of rows that changed after the snapshot is a serialization failure.
AuthorizeCreate(r) ==
    /\ pc[r] = "authorize"
    /\ \/ /\ ActorOf[r] \notin snap[r].authorized \cap Socios
          /\ CreateReject(r, "403")
       \/ /\ ActorOf[r] \in snap[r].authorized \cap Socios
          /\ MayAct(ActorOf[r])
          /\ Acquire(r, ActorLock(r), "identity")
          /\ UNCHANGED agreementVars
       \/ /\ ActorOf[r] \in snap[r].authorized \cap Socios
          /\ ~MayAct(ActorOf[r])
          /\ Retry(r, "503")

LockIdentity(r) ==
    /\ pc[r] = "identity"
    /\ Acquire(r, IdLock(CreateBody[r].id), "decide")
    /\ UNCHANGED agreementVars

\* Everything that is decided on the snapshot: the replay, the replacement,
\* the simulation, its drift, and the money that is still free.
Decide(r) ==
    LET b == CreateBody[r]
        s == snap[r]
        row == s.agreements[b.id]
        fits == b.replaces # NoId => Replaceable(s, b.replaces, b.id)
        can == Simulable(s.books[b.period], b.requested, b.bps)
        drifted == s.books[b.period] # b.seen
    IN  /\ pc[r] = "decide"
        /\ \/ /\ row # NoAgreement
              /\ CreateReject(r, IF row.fingerprint = CreateFingerprint(r) THEN "200" ELSE "409 id")
           \/ row = NoAgreement /\ ~fits /\ CreateReject(r, "422 replacement")
           \/ row = NoAgreement /\ fits /\ ~can /\ CreateReject(r, "422 simulation")
           \/ row = NoAgreement /\ fits /\ can /\ drifted /\ CreateReject(r, "409 drift")
           \/ /\ row = NoAgreement /\ fits /\ can /\ ~drifted
              /\ b.requested > FreeMoney(s, b.period)
              /\ CreateReject(r, "422 uncommitted")
           \/ /\ row = NoAgreement /\ fits /\ can /\ ~drifted
              /\ b.requested <= FreeMoney(s, b.period)
              /\ Goto(r, "folio")
              /\ folioYear' = [folioYear EXCEPT ![r] = year]
              /\ UNCHANGED <<queue, attempt, snap, agreementTables, books, year>>

\* Mutant: the counter is incremented on what the snapshot shows.
TakeFolioMutant(r) ==
    /\ pc[r] = "folio"
    /\ Acquire(r, CounterLock(folioYear[r]), "insert")
    /\ UNCHANGED agreementVars

\* The increment of the year's counter waits for whoever has incremented it,
\* and fails if it has changed since the snapshot.
TakeFolio(r) ==
    LET y == folioYear[r]
    IN  /\ pc[r] = "folio"
        /\ Free(r, CounterLock(y))
        /\ \/ /\ counter[y] = snap[r].counter[y]
              /\ Acquire(r, CounterLock(y), "insert")
              /\ UNCHANGED agreementVars
           \/ /\ counter[y] # snap[r].counter[y]
              /\ Retry(r, "503")

AgreementRow(r) ==
    LET b == CreateBody[r]
        ledger == snap[r].books[b.period]
    IN  [body |-> b,
         fingerprint |-> CreateFingerprint(r),
         folio |-> [year |-> folioYear[r], number |-> snap[r].counter[folioYear[r]] + 1],
         shares |-> Shares(ledger, b.requested, b.bps),
         available |-> ledger.available]

\* Mutant: an agreement may be replaced twice.
ClashesMutant(r) == agreements[CreateBody[r].id] # NoAgreement \/ CreateBody[r].id \in ForeignIds

\* The primary key and the unique index on the replaced agreement.
Clashes(r) ==
    LET b == CreateBody[r]
    IN  \/ agreements[b.id] # NoAgreement
        \/ b.id \in ForeignIds
        \/ b.replaces # NoId /\ \E j \in Ids : agreements[j] # NoAgreement
                                               /\ agreements[j].body.replaces = b.replaces

\* The inserts and the commit.
Insert(r) ==
    /\ pc[r] = "insert"
    /\ \/ /\ Clashes(r)
          /\ Retry(r, "404")
       \/ /\ ~Clashes(r)
          /\ agreements' = [agreements EXCEPT ![CreateBody[r].id] = AgreementRow(r)]
          /\ counter' = [counter EXCEPT ![folioYear[r]] = AgreementRow(r).folio.number]
          /\ CreateFinish(r, "201")
          /\ UNCHANGED <<voids, books, year>>

ASSUME NoAgreementIsNoRow ==
    \A r \in CreateReqs, ledger \in Ledgers :
        NoAgreement \notin [body : {CreateBody[r]}, fingerprint : {CreateFingerprint(r)},
                            folio : [year : Years, number : Nat \ {0}],
                            shares : {Shares(ledger, CreateBody[r].requested, CreateBody[r].bps)},
                            available : {ledger.available}]

Creating(r) ==
    \/ Begin(r) \/ AuthorizeCreate(r) \/ LockIdentity(r)
    \/ Decide(r) \/ TakeFolio(r) \/ Insert(r)

-----------------------------------------------------------------------------
(* POST /finance/distribution-agreements/:id/reversals, READ COMMITTED *)

VoidReject(r, code) ==
    /\ Finish(r, code)
    /\ UNCHANGED agreementVars

AuthorizeVoid(r) ==
    /\ pc[r] = "idle"
    /\ \/ /\ VoidBody[r].id = VoidBody[r].target
          /\ VoidReject(r, "400")
       \/ /\ VoidBody[r].id # VoidBody[r].target
          /\ Authorize(r, "first")
          /\ UNCHANGED agreementVars

Sorted(r) ==
    IF VoidBody[r].id < VoidBody[r].target
    THEN <<VoidBody[r].id, VoidBody[r].target>>
    ELSE <<VoidBody[r].target, VoidBody[r].id>>

LockFirst(r) ==
    /\ pc[r] = "first"
    /\ Acquire(r, IdLock(Sorted(r)[1]), "second")
    /\ UNCHANGED agreementVars

LockSecond(r) ==
    /\ pc[r] = "second"
    /\ Acquire(r, IdLock(Sorted(r)[2]), "row")
    /\ UNCHANGED agreementVars

\* The replay, then the row of the agreement FOR UPDATE.
LockRow(r) ==
    LET b == VoidBody[r]
    IN  /\ pc[r] = "row"
        /\ \/ /\ voids[b.id] # NoVoid
              /\ VoidReject(r, IF voids[b.id].fingerprint = VoidFingerprint(r) THEN "200"
                                ELSE "409 id")
           \/ /\ voids[b.id] = NoVoid
              /\ agreements[b.target] = NoAgreement
              /\ VoidReject(r, "404")
           \/ /\ voids[b.id] = NoVoid
              /\ agreements[b.target] # NoAgreement
              /\ Acquire(r, RowLock(b.target), "check")
              /\ UNCHANGED agreementVars

CheckVoid(r) ==
    LET b == VoidBody[r]
        already == Voided(voids, b.target)
    IN  /\ pc[r] = "check"
        /\ \/ already /\ VoidReject(r, "409 voided")
           \/ ~already /\ ~b.timely /\ VoidReject(r, "422 time")
           \/ ~already /\ b.timely /\ Goto(r, "void") /\ UNCHANGED agreementVars

\* The insert and the commit.  A row of another business with that id, like
\* one that voids the same agreement, is a unique violation.
InsertVoid(r) ==
    LET b == VoidBody[r]
        clash == b.id \in ForeignIds \/ voids[b.id] # NoVoid \/ Voided(voids, b.target)
    IN  /\ pc[r] = "void"
        /\ \/ clash /\ VoidReject(r, "404")
           \/ /\ ~clash
              /\ voids' = [voids EXCEPT ![b.id] =
                     [target |-> b.target, fingerprint |-> VoidFingerprint(r)]]
              /\ Finish(r, "201")
              /\ UNCHANGED <<creationVars, agreements, counter, books, year>>

Voiding(r) ==
    \/ LockFirst(r) \/ LockSecond(r) \/ LockRow(r) \/ CheckVoid(r) \/ InsertVoid(r)

-----------------------------------------------------------------------------
(* The surroundings *)

\* A sale, an expense, a shift or a member changes what a period amounts to.
Book(p, ledger) ==
    /\ ledger # books[p]
    /\ books' = [books EXCEPT ![p] = ledger]
    /\ UNCHANGED <<creationVars, agreementTables, year, txVars>>

NewYear ==
    /\ year + 1 \in Years
    /\ year' = year + 1
    /\ UNCHANGED <<creationVars, agreementTables, books, txVars>>

\* Prisma ends a transaction that has lasted too long.
ExpireCreate(r) ==
    /\ Running(r) /\ pc[r] # "queued"
    /\ CreateReject(r, "500")

ExpireVoid(r) ==
    /\ Running(r)
    /\ VoidReject(r, "500")

\* A process stops, and its queue is lost.
Crash(i) ==
    LET gone == {r \in CreateReqs : home[r] = i}
    IN  /\ \E r \in Requests : home[r] = i /\ Running(r)
        /\ DropHome(i)
        /\ queue' = [queue EXCEPT ![i] = << >>]
        /\ attempt' = [r \in CreateReqs |-> IF r \in gone THEN 0 ELSE attempt[r]]
        /\ snap' = [r \in CreateReqs |-> IF r \in gone THEN NoSnap ELSE snap[r]]
        /\ folioYear' = [r \in CreateReqs |-> IF r \in gone THEN 0 ELSE folioYear[r]]
        /\ UNCHANGED <<agreementTables, books, year>>

AgreementsInit(filed, opening) ==
    /\ queue = [i \in Instances |-> << >>]
    /\ attempt = [r \in CreateReqs |-> 0]
    /\ snap = [r \in CreateReqs |-> NoSnap]
    /\ folioYear = [r \in CreateReqs |-> 0]
    /\ agreements = filed
    /\ voids = [v \in Ids |-> NoVoid]
    /\ counter = [y \in Years |->
           Cardinality({i \in Ids : filed[i] # NoAgreement /\ filed[i].folio.year = y})]
    /\ books = opening
    /\ \E y \in Years : (\A z \in Years : y <= z) /\ year = y
=============================================================================
