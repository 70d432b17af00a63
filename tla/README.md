# Verification of bazar-api

bazar-api is the NestJS/Prisma/PostgreSQL back end of a small shop with several
owners (*socios*) and sellers (*colaboradores*): tablets sell against a shared
stock, often after having queued sales offline; owners lend goods on credit, edit
the catalog, and later divide the money by agreements, payments and rules. This
directory holds TLA+ models of that code, the TLC configurations that check them
on small shops, and TLAPS proofs for every shop.

Paths such as `sales.service.ts:352` are relative to `src/<module>/` of the
repository.

## 1. Inventory

### What is hard here

Every request is one asynchronous handler; any number run at once, in one or
several server processes. What they share is PostgreSQL at READ COMMITTED (the
finance agreements use REPEATABLE READ). Between two statements of a transaction
anything another transaction commits may appear. The code defends itself with row
locks (`SELECT ... FOR UPDATE`), guarded updates, primary keys as arbiters of
client-generated ids, request fingerprints, advisory locks and retries. Clients
resend: a tablet's queue repeats a sale until it is answered. A handler can die
between any two statements (Prisma transaction timeout, lost connection,
restart), which rolls its transaction back and answers nobody.

### Components

| Component (source) | State it keeps | Operations | Interacts with | Must hold |
|---|---|---|---|---|
| **Sales** (`sales`) | `Sale`, `SaleItem`, `Incidencia` | create (idempotent by client id), list, findOne | takes units from product rows; re-validates its actor | one outcome per id, whatever is resent or raced; goods and money conserved; a rejected sale and its incident exist together |
| **Catalog** (`products`) | `Product`, `ProductAudit`, `StockMovement`, image files | create, patch, restock, deactivate, reactivate, image | the same product rows | stock in range; audit is a chain; movements explain every rise of stock; weighted cost |
| **Debts** (`deudas`) | `Deuda`, `Abono`, `Deudor`, `CuotaPlaneada` | create (idempotent if the client gives an id), registerAbono, cuotas | the same product rows | never collected beyond the total; settled exactly when paid; a replay returns the first receipt |
| **In-transaction authorization** (each service's `authorize`) | reads `Account`, `Member`, `Device` | re-validation at the start of a transaction | revocation by members and devices | a revoked actor is refused |
| **Devices** (`devices`) | `Device` status, token hash, one-time identifier | create, identify, revoke, reissue | authorization | one winner per activation; a revoked token stays dead |
| **Members** (`members`) | `Member`, unique e-mail | create, patch, deactivate, reactivate, e-mail | authorization, invitations | a socio is never deactivated; one person per e-mail |
| **Incidents** (`incidencias`) | `Incidencia` status | resolve, list | sales | resolved once, by a socio |
| **Invitations** (`invitations`) | `AccountInvitation` | invite, inspect, accept | members, accounts, devices | a link works once; send limits hold under concurrency |
| **Registration** (`business-registration`) | `BusinessRegistrationRequest`, rate-limit maps | create, verify, resend, approve, reject, cleanup | e-mail; creates the first member, device, account | at most one business per request; no rejected request has one |
| **Agreements** (`finance/finance-agreements*`) | `DistributionAgreement`, participants, folio counter, per-process queue | create with retry, reverse, replace | simulation; payments | the same money is not agreed twice; folios gapless; replay stable |
| **Payments** (`finance/finance-payments*`) | `DistributionPayment`, reversals | create, reverse | agreements (FOR SHARE), participants (FOR UPDATE) | never above what was agreed; none on a voided agreement |
| **Simulation** (`finance/finance-distribution*`, `finance-overview`) | none (snapshots) | simulate, split pools, allocate | agreements | shares add up to the pool |
| **Rules** (`finance/finance-rules*`, `finance-rule-links`) | `FinanceRuleSet`, responses, links | draft, submit, modify, discard, answer, resend | e-mail; SQL functions | at most one in force and one open; unanimity |
| **Reversible records** (`contributions`, `expenses`, `finance-reserves`, `work-shifts`) | one table and one reversal table each | create, reverse with optional replacement | advisory locks | reversed at most once; replacement and reversal together |
| **Auth** (`auth`) | password hashes, JWT validity | login, changePassword, three guards | every controller | who is out of force passes no guard; of two changes of one password one wins |
| **Tenant isolation** (`database`) | request-local context id | rewrites queries, sets the RLS variable | everything | no row of another business is seen |
| **E-mail, storage, reports, commissions, dashboard, docs, http** | files, settings | input/output and read-only sums | | |

The hazards of these parts are listed, each at its line, in `PROJECT.json`.

## 2. Modules

| Module | Models | Abstract or detailed |
|---|---|---|
| `ProductRows` | the table `Product` under READ COMMITTED: a committed version, an uncommitted one and a lock per row | detailed, external (PostgreSQL) |
| `Actors` | who is in force: account active, member active, device authorized | detailed |
| `Sales` | `SalesService.create` | detailed, one step per statement |
| `Catalog` | `ProductsService` create, patch, restock, deactivate, reactivate; `nextProductCost` | detailed |
| `Debts` | `DeudasService` create and registerAbono | detailed |
| `StockLedger` | what the three promise together: six indivisible operations on goods, sales and debts | **abstract** |
| `Inventory` | composes Sales, Catalog, Debts and Actors on the same rows; the global properties; the refinement mapping to `StockLedger` | composition |
| `SaleClaims` | two statements of the documentation that the code does not keep | composition plus one history variable |
| `MCInventory` | the small shops: products, bodies, operations, and which requests arrive together | TLC only |
| `Allocation` | `splitPools`, `allocateEqual`, `allocateByWeight`, and the rules and rows of `simulateInTx`; `Hamilton`, the largest remainder method defined by what it must satisfy | pure operators, **reference** |
| `Books` | what is computed from committed rows: `FinanceOverviewService`, `FinanceDistributionService`, `ReportsService`, `CommissionsService`, `DashboardService`, `computeProfitTotals`, `business-time` | a calculation per report, one step per statement of the call |
| `MCBooks` | every small distribution; the books of a few days around midnight, and what reports must agree on | TLC only, **reference** |
| `FinanceTx` | one transaction per request with its locks (shared, exclusive, advisory), answer and resends; the actor's rows FOR SHARE | detailed, mostly external |
| `Agreements` | `FinanceAgreementsService` create (with `serialized` and `runWithRetry`) and reverse | detailed, one step per lock or decision |
| `Payments` | `FinancePaymentsService` create and reverse | detailed, one step per lock or decision |
| `DistributionAccounts` | what the two promise together: agree, void, pay and undo on accounts, each indivisible | **abstract** |
| `Finance` | composes Agreements, Payments and Actors in several processes; the global properties; the refinement mapping to `DistributionAccounts` | composition |
| `FinanceClaims` | a statement of a comment that the code does not keep | composition |
| `FinanceRules` | `FinanceRulesService`, `FinanceRuleLinksService` and the SQL functions and triggers of their migration | detailed, one step per wait or lookup |
| `Records` | create and reverse of `ContributionsService`, `ExpensesService`, `WorkShiftsService`, `FinanceReservesService`, and their keyset lists | detailed, one step per lock or decision |
| `Mailroom` | what registration and access share: transactions, the rows and unique keys they wait for, the e-mail before or after the commit, its deadline (`with-timeout`) | detailed |
| `Access` | `MembersService`, `MemberEmailService`, `AccountInvitationsService`, `DevicesService`, `AuthService.changePassword` | detailed, one step per statement that waits or decides |
| `Registration` | `BusinessRegistrationService`, its rate limiter and the cleanup | detailed, one step per statement that waits or decides |
| `Office` | composes Registration and Access on the same people, logins and e-mails; the global properties | composition |
| `OfficeClaims` | a statement of a comment that the code does not keep | composition |
| `MCRules`, `MCRecords`, `MCOffice` | small businesses, and which requests arrive together | TLC only |
| `MCFinance` | small businesses: agreements, payments, reversals, and where they arrive | TLC only |
| `Allocation_proofs` | sums over finite sets; the split is Hamilton's, and the shares add up to what is requested | proofs |
| `Inventory_proofs` | the inductive invariant and the theorems about rows, debts and sales; what an answered client knows; audit trail, movements and incidents; goods are conserved; the refinement of `StockLedger` | proofs |
| `Books_proofs` | what simulations answer, for any books and whatever is committed meanwhile | proofs |
| `FinanceTx_proofs` | no two finance transactions hold conflicting locks | proofs |
| `Finance_proofs` | what the locks and snapshots of agreements and payments guarantee; the refinement of `DistributionAccounts` | proofs |
| `Records_proofs` | what the identity, day and member locks of the records guarantee, and the cursor of their list | proofs |
| `FinanceRules_proofs` | the tables of the rules stay clear of the database's guards; unanimity | proofs |
| `Office_proofs` | what is used once stays used, what is committed was delivered, one business per request | proofs |

### From code to model

*A request is a process.* `pc` (sales), `cpc` (catalog), `dpc` (debts) say which
statement its handler runs next: `away` (never submitted), `idle` (submitted),
..., `done`. `POST /sales` goes

    idle -> precheck -> authorize -> read -> lock -> (read -> lock)* -> insert -> done
                                        \________\____________\-> recover -> persist -> reread

where `Guard`, the step from `idle`, is the `ContextGuard` of the controller: an actor
who is out of force is answered 403 there, before the sale is looked up, and so are
the resends of a sale that was accepted. `AuthGuard`'s 401 counts as the same refusal.

*One step per statement whose result another request can change.* Steps are merged
only where nobody could tell:

- the `SELECT ... FOR UPDATE` and the plain read that follows it: the row cannot
  change while it is locked;
- the last insert of a transaction and its commit: a concurrent insert of the same
  id waits for the commit, and a row is not visible before it;
- a catalog edit after its lock: its check of the actor, read, write, audit and
  commit touch only the locked row;
- the debtor created inline and the debt: committed together, used by nobody else.

*A product row* is `row[p]` (committed), `draft[p]` (what its lock holder sees) and
`owner[p]`. `View(t, p)` is what a statement of transaction `t` reads. `LockFree`
is the wait; `CommitRows` and `RollbackRows` end the transaction on all its rows.

*Data* is kept as far as a property tells it apart: a fingerprint is the
information that is hashed (the bag of items for a sale, the body for a debt); an
error is one of `bad`, `conflict`, `duplicate`; `late` stands for an `occurredAt`
outside the accepted window whenever the body arrives; a sale keeps for each
product the quantity, price and cost it was sold at. `paid[d]` is the sum of the
`Abono` rows of a debt. Amounts are bounded by `MaxMinor`, 2^31 - 1 in the code:
beyond it `assertMinorUnits` throws a RangeError that nothing catches, hence 500.

*Failure.* `Drop`, `CatDrop` and `DebtDrop` let a handler die at any statement;
`Resend` and `DebtResend` let a client submit the same body again, with or without
an answer; `Revoke` and `Reinstate` move at any moment; `DeadlockAbort` is
PostgreSQL cancelling one transaction of a waiting cycle.

### From code to model: finance

Here too a request is a process (`pc`), but it also has a `home`, the API process
that serves it, since part of the protocol lives in the memory of one
(`createQueues`). `held[r]` is the set of locks of its transaction: a lock is a mode
and a thing, the thing a row or an advisory key; `Free` is the wait, and all locks go
at the end.

    create:  idle -> queued -> authorize -> identity -> decide -> folio -> insert -> done
                       ^____________|______________________________|_________|   (Retry)
    reverse: idle -> first -> second -> row -> check -> void -> done
    payment: idle -> identity -> replay -> agreement -> participant -> balance -> pay -> done
    undo:    idle -> undo identity -> undo replay -> undo row -> undo check -> undo -> done

*Snapshots.* A creation is REPEATABLE READ: `Begin` stores in `snap[r]` the tables,
the books and the actors of that instant, and `Decide` reads nothing else. `Decide`
is one step because nothing it reads can change. Where a statement would write or
lock a row that changed since (`AuthorizeCreate`, `TakeFolio`), PostgreSQL raises
40001 and the model takes `Retry`. `Insert` meets primary keys and unique indexes,
which see everything, other businesses included (`ForeignIds`). Voids, payments and
their reversals are READ COMMITTED: each step reads the tables as they are.

*Data.* `books[p]` is what the simulator computes from everything else: money
available, units of work per member, active socios; `Book` is any sale, expense,
shift or change of members that alters it. The fingerprint of a simulation is
these books and the body; the fingerprint of a request is account and body. The
units of work are given per basis, so `workBasis` itself does not appear. An
agreement keeps the body, folio, shares and available money it froze. `timely`
stands for a date between the row it follows and the present.

*Abstractions to know of.* Account, member and device are one thing, `actor`, with
one lock. A row changed and changed back during a snapshot counts as unchanged for
`AuthorizeCreate`. Checks that depend on the request alone and end in 400 or 403
before any transaction (origin against selection, calendar) are left out, save the
one that compares two ids of a reversal. The documents returned to clients are not
compared; their tables are.

### From code to model: finance rules

A call of the session occupies a slot of `Requests` (`job[r]` says which statement
comes next). An objection by link is one SQL function, hence one action (`Object`);
an approval is two, for `finance_rule_set_settle` counts the approvals against active
socios whom nothing locks, and what it decided shows at the commit only. `Approve` counts
(`answering`, which keeps the outcome and the socios it was counted against), `Commit`
writes; a `resend` that finds everything approved goes the same way (`settling`). Both
hold the row of the version in between, while socios come and go. `sets` is the table of versions: its index is the version number, its
`terms` what a configuration must add up to. Two things are looked up and used
later, and both are variables of `job`: the draft that `saveDraft` found (`saving`)
and the proposal that `submit` found open (`submitting`, `openAfterLock` looks
again). The advisory lock of the business is `BusinessFree`, the row of the version
`RowFree`, kept by whoever submits, answers or settles (`RowHolders`). `Deliver` and `DeliverFails` mail the links one by one after the commit;
a link has `mailed` (the e-mail left) and `sent` (the column), because they differ
after a crash. `Transitions` and `GuardsAllow` are the trigger and the unique
indexes of the migration; they are *not* guards of the actions, so a step that would
run into them is a violation of `GuardsAreNeverHit`. One such step is excused in
the source and so in the model: a save of a draft that was discarded under it.

### From code to model: reversible records

The four services have one protocol, written once with the table as parameter
(`Kind(r)`) and the differences spelled out in `Contribution`, `Expense`,
`WorkShift` and `FinanceReserve`: shifts also lock days and count, keep record and
reversal identities apart, reserves have no member, contributions are of socios.

    idle -> identities (one lock at a time, sorted) -> decide -> days -> subject -> count -> write -> done

`Write` inserts the replacement and the reversal in one commit. `list` reads one
page; its cursor is the day and the id of the last row, as in the code, and any
request may run between two pages.

### From code to model: registration and access

`Mailroom` gives every request one transaction at a time: `held` are the rows and
unique keys it has locked or inserted, `wants` the one it waits for, `seen` what it
read before and still relies on. What is read *without* a lock is a step of its own,
apart from the write that relies on it: `FindAddress` asks whether somebody has the
founder's address and `GiveAddress` writes it, `LockInvitation` looks for a login of
the member and of the name and `OpenLogin` inserts one. What came in between breaks a
unique index, and the request is answered 500 and rolled back. A unique key that another transaction has inserted
and not committed is a lock like any other. An e-mail before the commit (approval,
credentials, device code, verification) keeps the transaction open while it is on
the `wire`; `GiveUp` is the deadline, after which the e-mail may still arrive
(`Stray`); an e-mail after the commit (invitation, confirmation of an address) is
followed by `Retire` when it fails. `mailbox` holds the secrets that somebody can
read; links and codes can be used only from there. Whatever a request creates is
named after it: row, link, code and password are the same identifier.

*Data left out here.* Passwords and tokens are identities, never hashes; the
username derived from an address is the address, or the request itself when that is
taken. The login that a whole business shared, of nobody in particular, is not modelled;
its owner may ask to confirm its address, as anybody may whose own login has it (`Refused`). A request has one link in force at a time, that of its verification or the
one with which it is approved or rejected. A wait of a minute, an
hour, two or thirty days is a flag (`recent`, `lapsed`, `old`, `expired`) that an
event turns.

### From code to model: books

`Books` has no writers of its own but rates and incidents: what others commit is a
set of rows (`landing`) that arrive between two statements of a report. Time is in
units of the six hours that separate the business from UTC, so a day has four
instants and midnight is not a multiple of four, which is the point: `Boundary`,
`DayStart`, `CurrentWeekRange` are `business-time.ts`. Overview and simulation are
one step because their transaction is a repeatable-read snapshot; reports,
commissions and dashboard read statement by statement at READ COMMITTED.

### Abstract specifications

`StockLedger` knows nothing of requests, locks, ids in flight or retries: `Sell`
takes the units of a whole order at one instant at the prices of that instant;
`RecordRejection` notes a lost race; `Lend`, `Collect`, `Restock` and `Manage` do
the rest. The mapping in `Inventory` is: goods are the committed rows, sales and
debts the committed tables. That every behaviour of the composed services is one of
the ledger (`ImplementsLedger`) is the statement that the locking is right: every
transaction takes effect at its commit, on rows nobody else could have changed
since it read them.

`DistributionAccounts` does the same for finance. It knows the agreements, which of
them are voided and what each member has received of each, and no processes, queues,
snapshots, locks, attempts or answers. `Agree` files an agreement with the next folio
of its year, whose amount is still free beside the live agreements of its exact period
and year, shared out to the last unit, and which replaces at most a voided agreement
that nothing else replaces; `Void` voids a live one, once; `Pay` gives a participant of
a live one more of its share; `Undo` takes back something that was paid. The mapping in
`Finance` derives the voided ids and the balances from the rows. `ImplementsTheAccounts`
thus says that a creation that decided on an old snapshot, or was retried, or raced a
void in another process, still did what it would have done alone at its commit. Two
things are weaker there than in the code: money that agreements of *another* folio year
distribute is not subtracted, since creations that straddle new year miss each other (a
known limit; `NeverAgreedTwice` says what is missed), and `Undo` takes back any part of a
balance, where the code takes back one payment.

## 3. Runs

| Run | Shop and bounds | Shows |
|---|---|---|
| `sales` | two products, eight submissions in seven groups, two catalog edits; each sent at most twice (`MaxSends = 1`) | `AnswerAgreesWithRow`, `RetriesReplay`, and under fairness `EveryRequestIsAnswered` |
| `shop` | three products (one to be created, one unique piece), 21 groups of two or three requests of the three services; debt requests sent at most twice (`MaxDebtSends = 1`) | types, `StockInRange`, `StockConserved`, `AuditTrailIsAChain`, `MovementsExplainStock`, `CollectedOnce`, `ReceiptIsFrozen`, `RejectionsHaveIncident`, and the refinement `ImplementsLedger` |
| `lost_race` | two sales that share a product | **violated**: README "genuine concurrent stock loser" |
| `revocation` | the same, with a revocation | **violated**: comment of `SalesService.authorize` |
| `books` | three members, each worker or socio or both, up to `MaxWeight` minutes of work and `MaxAmount` minor units, several `SharesBps`; eleven questions about days 0 to 3 while eight changes land | `DistributionAddsUp`, `WorkFollowsHamilton`, `BooksAgree` |
| `agreements` | two processes, an agreement on file, ten groups of two or three creations, voids and payments; sent at most twice, `MaxAttempts = 2`, one event (`MaxEvents = 1`), two years | `TypeOK`, `FoliosAreGapless`, `ReplacementsAreChains`, `NeverAgreedTwice`, `RetriesComeFromElsewhere`, `RevocationIsHonored`, and under fairness `EverySubmissionIsAnswered` |
| `payments` | two processes, two agreements on file, fourteen groups of payments, undos, voids and creations; one event | `PaidWithinShare`, `AcceptedIsNotRefused`, and the refinement `ImplementsTheAccounts` |
| `stale_replay` | two processes, twin creations, one change of the books | **violated**: comment of `createInTx` |
| `rules` | two socios; a business with nothing yet, with a proposal that waits, and with a draft that may replace it; two calls at once, `MaxCalls = 3`, `MaxVersions = 3`, `MaxEvents = 2` | `TypeOK`, `GuardsAreNeverHit`, `BroughtInUnanimously`, and under fairness `EveryCallEnds` |
| `records` | two processes, thirteen groups of two or three creations and corrections of the four services, sent at most twice; a reader with pages of two; one event | `CorrectionsHoldTogether`, `PagesMissNothing`, `WarningsAreExact`, `OnlyForThoseInForce`, and under fairness `EverySubmissionIsAnswered` |
| `office` | a business with owner, partner without login, helper, two devices; one request to confirm and one to approve; 23 groups of up to three requests; `MaxEmails = 2`, `MaxEvents = 2` | `TypeOK`, `CommittedSecretsAreDelivered`, `OneBusinessPerRequest`, `OneLiveLink`, `SecretsWorkOnce`, and under fairness `EveryCallEnds` |
| `rejected` | the same without events | **violated**: comment of `reject` |

The properties, in words:

- `AnswerAgreesWithRow`: 200 and 201 mean the row of the id is this very request;
  409 means it is another one; 201 is answered to one request per id only.
- `RetriesReplay`: once the very body is on record, told by its fingerprint or in a
  row older than those by its items, an attempt that is answered is answered 200: no second
  201, conflict or bad request, whatever became of the stock. A guard refuses (403) only
  while the actor is not in force, and a 500 (deadlock, range of the money) only
  reaches clients that were not told yet.
- `StockConserved`: initial units plus restocked ones are on the shelf, sold, or
  lent. A double application, a half rollback or a lost update breaks it.
- `AuditTrailIsAChain`, `MovementsExplainStock`: the histories agree with the rows.
- `CollectedOnce`: payments within the total, settled exactly when paid.
- `ReceiptIsFrozen`: a replay gets the receipt of the creation, not today's balance.
- `RejectionsHaveIncident`: a recorded lost race and its incident come together.
- `DistributionAddsUp`, `WorkFollowsHamilton`: no minor unit is lost or invented, and
  the work pool is divided by the only division the largest remainder method allows.
- `NeverAgreedTwice`: a commit never makes the live agreements of an exact period
  distribute more than its snapshot said is available. Pairs around new year are
  excluded: the documentation names them as a known limit
  (`doc/finance-distribution-agreements.md`), and TLC does reach them.
- `FoliosAreGapless`: folios of a year are 1 to its counter, whatever is rolled back.
- `ReplacementsAreChains`: one replacement per agreement, of a voided one only.
- `RetriesComeFromElsewhere`: the queue of a process keeps its creations from
  failing each other on the counter; whoever is overtaken was so by another process.
- `RevocationIsHonored` (holds here, fails for sales): rows are inserted only in the
  name of someone in force at that moment.
- `PaidWithinShare`: the balance is respected
  under READ COMMITTED, which only the two row locks achieve; the shares of an agreement
  are what was requested, so all together are never paid more than that.
- `ImplementsTheAccounts`: every commit of the agreements and payments is one whole
  operation of `DistributionAccounts`; in particular nothing is paid after the void
  (`NoPaymentAfterVoid`, proved on its own), voided twice or replaced before it.
- `AcceptedIsNotRefused`: no void, payment or undo is refused when its very row is
  there, also if the row appeared after the request began.
- `BooksAgree`: adjoining days add up to the range, a sale at the last instant of a
  day included; methods, members and lines add up to the total, also when rows land
  between the statements of a report; now is in today and in this week.
- `GuardsAreNeverHit`: one draft, one open proposal, one version in force, and no
  statement of the code relies on the database to refuse it.
- `BroughtInUnanimously`: what takes force was approved, in those very terms, by every
  partner in force when the approvals were counted; the approval that completes them
  brings the version into force as it commits; what was in force leaves only for it.
  The partners in force *at the commit* may be others: see Disagreements.
- `CorrectionsHoldTogether`: a record is reversed once; replacement and reversal are
  both there or neither; shifts and reversals share no identity.
- `WarningsAreExact`: a shift's receipt counts the other live shifts of that day as
  they are at its commit.
- `OnlyForThoseInForce`: nothing is recorded by or for someone who has left, up to
  the commit.
- `PagesMissNothing`: a list read by pages shows what was there throughout once.
- `CommittedSecretsAreDelivered`: a committed row whose secret was never delivered
  does not exist: nobody is locked out by an e-mail that failed.
- `OneBusinessPerRequest`, `OneLiveLink`, `SecretsWorkOnce`: requests, links, invitations
  and passwords are spent once under any overlap, and a device is activated at most once
  more often than it was reissued. The old code of a reissued device may be the one that
  activates it (Disagreements); that uses up the activation the reissue allows.

*Bounds.* `Arrivals` lists the groups of requests that are in flight together;
TLC explores every interleaving inside a group with crashes, resends and
revocations. Groups have two or three requests because every hazard is between two
transactions, or two and the one whose commit both see; they were chosen so that
every branch of every action fires: short stock before and after the lock, a
duplicate id from a twin and from a stranger, opposite lock orders, short cash, a
total out of range, a legacy row, a restock at the limit, of a withdrawn and of an
absent product. `MaxMinor = 8` makes the range reachable with prices of 1 to 5.
`MaxSends` and `MaxDebtSends` bound resubmissions; one is enough for a retry to
meet every state its first attempt left.

For finance `MaxAttempts` is 5 in the code and 2 in the runs: the second attempt is the
first on a snapshot newer than a conflict, and later ones repeat it; a survivor of
the last is reached both ways (503 and 404). `MaxEvents = 1` gives each group one
disturbance (a transaction expires, a process stops, an actor is revoked or comes
back, the books change, the year ends) at any point. In `payments` nobody
resends; twins with the same body take that part.

In `rules` three versions are one in force, one open and one draft, the most the
indexes allow at once; a third call meets what the first two left. Two slots suffice for
the answers too: one that counts keeps the row of the only version that can be answered,
so the other meets it waiting, or a socio who comes or goes. In `records` the
groups pair corrections that name each other's identities and days in opposite
orders. In `office` each group is chosen for one hazard and two events suffice for
an expiry together with a crash. In `books` weights up to 3 and amounts up to 7 give
every pattern of equal and different remainders among three members; four days give
two adjoining ranges with something at either end.

*Fairness.* In `Inventory`, `FairSpec` asks weak fairness of each request's own
handler steps: the Node event loop and PostgreSQL do go on with work they have
accepted, and PostgreSQL's deadlock detector, which always acts, is one of those
steps. Nothing is asked of clients, crashes or revocations. Weak fairness suffices
because a row lock that was free stays free until someone in a bounded set of
requests takes it, and each can take it finitely often. In `Finance` and `Records`
one weak fairness condition on "some request can go on" is assumed, weaker than one
per request, and enough because the work is finite: nobody is stuck while others run
for ever. Neither has a deadlock detector: their lock orders must make one
unnecessary. `FinanceRules` is fair to the statements of each call; answers and
new calls need not come. `Office` is fair to handlers, to the deadlock detector and
to the deadline of an e-mail (`GiveUp`), but not to the delivery of any e-mail:
Resend need not answer. `Books` states no fairness.
Deadlock is checked in all runs but `books`, whose calls are answered and done:
elsewhere `Finished` is the only state where the system may stop.

*Unreachable code.* The catch block of `create` has a branch for a duplicate id
whose row is then not found (`sales.service.ts:487`). Sales are never deleted
(`SalesNeverChange`, proved), so inside one business it cannot happen and the model
has no such branch.

## 4. Findings

1. `lost_race`. The unlocked read that tells a bad request from a lost race
   (`sales.service.ts:333`) is made per item, after the waits for earlier items. A
   sale of A and B that waits for A while another takes the last B answers 400 and
   leaves no trace, though B was there when the sale began. README.md:207 promises
   `rechazada_por_conflicto` for a genuine concurrent loser.
2. `revocation`. `authorize` (`sales.service.ts:203`) reads without locks at the
   start of a transaction; what is revoked afterwards and before the commit is not
   noticed. Its comment claims that window is covered. (The finance services read
   the same rows FOR SHARE and do cover it: the same property holds in `agreements`.)
3. `stale_replay`. The replay of a creation is looked up in the snapshot that its
   transaction took *before* it waited for the identity lock
   (`finance-agreements.service.ts:278-281`). When its twin commits during that wait,
   in another process, the row is not seen; if the books changed in between, the
   answer is 422 or 409 for an agreement that is recorded with the very fingerprint.
   The comment there says a replay "must not depend on current data". If the books
   did not change, the folio counter fails the statement and the retry replays.
4. `rejected`. `reject` looks at the status before its transaction and then updates
   by id alone (`business-registration.service.ts:641-645`). An approval that claimed
   the row in between commits first; the update then overwrites `aprobado` by
   `rechazado`, the page says nothing was created, and the request of a live business
   is later deleted by the cleanup that promises never to delete an approved one.

### Disagreements

Smaller disagreements between code and comments, met while modelling. Properties are
stated so that they do not hide them, and no run is spent on them.

- *Activation against reissue* (`devices.service.ts:250`). `identify` looks a device
  up by its code and then claims the row by its status. A code typed just before a
  reissue commits activates the device after it, although the comment of reissue says
  the old identifier stops working immediately. `SecretsWorkOnce` says only that the
  device is not activated more often than its reissues allow.
- *Unanimity* (migration `20261024120000_rules_approval_by_email`, lines 195-213).
  `finance_rule_set_settle` "Activates a waiting proposal when EVERY active socio has
  approved it", but looks at the active socios without a lock, and what it decides shows
  at the commit. A socio who is added or reactivated in between has approved nothing when
  the version takes force. TLC reaches it: asked of those active at the commit, the
  first part of `Unanimous` fails in four steps.
- *The budget of verification e-mails.* `allowVerificationEmail` counts before the
  e-mail is sent; one that fails, or whose transaction rolls back, stays counted,
  while the comment at `business-registration.service.ts:300` says it is "only spent
  when an email really goes out". `Allowed` and `Count` are modelled as coded.
- *Cleanup* (`registration-cleanup.service.ts:48`). Rows are selected and then deleted
  by id: a request confirmed in between is deleted with the rest (`Delete`).
- *Resend of a rule link.* A process that stops between the commit of a resend and
  its e-mails leaves links that are neither sent nor retired; they count for 24 hours
  against the next resend (`Cooling`), while the comment says a failure never blocks
  the next try.
- *The founder's address.* The comment at `business-registration.service.ts:581` says
  "losing the address must never cancel an approval". An address that another person
  commits between `member_correo_taken` and the `UPDATE` breaks the unique index, and the
  approval is rolled back with a 500 (`GiveAddress`).
- *Deadlocks.* `addMember` takes the address and then the login, an approval the
  login and then the address; `accept` takes the link, the login and then the member,
  `invite` the member and then the link. PostgreSQL breaks the cycle with a 500
  (`Deadlocked`); `EveryCallEnds` says that nothing worse comes of it.
- *The dashboard's sales.* Sum and count of a day are two statements: a sale that
  lands between them is in one only. `BooksAgree` says nothing of the pair.

## 5. Proofs

TLAPS proves, for all constants that satisfy the named assumptions (any products,
ids, requests, bodies, arrivals and bounds):

| Theorem | States |
|---|---|
| `TypeCorrect` | `Spec => []TypeOK` |
| `StockStaysInRange` | `Spec => []StockInRange` |
| `DebtsAreCollectedOnce` | `Spec => []CollectedOnce` |
| `SalesAreNeverRewritten` | `Spec => SalesNeverChange`: no step alters or deletes a sale row |
| `AnswersAreTrue` | `Spec => []AnswerAgreesWithRow` |
| `RetriesAreReplays` | `Spec => RetriesReplay`: for attempts that pass the guards |
| `ReceiptsAreFrozen` | `Spec => []ReceiptIsFrozen` |
| `AuditsFormAChain` | `Spec => []AuditTrailIsAChain` |
| `StockRisesByMovements` | `Spec => []MovementsExplainStock` |
| `RejectionsAreRecorded` | `Spec => []RejectionsHaveIncident` |
| `GoodsAreConserved` | `Spec => []StockConserved` |
| `ServicesImplementTheLedger` | `Spec => ImplementsLedger`, that is `Ledger!Spec` under the refinement mapping |
| `SharesAddUp` (`Allocation_proofs`) | the shares of any valid books add up to the amount requested |
| `LargestRemainder` | for any pool and weights, `Hamilton` has one division, that of `allocateByWeight` |
| `AnswersAreDivisions` (`Books_proofs`) | `Spec => []BooksInv`, the inductive invariant of what is read from committed rows |
| `DistributionsAddUp` | `Spec => []DistributionAddsUp` |
| `WorkIsDividedByLargestRemainders` | `Spec => []WorkFollowsHamilton` |
| `LocksAndTables` (`Finance_proofs`) | `Spec => []Inv`, the inductive invariant of agreements and payments |
| `FoliosHaveNoGaps` | `Spec => []FoliosAreGapless` |
| `CorrectionsAreChains` | `Spec => []ReplacementsAreChains` |
| `RevocationsAreHonored` | `Spec => RevocationIsHonored` |
| `NothingIsPaidAfterVoid` | `Spec => NoPaymentAfterVoid` |
| `RetriesAreReplayed` | `Spec => AcceptedIsNotRefused` |
| `FinanceTypes` | `Spec => []TypeOK`: with it, no creation exceeds its attempts |
| `NobodyIsOverpaid` | `Spec => []PaidWithinShare` |
| `MoneyIsAgreedOnce` | `Spec => NeverAgreedTwice` |
| `FinanceImplementsTheAccounts` | `Spec => ImplementsTheAccounts`, that is `Accounts!Spec` under the refinement mapping |
| `OvertakenOnlyFromElsewhere` | `Spec => RetriesComeFromElsewhere` |
| `RecordsStayOrderly` (`Records_proofs`) | `Spec => []Inv`, the inductive invariant of the reversible records |
| `CorrectionsStayTogether` | `Spec => []CorrectionsHoldTogether` |
| `ReceiptsAreExact` | `Spec => WarningsAreExact` |
| `NobodyOutIsRecorded` | `Spec => OnlyForThoseInForce` |
| `PagesAreWhole` | `Spec => []PagesMissNothing` |
| `StaysOrderly` (`FinanceRules_proofs`) | `Spec => []Inv`, the inductive invariant of the rules |
| `GuardsNeverHit` | `Spec => GuardsAreNeverHit`: of changes to the table, hence not of a save of a discarded draft, which is refused and changes nothing |
| `InForceIsUnanimous` | `Spec => BroughtInUnanimously`: of the partners in force at the count |
| `RulesTypes` | `Spec => []TypeOK` |
| `Types` (`Office_proofs`) | `Spec => []TypeOK` |
| `SecretsAreDelivered` | `Spec => []CommittedSecretsAreDelivered` |
| `FoundedOnce` | `Spec => []OneBusinessPerRequest` |
| `LinksExcludeEachOther` | `Spec => []OneLiveLink` |
| `UsedOnce` | `Spec => []SecretsWorkOnce`: of devices, one activation more than reissues at most |

*The argument.* None of these is inductive alone. `IInv` in `Inventory_proofs` adds

- about rows: a row nobody owns equals its draft, and drafts are in range, so that
  a commit by anyone keeps committed stock in range;
- about each handler: what it has where. A catalog request past its lock owns its
  row, a debt past `take` holds terms that satisfy the balance of its initial
  payment, a payment at `pay` owns the debt and its `sum` *is* the sum of payments.
  The last one is why two payments cannot both fit: the balance check reads a local
  copy, and only the lock makes the copy true.

The part about answers goes on from `IInv`: an answered request has the row it was
answered with (`AnswersInd`), and since rows never change this survives every later
step; at most one request per id saw the insert succeed. `ReceiptsInd` says the
same of debts, whose status does change but whose receipt, total and fingerprint do
not. The proof that a step preserves an invariant has one lemma per action, and
lemmas on `CommitRows`, `RollbackRows` and `WriteRow` shared by all three services.

The part about histories relates the rows to what is written about them
(`HistInd`). What a transaction has not committed differs from the committed row by units taken only,
save for a restock that has yet to append its audit row and movement
(`TakenOnly`); a catalog request past its lock still holds the row it read
(`HoldsItsRow`), so the entry it appends begins where the last one ended. Sales and
debts only take units, hence the end of either history never falls below the
stock (`Trail`). Each write appends one entry of its own
product, which leaves the others' histories alone (`LinkedGrows`, `RisingGrows`).

`Allocation_proofs` needs induction over finite sets, and the library's induction theorems
cannot be instantiated here. It goes the other way round: among the subsets for which
an equation about `SumFunctionOnSet` failed there would be a smallest one (inclusion
is well-founded on finite sets), whose choice of an element `CHOOSE` fixes for both
sums. Once a sum is known to be one of its terms and the sum of the others
(`SumTakeOut`), a set of sets that has the empty one and grows by one element has the
whole set (`OneByOne`), and the other lemmas are short: a sum of integers is an integer
(`SumIsInt`), changing or adding one term changes the sum by as much (`SumChange`,
`SumGrows`), sums are linear (`SumOfTwo`, `SumTimes`), ones add up to a cardinality
(`SumOfOnes`).

The split by work is then right for any weights. The rests of the quotas are each below
the total and add up to the total times the units left over, so these are fewer than the
members with a rest (`LeftOverIsSmall`); the line in which units are handed out is a
strict total order of those who worked (`QueueIsOrder`), those with a rest stand first
in it (`UnfinishedComeFirst`), and in a finite strict order the elements with fewer than
n before them are n, and the first n (`FewBefore`). Hence the lucky ones are as many as
the units (`LuckyOnes`), and floors and lucky units add up to the pool (`WorkSplit`). A
division that is Hamilton's gives floors and one more to a first part of the same
order, as many as the units left over, and there is one such part (`FirstIsUnique`):
`LargestRemainder`. The equal split is a special case of the same counting (`EqualSplit`),
and `SharesAddUp` adds the two pools.

`Books_proofs` (`BooksInv`): tables stay tables of whole amounts whatever is committed
(`LandKeepsLedger`), so that every sum of the overview is a number and what is available
an integer (`AvailableIsInt`), and the work of the period consists of natural numbers
(`BooksOfLedger`); and what a simulation has answered is a division of such books, which could
pay for it (`AnswersOK`). The last part is about the books the answer carries, not about the
tables of now, and therefore survives every commit.

Conservation balances the shelf with the same lemmas (`ConsInd`). `Balanced`: what was on the
shelf at the start is what the row shows plus what left for good (sales and debts
committed, less restocks). `StockConserved` as it stands is not inductive, since the
sum jumps only at the commit: the invariant also says what a handler has taken and not
committed (`Taken`), that its draft is the row less exactly that, and that the lines
of a sale about to be inserted carry the quantities it took. A commit then moves
`Taken` from the draft to the row and into the sum at once; a rollback drops it.

The refinement has `LedgerInd` on top: a sale holds a fingerprint of its own lines and
their prices (`LinesOK`), a debt the terms of its body at the price of the locked row
(`TermsOK`), and whatever is locked for a sale or a debt is still on sale
(`OnSaleWhenLocked`). Each action is then taken to its image: the step that inserts
a sale to `Sell`, the one that records a lost race to `RecordRejection`, the commit of a
debt to `Lend` and of a payment to `Collect`, a restock to `Restock`, any other catalog
write to `Manage`; all others, with waits, retries, crashes and rollbacks, change
nothing the ledger sees.

`Finance_proofs` has one invariant for both isolation levels. `LocksOK`: no two
requests hold conflicting locks. `TablesOK`: folios gapless, corrections chains.
`RequestOK`: what each request holds and knows at each place. For a creation that is
the relation between its snapshot and the present: rows in the snapshot are still
there and voids unchanged, and from `insert` on it holds the counter, which equals
that of the snapshot; so the folio it takes is the next one, and what it found
voided still is. For voids, payments and their reversals it says that the lock of the
identity is held from the replay on and that the row is still absent, and that a
payment past `agreement` shares a row that is not voided, which no void can take. A
step of one request keeps what the others know because they hold the lock it would
need (`OthersKeep`, and one lemma for each of the four inserts). The action
properties follow from the invariant by finding which step answers
(`OnlyHandlersAnswer`) or which changes the table (`OnlyPaymentsPay`).

The theorems about money read the same steps by what they change (`Steps`: a creation
queues, begins, advances, leaves or inserts; a payment, a reversal, a void, a resend, a
crash, or something around them) and need three more invariants.

- `TypeInd`. Two facts carry the types. A creation is `attempt`ing only at the head of
  the queue of its process (`QueueOK`: each waits in the queue once, and whoever is
  past the queue is its head), so a crash or an answer takes the right one off. And the
  shares of an agreement are natural numbers of members for every ledger
  (`LedgerIsBooks`, `SharesAreNat`).
- `Money` joins the first part of `PaidWithinShare` (`NoneOverpaid`) with what a payment and a reversal know: past its
  balance a payment holds the lock of the participant exclusively, and what it has
  read (`paidSoFar`) *is* the sum of what was `Received`; so the sum after its
  insert is `paidSoFar` and its own amount (`SumGrows`). A reversal holds the same
  lock of the payment it undoes, and only lowers the sum (`SumSmaller`); it needs to
  know that what is locked is that payment's participant. Rows tie what they name:
  a payment on file goes to a participant of an agreement on file (`Ties`).
- `Snaps` is about creations. The agreements of the snapshot are still there,
  unchanged; its counter counts them; and whatever came since was inserted by a
  creation of another process, because the queue lets one at a time past `begin`. Past
  the decision it holds the lock of its id, its amount fits into the free money of
  the snapshot, and the snapshot's books can be divided as it asks. So the shares of
  the row it inserts add up to that amount (`RowIsHandedOut`, from `SharesAddUp`), which is the
  rest of `PaidWithinShare`. When it inserts, it holds the counter, equal to that of the snapshot, so
  the agreements of its year are those of the snapshot (`SameYear`: a subset with as
  many elements is the same set). Hence all that is live in its period, save for rows
  of another year, was live in the snapshot, and `InsertFits` adds its amount to their sum.

The refinement of `DistributionAccounts` takes all of these and two more: what a void is
about to void has been agreed (`VoidTargets`), and only what has been agreed is voided
(`VoidedAreAgreed`), so an agreement is live when it is filed. Every step that changes no
table is not seen (`UnseenStep`); the four commits are the four operations. For a creation
(`InsertAgrees`) the folio is the next because the numbers given are 1 to the counter it
holds, and the money is free by `InsertFits`, the live agreements of its year being part
of what that counts. For a payment and a reversal the balance changes by exactly the amount
(`PaidMore`, `PaidLess`) and no other balance does.

`Records_proofs` starts from the same `LocksOK` (`FinanceTx_proofs`). A request past
its decision holds all identities it names, so none that another one decided on; what
it found free is still free (`OthersStillFit`). One that writes also holds the days of
what it inserts and reverses, so no shift of a day that another one has counted comes
or goes (`OthersStillCount`). That gives `WarningsAreExact`: the set counted before the
commit and the set after it are equal (`WarningIsExact`), the new shift and the one it
replaces being in neither. That a correction names different things (`TheyDiffer`) is
what keeps a shift from sharing its identity with its own reversal.

The reader of the list needs `WalkInd`: what it got has a row that does not come after
its cursor, and of the rows that were there when it began and are still shown, what it
did not get comes after the cursor. Rows never change and what is hidden stays hidden
(`RowsStay`), so the cursor means the same later on (`ReaderWaits`). A page is counted
by how many rows come before a row; that it is the beginning of what is left, and has a
last row, is `PageIsFirst`, from a lemma on finite strict orders (`HasFirst`, itself from
`SmallestSubset` of `Allocation_proofs`). That day and id order all rows totally is used there:
with the day alone two rows of a day at the end of a page would be one too few.

`FinanceRules_proofs`: at most one draft, one open proposal and one version in force
is inductive only together with what a call has looked up (`Ready`): while somebody
is submitting, the draft is a draft, and whatever is open is what was found, because
nobody else has the business and answers never open anything. Approvals carry the
terms they approved, which do not change once submitted, so unanimity of the people
is unanimity about the terms. Between the count and the commit (`Counting`) the
version waits and nobody else counts, for whoever counts has the row of the only open
one (`CountsAlone`); approvals stay as they are, so what was counted still holds at
the commit (`Tally`). `TypeInd` adds what the types need: the links are
finitely many, so that the number of the next one exists, and the versions together
with the calls that may still add one are within the bound (`RoomOK`).

`Office_proofs` has one invariant for each kind of row, and one below them all. `Base`:
each place of a handler belongs to certain requests and waits for a lock or for none
(`Fits`), and no two requests hold the same lock. Any step is then of one request
(`Moves`), of no request (`Quiet`, time passing) or the stop of the process (`Quits`);
each of the five invariants has a lemma for what such a step means to those who did
not make it, and lemmas for the actions that concern its rows.

- `LinksInd`: of the links of one member and kind at most one is unanswered
  (`IsPending`). `OneLiveLink` alone is not inductive, since `invite` reads the earlier
  links in one step and retires them in another: whoever issues holds the lock of the
  member, and everything pending is among what it has read (`LinkKnows`). Whoever is
  about to use a link holds its row, so a link found unused is still unused.
- `RowsInd`: a link belongs to one request. Whoever is past its claim holds the row,
  whose status and link are those it claimed (`HoldsRow`, `Tended`); whoever was told
  that a link confirmed or approved a request leaves a link in no row, or a row that
  is closed, and neither is undone (`ClosedStays`). `Old` tells names that exist from
  those of requests still under way, whose links and rows are therefore new to all.
- `DevicesInd`: the activations of a device, and one more if it waits for one, are at most
  one more than its reissues (`Counted`). An activation takes the device from waiting to in
  use, and only a reissue takes it back.
- `PeopleInd`: a login is of one person, a founder comes with one, their request stays
  answered; a changed password bears the name of a request, the first one does not.
- `MailInd`: at `commit` the e-mail is in the mailbox, or the answer will show the code.
  With the lemmas that say where a pending row, a login or a waiting device comes from
  (`WaitsByLink`, `OpensLogin`, `WaitsByCode`) that gives `CommittedSecretsAreDelivered`.

*Assumptions.* `ProductsAreFinite` (the catalog), `NoSaleIsNoEntry` (an entry of the
ledger is not "nothing"), `IdsAreOrdered` (finitely many ids), `FiledIsValid` (what is on file
replaces nothing and hands out what it was asked for), `MembersAreFinite`, `LedgersAreValid` (what a period has available is any
integer, a loss included; its partners and workers are members, and units of work are
natural, as `simulateInTx` reads them), `NoAgreementIsNoRow` (a committed row is not "no row"),
`RecordBodiesAreValid` (a replacement is of the kind of its correction),
`FiledIsRecorded` (what is on file is nobody's replacement), `NoRowIsNone`, `ListedIsAKind`,
`MembersAreNumbers` and `OpeningsAreValid` (of the books: tables are finite, amounts, quantities
and durations are not negative, shifts are of members, a simulation asks for a positive amount and
at most all of it for the partners; they bind what is about to be committed, too),
`OpeningsAreOrderly` (the tables at the start keep the rules of the table and the bounds),
`BusinessIsFinite` (finitely many partners and calls at once),
`NoTxIsNotATx`, `MaxMinorIsPositive`, `SociosAreActors`,
`BodiesAreValid` (what the DTO validation lets through), `HistoryIsValid`,
`ShelfIsValid`, `RequestsAreDistinct`; of registration and access `FirstTablesAreTables`,
`FirstRequestsAreRequests`, `FirstRowsArePast` and `FirstRequestsArePast` (the tables at the
start hold what came before the requests, with unique codes and links as their columns
demand, one login per person, and the request of each founder answered or gone),
`CallsAreFinite`, `TasksHaveTheirParts` (a request names an address where its DTO demands one, and
somebody or something that exists), `CallsAreNew`, `NoneIsNoLock`, `NoneIsNoRow` and the like, each beside its constants; TLC
evaluates them on every run.

*Only model-checked.* `BooksAgree`: that pages and reports agree rests on sorting
(`SetToSortSeq`), a sequence chosen by `CHOOSE` whose existence takes induction over
data. Liveness (`EveryRequestIsAnswered`, `EverySubmissionIsAnswered`, `EveryCallEnds`)
is out of this prover's reach.

## 6. Not modelled, and why

- Product images: the file is stored before its row is updated, outside any
  transaction; what a crash leaves is an orphan file, in a store nothing else reads.
- Planned installments of a debt: informative text, they guard nothing. Likewise
  `members.patch`.
- The daily counts of invitations, the restriction of a login that several members
  share, and limits by IP address: counters that only refuse earlier.
- Login and session tokens: what the guards ask is `MayEnter`, how a JWT is encoded
  and expires is not.
- A debt or sale id that belongs to another business: the primary key is global but
  row level security hides the row. These models stay inside one business, so the
  tenant layer is invisible in them; the finance models have `ForeignIds` because
  their services turn that collision into an answer of its own.
- Sums beyond 2^53, which `safeNumber` refuses: no small instance reaches them.
- Lists of sales, debts and agreements, and the summaries of payments and
  contributions: single reads that decide nothing.
- Digests: a fingerprint is the information that is hashed, collisions apart.
- Formatting, HTML, e-mail text, OpenAPI, CORS, password hashing, file storage.

## 7. Order of the work, and what is left

Most important behaviour first:

1. `ProductRows`, `Actors`, `Sales`; answers and retries.
2. `Catalog`, `Debts`, `Inventory`; conservation and histories.
3. `StockLedger` and the refinement; the claims.
4. Type, range, collection, answers, retries and receipts proved.
5. `FinanceTx`, `Agreements`, `Payments`, `Finance`: two isolation levels, queue,
   retries, folios, commitment, voids, replacements, payments.
6. `Allocation`, and `Books` around it, against reference definitions.
7. `FinanceRules`; `Records`; `Mailroom`, `Access`, `Registration`, `Office`.
8. Proofs for agreements, payments, rules and records, and for the histories.
9. Sums over finite sets; conservation and the refinement of `StockLedger` proved.
10. Types and money of finance proved.
11. Registration and access proved; reading by pages and the types of the rules too.
12. The split by work is Hamilton's; simulations and agreements hand out what is requested.
13. `DistributionAccounts`, and finance proved to implement it.

Left: what section 6 names, and the halves of `BooksAgree` that do not sort.
