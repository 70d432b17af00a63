---------------------------- MODULE Books_proofs ----------------------------
(***************************************************************************)
(* What a simulation answers, proved: for any books, whatever is committed *)
(* while it is asked, it hands out the amount requested, and it divides    *)
(* the work pool as the largest remainder method says.                     *)
(*                                                                         *)
(* The inductive invariant has two parts.  The tables keep being tables of *)
(* whole amounts, which is what makes every sum a number; and what a call  *)
(* has answered is a division of valid books that could pay for it, which  *)
(* no later commit can change.                                             *)
(***************************************************************************)
EXTENDS Books, Allocation_proofs

-----------------------------------------------------------------------------
(* The invariant. *)

LedgerOK(l) == Tables \subseteq DOMAIN l /\ \A table \in Tables : RowsOK(table, l[table])

LandingOK ==
    \A change \in landing : change.kind = "rows" =>
        \A table \in DOMAIN change.rows : table \in Tables /\ RowsOK(table, change.rows[table])

QuestionOK(q) == q.kind = "simulation" => q.requested \in Nat \ {0} /\ q.bps \in 0..BpsTotal

\* What a simulation that was not refused has answered to q.
AnswerOK(q, answer) ==
    answer.outcome = "simulated" =>
        /\ BooksOK(answer.books) /\ answer.books.available \in Int
        /\ Simulable(answer.books, q.requested, q.bps)
        /\ answer.shares = Shares(answer.books, q.requested, q.bps)
        /\ answer.remaining = answer.books.available - q.requested

AnswersOK ==
    \A c \in Calls : (asked[c].kind = "simulation" /\ "all" \in DOMAIN got[c]) =>
        AnswerOK(asked[c], got[c]["all"])

BooksInv ==
    /\ LedgerOK(ledger) /\ LandingOK
    /\ \A c \in Calls : QuestionOK(asked[c])
    /\ DOMAIN got = Calls
    /\ AnswersOK

-----------------------------------------------------------------------------
(* The tables. *)

\* Rows that are added to a table leave it valid.
LEMMA MoreRows ==
    ASSUME NEW table, NEW old, NEW new, RowsOK(table, old), RowsOK(table, new)
    PROVE  RowsOK(table, old \cup new)
BY FS_Union DEF RowsOK

LEMMA LandKeepsLedger ==
    ASSUME LedgerOK(ledger), LandingOK, NEW change \in landing, Land(change)
    PROVE  LedgerOK(ledger')
<1> DEFINE rows == change.rows
<1>1. /\ \A table \in DOMAIN rows : table \in Tables /\ RowsOK(table, rows[table])
      /\ ledger' = [t \in DOMAIN ledger |->
                       IF t \in DOMAIN rows THEN ledger[t] \cup rows[t] ELSE ledger[t]]
  BY DEF LandingOK, Land
<1> HIDE DEF rows
<1>2. DOMAIN ledger' = DOMAIN ledger
  BY <1>1
<1>3. ASSUME NEW table \in Tables PROVE RowsOK(table, ledger'[table])
  <2>1. RowsOK(table, ledger[table]) /\ table \in DOMAIN ledger
    BY DEF LedgerOK
  <2>2. CASE table \in DOMAIN rows
    <3>1. ledger'[table] = ledger[table] \cup rows[table]
      BY <1>1, <2>1, <2>2
    <3>2. RowsOK(table, rows[table])
      BY <1>1, <2>2
    <3> QED BY <2>1, <3>1, <3>2, MoreRows
  <2>3. CASE table \notin DOMAIN rows
    <3>1. ledger'[table] = ledger[table]
      BY <1>1, <2>1, <2>3
    <3> QED BY <2>1, <3>1
  <2> QED BY <2>2, <2>3
<1> QED
  BY <1>2, <1>3 DEF LedgerOK

LEMMA ResolutionKeepsLedger ==
    ASSUME LedgerOK(ledger), NEW change, ResolveIncident(change)
    PROVE  LedgerOK(ledger')
<1>1. /\ DOMAIN ledger' = DOMAIN ledger
      /\ \A t \in DOMAIN ledger : t # "incidencias" => ledger'[t] = ledger[t]
      /\ "incidencias" \in DOMAIN ledger
      /\ ledger'["incidencias"] = {IF i.id = change.id THEN [i EXCEPT !.pending = FALSE] ELSE i
                                   : i \in ledger["incidencias"]}
  BY DEF ResolveIncident, LedgerOK, Tables
<1>2. RowsOK("incidencias", ledger'["incidencias"])
  <2> DEFINE old == ledger["incidencias"]
             f == [i \in old |-> IF i.id = change.id THEN [i EXCEPT !.pending = FALSE] ELSE i]
  <2>1. IsFiniteSet(old)
    BY DEF LedgerOK, Tables, RowsOK
  <2>2. ledger'["incidencias"] = {f[i] : i \in old}
    BY <1>1
  <2> HIDE DEF old
  <2>3. IsFiniteSet({f[i] : i \in old})
    <3>1. f \in Surjection(old, {f[i] : i \in old})
      BY DEF Surjection
    <3> QED BY <2>1, <3>1, FS_Surjection
  <2> QED BY <2>2, <2>3 DEF RowsOK
<1> QED
  BY <1>1, <1>2 DEF LedgerOK

-----------------------------------------------------------------------------
(* Sums over the rows of a table. *)

LEMMA MinutesAreNat ==
    ASSUME NEW shifts, RowsOK("shifts", shifts)
    PROVE  Minutes(shifts) \in Nat
<1> DEFINE known == {x \in shifts : x.minutes # Null}
           f == [x \in known |-> x.minutes]
<1>1. IsFiniteSet(known) /\ \A x \in known : x.minutes \in Nat
  BY FS_Subset DEF RowsOK
<1>2. Minutes(shifts) = SumFunction(f)
  BY DEF Minutes, Total
<1>3. DOMAIN f = known /\ \A x \in known : f[x] = x.minutes
  OBVIOUS
<1> HIDE DEF known, f
<1> QED
  BY <1>1, <1>2, <1>3, TotalIsNat

LEMMA SaleTotalIsNat ==
    ASSUME NEW rows, RowsOK("sales", rows), NEW sales, sales \subseteq Completed(rows)
    PROVE  SaleTotal(sales) \in Nat
<1> DEFINE f == [x \in sales |-> x.total]
<1>1. IsFiniteSet(sales) /\ \A x \in sales : x.total \in Nat
  BY FS_Subset DEF RowsOK, Completed
<1>2. SaleTotal(sales) = SumFunction(f)
  BY DEF SaleTotal, Total
<1>3. DOMAIN f = sales /\ \A x \in sales : f[x] = x.total
  OBVIOUS
<1> HIDE DEF f
<1> QED
  BY <1>1, <1>2, <1>3, TotalIsNat

LEMMA CostIsNat ==
    ASSUME NEW rows, RowsOK("items", rows), NEW items, items \subseteq rows
    PROVE  CostOf(items) \in Nat
<1> DEFINE known == {i \in items : i.cost # Null}
           f == [x \in known |-> x.cost * x.qty]
<1>1. IsFiniteSet(known) /\ \A x \in known : x.cost \in Nat /\ x.qty \in Nat
  BY FS_Subset DEF RowsOK
<1>2. \A x \in known : x.cost * x.qty \in Nat
  BY <1>1, Product
<1>3. CostOf(items) = SumFunction(f)
  BY DEF CostOf, Total
<1>4. DOMAIN f = known /\ \A x \in known : f[x] = x.cost * x.qty
  OBVIOUS
<1> HIDE DEF known, f
<1>5. \A x \in DOMAIN f : f[x] \in Nat
  BY <1>2, <1>4
<1> QED
  BY <1>1, <1>3, <1>4, <1>5, TotalIsNat

LEMMA AmountsAreNat ==
    ASSUME NEW table \in {"expenses", "reserves"}, NEW rows, RowsOK(table, rows),
           NEW some, some \subseteq rows
    PROVE  Total(some, LAMBDA x : x.amount) \in Nat
<1> DEFINE f == [x \in some |-> x.amount]
<1>1. IsFiniteSet(some) /\ \A x \in some : x.amount \in Nat
  BY FS_Subset DEF RowsOK
<1>2. Total(some, LAMBDA x : x.amount) = SumFunction(f)
  BY DEF Total
<1>3. DOMAIN f = some /\ \A x \in some : f[x] = x.amount
  OBVIOUS
<1> HIDE DEF f
<1> QED
  BY <1>1, <1>2, <1>3, TotalIsNat

\* What is available in a period is a number, maybe a negative one.
LEMMA AvailableIsInt ==
    ASSUME NEW l, LedgerOK(l), NEW from, NEW to
    PROVE  Overview(l, from, to).available \in Int
<1> DEFINE sales == Within(Completed(l.sales), from, to)
           items == ItemsOf(l, sales)
           spent == {x \in Within(InForce(l, "expenses"), from, to) : x.nature = "OPERATING_EXPENSE"}
           planned == {x \in InForce(l, "reserves") : x.from = from /\ x.to = to}
<1>1. /\ RowsOK("sales", l["sales"]) /\ RowsOK("items", l["items"])
      /\ RowsOK("expenses", l["expenses"]) /\ RowsOK("reserves", l["reserves"])
  BY DEF LedgerOK, Tables
<1>2. SaleTotal(sales) \in Nat
  <2>1. sales \subseteq Completed(l.sales)
    BY DEF Within
  <2> HIDE DEF sales
  <2> QED BY <1>1, <2>1, SaleTotalIsNat
<1>3. CostOf(items) \in Nat
  <2>1. items \subseteq l.items
    BY DEF ItemsOf
  <2> HIDE DEF items
  <2> QED BY <1>1, <2>1, CostIsNat
<1>4. Total(spent, LAMBDA x : x.amount) \in Nat
  <2>1. spent \subseteq l["expenses"]
    BY DEF Within, InForce
  <2> HIDE DEF spent
  <2> QED BY <1>1, <2>1, AmountsAreNat
<1>5. Total(planned, LAMBDA x : x.amount) \in Nat
  <2>1. planned \subseteq l["reserves"]
    BY DEF InForce
  <2> HIDE DEF planned
  <2> QED BY <1>1, <2>1, AmountsAreNat
<1>6. Overview(l, from, to).available
        = SaleTotal(sales) - CostOf(items) - Total(spent, LAMBDA x : x.amount)
            - Total(planned, LAMBDA x : x.amount)
  BY DEF Overview
<1> HIDE DEF sales, items, spent, planned
<1> QED
  BY <1>2, <1>3, <1>4, <1>5, <1>6

\* The books of a valid ledger can be divided.
LEMMA BooksOfLedger ==
    ASSUME NEW l, LedgerOK(l), NEW q
    PROVE  BooksOK(BooksOf(l, q)) /\ BooksOf(l, q).available \in Int
<1> DEFINE shifts == ShiftsOf(l, q.from, q.to)
           of(m) == {x \in shifts : x.member = m}
           b == BooksOf(l, q)
<1>1. RowsOK("shifts", shifts)
  <2>1. shifts \subseteq l["shifts"]
    BY DEF ShiftsOf, InForce
  <2>2. RowsOK("shifts", l["shifts"])
    BY DEF LedgerOK, Tables
  <2> HIDE DEF shifts
  <2> QED BY <2>1, <2>2, FS_Subset DEF RowsOK
<1>2. /\ b.available = Overview(l, q.from, q.to).available
      /\ b.work = [m \in {x.member : x \in shifts} |-> UnitsOf(of(m), q.basis)]
      /\ b.socios = {m \in Members : l.members[m].role = "socio" /\ l.members[m].active}
  BY DEF BooksOf
<1> HIDE DEF shifts, b
<1>3. IsFiniteSet(b.socios) /\ b.socios \subseteq Nat
  <2>1. b.socios \subseteq Members
    BY <1>2
  <2> QED BY <2>1, MembersAreNumbers, FS_Subset
<1>4. \A m \in Members : UnitsOf(of(m), q.basis) \in Nat
  <2> TAKE m \in Members
  <2>1. RowsOK("shifts", of(m)) /\ IsFiniteSet(of(m))
    BY <1>1, FS_Subset DEF RowsOK
  <2> HIDE DEF of
  <2>2. Cardinality(of(m)) \in Nat /\ Minutes(of(m)) \in Nat
    BY <2>1, FS_CardinalityType, MinutesAreNat
  <2> QED BY <2>2 DEF UnitsOf
<1>5. WeightOK(b.work)
  <2> DEFINE W == {x.member : x \in shifts}
  <2>1. W \subseteq Members
    BY <1>1 DEF RowsOK
  <2>2. DOMAIN b.work = W /\ \A m \in W : b.work[m] = UnitsOf(of(m), q.basis)
    BY <1>2
  <2> HIDE DEF W, of
  <2>3. IsFiniteSet(W) /\ W \subseteq Nat
    BY <2>1, MembersAreNumbers, FS_Subset
  <2>4. ASSUME NEW m \in W PROVE b.work[m] \in Nat
    <3>1. m \in Members
      BY <2>1
    <3>2. UnitsOf(of(m), q.basis) \in Nat
      BY <1>4, <3>1
    <3> QED BY <2>2, <3>2
  <2> QED BY <2>2, <2>3, <2>4 DEF WeightOK
<1>6. b.available \in Int
  BY <1>2, AvailableIsInt
<1> QED
  BY <1>3, <1>5, <1>6 DEF BooksOK, b

\* What a simulation on a valid ledger answers.
LEMMA SimulationIsOK ==
    ASSUME NEW l, LedgerOK(l), NEW q
    PROVE  AnswerOK(q, Simulation(l, q))
<1> DEFINE b == BooksOf(l, q)
           a == Simulation(l, q)
<1>1. BooksOK(b) /\ b.available \in Int
  BY BooksOfLedger
<1>2. a.outcome = "simulated" =>
         /\ Simulable(b, q.requested, q.bps) /\ a.books = b
         /\ a.shares = Shares(b, q.requested, q.bps) /\ a.remaining = b.available - q.requested
  BY DEF Simulation
<1> HIDE DEF a, b
<1>3. AnswerOK(q, a)
  BY <1>1, <1>2 DEF AnswerOK
<1> QED
  BY <1>3 DEF a

-----------------------------------------------------------------------------
(* The steps. *)

\* A statement adds what it reads to what its call has read.
LEMMA ReadsAdds ==
    ASSUME DOMAIN got = Calls, NEW c \in Calls, NEW what, NEW after, NEW value,
           Reads(c, what, after, value)
    PROVE  /\ UNCHANGED <<ledger, landing, asked>> /\ DOMAIN got' = Calls
           /\ \A d \in Calls \ {c} : got'[d] = got[d]
           /\ got'[c][what] = value
<1> DEFINE more == [k \in DOMAIN got[c] \cup {what} |-> IF k = what THEN value ELSE got[c][k]]
<1>1. UNCHANGED <<ledger, landing, asked>> /\ got' = [got EXCEPT ![c] = more]
  BY DEF Reads
<1>2. more[what] = value
  OBVIOUS
<1> HIDE DEF more
<1> QED
  BY <1>1, <1>2

\* The other calls keep their answers, and this one is no simulation.
LEMMA OtherReads ==
    ASSUME BooksInv, NEW c \in Calls, asked[c].kind # "simulation",
           NEW what, NEW after, NEW value, Reads(c, what, after, value)
    PROVE  BooksInv'
<1>1. /\ UNCHANGED <<ledger, landing, asked>> /\ DOMAIN got' = Calls
      /\ \A d \in Calls \ {c} : got'[d] = got[d]
  BY ReadsAdds DEF BooksInv
<1>2. AnswersOK'
  <2>1. ASSUME NEW d \in Calls, asked[d].kind = "simulation", "all" \in DOMAIN got'[d]
        PROVE  AnswerOK(asked[d], got'[d]["all"])
    <3>1. d # c
      BY <2>1
    <3>2. got'[d] = got[d]
      BY <1>1, <3>1
    <3> QED BY <2>1, <3>2 DEF BooksInv, AnswersOK
  <2> QED BY <1>1, <2>1 DEF AnswersOK
<1> QED
  BY <1>1, <1>2 DEF BooksInv, LandingOK

LEMMA SimulationReads ==
    ASSUME BooksInv, NEW c \in Calls, Reads(c, "all", {}, Simulation(ledger, asked[c]))
    PROVE  BooksInv'
<1> DEFINE answer == Simulation(ledger, asked[c])
<1>1. /\ UNCHANGED <<ledger, landing, asked>> /\ DOMAIN got' = Calls
      /\ \A d \in Calls \ {c} : got'[d] = got[d]
      /\ got'[c]["all"] = answer
  BY ReadsAdds DEF BooksInv
<1>2. AnswerOK(asked[c], answer)
  BY SimulationIsOK DEF BooksInv
<1> HIDE DEF answer
<1>3. AnswersOK'
  <2>1. ASSUME NEW d \in Calls, asked[d].kind = "simulation", "all" \in DOMAIN got'[d]
        PROVE  AnswerOK(asked[d], got'[d]["all"])
    <3>1. CASE d = c
      BY <1>1, <1>2, <3>1
    <3>2. CASE d # c
      <4>1. got'[d] = got[d]
        BY <1>1, <3>2
      <4> QED BY <2>1, <4>1 DEF BooksInv, AnswersOK
    <3> QED BY <3>1, <3>2
  <2> QED BY <1>1, <2>1 DEF AnswersOK
<1> QED
  BY <1>1, <1>3 DEF BooksInv, LandingOK

LEMMA CallStep ==
    ASSUME BooksInv, NEW c \in Calls,
           ReadAtOnce(c) \/ ReadPeriod(c) \/ ReadCommissions(c) \/ ReadDashboard(c)
    PROVE  BooksInv'
<1>1. CASE ReadAtOnce(c)
  <2>1. CASE asked[c].kind = "simulation"
    <3>1. Reads(c, "all", {}, Simulation(ledger, asked[c]))
      BY <1>1, <2>1 DEF ReadAtOnce
    <3> QED BY <3>1, SimulationReads
  <2>2. CASE asked[c].kind # "simulation"
    <3>1. \E value : Reads(c, "all", {}, value)
      BY <1>1, <2>2 DEF ReadAtOnce
    <3> QED BY <2>2, <3>1, OtherReads
  <2> QED BY <2>1, <2>2
<1>2. CASE ReadPeriod(c)
  <2>1. asked[c].kind # "simulation" /\ \E what, after, value : Reads(c, what, after, value)
    BY <1>2, Zenon DEF ReadPeriod
  <2> QED BY <2>1, OtherReads
<1>3. CASE ReadCommissions(c)
  <2>1. asked[c].kind # "simulation" /\ \E what, after, value : Reads(c, what, after, value)
    BY <1>3, Zenon DEF ReadCommissions
  <2> QED BY <2>1, OtherReads
<1>4. CASE ReadDashboard(c)
  <2>1. asked[c].kind # "simulation" /\ \E what, after, value : Reads(c, what, after, value)
    BY <1>4, Zenon DEF ReadDashboard
  <2> QED BY <2>1, OtherReads
<1> QED
  BY <1>1, <1>2, <1>3, <1>4

\* What is committed changes no answer.
LEMMA CommitStep ==
    ASSUME BooksInv, NEW change \in landing,
           \/ Land(change) \/ ResolveIncident(change)
           \/ SetGlobalRate(change) \/ SetMemberRate(change),
           landing' = landing \ {change}, UNCHANGED <<asked, got>>
    PROVE  BooksInv'
<1>1. LedgerOK(ledger')
  <2>1. CASE Land(change)
    BY <2>1, LandKeepsLedger DEF BooksInv
  <2>2. CASE ResolveIncident(change)
    BY <2>2, ResolutionKeepsLedger DEF BooksInv
  <2>3. CASE SetGlobalRate(change) \/ SetMemberRate(change)
    BY <2>3 DEF BooksInv, SetGlobalRate, SetMemberRate
  <2> QED BY <2>1, <2>2, <2>3
<1> QED
  BY <1>1 DEF BooksInv, LandingOK, AnswersOK

LEMMA BooksAtFirst == ASSUME Init PROVE BooksInv
<1> PICK o \in Openings : ledger = o.tables /\ landing = o.changes /\ asked = o.questions
  BY DEF Init
<1>1. LedgerOK(ledger) /\ LandingOK /\ \A c \in Calls : QuestionOK(asked[c])
  BY OpeningsAreValid DEF LedgerOK, LandingOK, QuestionOK
<1>2. DOMAIN got = Calls /\ \A c \in Calls : "all" \notin DOMAIN got[c]
  BY DEF Init
<1> QED
  BY <1>1, <1>2 DEF BooksInv, AnswersOK

LEMMA BooksStep == ASSUME BooksInv, [Next]_bookVars PROVE BooksInv'
<1>1. ASSUME NEW c \in Calls,
             ReadAtOnce(c) \/ ReadPeriod(c) \/ ReadCommissions(c) \/ ReadDashboard(c)
      PROVE  BooksInv'
  BY <1>1, CallStep
<1>2. ASSUME NEW change \in landing,
             \/ Land(change) \/ ResolveIncident(change)
             \/ SetGlobalRate(change) \/ SetMemberRate(change),
             landing' = landing \ {change}, UNCHANGED <<asked, got>>
      PROVE  BooksInv'
  BY <1>2, CommitStep
<1>3. CASE UNCHANGED bookVars
  BY <1>3 DEF BooksInv, LandingOK, AnswersOK, bookVars
<1> QED
  BY <1>1, <1>2, <1>3 DEF Next

-----------------------------------------------------------------------------
(* Tables stay tables of whole amounts, whatever is committed, and every   *)
(* answer stays the division of valid books that could pay for it.         *)
THEOREM AnswersAreDivisions == Spec => []BooksInv
<1>1. Init => BooksInv
  BY BooksAtFirst
<1>2. BooksInv /\ [Next]_bookVars => BooksInv'
  BY BooksStep
<1> QED
  BY <1>1, <1>2, PTL DEF Spec

LEMMA SimulatedMeans ==
    ASSUME BooksInv, NEW c \in Simulated
    PROVE  /\ c \in Calls /\ asked[c].requested \in Nat \ {0} /\ asked[c].bps \in 0..BpsTotal
           /\ got[c]["all"].outcome = "simulated" /\ AnswerOK(asked[c], got[c]["all"])
<1>1. c \in Calls /\ asked[c].kind = "simulation" /\ "all" \in DOMAIN got[c]
      /\ got[c]["all"].outcome = "simulated"
  BY DEF Simulated, Answered
<1> QED
  BY <1>1 DEF BooksInv, AnswersOK, QuestionOK

(* Whatever the books of a period are, and whatever is committed while it  *)
(* is computed, a simulation hands out exactly the amount requested, and   *)
(* the period has it: assertSimulationAddsUp never throws.                 *)
THEOREM DistributionsAddUp == Spec => []DistributionAddsUp
<1>1. ASSUME BooksInv PROVE DistributionAddsUp
  <2>1. ASSUME NEW c \in Simulated
        PROVE  TotalOf(got[c]["all"].shares) = asked[c].requested /\ got[c]["all"].remaining >= 0
    <3> DEFINE n == asked[c].requested
               bps == asked[c].bps
               answer == got[c]["all"]
               b == answer.books
    <3>1. /\ n \in Nat /\ bps \in 0..BpsTotal
          /\ BooksOK(b) /\ b.available \in Int /\ Simulable(b, n, bps)
          /\ answer.shares = Shares(b, n, bps) /\ answer.remaining = b.available - n
      BY <1>1, <2>1, SimulatedMeans DEF AnswerOK
    <3> HIDE DEF n, bps, answer, b
    <3>2. TotalOf(Shares(b, n, bps)) = n
      BY <3>1, SharesAddUp
    <3>3. n <= b.available
      BY <3>1 DEF Simulable
    <3>4. TotalOf(answer.shares) = n /\ answer.remaining >= 0
      BY <3>1, <3>2, <3>3
    <3> QED BY <3>4 DEF n, answer
  <2> QED BY <2>1 DEF DistributionAddsUp
<1>2. BooksInv => DistributionAddsUp
  BY <1>1
<1> QED
  BY <1>2, AnswersAreDivisions, PTL

(* The work pool of a simulation is divided as the largest remainder       *)
(* method says, for any amounts of work and any number of members: among   *)
(* all divisions of the pool it is the only one that gives everyone the    *)
(* quota rounded down or up, and rounds up the largest remainders.         *)
THEOREM WorkIsDividedByLargestRemainders == Spec => []WorkFollowsHamilton
<1>1. ASSUME BooksInv PROVE WorkFollowsHamilton
  <2>1. ASSUME NEW c \in Simulated, TotalOf(got[c]["all"].books.work) > 0
        PROVE  Hamilton(WorkPool(asked[c].requested, asked[c].bps), got[c]["all"].books.work)
                 = {AllocateByWeight(WorkPool(asked[c].requested, asked[c].bps), got[c]["all"].books.work)}
    <3> DEFINE pool == WorkPool(asked[c].requested, asked[c].bps)
               work == got[c]["all"].books.work
    <3>1. WeightOK(work)
      BY <1>1, <2>1, SimulatedMeans DEF AnswerOK, BooksOK
    <3>2. pool \in Nat
      <4>1. asked[c].requested \in Nat /\ asked[c].bps \in 0..BpsTotal
        BY <1>1, <2>1, SimulatedMeans
      <4>2. pool \in 0..asked[c].requested
        BY <4>1, PoolsAddUp
      <4> QED BY <4>1, <4>2
    <3>3. TotalOf(work) # 0
      BY <2>1
    <3> HIDE DEF pool, work
    <3>4. Hamilton(pool, work) = {AllocateByWeight(pool, work)}
      BY <3>1, <3>2, <3>3, LargestRemainder
    <3> QED BY <3>4 DEF pool, work
  <2> QED BY <2>1 DEF WorkFollowsHamilton
<1>2. BooksInv => WorkFollowsHamilton
  BY <1>1
<1> QED
  BY <1>2, AnswersAreDivisions, PTL
=============================================================================
