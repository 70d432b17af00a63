------------------------------- MODULE Books -------------------------------
(***************************************************************************)
(* What is read from the committed rows: the period overview and the       *)
(* simulation on it, the sales reports, the commissions and the dashboard. *)
(* The first two read one snapshot; the others, statement by statement,    *)
(* what is committed by then.                                              *)
(*                                                                         *)
(* Rows are never deleted: a reversal is a row of reversals, a settled     *)
(* debt one of settlements.  What others commit is added; of their own     *)
(* operations these services have the rates and the resolution of an       *)
(* incident.  An instant is a natural number, in units of the six hours    *)
(* between the business and UTC; a day is a number, from a Sunday on.      *)
(***************************************************************************)
EXTENDS Allocation, Integers, Sequences, TLC

CONSTANTS
    Calls,
    Members,    \* numbers, ordered as their ids
    Null,       \* an absent value
    Openings    \* what the tables have at first, what others are about to
                \* commit, and what the calls ask

LOCAL SX == INSTANCE SequencesExt

Tables == {"sales", "items", "abonos", "deudas", "settlements", "incidencias", "products",
           "expenses", "contributions", "shifts", "reserves", "reversals"}

\* Amounts of money and quantities are not negative; only a rejected sale
\* has no total.
RowsOK(table, rows) ==
    /\ IsFiniteSet(rows)
    /\ table = "sales" => \A s \in rows : s.status = "completada" => s.total \in Nat
    /\ table = "items" => \A i \in rows : i.qty \in Nat /\ i.cost \in Nat \cup {Null}
    /\ table \in {"expenses", "reserves"} => \A x \in rows : x.amount \in Nat
    /\ table = "shifts" => \A x \in rows : x.member \in Members /\ x.minutes \in Nat \cup {Null}

ASSUME MembersAreNumbers == Members \subseteq Nat /\ IsFiniteSet(Members)
ASSUME OpeningsAreValid ==
    \A o \in Openings :
        /\ DOMAIN o.tables = Tables \cup {"members"}
        /\ \A table \in Tables : RowsOK(table, o.tables[table])
        /\ \A change \in o.changes : change.kind = "rows" =>
               \A table \in DOMAIN change.rows : table \in Tables /\ RowsOK(table, change.rows[table])
        /\ \A c \in Calls : o.questions[c].kind = "simulation" =>
               o.questions[c].requested \in Nat \ {0} /\ o.questions[c].bps \in 0..BpsTotal

Methods == {"EFECTIVO", "TRANSFERENCIA", "TARJETA"}
Total(rows, amount(_)) == SumFunction([x \in rows |-> amount(x)])

VARIABLES
    ledger,     \* the tables: sales, items, abonos, deudas, settlements,
                \* incidencias, products, expenses, contributions, shifts,
                \* reserves, reversals, and members
    rate,       \* the commission rates: of each member, Null when it has none
    defaultRate,
    landing,    \* what others are about to commit
    asked,      \* per call, what it asks
    got         \* per call, what its statements have read

bookVars == <<ledger, rate, defaultRate, landing, asked, got>>

-----------------------------------------------------------------------------
(* Business time. *)

UnitsPerDay == 4
Offset == 1

DayStart(day) == day * UnitsPerDay + Offset
CurrentBusinessDate(now) == (now - Offset) \div UnitsPerDay

\* From Sunday on, to the last instant of Saturday.
CurrentWeekRange(now) ==
    LET sunday == (CurrentBusinessDate(now) \div 7) * 7
    IN  [from |-> DayStart(sunday), to |-> DayStart(sunday + 7) - 1]

\* Mutant: a last day ends where it starts.
BoundaryMutant(value, end) == IF value.kind = "instant" THEN value.at ELSE DayStart(value.day)

\* A day given as the end of a range is all of that day.
Boundary(value, end) ==
    CASE value.kind = "instant" -> value.at
      [] value.kind = "day" /\ end -> DayStart(value.day + 1) - 1
      [] OTHER -> DayStart(value.day)

ReportRange(query) == [from |-> Boundary(query.from, FALSE), to |-> Boundary(query.to, TRUE)]

Received(rows, range) == {x \in rows : range.from <= x.receivedAt /\ x.receivedAt <= range.to}
Completed(sales) == {s \in sales : s.status = "completada"}
ItemsOf(l, sales) == {i \in l.items : \E s \in sales : s.id = i.sale}
SaleTotal(sales) == Total(sales, LAMBDA s : s.total)

-----------------------------------------------------------------------------
(* The overview of a period [from, to) of days, by the declared instant.   *)

Within(rows, from, to) ==
    {x \in rows : DayStart(from) <= x.occurredAt /\ x.occurredAt < DayStart(to)}
InForce(l, table) == {x \in l[table] : <<table, x.id>> \notin l.reversals}

ShiftsOf(l, from, to) == {x \in InForce(l, "shifts") : from <= x.day /\ x.day < to}
Minutes(shifts) == Total({x \in shifts : x.minutes # Null}, LAMBDA x : x.minutes)

CostOf(items) == Total({i \in items : i.cost # Null}, LAMBDA i : i.cost * i.qty)

Overview(l, from, to) ==
    LET sales == Within(Completed(l.sales), from, to)
        items == ItemsOf(l, sales)
        missing == {i \in items : i.cost = Null}
        spent(nature) == Total({x \in Within(InForce(l, "expenses"), from, to) : x.nature = nature},
                               LAMBDA x : x.amount)
        shifts == ShiftsOf(l, from, to)
        planned == Total({x \in InForce(l, "reserves") : x.from = from /\ x.to = to},
                         LAMBDA x : x.amount)
        margin == SaleTotal(sales) - CostOf(items)
        operating == spent("OPERATING_EXPENSE")
    IN  [saleCount |-> Cardinality(sales), sales |-> SaleTotal(sales),
         cost |-> CostOf(items), margin |-> margin,
         lines |-> Cardinality(items), missingLines |-> Cardinality(missing),
         missingUnits |-> Total(missing, LAMBDA i : i.qty),
         withoutCost |-> Total(missing, LAMBDA i : i.subtotal),
         operating |-> operating, inventory |-> spent("INVENTORY_PURCHASE"),
         contributions |-> Total(Within(InForce(l, "contributions"), from, to), LAMBDA x : x.amount),
         shiftCount |-> Cardinality(shifts), minutes |-> Minutes(shifts),
         unknownDurations |-> Cardinality({x \in shifts : x.minutes = Null}),
         planned |-> planned, result |-> margin - operating,
         available |-> margin - operating - planned]

(* The simulation: the overview's available amount, divided.  The work of  *)
(* a member is the shifts or the known minutes of the period.              *)
UnitsOf(shifts, basis) == IF basis = "WORK_SHIFTS" THEN Cardinality(shifts) ELSE Minutes(shifts)

BooksOf(l, q) ==
    LET shifts == ShiftsOf(l, q.from, q.to)
    IN  [available |-> Overview(l, q.from, q.to).available,
         work |-> [m \in {x.member : x \in shifts} |->
                     UnitsOf({x \in shifts : x.member = m}, q.basis)],
         socios |-> {m \in Members : l.members[m].role = "socio" /\ l.members[m].active}]

\* The rest of what a simulation's reader is warned of is always the same.
WarningsOf(l, q) ==
    LET view == Overview(l, q.from, q.to)
        shifts == ShiftsOf(l, q.from, q.to)
        work == AllocateByWeight(WorkPool(q.requested, q.bps), BooksOf(l, q).work)
    IN  {w \in {"OPERATING_RESULT_PARTIAL", "PARTNER_ELIGIBILITY_IS_CURRENT_STATE",
                "WORK_SHIFTS_WITHOUT_DURATION", "INACTIVE_MEMBER_RECEIVES_WORK_AMOUNT"} :
            CASE w = "OPERATING_RESULT_PARTIAL" -> view.missingLines > 0
              [] w = "PARTNER_ELIGIBILITY_IS_CURRENT_STATE" -> PartnerPool(q.requested, q.bps) > 0
              [] w = "WORK_SHIFTS_WITHOUT_DURATION" ->
                    q.basis = "KNOWN_MINUTES" /\ \E x \in shifts : x.minutes = Null
              [] OTHER -> \E m \in DOMAIN work : ~l.members[m].active /\ work[m] > 0}

Simulation(l, q) ==
    LET books == BooksOf(l, q)
    IN  IF Simulable(books, q.requested, q.bps)
        THEN [outcome |-> "simulated", books |-> books,
              shares |-> Shares(books, q.requested, q.bps),
              remaining |-> books.available - q.requested,
              warnings |-> WarningsOf(l, q)]
        ELSE [outcome |-> "refused", books |-> books]

-----------------------------------------------------------------------------
(* The reports on sales, by the server's instant. *)

\* computeProfitTotals: the profit is that of the lines whose cost is known.
ProfitTotals(items) ==
    LET known == {i \in items : i.cost # Null}
    IN  [income |-> Total(items, LAMBDA i : i.subtotal),
         profit |-> Total(known, LAMBDA i : i.subtotal) - CostOf(items),
         withoutCost |-> Cardinality(items \ known)]

\* salesByPeriod, of what its three statements read.
SalesByPeriod(sold, abonos, settled) ==
    LET received(rows) == Total(rows, LAMBDA a : a.amount)
        byMethod == [m \in Methods |->
            [sales |-> SaleTotal({s \in sold : s.method = m}),
             abonos |-> received({a \in abonos : a.method = m})]]
    IN  [sold |-> SaleTotal(sold), count |-> Cardinality(sold), received |-> received(abonos),
         total |-> SaleTotal(sold) + received(abonos),
         settled |-> {[deuda |-> d.id, total |-> d.total,
                       profit |-> IF d.cost = Null THEN Null ELSE d.total - d.cost * d.qty]
                      : d \in settled},
         byMethod |-> [m \in Methods |-> [sales |-> byMethod[m].sales, abonos |-> byMethod[m].abonos,
                                          total |-> byMethod[m].sales + byMethod[m].abonos]]]

SettledIn(l, range) ==
    {d \in l.deudas : \E s \in Received(l.settlements, range) : s.deuda = d.id}

\* salesByMember: those who sold, the one who sold most first.
SalesByMember(sold) ==
    SX!SetToSortSeq({[member |-> m, total |-> SaleTotal({s \in sold : s.member = m})]
                     : m \in {s.member : s \in sold}},
                    LAMBDA x, y : x.total > y.total)

\* The lines of one product and member; the profit only when every cost is known.
DetailRow(l, sold, p, m) ==
    LET items == {i \in ItemsOf(l, {s \in sold : s.member = m}) : i.product = p}
        totals == ProfitTotals(items)
        complete == totals.withoutCost = 0
    IN  [product |-> p, member |-> m, units |-> Total(items, LAMBDA i : i.qty),
         income |-> totals.income,
         cost |-> IF complete THEN CostOf(items) ELSE Null,
         profit |-> IF complete THEN totals.income - CostOf(items) ELSE Null]

DetailRows(l, sold) ==
    {DetailRow(l, sold, key[1], key[2]) :
        key \in {<<i.product, (CHOOSE s \in sold : s.id = i.sale).member>> : i \in ItemsOf(l, sold)}}

\* The largest income first, then by name; ties are broken by the identities.
DetailBefore(l, x, y) ==
    LET name(row) == (CHOOSE p \in l.products : p.id = row.product).name
    IN  \/ x.income > y.income
        \/ x.income = y.income /\ name(x) < name(y)
        \/ x.income = y.income /\ name(x) = name(y)
              /\ (x.product < y.product \/ (x.product = y.product /\ x.member < y.member))

SalesDetail(l, range, page, limit) ==
    LET sold == Received(Completed(l.sales), range)
        rows == SX!SetToSortSeq(DetailRows(l, sold), LAMBDA x, y : DetailBefore(l, x, y))
        first == (page - 1) * limit
    IN  [items |-> SubSeq(rows, first + 1, IF first + limit < Len(rows) THEN first + limit ELSE Len(rows)),
         total |-> Len(rows),
         totals |-> ProfitTotals(ItemsOf(l, sold))]

(* The commissions: half a minor unit is rounded up. *)
CommissionFor(sold, bps) == (sold * bps + BpsTotal \div 2) \div BpsTotal

Colaboradores(l, q) ==
    {m \in Members : l.members[m].role = "colaborador" /\ q.member \in {Null, m}}

Commissions(members, rates, global, sold) ==
    [m \in members |->
        LET bps == IF rates[m] = Null THEN global ELSE rates[m]
        IN  [sold |-> sold[m], bps |-> bps, commission |-> CommissionFor(sold[m], bps)]]

(* The dashboard: what is owed, and of what there is little left. *)
Pending(l) == {d \in l.deudas : \A s \in l.settlements : s.deuda # d.id}
PaidOn(l, deudas) == Total({a \in l.abonos : \E d \in deudas : a.deuda = d.id}, LAMBDA a : a.amount)

FewLeft(l, q) == {p \in l.products : p.active /\ p.stock <= q.threshold}

FewLeftFirst(few) ==
    LET sorted == SX!SetToSortSeq(few, LAMBDA x, y : x.stock < y.stock \/ (x.stock = y.stock /\ x.name < y.name))
    IN  SubSeq(sorted, 1, IF Len(sorted) < 5 THEN Len(sorted) ELSE 5)

-----------------------------------------------------------------------------
(* The calls.  A statement reads what is committed by then. *)

Sold(l, range) == Received(Completed(l.sales), range)
RangeOf(q) == IF q.range = Null THEN CurrentWeekRange(q.now) ELSE ReportRange(q.range)
Day(d) == ReportRange([from |-> [kind |-> "day", day |-> d], to |-> [kind |-> "day", day |-> d]])
Today(q) == Day(CurrentBusinessDate(q.now))
Yesterday(q) == Day(CurrentBusinessDate(q.now - UnitsPerDay))

Reads(c, what, after, value) ==
    /\ what \notin DOMAIN got[c]
    /\ after \subseteq DOMAIN got[c]
    /\ got' = [got EXCEPT ![c] = [k \in DOMAIN @ \cup {what} |-> IF k = what THEN value ELSE @[k]]]
    /\ UNCHANGED <<ledger, rate, defaultRate, landing, asked>>

\* One statement, or several on the snapshot of the first.
ReadAtOnce(c) ==
    LET q == asked[c]
    IN  /\ q.kind \in {"overview", "simulation"} => q.from < q.to
        /\ \/ q.kind = "overview" /\ Reads(c, "all", {}, Overview(ledger, q.from, q.to))
           \/ q.kind = "simulation" /\ Reads(c, "all", {}, Simulation(ledger, q))
           \/ q.kind = "members" /\ Reads(c, "all", {}, SalesByMember(Sold(ledger, RangeOf(q))))
           \/ q.kind = "detail" /\ Reads(c, "all", {}, SalesDetail(ledger, RangeOf(q), q.page, q.limit))

ReadPeriod(c) ==
    LET range == RangeOf(asked[c])
    IN  /\ asked[c].kind = "period"
        /\ \/ Reads(c, "sold", {}, Sold(ledger, range))
           \/ Reads(c, "abonos", {"sold"}, Received(ledger.abonos, range))
           \/ Reads(c, "settled", {"abonos"}, SettledIn(ledger, range))

\* Without a period, that of the current week; half a period is refused.
ReadCommissions(c) ==
    LET q == asked[c]
        sold(m) == SaleTotal({s \in Sold(ledger, RangeOf(q)) : s.member = m})
    IN  /\ q.kind = "commissions"
        /\ q.range # Null => Null \notin {q.range.from, q.range.to}
        /\ \/ Reads(c, "settings", {}, defaultRate)
           \/ Reads(c, "rates", {"settings"}, rate)
           \/ \E m \in Colaboradores(ledger, q) : Reads(c, ToString(m), {"rates"}, sold(m))

ReadDashboard(c) ==
    LET q == asked[c]
        together == {"today count", "yesterday count", "items", "incidencias", "paid"}
    IN  /\ q.kind = "dashboard"
        /\ \/ Reads(c, "today", {}, SaleTotal(Sold(ledger, Today(q))))
           \/ Reads(c, "today count", {"today"}, Cardinality(Sold(ledger, Today(q))))
           \/ Reads(c, "yesterday", {}, SaleTotal(Sold(ledger, Yesterday(q))))
           \/ Reads(c, "yesterday count", {"yesterday"}, Cardinality(Sold(ledger, Yesterday(q))))
           \/ Reads(c, "items", {}, ProfitTotals(ItemsOf(ledger, Sold(ledger, Today(q)))))
           \/ Reads(c, "incidencias", {}, Cardinality({x \in ledger.incidencias : x.pending}))
           \/ Reads(c, "pending", {}, Pending(ledger))
           \/ /\ "pending" \in DOMAIN got[c]
              /\ Reads(c, "paid", {}, PaidOn(ledger, got[c]["pending"]))
           \/ Reads(c, "few", together, FewLeftFirst(FewLeft(ledger, q)))
           \/ Reads(c, "few count", {"few"}, Cardinality(FewLeft(ledger, q)))

\* What the calls answer with what they have read.
PeriodAnswer(c) == SalesByPeriod(got[c]["sold"], got[c]["abonos"], got[c]["settled"])
CommissionsAnswer(c) ==
    LET members == Colaboradores(ledger, asked[c])
    IN  Commissions(members, got[c]["rates"], got[c]["settings"],
                    [m \in members |-> got[c][ToString(m)]])
Owed(c) ==
    [total |-> Total(got[c]["pending"], LAMBDA d : d.total) - got[c]["paid"],
     people |-> Cardinality({d.deudor : d \in got[c]["pending"]})]

-----------------------------------------------------------------------------
(* What happens meanwhile. *)

Land(change) ==
    /\ change.kind = "rows"
    /\ ledger' = [t \in DOMAIN ledger |->
                    IF t \in DOMAIN change.rows THEN ledger[t] \cup change.rows[t] ELSE ledger[t]]
    /\ UNCHANGED <<rate, defaultRate>>

SetGlobalRate(change) ==
    /\ change.kind = "global rate"
    /\ defaultRate' = change.bps
    /\ UNCHANGED <<ledger, rate>>

\* Only colaboradores have one.
SetMemberRate(change) ==
    /\ change.kind = "member rate"
    /\ rate' = IF ledger.members[change.member].role = "colaborador"
               THEN [rate EXCEPT ![change.member] = change.bps] ELSE rate
    /\ UNCHANGED <<ledger, defaultRate>>

\* An incident is resolved once; a second resolution is refused.
ResolveIncident(change) ==
    /\ change.kind = "resolution"
    /\ ledger' = [ledger EXCEPT !.incidencias =
                    {IF i.id = change.id THEN [i EXCEPT !.pending = FALSE] ELSE i : i \in @}]
    /\ UNCHANGED <<rate, defaultRate>>

Init ==
    /\ \E o \in Openings : ledger = o.tables /\ landing = o.changes /\ asked = o.questions
    /\ rate = [m \in Members |-> Null]
    /\ defaultRate = 0
    /\ got = [c \in Calls |-> << >>]

Next ==
    \/ \E c \in Calls : ReadAtOnce(c) \/ ReadPeriod(c) \/ ReadCommissions(c) \/ ReadDashboard(c)
    \/ \E change \in landing :
          /\ \/ Land(change) \/ ResolveIncident(change)
             \/ SetGlobalRate(change) \/ SetMemberRate(change)
          /\ landing' = landing \ {change}
          /\ UNCHANGED <<asked, got>>

Spec == Init /\ [][Next]_bookVars

-----------------------------------------------------------------------------
\* The calls that have their answer; the simulations that were not refused.
Answered(kind) == {c \in Calls : asked[c].kind = kind /\ "all" \in DOMAIN got[c]}
Simulated == {c \in Answered("simulation") : got[c]["all"].outcome = "simulated"}

(* Nothing is lost and nothing is invented: what the simulation hands out  *)
(* is the amount requested, and the books have it.  The service throws     *)
(* "Simulated distribution does not add up" otherwise, so this is also     *)
(* that it never does.                                                     *)
DistributionAddsUp ==
    \A c \in Simulated :
        /\ TotalOf(got[c]["all"].shares) = asked[c].requested
        /\ got[c]["all"].remaining >= 0

(* The work pool is divided as the largest remainder method says, whoever  *)
(* worked and however much.                                                *)
WorkFollowsHamilton ==
    \A c \in Simulated :
        LET pool == WorkPool(asked[c].requested, asked[c].bps)
            work == got[c]["all"].books.work
        IN  TotalOf(work) > 0 => Hamilton(pool, work) = {AllocateByWeight(pool, work)}
=============================================================================
