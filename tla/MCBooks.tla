------------------------------ MODULE MCBooks ------------------------------
(***************************************************************************)
(* Every division of a small amount among three members; and the books of  *)
(* a few days around midnight, read while sales, payments and corrections  *)
(* are committed.                                                          *)
(***************************************************************************)
EXTENDS Books

CONSTANTS
    call,
    MaxAmount,  \* bound: the largest amount distributed
    MaxWeight,  \* bound: the most work of one member
    SharesBps,  \* the partner shares tried
    Days        \* bound: the days whose books are compared

Empty == [t \in Tables |-> {}]

Sale(id, m, n, method, at, received) ==
    [id |-> id, status |-> "completada", member |-> m, total |-> n, method |-> method,
     occurredAt |-> at, receivedAt |-> received]
Item(id, sale, p, qty, n, cost) ==
    [id |-> id, sale |-> sale, product |-> p, qty |-> qty, subtotal |-> n, cost |-> cost]
Shift(id, m, day, minutes) == [id |-> id, member |-> m, day |-> day, minutes |-> minutes]

\* The amount, and the work as known minutes.
Divided(work, socios) ==
    [Empty EXCEPT !.sales = {Sale(1, 3, MaxAmount, "EFECTIVO", 1, 1)},
                  !.items = {Item(1, 1, 1, 1, MaxAmount, 0)},
                  !.shifts = {Shift(m, m, 0, IF work[m] = 0 THEN Null ELSE work[m]) : m \in DOMAIN work}]
    @@ [members |-> [m \in Members |-> [role |-> IF m \in socios THEN "socio" ELSE "colaborador",
                                        active |-> TRUE]]]

\* Socio 1, collaborator 2, and 3, who has left.  The last instant of day 0 is
\* 4, the first of day 1 is 5; the sale 2 was made in day 0 and arrived in day 1.
Open ==
    [Empty EXCEPT
        !.sales = {Sale(1, 2, 6, "EFECTIVO", 4, 4), Sale(2, 1, 5, "TARJETA", 4, 5),
                   [Sale(3, 2, Null, "EFECTIVO", 5, 5) EXCEPT !.status = "rechazada_por_conflicto"]},
        !.items = {Item(1, 1, 1, 2, 4, 1), Item(2, 1, 2, 1, 2, Null), Item(3, 2, 1, 1, 5, 2)},
        !.deudas = {[id |-> 1, deudor |-> 1, total |-> 5, cost |-> 1, qty |-> 2],
                    [id |-> 2, deudor |-> 1, total |-> 3, cost |-> Null, qty |-> 1]},
        !.abonos = {[id |-> 1, deuda |-> 1, amount |-> 2, method |-> "TARJETA", receivedAt |-> 8]},
        !.incidencias = {[id |-> 1, pending |-> TRUE], [id |-> 2, pending |-> FALSE]},
        !.products = {[id |-> 1, name |-> 2, stock |-> 0, active |-> TRUE],
                      [id |-> 2, name |-> 1, stock |-> 2, active |-> TRUE],
                      [id |-> 3, name |-> 3, stock |-> 9, active |-> TRUE]},
        !.expenses = {[id |-> 1, nature |-> "OPERATING_EXPENSE", amount |-> 1, occurredAt |-> 4],
                      [id |-> 2, nature |-> "INVENTORY_PURCHASE", amount |-> 2, occurredAt |-> 5]},
        !.contributions = {[id |-> 1, amount |-> 3, occurredAt |-> 8]},
        !.shifts = {Shift(1, 2, 0, 3), Shift(2, 3, 1, 2), Shift(3, 3, 1, Null)},
        !.reserves = {[id |-> 1, from |-> 0, to |-> 2, amount |-> 1],
                      [id |-> 2, from |-> 0, to |-> 1, amount |-> 1]}]
    @@ [members |-> 1 :> [role |-> "socio", active |-> TRUE] @@
                    2 :> [role |-> "colaborador", active |-> TRUE] @@
                    3 :> [role |-> "socio", active |-> FALSE]]

Rows(delta) == [kind |-> "rows", rows |-> delta]
Arriving == {
    Rows([sales |-> {Sale(4, 2, 6, "TRANSFERENCIA", 8, 8)}, items |-> {Item(4, 4, 2, 3, 6, 1)}]),
    Rows([sales |-> {Sale(5, 1, 5, "EFECTIVO", 9, 9)}, items |-> {Item(5, 5, 1, 1, 5, 1)}]),
    Rows([abonos |-> {[id |-> 2, deuda |-> 1, amount |-> 3, method |-> "EFECTIVO", receivedAt |-> 8]},
          settlements |-> {[deuda |-> 1, receivedAt |-> 8]}]),
    Rows([reversals |-> {<<"expenses", 1>>, <<"shifts", 2>>, <<"reserves", 1>>}]),
    [kind |-> "resolution", id |-> 1],
    [kind |-> "global rate", bps |-> 1250],
    [kind |-> "member rate", member |-> 2, bps |-> 2500],
    [kind |-> "member rate", member |-> 1, bps |-> 2500] }

day(d) == [kind |-> "day", day |-> d]
at(i) == [kind |-> "instant", at |-> i]
Between(a, b) == [from |-> a, to |-> b]

Questions == {
    [kind |-> "period", range |-> Between(day(0), day(1))],
    [kind |-> "period", range |-> Between(at(5), at(8))],
    [kind |-> "members", range |-> Between(day(0), day(1))],
    [kind |-> "detail", range |-> Between(day(0), day(1)), page |-> 1, limit |-> 2],
    [kind |-> "detail", range |-> Between(day(0), day(2)), page |-> 2, limit |-> 2],
    [kind |-> "commissions", range |-> Null, now |-> 8, member |-> Null],
    [kind |-> "commissions", range |-> Between(day(0), Null), now |-> 8, member |-> 2],
    [kind |-> "dashboard", now |-> 8, threshold |-> 2],
    [kind |-> "overview", from |-> 0, to |-> 2],
    [kind |-> "overview", from |-> 1, to |-> 1],
    [kind |-> "simulation", from |-> 0, to |-> 2, requested |-> 3, bps |-> 5000, basis |-> "WORK_SHIFTS"] }

Opened(tables, changes, question) ==
    [tables |-> tables, changes |-> changes, questions |-> [c \in Calls |-> question]]

\* A member whose work is more than MaxWeight has none at all, not even a shift.
Working(work) == [m \in {m \in Members : work[m] <= MaxWeight} |-> work[m]]

Divisions ==
    {Opened(Divided(Working(work), socios), {},
            [kind |-> "simulation", from |-> 0, to |-> 1,
             requested |-> n, bps |-> share, basis |-> "KNOWN_MINUTES"]) :
        work \in [Members -> 0..MaxWeight + 1], socios \in SUBSET Members,
        n \in 1..MaxAmount + 1, share \in SharesBps}

MCOpenings == Divisions \cup {Opened(Open, Arriving, q) : q \in Questions}

-----------------------------------------------------------------------------
\* The overview of adjoining periods, but for the reserves of exactly a period.
OverviewsTile(a, b, c) ==
    LET whole == Overview(ledger, a, c)
        first == Overview(ledger, a, b)
        second == Overview(ledger, b, c)
    IN  \A item \in {"saleCount", "sales", "cost", "margin", "lines", "missingLines", "missingUnits",
                      "withoutCost", "operating", "inventory", "contributions", "shiftCount",
                      "minutes", "unknownDurations", "result"} :
            whole[item] = first[item] + second[item]

From(a, b) == ReportRange(Between(day(a), day(b - 1)))
PeriodReport(range) ==
    SalesByPeriod(Sold(ledger, range), Received(ledger.abonos, range), SettledIn(ledger, range))
MethodsAddUp(report) == report.total = Total(Methods, LAMBDA m : report.byMethod[m].total)

ReportsTile(a, b, c) ==
    LET whole == PeriodReport(From(a, c))
        first == PeriodReport(From(a, b))
        second == PeriodReport(From(b, c))
    IN  /\ whole.count = first.count + second.count
        /\ whole.settled = first.settled \cup second.settled
        /\ \A m \in Methods : whole.byMethod[m].total = first.byMethod[m].total + second.byMethod[m].total
        /\ MethodsAddUp(whole)

\* The other reports say of a range what the report of the period says.
OthersAgree(range) ==
    LET report == PeriodReport(range)
        members == SalesByMember(Sold(ledger, range))
        rows == DetailRows(ledger, Sold(ledger, range))
        pages == [page \in 1..3 |-> SalesDetail(ledger, range, page, 2)]
        totals == pages[1].totals
    IN  /\ Total(DOMAIN members, LAMBDA i : members[i].total) = report.sold
        /\ totals.income = report.sold
        /\ Total(rows, LAMBDA row : row.income) = totals.income
        /\ (totals.withoutCost = 0) = (\A row \in rows : row.profit # Null)
        /\ totals.withoutCost = 0 => Total(rows, LAMBDA row : row.profit) = totals.profit
        /\ rows = UNION {{pages[page].items[i] : i \in DOMAIN pages[page].items} : page \in 1..3}
        /\ Cardinality(rows) = Total(1..3, LAMBDA page : Len(pages[page].items))

\* Today's report has what is received now; so has the week's.
NowIsToday(now) ==
    LET week == CurrentWeekRange(now)
        today == CurrentBusinessDate(now)
    IN  /\ Day(today).from <= now /\ now <= Day(today).to
        /\ CurrentBusinessDate(now - UnitsPerDay) = today - 1
        /\ week.from <= now /\ now <= week.to
        /\ \E sunday \in (today - 6)..today :
              sunday % 7 = 0 /\ week = ReportRange(Between(day(sunday), day(sunday + 6)))

Calendar == \A now \in DayStart(1)..DayStart(16) : NowIsToday(now)

(* The reports agree with each other and with the calendar.  What adjoin-  *)
(* ing days report adds up to what the days together report, a sale at the *)
(* very end of a day included, by the server's instant and by the declared *)
(* one alike; the methods, the members and the lines of a range add up to  *)
(* its total, the first of them also when sales and payments land between  *)
(* the statements of the report; and now is in today and in this week.     *)
(* (What lands does not depend on what is asked and read.)                 *)
BooksAgree ==
    /\ (\A c \in Calls : asked[c].kind = "overview" /\ got[c] = << >>) =>
          \A a, b, c \in Days :
             a < b /\ b < c => OverviewsTile(a, b, c) /\ ReportsTile(a, b, c) /\ OthersAgree(From(a, c))
    /\ Calendar
    /\ \A c \in Calls : DOMAIN got[c] = {"sold", "abonos", "settled"} => MethodsAddUp(PeriodAnswer(c))
=============================================================================
