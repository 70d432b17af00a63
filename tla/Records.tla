------------------------------- MODULE Records -------------------------------
(***************************************************************************)
(* The finance records that are never edited but reversed, and perhaps     *)
(* replaced: contributions, expenses, work shifts and reserves.  The four  *)
(* services share one protocol: lock the identities of the request in      *)
(* order, answer what was recorded already, lock the day of a shift and    *)
(* the member a record is about, and write.  Meanwhile a client reads the  *)
(* list page by page.                                                      *)
(***************************************************************************)
EXTENDS FinanceTx, FiniteSets

CONSTANTS
    Creations,    \* submissions of a record
    Corrections,  \* submissions of a reversal, with or without replacement
    Body,         \* the body of each creation
    Fix,          \* the body of each correction
    Ids,          \* identities, ordered as UUIDs are
    ForeignIds,   \* those another business uses already
    Days,         \* when records occurred
    Filed,        \* the records at the start
    NoRow,        \* no row, no replacement
    Homes,        \* which requests arrive together, and at which process
    WithReader,   \* those of them while somebody reads the list
    Listed,       \* the kind of record that is listed
    Limit,        \* rows of a page
    MaxEvents     \* bound: how many things happen around the requests

LOCAL FS == INSTANCE FiniteSetsExt

Kinds == {"contribution", "expense", "shift", "reserve"}
Keys == Kinds \X Ids
Bodies == [kind : Kinds, id : Ids, subject : Actors, day : Days]
Fixes == [kind : Kinds, id : Ids, target : Ids, replacement : Bodies \cup {NoRow}]
\* of: the reversal whose replacement the record is, 0 if it was created.  others:
\* the other shifts its receipt warns of.  Bodies with of and by are fingerprints.
Rows == [body : Bodies, of : Ids \cup {0}, by : Actors, others : Nat]
Reversals == [body : Fixes, by : Actors]

ASSUME RequestsAreOfTwoKinds ==
    Requests = Creations \cup Corrections /\ Creations \cap Corrections = {}
ASSUME RecordBodiesAreValid ==
    /\ Body \in [Creations -> Bodies] /\ Fix \in [Corrections -> Fixes]
    /\ \A r \in Corrections : Fix[r].replacement = NoRow \/ Fix[r].replacement.kind = Fix[r].kind
ASSUME IdentitiesAreOrdered ==
    Ids \cup Actors \cup Days \subseteq Nat \ {0} /\ ForeignIds \subseteq Ids /\ IsFiniteSet(Ids)
ASSUME FiledIsRecorded ==
    Filed \in [Keys -> Rows \cup {NoRow}] /\ \A key \in Keys : Filed[key] = NoRow \/ Filed[key].of = 0
ASSUME NoRowIsNone == NoRow \notin Bodies /\ NoRow \notin Rows /\ NoRow \notin Reversals /\ NoRow \notin Ids
ASSUME RecordHomes == Homes \subseteq [Requests -> Instances \cup {Nowhere}]
ASSUME ListedIsAKind == Listed \in Kinds
ASSUME RecordBounds == Limit \in Nat \ {0} /\ MaxEvents \in Nat

VARIABLES
    rows,         \* the four tables of records, by kind and id
    reversals,    \* the four tables of reversals, by kind and id
    others,       \* the other shifts of the day that each request has counted
    walk,         \* a client that reads the list
    events        \* how many things happened around the requests

tables == <<rows, reversals>>
vars == <<txVars, authorized, tables, others, walk, events>>

-----------------------------------------------------------------------------
Kind(r) == IF r \in Creations THEN Body[r].kind ELSE Fix[r].kind
Replacement(r) == Fix[r].replacement
Replaces(r) == r \in Corrections /\ Replacement(r) # NoRow

\* The record a request would insert.
Inserts(r) == IF r \in Creations THEN {Body[r]} ELSE {Replacement(r)} \ {NoRow}

IdsOf(r) ==
    IF r \in Creations THEN {Body[r].id}
    ELSE {Fix[r].id, Fix[r].target} \cup {b.id : b \in Inserts(r)}

Reversed(key) == \E id \in Ids : LET v == reversals[<<key[1], id>>] IN v # NoRow /\ v.body.target = key[2]

\* Only shifts keep the identities of records and reversals apart.
Taken(kind, id) == rows[<<kind, id>>] # NoRow \/ (kind = "shift" /\ reversals[<<kind, id>>] # NoRow)

\* The shifts of a day: that of the shift it inserts, and of the one it reverses.
DaysOf(r) ==
    IF Kind(r) # "shift" THEN {}
    ELSE {<<b.subject, b.day>> : b \in Inserts(r)}
         \cup IF r \in Creations THEN {}
              ELSE LET old == rows[<<"shift", Fix[r].target>>].body IN {<<old.subject, old.day>>}

IdLock(r, id) == Exclusive(<<Kind(r), id>>)
DayLock(day) == Exclusive(<<"day", day>>)
Earlier(d, e) == d[1] < e[1] \/ (d[1] = e[1] /\ d[2] < e[2])

-----------------------------------------------------------------------------
Checked(r) ==
    Cardinality(IdsOf(r)) = IF r \in Creations THEN 1 ELSE IF Replaces(r) THEN 3 ELSE 2

Receive(r) ==
    /\ pc[r] = "idle"
    /\ \/ ~Checked(r) /\ Finish(r, "400")
       \/ Checked(r) /\ Authorize(r, "identities")
    /\ UNCHANGED <<tables, others>>

\* Mutant: in the order of the request.
lockIdentitiesMutant(r) ==
    /\ pc[r] = "identities"
    /\ \/ {IdLock(r, id) : id \in IdsOf(r)} \subseteq held[r] /\ Goto(r, "decide")
       \/ \E id \in IdsOf(r) :
             /\ IdLock(r, id) \notin held[r]
             /\ IF r \in Creations THEN TRUE ELSE id = Fix[r].id \/ IdLock(r, Fix[r].id) \in held[r]
             /\ Acquire(r, IdLock(r, id), "identities")
    /\ UNCHANGED <<tables, others>>

\* Identities are locked one by one, the lowest first.
lockIdentities(r) ==
    /\ pc[r] = "identities"
    /\ LET missing == {id \in IdsOf(r) : IdLock(r, id) \notin held[r]}
       IN  \/ missing = {} /\ Goto(r, "decide")
           \/ missing # {} /\ Acquire(r, IdLock(r, FS!Min(missing)), "identities")
    /\ UNCHANGED <<tables, others>>

\* The live shifts of the same member and day, but for the one it replaces.
SameDay(b, but) ==
    {id \in Ids \ but : LET key == <<"shift", id>>
                        IN  /\ rows[key] # NoRow /\ ~Reversed(key)
                            /\ rows[key].body.subject = b.subject /\ rows[key].body.day = b.day}

\* What is recorded under this identity already, and what this request would record.
Recorded(r) == IF r \in Creations THEN rows[<<Kind(r), Body[r].id>>] ELSE reversals[<<Kind(r), Fix[r].id>>]

NewRow(r, b) ==
    [body |-> b, by |-> ActorOf[r], of |-> IF r \in Creations THEN 0 ELSE Fix[r].id,
     others |-> others[r]]
NewReversal(r) == [body |-> Fix[r], by |-> ActorOf[r]]

SamePrint(r) ==
    IF r \in Creations THEN [Recorded(r) EXCEPT !.others = others[r]] = NewRow(r, Body[r])
    ELSE Recorded(r) = NewReversal(r)

Refusal(r) ==
    LET k == Kind(r)
    IN  IF r \in Creations THEN IF Taken(k, Body[r].id) THEN "409" ELSE "none"
        ELSE IF k = "shift" /\ rows[<<k, Fix[r].id>>] # NoRow THEN "409"
        ELSE IF rows[<<k, Fix[r].target>>] = NoRow THEN "404"
        ELSE IF Reversed(<<k, Fix[r].target>>) THEN "409"
        ELSE IF \E b \in Inserts(r) : Taken(k, b.id) THEN "409"
        ELSE "none"

Decide(r, next) ==
    /\ pc[r] = "decide"
    /\ UNCHANGED <<tables, others>>
    /\ \/ /\ Recorded(r) # NoRow
          /\ Finish(r, IF SamePrint(r) THEN "200" ELSE "409")
       \/ /\ Recorded(r) = NoRow /\ Refusal(r) # "none"
          /\ Finish(r, Refusal(r))
       \/ /\ Recorded(r) = NoRow /\ Refusal(r) = "none"
          /\ Goto(r, next)

SubjectOrWrite(r) == IF Inserts(r) = {} THEN "write" ELSE "subject"

\* Mutant: the days are not locked.
lockDaysMutant(r) ==
    /\ pc[r] = "days"
    /\ Goto(r, SubjectOrWrite(r))
    /\ UNCHANGED <<tables, others>>

\* Then the days, in order too.
lockDays(r) ==
    /\ pc[r] = "days"
    /\ UNCHANGED <<tables, others>>
    /\ LET missing == {d \in DaysOf(r) : DayLock(d) \notin held[r]}
       IN  \/ missing = {} /\ Goto(r, SubjectOrWrite(r))
           \/ \E d \in missing :
                 /\ \A e \in missing \ {d} : Earlier(d, e)
                 /\ Acquire(r, DayLock(d), "days")

\* Contributions are of socios, expenses and shifts of any member.
Eligible(kind, m) == IF kind = "contribution" THEN MayActAsSocio(m) ELSE MayAct(m)

\* Mutant: the member is read without FOR SHARE.
LockSubjectMutant(r, next) ==
    /\ pc[r] = "subject"
    /\ UNCHANGED <<tables, others>>
    /\ \E b \in Inserts(r) :
          \/ Eligible(b.kind, b.subject) /\ Goto(r, next)
          \/ ~Eligible(b.kind, b.subject) /\ Finish(r, "403")

\* The member the record is about is locked against leaving.
LockSubject(r, next) ==
    /\ pc[r] = "subject"
    /\ UNCHANGED <<tables, others>>
    /\ \E b \in Inserts(r) :
          \/ Eligible(b.kind, b.subject) /\ Acquire(r, Share(<<"actor", b.subject>>), next)
          \/ ~Eligible(b.kind, b.subject) /\ Finish(r, "403")

\* The warning of a shift: what is counted is what the receipt will say.
CountOthers(r) ==
    /\ pc[r] = "count"
    /\ \E b \in Inserts(r) :
          others' = [others EXCEPT ![r] =
                        Cardinality(SameDay(b, IF r \in Creations THEN {} ELSE {Fix[r].target}))]
    /\ Goto(r, "write")
    /\ UNCHANGED tables

NewIds(r) == {b.id : b \in Inserts(r)} \cup IF r \in Corrections THEN {Fix[r].id} ELSE {}

\* Mutant: the replacement is committed before its reversal.
WriteMutant(r, foreign) ==
    /\ pc[r] = "write"
    /\ \/ /\ \E b \in Inserts(r) :
                /\ rows[<<b.kind, b.id>>] = NoRow
                /\ rows' = [rows EXCEPT ![<<b.kind, b.id>>] = NewRow(r, b)]
          /\ UNCHANGED <<reversals, others, txVars>>
       \/ /\ \A b \in Inserts(r) : rows[<<b.kind, b.id>>] # NoRow
          /\ reversals' = IF r \in Corrections
                          THEN [reversals EXCEPT ![<<Kind(r), Fix[r].id>>] = NewReversal(r)] ELSE reversals
          /\ Finish(r, "201")
          /\ others' = [others EXCEPT ![r] = 0]
          /\ UNCHANGED rows

\* An identity of another business, which the row level security hides, only collides.
Write(r, foreign) ==
    /\ pc[r] = "write"
    /\ others' = [others EXCEPT ![r] = 0]
    /\ \/ /\ NewIds(r) \cap ForeignIds # {}
          /\ Finish(r, foreign)
          /\ UNCHANGED tables
       \/ /\ NewIds(r) \cap ForeignIds = {}
          /\ rows' = [key \in Keys |->
                        IF \E b \in Inserts(r) : key = <<b.kind, b.id>>
                        THEN NewRow(r, CHOOSE b \in Inserts(r) : TRUE) ELSE rows[key]]
          /\ reversals' = IF r \in Corrections
                          THEN [reversals EXCEPT ![<<Kind(r), Fix[r].id>>] = NewReversal(r)] ELSE reversals
          /\ Finish(r, "201")

-----------------------------------------------------------------------------
(* create and reverse of each service, after the checks of the request.    *)
Contribution(r) ==
    /\ Kind(r) = "contribution"
    /\ lockIdentities(r) \/ Decide(r, SubjectOrWrite(r)) \/ LockSubject(r, "write") \/ Write(r, "409")

Expense(r) ==
    /\ Kind(r) = "expense"
    /\ lockIdentities(r) \/ Decide(r, SubjectOrWrite(r)) \/ LockSubject(r, "write") \/ Write(r, "409")

WorkShift(r) ==
    /\ Kind(r) = "shift"
    /\ \/ lockIdentities(r) \/ Decide(r, "days") \/ lockDays(r) \/ LockSubject(r, "count")
       \/ CountOthers(r) \/ Write(r, "409")

FinanceReserve(r) ==
    /\ Kind(r) = "reserve"
    /\ lockIdentities(r) \/ Decide(r, "write") \/ Write(r, "404")

Serve(r) == Contribution(r) \/ Expense(r) \/ WorkShift(r) \/ FinanceReserve(r)

Handle(r) == (Receive(r) \/ Serve(r)) /\ UNCHANGED <<authorized, walk, events>>

-----------------------------------------------------------------------------
(* The list, newest first, by pages.  The next page starts after the day   *)
(* and id of the last row of this one.                                     *)
Reader(reads) == [cursor |-> NoRow, got |-> << >>, more |-> reads, began |-> {}]

Shown == {id \in Ids : /\ rows[<<Listed, id>>] # NoRow
                       /\ Listed = "reserve" => ~Reversed(<<Listed, id>>)}
Day(id) == rows[<<Listed, id>>].body.day
Precedes(i, j) == Day(i) > Day(j) \/ (Day(i) = Day(j) /\ i > j)

\* Mutant: the cursor is the day alone.
AfterMutant(cursor) == IF cursor = NoRow THEN Shown ELSE {id \in Shown : Day(id) < Day(cursor)}

After(cursor) == IF cursor = NoRow THEN Shown ELSE {id \in Shown : Precedes(cursor, id)}

list ==
    /\ walk.more
    /\ LET rest == After(walk.cursor)
           page == {i \in rest : Cardinality({j \in rest : Precedes(j, i)}) < Limit}
       IN  walk' = [cursor |-> IF page = {} THEN NoRow ELSE CHOOSE i \in page : \A j \in page \ {i} : Precedes(j, i),
                    got |-> [i \in Ids |-> (IF walk.got = << >> THEN 0 ELSE walk.got[i]) + IF i \in page THEN 1 ELSE 0],
                    more |-> page # rest,
                    began |-> IF walk.got = << >> THEN Shown ELSE walk.began]
    /\ UNCHANGED <<txVars, authorized, tables, others, events>>

-----------------------------------------------------------------------------
Repeat(r) == Resend(r) /\ UNCHANGED <<authorized, tables, others, walk, events>>

\* The transaction takes too long and is rolled back.
Expire(r) == Running(r) /\ Finish(r, "500") /\ UNCHANGED authorized

Authority(a) == Unshared(a) /\ (Revoke(a) \/ Reinstate(a)) /\ UNCHANGED txVars

Event ==
    /\ events < MaxEvents
    /\ events' = events + 1
    /\ \/ \E r \in Requests : Expire(r)
       \/ \E i \in Instances : DropHome(i) /\ UNCHANGED authorized
       \/ \E a \in Actors : Authority(a)
    /\ others' = [r \in Requests |-> IF pc'[r] = "done" THEN 0 ELSE others[r]]
    /\ UNCHANGED <<tables, walk>>

Finished ==
    /\ \A r \in Requests : pc[r] = "away" \/ (pc[r] = "done" /\ sends[r] = MaxSends)
    /\ ~walk.more
    /\ UNCHANGED vars

Init ==
    /\ ActorsInit
    /\ \E homes \in Homes : TxInit(homes) /\ walk = Reader(homes \in WithReader)
    /\ rows = Filed
    /\ reversals = [key \in Keys |-> NoRow]
    /\ others = [r \in Requests |-> 0]
    /\ events = 0

Next ==
    \/ \E r \in Requests : Handle(r) \/ Repeat(r)
    \/ list
    \/ Event
    \/ Finished

Spec == Init /\ [][Next]_vars

\* The processes and the database go on while any request can.
FairSpec == Spec /\ WF_vars(\E r \in Requests : Handle(r))

-----------------------------------------------------------------------------
(* A reversal and its replacement are one: each record is reversed at most *)
(* once, what a reversal names as replacement is there and was recorded as *)
(* the work of that reversal, no such row is there without it, and a shift *)
(* and a reversal of shifts never share their identity.                    *)
CorrectionsHoldTogether ==
    /\ \A k \in Kinds, i \in Ids, j \in Ids :
          LET v == reversals[<<k, i>>]
              w == reversals[<<k, j>>]
          IN  v # NoRow =>
                /\ rows[<<k, v.body.target>>] # NoRow
                /\ (w # NoRow /\ i # j) => v.body.target # w.body.target
                /\ v.body.replacement # NoRow =>
                      LET new == rows[<<k, v.body.replacement.id>>]
                      IN  new # NoRow /\ new.of = i /\ new.body = v.body.replacement
    /\ \A k \in Kinds, i \in Ids, j \in Ids :
          (rows[<<k, i>>] # NoRow /\ rows[<<k, i>>].of = j) =>
                reversals[<<k, j>>] # NoRow /\ reversals[<<k, j>>].body.replacement = rows[<<k, i>>].body
    /\ \A i \in Ids : rows[<<"shift", i>>] = NoRow \/ reversals[<<"shift", i>>] = NoRow

(* The receipt of a shift warns of the other shifts of that member and day *)
(* exactly: those that are there, unreversed, once it is recorded.         *)
WarningsAreExact ==
    [][\A i \in Ids :
          LET key == <<"shift", i>>
          IN  (rows[key] = NoRow /\ rows'[key] # NoRow) =>
                 rows'[key].others = Cardinality(SameDay(rows[key].body, {i}))']_vars

(* Nothing is recorded for somebody who is out: when a record or reversal  *)
(* is committed its author is an authorized socio and the member it is     *)
(* about is in force, whatever happened since the request was checked.     *)
OnlyForThoseInForce ==
    [][\A r \in Requests :
          (pc[r] = "write" /\ reply'[r] = "201") =>
             /\ MayActAsSocio(ActorOf[r])
             /\ \A b \in Inserts(r) : b.kind = "reserve" \/ Eligible(b.kind, b.subject)]_vars

(* Reading page after page shows every record that was there all along,    *)
(* and no record twice, although others are recorded, before and after the *)
(* cursor, and reversed meanwhile.                                         *)
PagesMissNothing ==
    /\ walk.got # << >> => \A i \in Ids : walk.got[i] <= 1
    /\ ~walk.more => \A i \in walk.began \cap Shown : walk.got[i] = 1

(* In the end every submission, repeated ones included, is answered:       *)
(* corrections that name each other's identities and days in any order     *)
(* never wait for each other for ever.                                     *)
EverySubmissionIsAnswered == <>[](\A r \in Requests : pc[r] \in {"away", "done"})
=============================================================================
