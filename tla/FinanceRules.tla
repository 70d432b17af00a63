---------------------------- MODULE FinanceRules ----------------------------
(***************************************************************************)
(* The profit-sharing rules of a business (FinanceRulesService): drafts,   *)
(* proposals, and the links by which the partners answer from their mail   *)
(* (FinanceRuleLinksService).  Calls of a session take the advisory lock   *)
(* of the business or the row of one version, answers take the row of the  *)
(* version only, and e-mails leave after the transaction that issued the   *)
(* links has committed.                                                    *)
(***************************************************************************)
EXTENDS Naturals, Sequences, FiniteSets

CONSTANTS
    Members,      \* the socios of the business, active or not
    Configs,      \* what the body of a draft may say
    Requests,     \* slots for the calls under way at once, filled in their order
    Openings,     \* the tables at the start
    MaxVersions,  \* bound: versions of the rules
    MaxCalls,     \* bound: calls
    MaxEvents     \* bound: what else happens, faults included

ASSUME NumbersAreNat == Requests \cup {MaxVersions, MaxCalls, MaxEvents} \subseteq Nat
ASSUME BusinessIsFinite == IsFiniteSet(Members) /\ IsFiniteSet(Requests)

VARIABLES
    sets,         \* the table "FinanceRuleSet", by version
    links,        \* the table "FinanceRuleLink"
    approvals,    \* the table "FinanceRuleApproval"
    objections,   \* the table "FinanceRuleObjection"
    active,       \* the members in force
    correo,       \* the members with a confirmed address
    job,          \* what each call is doing
    calls, events \* how many there have been

tables == <<sets, links, approvals, objections>>
people == <<active, correo>>
vars == <<tables, people, job, calls, events>>

-----------------------------------------------------------------------------
OPEN == {"pendiente", "en_revision"}
Versions == 1..MaxVersions

\* Percentages are hundredths; a split that does not add up to 100 % is refused.
Parses(c) == c.partner + c.capital + c.work = 10000
Terms == {c \in Configs : Parses(c)}

Rows == [status : {"borrador", "pendiente", "en_revision", "vigente", "reemplazada", "descartada"},
         by : Members, basedOn : Nat, terms : Terms]

\* nth: the link is the n-th for this member and version.  mailed: the e-mail
\* left.  sent: the column emailSent.  age: 0 within 24 hours, 2 after 7 days.
Key(l) == [set |-> l.set, member |-> l.member, nth |-> l.nth]
Keys == [set : Versions, member : Members, nth : Nat]
Links == [set : Versions, member : Members, nth : Nat, kind : {"envio", "reenvio"},
          used : BOOLEAN, retired : BOOLEAN, mailed : BOOLEAN, sent : BOOLEAN, age : 0..2]

With(status) == {i \in DOMAIN sets : sets[i].status = status}
Open == With("pendiente") \cup With("en_revision")
Approvers(table, i) == {a.member : a \in {b \in table : b.set = i}}
Live(l) == ~l.used /\ ~l.retired

\* One draft, one open proposal and one version in force at most; approvals are
\* of what was submitted, and what waits for answers has no objections.
AtMostOne(table, S) == \A i, j \in DOMAIN table : table[i].status \in S /\ table[j].status \in S => i = j
Orderly(table, approved, objected) ==
    /\ table \in Seq(Rows)
    /\ AtMostOne(table, OPEN) /\ AtMostOne(table, {"vigente"}) /\ AtMostOne(table, {"borrador"})
    /\ approved \subseteq [set : DOMAIN table, member : Members, terms : Terms]
    /\ \A a \in approved : table[a.set].status # "borrador" /\ a.terms = table[a.set].terms
    /\ \A b \in objected : b.set \in DOMAIN table /\ table[b.set].status \notin {"borrador", "pendiente"}

ASSUME OpeningsAreOrderly ==
    \A o \in Openings :
        /\ o.active \cup o.correo \subseteq Members /\ Orderly(o.sets, o.approvals, {})
        /\ o.links \subseteq Links /\ IsFiniteSet(o.links) /\ \A l \in o.links : l.set \in DOMAIN o.sets
        /\ Len(o.sets) <= MaxVersions /\ o.calls \in 0..MaxCalls /\ o.events \in 0..MaxEvents

-----------------------------------------------------------------------------
(* Locks.  A call keeps the draft it is submitting while it waits for      *)
(* another row, and an answer or a resend keeps the version it counts the  *)
(* approvals of until it commits; whoever saves or submits has the         *)
(* advisory lock.                                                          *)
Idle == [at |-> "idle"]
Jobs ==
    {Idle} \cup [at : {"called"}, op : {"save"}, who : Members, terms : Terms]
           \cup [at : {"called"}, op : {"submit", "modify"}, who : Members, id : Versions]
           \cup [at : {"called"}, op : {"discard", "resend"}, id : Versions]
           \cup [at : {"saving"}, id : Versions, terms : Terms]
           \cup [at : {"submitting"}, id : Versions, found : Versions \cup {0}, partners : SUBSET Members]
           \cup [at : {"answering"}, id : Versions, link : Keys, settles : BOOLEAN, partners : SUBSET Members]
           \cup [at : {"settling"}, id : Versions, partners : SUBSET Members]
           \cup [at : {"mailing"}, queue : SUBSET Keys]

BusinessFree(r) == \A q \in Requests \ {r} : job[q].at \notin {"saving", "submitting"}
RowHolders == {"submitting", "answering", "settling"}
RowHeld(qs, i) == \E q \in qs : job[q].at \in RowHolders /\ job[q].id = i
RowFree(r, i) == ~RowHeld(Requests \ {r}, i)

Goes(r, j) == job' = [job EXCEPT ![r] = j] /\ UNCHANGED <<people, calls, events>>
Ends(r) == Goes(r, Idle)
Refused(r) == Ends(r) /\ UNCHANGED tables

Called(r, op) == job[r].at = "called" /\ job[r].op = op

-----------------------------------------------------------------------------
(* A call passes the guards of the session.  Nothing checks again, once    *)
(* its transaction begins, that the member is still active.                *)
Creators == {r \in Requests : job[r].at = "called" /\ job[r].op \in {"save", "modify"}}

Slot(r) == job[r] = Idle /\ \A q \in Requests : q < r => job[q] # Idle

Call(r) ==
    /\ Slot(r)
    /\ calls < MaxCalls
    /\ \E m \in active :
          \/ \E t \in Terms :
                /\ Len(sets) + Cardinality(Creators) < MaxVersions
                /\ job' = [job EXCEPT ![r] = [at |-> "called", op |-> "save", who |-> m, terms |-> t]]
          \/ \E i \in DOMAIN sets, op \in {"discard", "resend"} :
                job' = [job EXCEPT ![r] = [at |-> "called", op |-> op, id |-> i]]
          \/ \E i \in DOMAIN sets, op \in {"submit", "modify"} :
                /\ op = "modify" => Len(sets) + Cardinality(Creators) < MaxVersions
                /\ job' = [job EXCEPT ![r] = [at |-> "called", op |-> op, who |-> m, id |-> i]]
    /\ calls' = calls + 1
    /\ UNCHANGED <<tables, people, events>>

createDraft(m, terms, base) ==
    sets' = Append(sets, [status |-> "borrador", by |-> m, basedOn |-> base, terms |-> terms])

(* saveDraft: looks for the open draft, then creates or updates it.        *)
\* Mutant: the draft of another partner is refused without ending the transaction.
SaveMutant(r) ==
    /\ Called(r, "save")
    /\ BusinessFree(r)
    /\ UNCHANGED <<links, approvals, objections>>
    /\ \/ /\ With("borrador") = {}
          /\ createDraft(job[r].who, job[r].terms, 0)
          /\ Ends(r)
       \/ \E i \in With("borrador") :
             /\ sets[i].by = job[r].who
             /\ Goes(r, [at |-> "saving", id |-> i, terms |-> job[r].terms])
             /\ UNCHANGED sets

Save(r) ==
    /\ Called(r, "save")
    /\ BusinessFree(r)
    /\ UNCHANGED <<links, approvals, objections>>
    /\ \/ /\ With("borrador") = {}
          /\ createDraft(job[r].who, job[r].terms, 0)
          /\ Ends(r)
       \/ \E i \in With("borrador") :
             /\ UNCHANGED sets
             /\ \/ sets[i].by = job[r].who /\ Goes(r, [at |-> "saving", id |-> i, terms |-> job[r].terms])
                \/ sets[i].by # job[r].who /\ Ends(r)

\* A discard does not take the advisory lock: the draft may be closed by now,
\* and the trigger refuses other terms for it.
SaveWrite(r) ==
    /\ job[r].at = "saving"
    /\ Ends(r)
    /\ UNCHANGED <<links, approvals, objections>>
    /\ LET i == job[r].id
       IN  sets' = IF sets[i].status = "borrador" THEN [sets EXCEPT ![i].terms = job[r].terms] ELSE sets

\* Mutant: the version is withdrawn, a status that only old rows may have.
DiscardMutant(r) ==
    /\ Called(r, "discard")
    /\ sets' = [sets EXCEPT ![job[r].id].status = "retirada"]
    /\ Ends(r)
    /\ UNCHANGED <<links, approvals, objections>>

Discard(r) ==
    /\ Called(r, "discard")
    /\ LET i == job[r].id
       IN  /\ RowFree(r, i)
           /\ \/ /\ sets[i].status \in OPEN \cup {"borrador"}
                 /\ sets' = [sets EXCEPT ![i].status = "descartada"]
                 /\ links' = {IF l.set = i /\ Live(l) THEN [l EXCEPT !.retired = TRUE] ELSE l : l \in links}
                 /\ Ends(r)
                 /\ UNCHANGED <<approvals, objections>>
              \/ /\ sets[i].status \notin OPEN \cup {"borrador"}
                 /\ Refused(r)

-----------------------------------------------------------------------------
(* Links are issued in the transaction, the live ones of the same member   *)
(* retired, and e-mailed one by one after it.                              *)
Past(i, m) == {l \in links : l.set = i /\ l.member = m}

NewLinks(i, ms, kind) ==
    {[set |-> i, member |-> m, nth |-> Cardinality(Past(i, m)) + 1, kind |-> kind,
      used |-> FALSE, retired |-> FALSE, mailed |-> FALSE, sent |-> FALSE, age |-> 0] : m \in ms}

issue(i, ms, kind) ==
    links' = {IF l.set = i /\ l.member \in ms /\ Live(l) THEN [l EXCEPT !.retired = TRUE] ELSE l : l \in links}
             \cup NewLinks(i, ms, kind)

Mailing(queue) == IF queue = {} THEN Idle ELSE [at |-> "mailing", queue |-> queue]

\* Without faults the e-mail leaves and is recorded.  With one, it may have left
\* or not, and the link is retired unless that write fails too.
Deliver(r) ==
    /\ job[r].at = "mailing"
    /\ \E k \in job[r].queue :
          /\ links' = {IF Key(l) = k THEN [l EXCEPT !.mailed = TRUE, !.sent = TRUE] ELSE l : l \in links}
          /\ Goes(r, Mailing(job[r].queue \ {k}))
    /\ UNCHANGED <<sets, approvals, objections>>

DeliverFails(r) ==
    /\ job[r].at = "mailing"
    /\ \E k \in job[r].queue, left, retired \in BOOLEAN :
          /\ links' = {IF Key(l) = k THEN [l EXCEPT !.mailed = left, !.retired = @ \/ retired] ELSE l : l \in links}
          /\ job' = [job EXCEPT ![r] = Mailing(job[r].queue \ {k})]
    /\ UNCHANGED <<sets, approvals, objections, people, calls>>

(* submit: the draft is locked first, then the proposal found open, which  *)
(* an answer may have brought into force meanwhile.                        *)
Submit(r) ==
    /\ Called(r, "submit")
    /\ BusinessFree(r) /\ RowFree(r, job[r].id)
    /\ LET i == job[r].id
       IN  \/ /\ sets[i].status = "borrador" /\ sets[i].by = job[r].who /\ active \subseteq correo
              /\ \E found \in IF Open = {} THEN {0} ELSE Open :
                    Goes(r, [at |-> "submitting", id |-> i, found |-> found, partners |-> active])
              /\ UNCHANGED tables
           \/ /\ ~(sets[i].status = "borrador" /\ sets[i].by = job[r].who /\ active \subseteq correo)
              /\ Refused(r)

\* Mutant: the proposal found open is not looked at again.
openAfterLockMutant(i) == i

openAfterLock(i) == IF i # 0 /\ sets[i].status \in OPEN THEN i ELSE 0

Replaced(i, open) ==
    [v \in DOMAIN sets |->
        CASE v = i    -> [sets[v] EXCEPT !.status = "pendiente"]
          [] v = open -> [sets[v] EXCEPT !.status = "descartada"]
          [] OTHER    -> sets[v]]

SubmitWrite(r) ==
    /\ job[r].at = "submitting"
    /\ RowFree(r, job[r].found)
    /\ LET i == job[r].id
           open == openAfterLock(job[r].found)
       IN  \/ /\ open \in {0, sets[i].basedOn}
              /\ sets' = Replaced(i, open)
              /\ issue(i, job[r].partners, "envio")
              /\ Goes(r, Mailing({Key(l) : l \in NewLinks(i, job[r].partners, "envio")}))
              /\ UNCHANGED <<approvals, objections>>
           \/ /\ open \notin {0, sets[i].basedOn}
              /\ Refused(r)

modify(r) ==
    /\ Called(r, "modify")
    /\ BusinessFree(r) /\ RowFree(r, job[r].id)
    /\ LET i == job[r].id
       IN  \/ /\ sets[i].status \in OPEN /\ With("borrador") = {}
              /\ createDraft(job[r].who, sets[i].terms, i)
              /\ Ends(r)
              /\ UNCHANGED <<links, approvals, objections>>
           \/ /\ ~(sets[i].status \in OPEN /\ With("borrador") = {})
              /\ Refused(r)

-----------------------------------------------------------------------------
(* Settling (finance_rule_set_settle): a waiting proposal every active     *)
(* socio approved takes force.  Its row is locked, the socios are not: one *)
(* may come or go between the count of the approvals and the commit.       *)
\* Mutant: as many approvals as active socios are enough.
SettledMutant(i, table) == active # {} /\ Cardinality(Approvers(table, i)) >= Cardinality(active)

Settled(i, table) == active # {} /\ active \subseteq Approvers(table, i)

InForce(i) ==
    [v \in DOMAIN sets |->
        CASE v = i                         -> [sets[v] EXCEPT !.status = "vigente"]
          [] v # i /\ v \in With("vigente") -> [sets[v] EXCEPT !.status = "reemplazada"]
          [] OTHER                         -> sets[v]]

\* A link sent again within 24 hours, unless that failed.
Cooling(i, m) == \E l \in Past(i, m) : l.kind = "reenvio" /\ (l.sent \/ ~l.retired) /\ l.age = 0

resend(r) ==
    /\ Called(r, "resend")
    /\ LET i == job[r].id
           asked == {m \in (active \cap correo) \ Approvers(approvals, i) : ~Cooling(i, m)}
       IN  /\ RowFree(r, i)
           /\ UNCHANGED <<approvals, objections>>
           /\ \/ /\ sets[i].status # "pendiente"
                 /\ Ends(r)
                 /\ UNCHANGED <<sets, links>>
              \/ /\ sets[i].status = "pendiente" /\ Settled(i, approvals)
                 /\ Goes(r, [at |-> "settling", id |-> i, partners |-> active])
                 /\ UNCHANGED <<sets, links>>
              \/ /\ sets[i].status = "pendiente" /\ ~Settled(i, approvals)
                 /\ issue(i, asked, "reenvio")
                 /\ Goes(r, Mailing({Key(l) : l \in NewLinks(i, asked, "reenvio")}))
                 /\ UNCHANGED sets

(* finance_rule_link_respond: whoever holds the link answers, once.        *)
Answerable(l) ==
    /\ l.mailed /\ Live(l) /\ l.age < 2
    /\ l.member \in active
    /\ sets[l.set].status = "pendiente"

Used(k) == {IF Key(l) = k THEN [l EXCEPT !.used = TRUE] ELSE l : l \in links}
Approval(i, m) == [set |-> i, member |-> m, terms |-> sets[i].terms]

\* The approval is recorded, the link used and the approvals counted, in a
\* transaction that has the row and has not committed yet.
Approve(r, l) ==
    LET i == l.set
        table == approvals \cup {Approval(i, l.member)}
    IN  /\ Slot(r)
        /\ Answerable(l)
        /\ RowFree(r, i)
        /\ l.member \notin Approvers(approvals, i)
        /\ Goes(r, [at |-> "answering", id |-> i, link |-> Key(l), settles |-> Settled(i, table),
                    partners |-> active])
        /\ UNCHANGED tables

Commit(r) ==
    LET i == job[r].id
    IN  /\ Ends(r)
        /\ UNCHANGED objections
        /\ \/ /\ job[r].at = "answering"
              /\ approvals' = approvals \cup {Approval(i, job[r].link.member)}
              /\ links' = Used(job[r].link)
              /\ sets' = IF job[r].settles THEN InForce(i) ELSE sets
           \/ /\ job[r].at = "settling"
              /\ sets' = InForce(i)
              /\ UNCHANGED <<approvals, links>>

Object(l) ==
    /\ Answerable(l)
    /\ ~RowHeld(Requests, l.set)
    /\ l.member \notin Approvers(objections, l.set)
    /\ objections' = objections \cup {[set |-> l.set, member |-> l.member]}
    /\ links' = Used(Key(l))
    /\ sets' = [sets EXCEPT ![l.set].status = "en_revision"]
    /\ UNCHANGED <<approvals, people, job, calls, events>>

-----------------------------------------------------------------------------
(* Around the calls. *)
Come(m) == active' = active \cup {m} /\ UNCHANGED <<tables, correo, job, calls>>
Go(m) == active' = active \ {m} /\ UNCHANGED <<tables, correo, job, calls>>
Confirm(m) == correo' = correo \cup {m} /\ UNCHANGED <<tables, active, job, calls>>

\* A day or a week goes by.
Pass(age) ==
    /\ links' = {[l EXCEPT !.age = IF @ < age THEN age ELSE @] : l \in links}
    /\ UNCHANGED <<sets, approvals, objections, people, job, calls>>

\* The process stops: a transaction is rolled back, e-mails are not sent.
Crash(r) == job' = [job EXCEPT ![r] = Idle] /\ UNCHANGED <<tables, people, calls>>

Event ==
    /\ events < MaxEvents
    /\ events' = events + 1
    /\ \/ \E m \in Members \ active : Come(m)
       \/ \E m \in active : Go(m)
       \/ \E m \in Members \ correo : Confirm(m)
       \/ \E age \in {1, 2} : Pass(age)
       \/ \E r \in Requests : job[r] # Idle /\ Crash(r)
       \/ \E r \in Requests : DeliverFails(r)

Work(r) ==
    \/ Save(r) \/ SaveWrite(r) \/ Discard(r) \/ Submit(r) \/ SubmitWrite(r)
    \/ modify(r) \/ resend(r) \/ Commit(r) \/ Deliver(r)

Finished == (\A r \in Requests : job[r] = Idle) /\ UNCHANGED vars

Init ==
    /\ \E o \in Openings :
          /\ sets = o.sets /\ links = o.links /\ approvals = o.approvals
          /\ active = o.active /\ correo = o.correo
          /\ calls = o.calls /\ events = o.events
    /\ objections = {}
    /\ job = [r \in Requests |-> Idle]

Next ==
    \/ \E r \in Requests : Call(r) \/ Work(r)
    \/ \E l \in links : Object(l) \/ \E r \in Requests : Approve(r, l)
    \/ Event
    \/ Finished

Spec == Init /\ [][Next]_vars

\* The processes and the database go on with what they have begun.
FairSpec == Spec /\ \A r \in Requests : WF_vars(Work(r))

-----------------------------------------------------------------------------
(* Tables, links and calls have their types.                               *)
TypeOK ==
    /\ sets \in Seq(Rows) /\ Len(sets) <= MaxVersions
    /\ links \subseteq Links
    /\ approvals \subseteq [set : Versions, member : Members, terms : Terms]
    /\ objections \subseteq [set : Versions, member : Members]
    /\ active \subseteq Members /\ correo \subseteq Members
    /\ job \in [Requests -> Jobs]
    /\ calls \in 0..MaxCalls /\ events \in 0..MaxEvents

\* What the trigger on "FinanceRuleSet" and its unique indexes let through.
Transitions ==
    {"borrador"} \X {"pendiente", "descartada"} \cup {"pendiente"} \X {"en_revision", "vigente", "descartada"}
    \cup {<<"en_revision", "descartada">>, <<"vigente", "reemplazada">>}

GuardsAllow(old, new) ==
    /\ \A i \in DOMAIN old :
          /\ old[i].status = new[i].status \/ <<old[i].status, new[i].status>> \in Transitions
          /\ old[i].status # "borrador" => old[i].terms = new[i].terms
    /\ \A S \in {OPEN, {"vigente"}, {"borrador"}} : Cardinality({i \in DOMAIN new : new[i].status \in S}) <= 1

(* The locks do their work: no call and no answer ever runs into the       *)
(* trigger or the unique indexes of the table, which would be a 500 (a     *)
(* save of a draft that was discarded under it apart): there is one draft, *)
(* one open proposal and one version in force, what was submitted does not *)
(* change, and a version in force is never closed by a submission.         *)
GuardsAreNeverHit == [][GuardsAllow(sets, sets')]_sets

\* The socios counted when the answer or the resend r decided have approved
\* the very terms of its version.
AllApproved(r) ==
    \A m \in job[r].partners : Approval(job[r].id, m) \in approvals'

Unanimous ==
    LET now(i) == i \in DOMAIN sets /\ sets[i].status = "vigente"
        then(i) == sets'[i].status = "vigente"
    IN  /\ \A i \in DOMAIN sets' :
              (then(i) /\ ~now(i)) =>
                  /\ \E r \in Requests :
                        job[r].at \in {"answering", "settling"} /\ job[r].id = i /\ AllApproved(r)
                  /\ \A b \in objections' : b.set # i
        /\ \A r \in Requests :
              (job[r].at = "answering" /\ approvals' # approvals /\ AllApproved(r)) => then(job[r].id)
        /\ \A i \in DOMAIN sets :
              (now(i) /\ ~then(i)) => \E j \in DOMAIN sets' : then(j) /\ ~now(j)

(* Rules take force only when every socio who was active when the          *)
(* approvals were counted has approved those very terms and nobody         *)
(* objected, and the approval that completes them brings them into force   *)
(* as it commits, however many answers race for it.  Rules in force leave  *)
(* it only for others that take it in the same step.  A socio who comes    *)
(* between the count and the commit has approved nothing                   *)
(* (finance_rule_set_settle).                                              *)
BroughtInUnanimously == [][Unanimous]_vars

(* Every call that got past the guards ends, whatever the others do.       *)
EveryCallEnds == \A r \in Requests : (job[r] # Idle) ~> (job[r] = Idle)
=============================================================================
