------------------------ MODULE FinanceRules_proofs ------------------------
(***************************************************************************)
(* For any partners, drafts, openings and bounds: the locks of the finance *)
(* rules keep every statement clear of the database's own guards, and only *)
(* what everybody approved takes force.                                    *)
(***************************************************************************)
EXTENDS FinanceRules, TLAPS, SequenceTheorems, FiniteSetTheorems

\* What a call has looked up still holds of the table when it goes on.
Ready(j, table) ==
    /\ (j.at = "called" /\ j.op \in {"save", "submit", "modify"}) => j.who \in Members
    /\ (j.at = "called" /\ j.op = "save") => j.terms \in Terms
    /\ (j.at = "called" /\ j.op # "save") => j.id \in DOMAIN table
    /\ j.at = "saving" => j.id \in DOMAIN table /\ j.terms \in Terms
    /\ j.at = "submitting" =>
          /\ j.id \in DOMAIN table /\ table[j.id].status = "borrador"
          /\ \A v \in DOMAIN table : table[v].status \in OPEN => v = j.found
    /\ j.at \in {"answering", "settling"} => j.id \in DOMAIN table /\ table[j.id].status = "pendiente"
    /\ j.at = "answering" => j.link.member \in Members

\* What a call that has counted the approvals goes by still holds of them.
Counting(j) == j.at \in {"answering", "settling"}
Tally(j, approved) ==
    /\ j.at = "answering" =>
          /\ j.link.member \in j.partners
          /\ j.settles <=> \A m \in j.partners : m = j.link.member \/ m \in Approvers(approved, j.id)
    /\ j.at = "settling" => j.partners \subseteq Approvers(approved, j.id)

\* One call at a time has the business.
Holding(j) == j.at \in {"saving", "submitting"}

\* Links are of versions of the table.
Tied(ls, table) == \A l \in ls : "set" \in DOMAIN l /\ l.set \in DOMAIN table

JobsOK ==
    /\ DOMAIN job = Requests
    /\ \A r, q \in Requests : Holding(job[r]) /\ Holding(job[q]) => r = q
    /\ \A r, q \in Requests : Counting(job[r]) /\ Counting(job[q]) => r = q
    /\ \A r \in Requests : Ready(job[r], sets)
    /\ \A r \in Requests : Counting(job[r]) => Tally(job[r], approvals)

Inv == Orderly(sets, approvals, objections) /\ Tied(links, sets) /\ active \subseteq Members /\ JobsOK

\* What the trigger lets through.
Moves(old, new) ==
    \A i \in DOMAIN old :
        /\ i \in DOMAIN new
        /\ old[i].status = new[i].status \/ <<old[i].status, new[i].status>> \in Transitions
        /\ old[i].status # "borrador" => old[i].terms = new[i].terms

\* Nothing but a submission opens a proposal.
OpensNothing(old, new) ==
    /\ DOMAIN old \subseteq DOMAIN new
    /\ \A v \in DOMAIN new : new[v].status \in OPEN => v \in DOMAIN old /\ old[v].status \in OPEN

\* Nothing enters into force or leaves it.
Steady(old, new) ==
    /\ DOMAIN old \subseteq DOMAIN new
    /\ \A v \in DOMAIN new : new[v].status = "vigente" => v \in DOMAIN old /\ old[v].status = "vigente"
    /\ \A v \in DOMAIN old : old[v].status = "vigente" => new[v].status = "vigente"

Good == Inv' /\ Moves(sets, sets') /\ Unanimous

-----------------------------------------------------------------------------
(* Sequences of rows. *)

\* A table with the same versions is a table.
LEMMA SameVersions ==
    ASSUME NEW s \in Seq(Rows), NEW f, f = [v \in DOMAIN s |-> f[v]], \A v \in DOMAIN s : f[v] \in Rows
    PROVE  f \in Seq(Rows) /\ DOMAIN f = DOMAIN s
  <1>1. DOMAIN s = 1..Len(s) /\ Len(s) \in Nat
    OBVIOUS
  <1>2. f \in [1..Len(s) -> Rows]
    BY <1>1
  <1>3. f \in Seq(Rows)
    BY <1>1, <1>2, SeqDef
  <1> QED BY <1>3, <1>2, <1>1

\* A draft is added at the end.
LEMMA OneMore ==
    ASSUME NEW s \in Seq(Rows), NEW e \in Rows
    PROVE  /\ Append(s, e) \in Seq(Rows)
           /\ DOMAIN s \subseteq DOMAIN Append(s, e)
           /\ \A v \in DOMAIN s : Append(s, e)[v] = s[v]
           /\ \A v \in DOMAIN Append(s, e) \ DOMAIN s : Append(s, e)[v] = e
           /\ \A v, w \in DOMAIN Append(s, e) \ DOMAIN s : v = w
  OBVIOUS

\* At most one in the sense of the unique indexes.
LEMMA AtMostOneCounted ==
    ASSUME NEW table, NEW S, AtMostOne(table, S)
    PROVE  Cardinality({i \in DOMAIN table : table[i].status \in S}) <= 1
  <1> DEFINE T == {i \in DOMAIN table : table[i].status \in S}
  <1>1. CASE T = {}
    <2>1. Cardinality(T) = 0
      BY <1>1, FS_EmptySet
    <2> QED BY <2>1
  <1>2. CASE T # {}
    <2>1. PICK x \in T : TRUE
      BY <1>2
    <2>2. T = {x}
      BY <2>1 DEF AtMostOne
    <2>3. Cardinality({x}) = 1
      BY FS_Singleton
    <2> HIDE DEF T
    <2>4. Cardinality(T) <= 1
      BY <2>2, <2>3
    <2> QED BY <2>4 DEF T
  <1> QED BY <1>1, <1>2

-----------------------------------------------------------------------------
(* Steps of a call. *)

\* The next thing a call does leaves the others prepared.
LEMMA JobStep ==
    ASSUME Inv, NEW r \in Requests, NEW j, job' = [job EXCEPT ![r] = j],
           DOMAIN sets \subseteq DOMAIN sets',
           Ready(j, sets'),
           Holding(j) => \A q \in Requests \ {r} : ~Holding(job[q]),
           Counting(j) => Tally(j, approvals') /\ \A q \in Requests \ {r} : ~Counting(job[q]),
           \A q \in Requests \ {r} : job[q].at = "submitting" =>
              OpensNothing(sets, sets') /\ sets'[job[q].id].status = "borrador",
           \A q \in Requests \ {r} : Counting(job[q]) =>
              UNCHANGED approvals /\ sets'[job[q].id].status = "pendiente"
    PROVE  JobsOK'
  <1>1. \A q \in Requests : job'[q] = IF q = r THEN j ELSE job[q]
    BY DEF Inv, JobsOK
  <1>2. DOMAIN job' = Requests
    BY DEF Inv, JobsOK
  <1>3. ASSUME NEW p \in Requests, NEW q \in Requests, Holding(job'[p]), Holding(job'[q]) PROVE p = q
    BY <1>1, <1>3 DEF Inv, JobsOK
  <1>4. ASSUME NEW q \in Requests PROVE Ready(job'[q], sets')
    <2>1. CASE q = r
      BY <1>1, <2>1
    <2>2. CASE q # r
      <3>1. job'[q] = job[q] /\ Ready(job[q], sets)
        BY <1>1, <2>2 DEF Inv, JobsOK
      <3> QED BY <3>1, <2>2 DEF Ready, OpensNothing, Counting
    <2> QED BY <2>1, <2>2
  <1>5. ASSUME NEW p \in Requests, NEW q \in Requests, Counting(job'[p]), Counting(job'[q]) PROVE p = q
    BY <1>1, <1>5 DEF Inv, JobsOK
  <1>6. ASSUME NEW q \in Requests, Counting(job'[q]) PROVE Tally(job'[q], approvals')
    BY <1>1, <1>6 DEF Inv, JobsOK
  <1> QED BY <1>2, <1>3, <1>4, <1>5, <1>6 DEF JobsOK

\* An objection has no call of its own.
LEMMA AnswerJobs ==
    ASSUME Inv, UNCHANGED <<job, approvals>>, OpensNothing(sets, sets'),
           \A q \in Requests : job[q].at = "submitting" => sets'[job[q].id].status = "borrador",
           \A q \in Requests : ~Counting(job[q])
    PROVE  JobsOK'
  <1>1. ASSUME NEW q \in Requests PROVE Ready(job[q], sets')
    <2>1. Ready(job[q], sets)
      BY DEF Inv, JobsOK
    <2> QED BY <2>1 DEF Ready, OpensNothing, Counting
  <1> QED BY <1>1 DEF Inv, JobsOK

\* Whoever may have the row of the waiting proposal is alone in counting.
LEMMA CountsAlone ==
    ASSUME Inv, NEW r \in Requests, NEW i \in DOMAIN sets, sets[i].status \in OPEN, RowFree(r, i)
    PROVE  \A q \in Requests \ {r} : ~Counting(job[q])
  <1> SUFFICES ASSUME NEW q \in Requests \ {r}, Counting(job[q]) PROVE FALSE
    OBVIOUS
  <1>1. job[q].id \in DOMAIN sets /\ sets[job[q].id].status = "pendiente"
    BY DEF Inv, JobsOK, Ready, Counting
  <1>2. job[q].id = i
    BY <1>1 DEF Inv, Orderly, AtMostOne, OPEN
  <1> QED BY <1>2 DEF RowFree, RowHeld, RowHolders, Counting

\* Nothing that happens around the table disturbs it.
LEMMA QuietTable ==
    ASSUME Inv, UNCHANGED <<sets, approvals, objections>>, active' \subseteq Members,
           Tied(links', sets), JobsOK'
    PROVE  Good
  <1>1. Orderly(sets, approvals, objections)'
    BY DEF Inv, Orderly, AtMostOne
  <1> QED BY <1>1 DEF Good, Moves, Unanimous, Inv, Tied

LEMMA QuietCall ==
    ASSUME Inv, NEW r \in Requests, NEW j, job' = [job EXCEPT ![r] = j],
           UNCHANGED <<sets, approvals, objections>>, active' \subseteq Members, Tied(links', sets),
           Ready(j, sets), Holding(j) => \A q \in Requests \ {r} : ~Holding(job[q]),
           Counting(j) => Tally(j, approvals) /\ \A q \in Requests \ {r} : ~Counting(job[q])
    PROVE  Good
  <1>1. \A q \in Requests : job[q].at = "submitting" => sets'[job[q].id].status = "borrador"
    BY DEF Inv, JobsOK, Ready
  <1>2. OpensNothing(sets, sets')
    BY DEF OpensNothing
  <1>3. Ready(j, sets') /\ DOMAIN sets \subseteq DOMAIN sets'
    OBVIOUS
  <1>4. \A q \in Requests : Counting(job[q]) => sets'[job[q].id].status = "pendiente"
    BY DEF Inv, JobsOK, Ready, Counting
  <1>5. JobsOK'
    BY <1>1, <1>2, <1>3, <1>4, JobStep
  <1> QED BY <1>5, QuietTable

\* A call that ends, or only mails, has nothing to be ready for.
LEMMA NothingToBeReadyFor ==
    /\ \A table : Ready(Idle, table) /\ ~Holding(Idle) /\ ~Counting(Idle)
    /\ \A table, queue : /\ Ready(Mailing(queue), table)
                         /\ ~Holding(Mailing(queue)) /\ ~Counting(Mailing(queue))
  BY DEF Ready, Holding, Counting, Idle, Mailing

\* Unless something enters into force, there is nothing to be unanimous about.
LEMMA SteadyIsUnanimous == ASSUME Steady(sets, sets'), UNCHANGED approvals PROVE Unanimous
  BY DEF Steady, Unanimous

-----------------------------------------------------------------------------
(* Calls of a session. *)

\* A new draft, where there is none.
LEMMA NewDraft ==
    ASSUME Inv, NEW r \in Requests, NEW m \in Members, NEW terms \in Terms, NEW base \in Nat,
           BusinessFree(r), With("borrador") = {}, createDraft(m, terms, base), Ends(r),
           UNCHANGED <<links, approvals, objections>>
    PROVE  Good
  <1> DEFINE e == [status |-> "borrador", by |-> m, basedOn |-> base, terms |-> terms]
  <1>1. e \in Rows /\ sets \in Seq(Rows) /\ sets' = Append(sets, e)
    BY DEF createDraft, Rows, Inv, Orderly
  <1>2. /\ sets' \in Seq(Rows)
        /\ DOMAIN sets \subseteq DOMAIN sets'
        /\ \A v \in DOMAIN sets : sets'[v] = sets[v]
        /\ \A v \in DOMAIN sets' \ DOMAIN sets : sets'[v] = e
        /\ \A v, w \in DOMAIN sets' \ DOMAIN sets : v = w
    <2> HIDE DEF e
    <2> QED BY <1>1, OneMore
  <1>3. Orderly(sets, approvals, objections)'
    <2>1. \A v \in DOMAIN sets : sets[v].status # "borrador"
      BY DEF With
    <2>2. AtMostOne(sets', {"borrador"}) /\ AtMostOne(sets', {"vigente"}) /\ AtMostOne(sets', OPEN)
      BY <1>2, <2>1 DEF AtMostOne, OPEN, Inv, Orderly
    <2>3. approvals' \subseteq [set : DOMAIN sets', member : Members, terms : Terms]
      BY <1>2 DEF Inv, Orderly
    <2> QED BY <1>2, <2>2, <2>3 DEF Inv, Orderly
  <1>4. OpensNothing(sets, sets') /\ Steady(sets, sets') /\ Moves(sets, sets')
    BY <1>2 DEF OpensNothing, Steady, Moves, OPEN
  <1>5. \A q \in Requests \ {r} : job[q].at # "submitting"
    BY DEF BusinessFree
  <1>6. \A q \in Requests : Counting(job[q]) => sets'[job[q].id].status = "pendiente"
    BY <1>2 DEF Inv, JobsOK, Ready, Counting
  <1>7. JobsOK'
    BY <1>2, <1>5, <1>6, JobStep, NothingToBeReadyFor DEF Ends, Goes
  <1> QED BY <1>2, <1>3, <1>4, <1>7, SteadyIsUnanimous DEF Good, Inv, Tied, Ends, Goes, people

LEMMA SaveStep == ASSUME Inv, NEW r \in Requests, Save(r) PROVE Good
  <1>1. Ready(job[r], sets) /\ \A q \in Requests \ {r} : ~Holding(job[q])
    BY DEF Inv, JobsOK, Save, BusinessFree, Holding
  <1>2. CASE With("borrador") = {} /\ createDraft(job[r].who, job[r].terms, 0) /\ Ends(r)
    <2>1. job[r].who \in Members /\ job[r].terms \in Terms
      BY <1>1 DEF Ready, Save, Called
    <2> QED BY <1>2, <2>1, NewDraft DEF Save
  <1>3. ASSUME NEW i \in With("borrador"), UNCHANGED sets,
               Goes(r, [at |-> "saving", id |-> i, terms |-> job[r].terms])
        PROVE  Good
    <2> DEFINE j == [at |-> "saving", id |-> i, terms |-> job[r].terms]
    <2>1. Ready(j, sets) /\ j.at = "saving" /\ ~Counting(j)
      BY <1>1, <1>3 DEF Ready, Save, Called, With, Counting
    <2>2. active' \subseteq Members /\ Tied(links', sets) /\ job' = [job EXCEPT ![r] = j]
      BY <1>3 DEF Inv, Goes, people, Save
    <2> QED BY <1>1, <1>3, <2>1, <2>2, QuietCall DEF Save, Goes, people
  <1>4. CASE UNCHANGED sets /\ Ends(r)
    BY <1>4, QuietCall, NothingToBeReadyFor DEF Save, Ends, Goes, people, Inv
  <1> QED BY <1>2, <1>3, <1>4 DEF Save

\* A change of one version, which is not the draft of another call.
LEMMA OneVersion ==
    ASSUME Inv, NEW i \in DOMAIN sets, NEW e \in Rows, sets' = [sets EXCEPT ![i] = e],
           e.status \in OPEN => sets[i].status \in OPEN,
           e.status = "borrador" => sets[i].status = "borrador",
           e.status = "vigente" => sets[i].status = "vigente",
           sets[i].status = "vigente" => e.status = "vigente",
           e.status = sets[i].status \/ <<sets[i].status, e.status>> \in Transitions,
           sets[i].status # "borrador" => e.terms = sets[i].terms
    PROVE  /\ sets' \in Seq(Rows) /\ DOMAIN sets' = DOMAIN sets
           /\ AtMostOne(sets', {"borrador"}) /\ AtMostOne(sets', {"vigente"}) /\ AtMostOne(sets', OPEN)
           /\ OpensNothing(sets, sets') /\ Steady(sets, sets') /\ Moves(sets, sets')
  <1>1. sets \in Seq(Rows)
    BY DEF Inv, Orderly
  <1>2. DOMAIN sets' = DOMAIN sets /\ sets' \in Seq(Rows)
    BY <1>1
  <1>3. \A v \in DOMAIN sets : sets'[v] = IF v = i THEN e ELSE sets[v]
    BY <1>1
  <1>4. AtMostOne(sets', {"borrador"}) /\ AtMostOne(sets', {"vigente"}) /\ AtMostOne(sets', OPEN)
    BY <1>2, <1>3 DEF AtMostOne, Inv, Orderly, OPEN
  <1>5. OpensNothing(sets, sets') /\ Steady(sets, sets') /\ Moves(sets, sets')
    BY <1>2, <1>3 DEF OpensNothing, Steady, Moves
  <1> QED BY <1>2, <1>4, <1>5

LEMMA SaveWriteStep == ASSUME Inv, NEW r \in Requests, SaveWrite(r) PROVE Good
  <1> DEFINE i == job[r].id
  <1>1. i \in DOMAIN sets /\ job[r].terms \in Terms /\ sets \in Seq(Rows)
    BY DEF Inv, JobsOK, Ready, SaveWrite, Orderly
  <1>2. CASE sets[i].status # "borrador"
    <2>1. UNCHANGED sets /\ Ends(r)
      BY <1>2 DEF SaveWrite
    <2> QED BY <2>1, QuietCall, NothingToBeReadyFor DEF SaveWrite, Ends, Goes, people, Inv
  <1>3. CASE sets[i].status = "borrador"
    <2> DEFINE e == [sets[i] EXCEPT !.terms = job[r].terms]
    <2>1. sets' = [sets EXCEPT ![i] = e]
      BY <1>1, <1>3 DEF SaveWrite
    <2>2. sets[i] \in Rows
      BY <1>1
    <2>3. e \in Rows /\ e.status = "borrador"
      BY <1>1, <1>3, <2>2 DEF Rows
    <2> HIDE DEF e
    <2>4. /\ sets' \in Seq(Rows) /\ DOMAIN sets' = DOMAIN sets
          /\ AtMostOne(sets', {"borrador"}) /\ AtMostOne(sets', {"vigente"}) /\ AtMostOne(sets', OPEN)
          /\ OpensNothing(sets, sets') /\ Steady(sets, sets') /\ Moves(sets, sets')
      BY <1>1, <1>3, <2>1, <2>3, OneVersion DEF OPEN
    <2>5. Orderly(sets, approvals, objections)'
      BY <1>1, <1>3, <2>1, <2>4 DEF Inv, Orderly, SaveWrite
    <2>6. \A q \in Requests \ {r} : job[q].at # "submitting"
      BY DEF SaveWrite, Inv, JobsOK, Holding
    <2>7. \A q \in Requests : Counting(job[q]) => sets'[job[q].id].status = "pendiente"
      BY <1>1, <1>3, <2>1 DEF Inv, JobsOK, Ready, Counting
    <2>8. JobsOK'
      BY <2>4, <2>6, <2>7, JobStep, NothingToBeReadyFor DEF SaveWrite, Ends, Goes
    <2> QED BY <2>4, <2>5, <2>8, SteadyIsUnanimous DEF Good, Inv, Tied, SaveWrite, Ends, Goes, people
  <1> QED BY <1>2, <1>3

LEMMA DiscardStep == ASSUME Inv, NEW r \in Requests, Discard(r) PROVE Good
  <1> DEFINE i == job[r].id
  <1>1. i \in DOMAIN sets /\ sets \in Seq(Rows) /\ sets[i] \in Rows
    BY DEF Inv, JobsOK, Ready, Discard, Called, Orderly
  <1>2. CASE sets[i].status \notin OPEN \cup {"borrador"}
    <2>1. Refused(r)
      BY <1>2 DEF Discard
    <2> QED BY <2>1, QuietCall, NothingToBeReadyFor DEF Refused, Ends, Goes, people, tables, Inv
  <1>3. CASE sets[i].status \in OPEN \cup {"borrador"}
    <2> DEFINE e == [sets[i] EXCEPT !.status = "descartada"]
    <2>1. sets' = [sets EXCEPT ![i] = e]
      BY <1>1, <1>3 DEF Discard
    <2>2. e \in Rows /\ e.status = "descartada" /\ e.terms = sets[i].terms
      BY <1>1 DEF Rows
    <2>3. <<sets[i].status, "descartada">> \in Transitions
      BY <1>3 DEF Transitions, OPEN
    <2> HIDE DEF e
    <2>4. /\ sets' \in Seq(Rows) /\ DOMAIN sets' = DOMAIN sets
          /\ AtMostOne(sets', {"borrador"}) /\ AtMostOne(sets', {"vigente"}) /\ AtMostOne(sets', OPEN)
          /\ OpensNothing(sets, sets') /\ Steady(sets, sets') /\ Moves(sets, sets')
      BY <1>1, <1>3, <2>1, <2>2, <2>3, OneVersion DEF OPEN
    <2>5. Orderly(sets, approvals, objections)'
      BY <1>1, <1>3, <2>1, <2>2, <2>4 DEF Inv, Orderly, Discard
    <2>6. \A q \in Requests \ {r} : job[q].at = "submitting" => sets'[job[q].id].status = "borrador"
      <3> SUFFICES ASSUME NEW q \in Requests \ {r}, job[q].at = "submitting" PROVE sets'[job[q].id].status = "borrador"
        OBVIOUS
      <3>1. job[q].id \in DOMAIN sets /\ sets[job[q].id].status = "borrador" /\ job[q].id # i
        BY DEF Inv, JobsOK, Ready, Discard, RowFree, RowHeld, RowHolders
      <3> QED BY <3>1, <2>1
    <2>7. \A q \in Requests \ {r} : Counting(job[q]) => sets'[job[q].id].status = "pendiente"
      <3> SUFFICES ASSUME NEW q \in Requests \ {r}, Counting(job[q]) PROVE sets'[job[q].id].status = "pendiente"
        OBVIOUS
      <3>1. job[q].id \in DOMAIN sets /\ sets[job[q].id].status = "pendiente" /\ job[q].id # i
        BY DEF Inv, JobsOK, Ready, Counting, Discard, RowFree, RowHeld, RowHolders
      <3> QED BY <3>1, <2>1
    <2>8. JobsOK'
      BY <2>4, <2>6, <2>7, JobStep, NothingToBeReadyFor, <1>3 DEF Discard, Ends, Goes
    <2>9. Tied(links', sets')
      BY <1>3, <2>4 DEF Discard, Inv, Tied
    <2> QED BY <1>3, <2>4, <2>5, <2>8, <2>9, SteadyIsUnanimous DEF Good, Inv, Discard, Ends, Goes, people
  <1> QED BY <1>2, <1>3
LEMMA SubmitStep == ASSUME Inv, NEW r \in Requests, Submit(r) PROVE Good
  <1> DEFINE i == job[r].id
  <1>1. i \in DOMAIN sets /\ \A q \in Requests \ {r} : ~Holding(job[q])
    BY DEF Inv, JobsOK, Ready, Submit, Called, BusinessFree, Holding
  <1>2. ASSUME sets[i].status = "borrador", UNCHANGED tables, NEW found \in IF Open = {} THEN {0} ELSE Open,
               Goes(r, [at |-> "submitting", id |-> i, found |-> found, partners |-> active])
        PROVE  Good
    <2> DEFINE j == [at |-> "submitting", id |-> i, found |-> found, partners |-> active]
    <2>1. ASSUME NEW v \in DOMAIN sets, sets[v].status \in OPEN PROVE v = found
      <3>1. v \in Open
        BY <2>1 DEF Open, With, OPEN
      <3>2. found \in DOMAIN sets /\ sets[found].status \in OPEN
        BY <1>2, <3>1 DEF Open, With, OPEN
      <3> QED BY <2>1, <3>2 DEF Inv, Orderly, AtMostOne
    <2>2. Ready(j, sets) /\ Holding(j) /\ ~Counting(j)
      BY <1>1, <1>2, <2>1 DEF Ready, Holding, Counting
    <2>3. active' \subseteq Members /\ Tied(links', sets) /\ job' = [job EXCEPT ![r] = j]
      BY <1>2 DEF Inv, Goes, people, tables
    <2> QED BY <1>1, <1>2, <2>2, <2>3, QuietCall DEF tables
  <1>3. CASE Refused(r)
    BY <1>3, QuietCall, NothingToBeReadyFor DEF Refused, Ends, Goes, people, tables, Inv
  <1> QED BY <1>2, <1>3 DEF Submit

\* Links are issued for a version of the table.
LEMMA IssuedLinks ==
    ASSUME Inv, NEW i \in DOMAIN sets, NEW ms, NEW kind, issue(i, ms, kind)
    PROVE  Tied(links', sets)
  <1>1. \A l \in NewLinks(i, ms, kind) : "set" \in DOMAIN l /\ l.set = i
    BY DEF NewLinks
  <1>2. \A l \in links : "set" \in DOMAIN l /\ l.set \in DOMAIN sets
    BY DEF Inv, Tied
  <1>3. ASSUME NEW l \in links
        PROVE  "set" \in DOMAIN [l EXCEPT !.retired = TRUE] /\ [l EXCEPT !.retired = TRUE].set \in DOMAIN sets
    BY <1>2
  <1> QED BY <1>1, <1>2, <1>3 DEF issue, Tied

LEMMA SubmitWriteStep == ASSUME Inv, NEW r \in Requests, SubmitWrite(r) PROVE Good
  <1> DEFINE i == job[r].id
             open == openAfterLock(job[r].found)
             ms == job[r].partners
             queue == {Key(l) : l \in NewLinks(i, ms, "envio")}
  <1>1. /\ i \in DOMAIN sets /\ sets \in Seq(Rows) /\ sets[i].status = "borrador"
        /\ \A v \in DOMAIN sets : sets[v].status \in OPEN => v = job[r].found
    BY DEF Inv, JobsOK, Ready, SubmitWrite, Orderly
  <1>2. CASE Refused(r)
    BY <1>2, QuietCall, NothingToBeReadyFor DEF Refused, Ends, Goes, people, tables, Inv
  <1>3. ASSUME sets' = Replaced(i, open), issue(i, ms, "envio"), Goes(r, Mailing(queue)),
               UNCHANGED <<approvals, objections>>
        PROVE  Good
    <2>1. /\ \A v \in DOMAIN sets : sets[v].status \in OPEN => v = open
          /\ open \in DOMAIN sets => sets[open].status \in OPEN
      <3>1. 0 \notin DOMAIN sets
        BY <1>1
      <3> QED BY <1>1, <3>1 DEF openAfterLock
    <2>2. ASSUME NEW v \in DOMAIN sets
          PROVE  /\ sets'[v] \in Rows /\ sets'[v].terms = sets[v].terms
                 /\ sets'[v].status = IF v = i THEN "pendiente"
                                      ELSE IF v = open THEN "descartada" ELSE sets[v].status
      <3>1. sets[v] \in Rows
        BY <1>1
      <3>2. \A st \in {"pendiente", "descartada"} :
               LET e == [sets[v] EXCEPT !.status = st]
               IN  e \in Rows /\ e.terms = sets[v].terms /\ e.status = st
        BY <3>1 DEF Rows
      <3>3. sets'[v] = CASE v = i    -> [sets[v] EXCEPT !.status = "pendiente"]
                         [] v = open -> [sets[v] EXCEPT !.status = "descartada"]
                         [] OTHER    -> sets[v]
        BY <1>3 DEF Replaced
      <3>4. i = open => FALSE
        BY <1>1, <2>1 DEF OPEN
      <3>5. CASE v = i
        <4>1. sets'[v] = [sets[v] EXCEPT !.status = "pendiente"]
          BY <3>3, <3>4, <3>5
        <4> QED BY <4>1, <3>2, <3>5
      <3>6. CASE v # i /\ v = open
        <4>1. sets'[v] = [sets[v] EXCEPT !.status = "descartada"]
          BY <3>3, <3>6
        <4> QED BY <4>1, <3>2, <3>6
      <3>7. CASE v # i /\ v # open
        <4>1. sets'[v] = sets[v]
          BY <3>3, <3>7
        <4> QED BY <4>1, <3>1, <3>7
      <3> QED BY <3>5, <3>6, <3>7
    <2>3. sets' = [v \in DOMAIN sets |-> sets'[v]]
      BY <1>3 DEF Replaced
    <2>4. sets' \in Seq(Rows) /\ DOMAIN sets' = DOMAIN sets
      <3> HIDE DEF i, open, ms, queue
      <3> QED BY <1>1, <2>2, <2>3, SameVersions
    <2> HIDE DEF open
    <2>5. AtMostOne(sets', {"borrador"}) /\ AtMostOne(sets', {"vigente"}) /\ AtMostOne(sets', OPEN)
      <3> HIDE DEF i
      <3>1. ASSUME NEW v \in DOMAIN sets'
            PROVE  /\ sets'[v].status \in {"borrador", "vigente"} => sets[v].status = sets'[v].status
                   /\ sets'[v].status \in OPEN => v = i
        BY <2>1, <2>2, <2>4 DEF OPEN
      <3> QED BY <2>4, <3>1 DEF Inv, Orderly, AtMostOne
    <2>6. Orderly(sets, approvals, objections)'
      BY <1>1, <1>3, <2>1, <2>2, <2>4, <2>5 DEF Inv, Orderly, OPEN
    <2>7. Steady(sets, sets') /\ Moves(sets, sets')
      BY <1>1, <2>1, <2>2, <2>4 DEF Steady, Moves, Transitions, OPEN
    <2>8. \A q \in Requests \ {r} : job[q].at # "submitting"
      BY DEF SubmitWrite, Inv, JobsOK, Holding
    <2>9. JobsOK'
      <3>1. Ready(Mailing(queue), sets') /\ ~Holding(Mailing(queue)) /\ ~Counting(Mailing(queue))
        BY NothingToBeReadyFor
      <3>2. \A q \in Requests \ {r} : ~Counting(job[q])
        <4> SUFFICES ASSUME NEW q \in Requests \ {r}, Counting(job[q]) PROVE FALSE
          OBVIOUS
        <4>1. job[q].id \in DOMAIN sets /\ sets[job[q].id].status = "pendiente"
          BY DEF Inv, JobsOK, Ready, Counting
        <4>2. job[q].id = job[r].found
          BY <1>1, <4>1 DEF OPEN
        <4> QED BY <4>2 DEF SubmitWrite, RowFree, RowHeld, RowHolders, Counting
      <3> QED BY <1>3, <2>4, <2>8, <3>1, <3>2, JobStep DEF Goes
    <2>10. Tied(links', sets')
      <3> HIDE DEF i, ms
      <3>1. Tied(links', sets)
        BY <1>1, <1>3, IssuedLinks
      <3> QED BY <2>4, <3>1 DEF Tied
    <2> QED BY <1>3, <2>6, <2>7, <2>9, <2>10, SteadyIsUnanimous DEF Good, Inv, Goes, people
  <1> QED BY <1>2, <1>3 DEF SubmitWrite

LEMMA ModifyStep == ASSUME Inv, NEW r \in Requests, modify(r) PROVE Good
  <1> DEFINE i == job[r].id
  <1>1. i \in DOMAIN sets /\ job[r].who \in Members /\ sets \in Seq(Rows)
    BY DEF Inv, JobsOK, Ready, modify, Called, Orderly
  <1>2. CASE sets[i].status \in OPEN /\ With("borrador") = {}
    <2>1. sets[i].terms \in Terms /\ i \in Nat
      <3>1. sets[i] \in Rows /\ i \in 1..Len(sets)
        BY <1>1
      <3> QED BY <3>1 DEF Rows
    <2>2. createDraft(job[r].who, sets[i].terms, i) /\ Ends(r) /\ UNCHANGED <<links, approvals, objections>>
      BY <1>2 DEF modify
    <2>3. BusinessFree(r)
      BY DEF modify
    <2> QED BY <1>1, <1>2, <2>1, <2>2, <2>3, NewDraft
  <1>3. CASE Refused(r)
    BY <1>3, QuietCall, NothingToBeReadyFor DEF Refused, Ends, Goes, people, tables, Inv
  <1> QED BY <1>2, <1>3 DEF modify
-----------------------------------------------------------------------------
(* Answers. *)

\* A version that waited takes force, the one that had it is replaced.
LEMMA Settles ==
    ASSUME Inv, NEW i \in DOMAIN sets, sets[i].status = "pendiente", sets' = InForce(i),
           approvals' \subseteq [set : DOMAIN sets, member : Members, terms : Terms],
           \A a \in approvals' : sets[a.set].status # "borrador" /\ a.terms = sets[a.set].terms,
           NEW r \in Requests, Counting(job[r]), job[r].id = i, AllApproved(r), UNCHANGED objections
    PROVE  /\ Orderly(sets, approvals, objections)' /\ DOMAIN sets' = DOMAIN sets
           /\ \A v \in DOMAIN sets : sets[v].status = "borrador" => sets'[v].status = "borrador"
           /\ OpensNothing(sets, sets') /\ Moves(sets, sets') /\ Unanimous
  <1>1. sets \in Seq(Rows)
    BY DEF Inv, Orderly
  <1>2. ASSUME NEW v \in DOMAIN sets
        PROVE  /\ sets'[v] \in Rows /\ sets'[v].terms = sets[v].terms
               /\ sets'[v].status = IF v = i THEN "vigente"
                                    ELSE IF sets[v].status = "vigente" THEN "reemplazada" ELSE sets[v].status
    <2>1. sets[v] \in Rows
      BY <1>1
    <2>2. \A st \in {"vigente", "reemplazada"} :
             LET e == [sets[v] EXCEPT !.status = st]
             IN  e \in Rows /\ e.terms = sets[v].terms /\ e.status = st
      BY <2>1 DEF Rows
    <2>3. sets'[v] = CASE v = i                         -> [sets[v] EXCEPT !.status = "vigente"]
                       [] v # i /\ v \in With("vigente") -> [sets[v] EXCEPT !.status = "reemplazada"]
                       [] OTHER                         -> sets[v]
      BY DEF InForce
    <2>4. CASE v = i
      <3>1. sets'[v] = [sets[v] EXCEPT !.status = "vigente"]
        BY <2>3, <2>4
      <3> QED BY <2>2, <2>4, <3>1
    <2>5. CASE v # i /\ v \in With("vigente")
      <3>1. sets'[v] = [sets[v] EXCEPT !.status = "reemplazada"]
        BY <2>3, <2>5
      <3>2. sets[v].status = "vigente"
        BY <2>5 DEF With
      <3> QED BY <2>2, <2>5, <3>1, <3>2
    <2>6. CASE v # i /\ v \notin With("vigente")
      <3>1. sets'[v] = sets[v]
        BY <2>3, <2>6
      <3>2. sets[v].status # "vigente"
        BY <2>6 DEF With
      <3> QED BY <2>1, <2>6, <3>1, <3>2
    <2> QED BY <2>4, <2>5, <2>6
  <1>3. sets' = [v \in DOMAIN sets |-> sets'[v]]
    BY DEF InForce
  <1>4. sets' \in Seq(Rows) /\ DOMAIN sets' = DOMAIN sets
    BY <1>1, <1>2, <1>3, SameVersions
  <1>5. AtMostOne(sets', {"borrador"}) /\ AtMostOne(sets', {"vigente"}) /\ AtMostOne(sets', OPEN)
    <2>1. ASSUME NEW v \in DOMAIN sets'
          PROVE  /\ sets'[v].status \in OPEN \cup {"borrador"} => sets[v].status = sets'[v].status
                 /\ sets'[v].status = "vigente" => v = i
      BY <1>2, <1>4 DEF OPEN
    <2> QED BY <1>4, <2>1 DEF Inv, Orderly, AtMostOne, OPEN
  <1>6. Orderly(sets, approvals, objections)'
    <2>1. \A a \in approvals' : sets'[a.set].status # "borrador" /\ a.terms = sets'[a.set].terms
      <3> SUFFICES ASSUME NEW a \in approvals'
                   PROVE  sets'[a.set].status # "borrador" /\ a.terms = sets'[a.set].terms
        OBVIOUS
      <3>1. a.set \in DOMAIN sets
        OBVIOUS
      <3> QED BY <1>2, <3>1
    <2>2. \A b \in objections : b.set \in DOMAIN sets' /\ sets'[b.set].status \notin {"borrador", "pendiente"}
      BY <1>2, <1>4 DEF Inv, Orderly
    <2> QED BY <1>4, <1>5, <2>1, <2>2 DEF Orderly
  <1>7. OpensNothing(sets, sets') /\ Moves(sets, sets')
    BY <1>2, <1>4 DEF OpensNothing, Moves, Transitions, OPEN
  <1>8. Unanimous
    <2>1. \A v \in DOMAIN sets' : sets'[v].status = "vigente" <=> v = i
      BY <1>2, <1>4
    <2>2. \A q \in Requests : job[q].at = "answering" => job[q].id = i
      BY DEF Inv, JobsOK, Counting
    <2>3. \A b \in objections' : b.set # i
      BY DEF Inv, Orderly
    <2>4. job[r].at \in {"answering", "settling"}
      BY DEF Counting
    <2> QED BY <1>4, <2>1, <2>2, <2>3, <2>4 DEF Unanimous
  <1>9. \A v \in DOMAIN sets : sets[v].status = "borrador" => sets'[v].status = "borrador"
    BY <1>2
  <1> QED BY <1>4, <1>6, <1>7, <1>8, <1>9

LEMMA ResendStep == ASSUME Inv, NEW r \in Requests, resend(r) PROVE Good
  <1> DEFINE i == job[r].id
             asked == {m \in (active \cap correo) \ Approvers(approvals, i) : ~Cooling(i, m)}
             queue == {Key(l) : l \in NewLinks(i, asked, "reenvio")}
  <1>1. i \in DOMAIN sets
    BY DEF Inv, JobsOK, Ready, resend, Called
  <1>2. CASE Ends(r) /\ UNCHANGED <<sets, links>>
    BY <1>2, QuietCall, NothingToBeReadyFor DEF resend, Ends, Goes, people, Inv
  <1>3. CASE /\ sets[i].status = "pendiente" /\ Settled(i, approvals)
             /\ Goes(r, [at |-> "settling", id |-> i, partners |-> active])
             /\ UNCHANGED <<sets, links>>
    <2> DEFINE j == [at |-> "settling", id |-> i, partners |-> active]
    <2>1. Ready(j, sets) /\ ~Holding(j)
      BY <1>1, <1>3 DEF Ready, Holding
    <2>2. Tally(j, approvals)
      BY <1>3 DEF Tally, Settled
    <2>3. \A q \in Requests \ {r} : ~Counting(job[q])
      BY <1>1, <1>3, CountsAlone DEF resend, OPEN
    <2>4. Goes(r, j)
      BY <1>3
    <2> HIDE DEF i, j
    <2> QED BY <1>3, <2>1, <2>2, <2>3, <2>4, QuietCall DEF resend, Goes, people, Inv
  <1>4. CASE issue(i, asked, "reenvio") /\ Goes(r, Mailing(queue)) /\ UNCHANGED sets
    <2>1. Tied(links', sets)
      <3> HIDE DEF i, asked
      <3> QED BY <1>1, <1>4, IssuedLinks
    <2>2. Ready(Mailing(queue), sets) /\ ~Holding(Mailing(queue)) /\ ~Counting(Mailing(queue))
      BY NothingToBeReadyFor
    <2> HIDE DEF queue
    <2> QED BY <1>4, <2>1, <2>2, QuietCall DEF resend, Goes, people, Inv
  <1> QED BY <1>2, <1>3, <1>4 DEF resend

\* A link that can be answered is of the waiting proposal.
LEMMA AnswerableLink ==
    ASSUME Inv, NEW l \in links, Answerable(l)
    PROVE  l.set \in DOMAIN sets /\ l.member \in Members /\ sets[l.set].status = "pendiente"
  BY DEF Inv, Tied, Answerable

\* A link that is used stays with its version.
LEMMA UsedLink ==
    ASSUME Inv, NEW k
    PROVE  Tied(Used(k), sets)
  <1>1. ASSUME NEW l \in links
        PROVE  /\ "set" \in DOMAIN l /\ l.set \in DOMAIN sets
               /\ "set" \in DOMAIN [l EXCEPT !.used = TRUE] /\ [l EXCEPT !.used = TRUE].set \in DOMAIN sets
    BY DEF Inv, Tied
  <1> QED BY <1>1 DEF Used, Tied

\* An approval adds its member.
LEMMA OneMoreApproves ==
    ASSUME NEW table, NEW a, NEW i, a.set = i
    PROVE  Approvers(table \cup {a}, i) = Approvers(table, i) \cup {a.member}
  <1>1. {b \in table \cup {a} : b.set = i} = {b \in table : b.set = i} \cup {a}
    OBVIOUS
  <1> QED BY <1>1 DEF Approvers

LEMMA ApproveStep == ASSUME Inv, NEW r \in Requests, NEW l \in links, Approve(r, l) PROVE Good
  <1> DEFINE i == l.set
             table == approvals \cup {Approval(i, l.member)}
             j == [at |-> "answering", id |-> i, link |-> Key(l), settles |-> Settled(i, table),
                   partners |-> active]
  <1>1. i \in DOMAIN sets /\ l.member \in Members /\ sets[i].status = "pendiente" /\ l.member \in active
    BY AnswerableLink DEF Approve, Answerable
  <1>2. /\ j.at = "answering" /\ j.id = i /\ j.link.member = l.member /\ j.partners = active
        /\ j.settles = Settled(i, table)
    BY DEF Key
  <1>3. Goes(r, j) /\ UNCHANGED tables
    BY DEF Approve
  <1>4. Settled(i, table) <=> \A m \in active : m = l.member \/ m \in Approvers(approvals, i)
    <2> DEFINE a == Approval(i, l.member)
    <2>1. a.set = i /\ a.member = l.member
      BY DEF Approval
    <2> HIDE DEF a, i
    <2>2. Approvers(approvals \cup {a}, i) = Approvers(approvals, i) \cup {a.member}
      BY <2>1, OneMoreApproves
    <2>3. Approvers(table, i) = Approvers(approvals, i) \cup {l.member}
      BY <2>1, <2>2 DEF a, i
    <2> HIDE DEF table
    <2> QED BY <1>1, <2>3 DEF Settled
  <1> HIDE DEF i, table, j
  <1>5. Ready(j, sets) /\ ~Holding(j)
    BY <1>1, <1>2 DEF Ready, Holding
  <1>6. Tally(j, approvals)
    BY <1>1, <1>2, <1>4 DEF Tally
  <1>7. \A q \in Requests \ {r} : ~Counting(job[q])
    BY <1>1, CountsAlone DEF Approve, OPEN, i
  <1> QED BY <1>3, <1>5, <1>6, <1>7, QuietCall DEF Goes, people, tables, Inv

\* What was counted was approved.
LEMMA CountedApproved ==
    ASSUME Inv, NEW i \in DOMAIN sets, NEW m \in Approvers(approvals, i)
    PROVE  Approval(i, m) \in approvals
  <1>1. PICK a \in approvals : a.set = i /\ a.member = m
    BY DEF Approvers
  <1>2. a \in [set : DOMAIN sets, member : Members, terms : Terms] /\ a.terms = sets[i].terms
    BY <1>1 DEF Inv, Orderly
  <1>3. a = Approval(i, m)
    BY <1>1, <1>2 DEF Approval
  <1> QED BY <1>3

LEMMA CommitStep == ASSUME Inv, NEW r \in Requests, Commit(r) PROVE Good
  <1> DEFINE i == job[r].id
             new == Approval(i, job[r].link.member)
  <1>1. /\ Counting(job[r]) /\ Tally(job[r], approvals) /\ i \in DOMAIN sets /\ sets[i].status = "pendiente"
        /\ \A q \in Requests \ {r} : ~Counting(job[q])
    BY DEF Inv, JobsOK, Ready, Counting, Commit
  <1>2. sets \in Seq(Rows) /\ sets[i].terms \in Terms
    <2>1. sets[i] \in Rows
      BY <1>1 DEF Inv, Orderly
    <2> QED BY <2>1 DEF Rows, Inv, Orderly
  <1>3. Ends(r) /\ UNCHANGED <<objections, people>>
    BY DEF Commit, Ends, Goes
  <1>4. /\ \/ approvals' = approvals
           \/ job[r].at = "answering" /\ approvals' = approvals \cup {new}
        /\ approvals' \subseteq [set : DOMAIN sets, member : Members, terms : Terms]
        /\ \A a \in approvals' : sets[a.set].status # "borrador" /\ a.terms = sets[a.set].terms
    <2>1. job[r].at = "answering" => job[r].link.member \in Members
      BY DEF Inv, JobsOK, Ready
    <2>2. job[r].at = "answering" => new \in [set : DOMAIN sets, member : Members, terms : Terms]
      BY <1>1, <1>2, <2>1 DEF Approval
    <2> QED BY <1>1, <2>2 DEF Commit, Inv, Orderly, Approval
  <1>5. Tied(links', sets)
    BY UsedLink DEF Commit, Inv
  <1>6. CASE sets' = InForce(i) /\ AllApproved(r)
    <2>1. /\ Orderly(sets, approvals, objections)' /\ DOMAIN sets' = DOMAIN sets
          /\ \A v \in DOMAIN sets : sets[v].status = "borrador" => sets'[v].status = "borrador"
          /\ OpensNothing(sets, sets') /\ Moves(sets, sets') /\ Unanimous
      <3> HIDE DEF new
      <3> QED BY <1>1, <1>3, <1>4, <1>6, Settles
    <2>2. \A q \in Requests : job[q].at = "submitting" => sets'[job[q].id].status = "borrador"
      BY <2>1 DEF Inv, JobsOK, Ready
    <2>3. JobsOK'
      BY <1>1, <1>3, <2>1, <2>2, JobStep, NothingToBeReadyFor DEF Ends, Goes
    <2> QED BY <1>3, <1>5, <2>1, <2>3 DEF Good, Inv, Tied, people
  <1>7. CASE job[r].at = "answering" /\ ~job[r].settles /\ UNCHANGED sets /\ approvals' = approvals \cup {new}
    <2>1. Orderly(sets, approvals, objections)'
      BY <1>3, <1>4, <1>7 DEF Inv, Orderly, AtMostOne
    <2>2. OpensNothing(sets, sets') /\ Moves(sets, sets')
      BY <1>7 DEF OpensNothing, Moves
    <2>3. \A q \in Requests : job[q].at = "submitting" => sets'[job[q].id].status = "borrador"
      BY <1>7 DEF Inv, JobsOK, Ready
    <2>4. JobsOK'
      BY <1>1, <1>3, <1>7, <2>2, <2>3, JobStep, NothingToBeReadyFor DEF Ends, Goes
    <2>5. ~AllApproved(r)
      <3>1. PICK m \in job[r].partners : m # job[r].link.member /\ m \notin Approvers(approvals, i)
        BY <1>1, <1>7 DEF Tally
      <3>2. Approval(i, m).set = i /\ Approval(i, m).member = m /\ new.member = job[r].link.member
        BY DEF Approval
      <3>3. Approval(i, m) \in approvals => m \in Approvers(approvals, i)
        <4> DEFINE a == Approval(i, m)
        <4>1. a.set = i /\ a.member = m
          BY <3>2
        <4> HIDE DEF a
        <4>2. a \in approvals => m \in Approvers(approvals, i)
          BY <4>1 DEF Approvers
        <4> QED BY <4>2 DEF a
      <3>4. Approval(i, m) \notin approvals /\ Approval(i, m) # new
        BY <3>1, <3>2, <3>3
      <3> QED BY <1>7, <3>1, <3>4 DEF AllApproved
    <2>6. \A q \in Requests : job[q].at = "answering" => q = r
      BY <1>1 DEF Counting
    <2>7. Unanimous
      BY <1>7, <2>5, <2>6 DEF Unanimous
    <2> QED BY <1>3, <1>5, <1>7, <2>1, <2>2, <2>4, <2>7 DEF Good, Inv, people
  <1>8. ASSUME job[r].at = "answering" => job[r].settles PROVE AllApproved(r)
    <2> SUFFICES ASSUME NEW m \in job[r].partners PROVE Approval(i, m) \in approvals'
      BY DEF AllApproved
    <2>1. m \in Approvers(approvals, i) \/ (job[r].at = "answering" /\ m = job[r].link.member)
      BY <1>1, <1>8 DEF Tally, Counting
    <2>2. m \in Approvers(approvals, i) => Approval(i, m) \in approvals
      BY <1>1, CountedApproved
    <2>3. approvals \subseteq approvals'
      BY <1>4
    <2>4. job[r].at = "answering" => new \in approvals'
      BY DEF Commit
    <2> QED BY <2>1, <2>2, <2>3, <2>4
  <1> QED BY <1>6, <1>7, <1>8 DEF Commit

LEMMA ObjectStep == ASSUME Inv, NEW l \in links, Object(l) PROVE Good
  <1> DEFINE i == l.set
             e == [sets[i] EXCEPT !.status = "en_revision"]
  <1>1. Tied(links', sets) /\ i \in DOMAIN sets /\ sets[i].status = "pendiente" /\ sets \in Seq(Rows)
    BY AnswerableLink, UsedLink DEF Object, Inv, Orderly
  <1>2. sets[i] \in Rows
    BY <1>1
  <1>3. e \in Rows /\ e.status = "en_revision" /\ e.terms = sets[i].terms /\ sets' = [sets EXCEPT ![i] = e]
    BY <1>1, <1>2 DEF Rows, Object
  <1> HIDE DEF e
  <1>4. /\ sets' \in Seq(Rows) /\ DOMAIN sets' = DOMAIN sets
        /\ AtMostOne(sets', {"borrador"}) /\ AtMostOne(sets', {"vigente"}) /\ AtMostOne(sets', OPEN)
        /\ OpensNothing(sets, sets') /\ Steady(sets, sets') /\ Moves(sets, sets')
    <2>1. <<sets[i].status, "en_revision">> \in Transitions
      BY <1>1 DEF Transitions
    <2> QED BY <1>1, <1>3, <2>1, OneVersion DEF OPEN
  <1>5. Orderly(sets, approvals, objections)'
    BY <1>1, <1>3, <1>4 DEF Inv, Orderly, Object
  <1>6. \A q \in Requests : job[q].at = "submitting" => sets'[job[q].id].status = "borrador"
    <2> SUFFICES ASSUME NEW q \in Requests, job[q].at = "submitting" PROVE sets'[job[q].id].status = "borrador"
      OBVIOUS
    <2>1. job[q].id \in DOMAIN sets /\ sets[job[q].id].status = "borrador" /\ job[q].id # i
      BY <1>1 DEF Inv, JobsOK, Ready
    <2> QED BY <1>3, <2>1
  <1>7. \A q \in Requests : ~Counting(job[q])
    <2> SUFFICES ASSUME NEW q \in Requests, Counting(job[q]) PROVE FALSE
      OBVIOUS
    <2>1. job[q].id \in DOMAIN sets /\ sets[job[q].id].status = "pendiente"
      BY DEF Inv, JobsOK, Ready, Counting
    <2>2. job[q].id = i
      BY <1>1, <2>1 DEF Inv, Orderly, AtMostOne, OPEN
    <2> QED BY <2>2 DEF Object, RowHeld, RowHolders, Counting
  <1>8. JobsOK'
    BY <1>4, <1>6, <1>7, AnswerJobs DEF Object
  <1> QED BY <1>1, <1>4, <1>5, <1>8, SteadyIsUnanimous DEF Good, Inv, Tied, Object, people
-----------------------------------------------------------------------------
(* Mail, new calls and what happens around them. *)

\* However an e-mail ends, its link stays with its version.
LEMMA MailedLinks ==
    ASSUME Inv, NEW k
    PROVE  Tied({IF Key(l) = k THEN [l EXCEPT !.mailed = TRUE, !.sent = TRUE] ELSE l : l \in links}, sets)
  <1>1. ASSUME NEW l \in links
        PROVE  /\ "set" \in DOMAIN l /\ l.set \in DOMAIN sets
               /\ LET n == [l EXCEPT !.mailed = TRUE, !.sent = TRUE]
                  IN  "set" \in DOMAIN n /\ n.set \in DOMAIN sets
    BY DEF Inv, Tied
  <1> QED BY <1>1 DEF Tied

LEMMA DeliverStep == ASSUME Inv, NEW r \in Requests, Deliver(r) PROVE Good
  <1>1. PICK k \in job[r].queue :
           /\ links' = {IF Key(l) = k THEN [l EXCEPT !.mailed = TRUE, !.sent = TRUE] ELSE l : l \in links}
           /\ Goes(r, Mailing(job[r].queue \ {k}))
    BY DEF Deliver
  <1> DEFINE rest == job[r].queue \ {k}
  <1>2. Tied(links', sets)
    BY <1>1, MailedLinks
  <1>3. Ready(Mailing(rest), sets) /\ ~Holding(Mailing(rest)) /\ ~Counting(Mailing(rest)) /\ Goes(r, Mailing(rest))
    BY <1>1, NothingToBeReadyFor
  <1> HIDE DEF rest
  <1> QED BY <1>2, <1>3, QuietCall DEF Deliver, Goes, people, Inv

LEMMA DeliverFailsStep == ASSUME Inv, NEW r \in Requests, DeliverFails(r) PROVE Good
  <1>1. PICK k \in job[r].queue, left \in BOOLEAN, retired \in BOOLEAN :
           /\ links' = {IF Key(l) = k THEN [l EXCEPT !.mailed = left, !.retired = @ \/ retired] ELSE l : l \in links}
           /\ job' = [job EXCEPT ![r] = Mailing(job[r].queue \ {k})]
    BY DEF DeliverFails
  <1> DEFINE rest == job[r].queue \ {k}
  <1>2. Tied(links', sets)
    <2>1. ASSUME NEW n \in links'
          PROVE  \E l \in links : n = l \/ n = [l EXCEPT !.mailed = left, !.retired = @ \/ retired]
      BY <1>1
    <2>2. ASSUME NEW l \in links, NEW now
          PROVE  LET n == [l EXCEPT !.mailed = left, !.retired = now]
                 IN  "set" \in DOMAIN n /\ n.set \in DOMAIN sets
      BY DEF Inv, Tied
    <2> QED BY <2>1, <2>2 DEF Inv, Tied
  <1>3. Ready(Mailing(rest), sets) /\ ~Holding(Mailing(rest)) /\ ~Counting(Mailing(rest)) /\ job' = [job EXCEPT ![r] = Mailing(rest)]
    BY <1>1, NothingToBeReadyFor
  <1> HIDE DEF rest
  <1> QED BY <1>2, <1>3, QuietCall DEF DeliverFails, people, Inv

LEMMA CallStep == ASSUME Inv, NEW r \in Requests, Call(r) PROVE Good
  <1>1. PICK j : /\ job' = [job EXCEPT ![r] = j] /\ j.at = "called"
                 /\ j.op \in {"save", "submit", "modify"} => j.who \in Members
                 /\ j.op = "save" => j.terms \in Terms
                 /\ j.op # "save" => j.id \in DOMAIN sets
    <2>1. PICK m \in active :
             \/ \E t \in Terms :
                   job' = [job EXCEPT ![r] = [at |-> "called", op |-> "save", who |-> m, terms |-> t]]
             \/ \E i \in DOMAIN sets, op \in {"discard", "resend"} :
                   job' = [job EXCEPT ![r] = [at |-> "called", op |-> op, id |-> i]]
             \/ \E i \in DOMAIN sets, op \in {"submit", "modify"} :
                   job' = [job EXCEPT ![r] = [at |-> "called", op |-> op, who |-> m, id |-> i]]
      BY DEF Call
    <2> DEFINE Fits(j) ==
                 /\ job' = [job EXCEPT ![r] = j] /\ j.at = "called"
                 /\ j.op \in {"save", "submit", "modify"} => j.who \in Members
                 /\ j.op = "save" => j.terms \in Terms
                 /\ j.op # "save" => j.id \in DOMAIN sets
    <2>2. m \in Members
      BY DEF Inv
    <2>3. ASSUME NEW t \in Terms,
                 job' = [job EXCEPT ![r] = [at |-> "called", op |-> "save", who |-> m, terms |-> t]]
          PROVE  \E j : Fits(j)
      <3>1. Fits([at |-> "called", op |-> "save", who |-> m, terms |-> t])
        BY <2>2, <2>3
      <3> QED BY <3>1
    <2>4. ASSUME NEW i \in DOMAIN sets, NEW op \in {"discard", "resend"},
                 job' = [job EXCEPT ![r] = [at |-> "called", op |-> op, id |-> i]]
          PROVE  \E j : Fits(j)
      <3>1. Fits([at |-> "called", op |-> op, id |-> i])
        BY <2>4
      <3> QED BY <3>1
    <2>5. ASSUME NEW i \in DOMAIN sets, NEW op \in {"submit", "modify"},
                 job' = [job EXCEPT ![r] = [at |-> "called", op |-> op, who |-> m, id |-> i]]
          PROVE  \E j : Fits(j)
      <3>1. Fits([at |-> "called", op |-> op, who |-> m, id |-> i])
        BY <2>2, <2>5
      <3> QED BY <3>1
    <2> QED BY <2>1, <2>3, <2>4, <2>5
  <1>2. Ready(j, sets) /\ ~Holding(j) /\ ~Counting(j)
    BY <1>1 DEF Ready, Holding, Counting
  <1> QED BY <1>1, <1>2, QuietCall DEF Call, tables, people, Inv

LEMMA PeopleStep ==
    ASSUME Inv, UNCHANGED <<sets, approvals, objections, job>>, active' \subseteq Members, Tied(links', sets)
    PROVE  Good
  <1>1. JobsOK'
    BY DEF Inv, JobsOK
  <1> QED BY <1>1, QuietTable

LEMMA EventStep == ASSUME Inv, Event PROVE Good
  <1>1. ASSUME NEW m \in Members, Come(m) \/ Go(m) \/ Confirm(m) PROVE Good
    BY <1>1, PeopleStep DEF Come, Go, Confirm, tables, Inv
  <1>2. ASSUME NEW age \in {1, 2}, Pass(age) PROVE Good
    <2>1. ASSUME NEW l \in links
          PROVE  LET n == [l EXCEPT !.age = IF @ < age THEN age ELSE @]
                 IN  "set" \in DOMAIN n /\ n.set \in DOMAIN sets
      BY DEF Inv, Tied
    <2>2. Tied(links', sets)
      BY <1>2, <2>1 DEF Tied, Pass
    <2> QED BY <1>2, <2>2, PeopleStep DEF Pass, people, Inv
  <1>3. ASSUME NEW r \in Requests, Crash(r) PROVE Good
    BY <1>3, QuietCall, NothingToBeReadyFor DEF Crash, tables, people, Inv
  <1>4. ASSUME NEW r \in Requests, DeliverFails(r) PROVE Good
    BY <1>4, DeliverFailsStep
  <1>5. active \subseteq Members
    BY DEF Inv
  <1> QED BY <1>1, <1>2, <1>3, <1>4, <1>5 DEF Event

LEMMA EveryStep == ASSUME Inv, Next PROVE Good
  <1>1. ASSUME NEW r \in Requests, Work(r) PROVE Good
    BY <1>1, SaveStep, SaveWriteStep, DiscardStep, SubmitStep, SubmitWriteStep,
       ModifyStep, ResendStep, CommitStep, DeliverStep DEF Work
  <1>2. CASE Finished
    BY <1>2, PeopleStep DEF Finished, vars, tables, people, Inv
  <1>3. ASSUME NEW l \in links, Object(l) \/ \E r \in Requests : Approve(r, l) PROVE Good
    BY <1>3, ApproveStep, ObjectStep
  <1> QED BY <1>1, <1>2, <1>3, CallStep, EventStep DEF Next

LEMMA AtFirst == ASSUME Init PROVE Inv
  <1>1. PICK o \in Openings : sets = o.sets /\ links = o.links /\ approvals = o.approvals /\ active = o.active
    BY DEF Init
  <1>2. Orderly(sets, approvals, objections) /\ active \subseteq Members
    BY <1>1, OpeningsAreOrderly DEF Init
  <1>3. Tied(links, sets)
    <2>1. ASSUME NEW l \in links PROVE "set" \in DOMAIN l /\ l.set \in DOMAIN sets
      <3>1. l \in Links /\ l.set \in DOMAIN sets
        BY <1>1, OpeningsAreOrderly
      <3> QED BY <3>1 DEF Links
    <2> QED BY <2>1 DEF Tied
  <1>4. \A r \in Requests : job[r] = Idle
    BY DEF Init
  <1>5. JobsOK
    BY <1>4, NothingToBeReadyFor DEF JobsOK, Init
  <1> QED BY <1>2, <1>3, <1>5 DEF Inv

(* The tables stay orderly and every call stays prepared for what it still *)
(* has to write: the inductive invariant behind the theorems below.        *)
THEOREM StaysOrderly == Spec => []Inv
  <1>1. Init => Inv
    BY AtFirst
  <1>2. Inv /\ [Next]_vars => Inv'
    <2>1. Inv /\ Next => Inv'
      BY EveryStep DEF Good
    <2>2. Inv /\ UNCHANGED vars => Inv'
      BY PeopleStep DEF vars, tables, people, Good, Inv
    <2> QED BY <2>1, <2>2
  <1> QED BY <1>1, <1>2, PTL DEF Spec

(* No call and no answer runs into the trigger or the unique indexes of    *)
(* "FinanceRuleSet", but for the save of a draft that was discarded under  *)
(* it, which the trigger refuses and which writes nothing.                 *)
THEOREM GuardsNeverHit == Spec => GuardsAreNeverHit
  <1>1. ASSUME Inv, [Next]_vars PROVE [GuardsAllow(sets, sets')]_sets
    <2>1. CASE Next
      <3>1. Inv' /\ Moves(sets, sets')
        BY <2>1, EveryStep, <1>1 DEF Good
      <3>2. \A S \in {OPEN, {"vigente"}, {"borrador"}} : AtMostOne(sets', S)
        BY <3>1 DEF Inv, Orderly
      <3>3. \A S \in {OPEN, {"vigente"}, {"borrador"}} :
               Cardinality({i \in DOMAIN sets' : sets'[i].status \in S}) <= 1
        BY <3>2, AtMostOneCounted
      <3> QED BY <3>1, <3>3 DEF GuardsAllow, Moves
    <2>2. CASE UNCHANGED vars
      BY <2>2 DEF vars, tables
    <2> QED BY <1>1, <2>1, <2>2
  <1> QED BY <1>1, StaysOrderly, PTL DEF Spec, GuardsAreNeverHit

(* Rules take force only approved, in those very terms and without         *)
(* objections, by every socio who was active when the approvals were       *)
(* counted, and do so with the approval that completes them; they leave it *)
(* only for others (finance_rule_set_settle).                              *)
THEOREM InForceIsUnanimous == Spec => BroughtInUnanimously
  <1>1. ASSUME Inv, [Next]_vars PROVE [Unanimous]_vars
    BY <1>1, EveryStep DEF Good
  <1> QED BY <1>1, StaysOrderly, PTL DEF Spec, BroughtInUnanimously

-----------------------------------------------------------------------------
(* Types. *)

\* Every version is within the bound, counting those that calls under way may add.
RoomOK == Len(sets) + Cardinality(Creators) <= MaxVersions

TypeInd ==
    /\ links \subseteq Links /\ IsFiniteSet(links)
    /\ objections \subseteq [set : Versions, member : Members]
    /\ correo \subseteq Members
    /\ job \in [Requests -> Jobs]
    /\ calls \in 0..MaxCalls /\ events \in 0..MaxEvents
    /\ RoomOK

\* A call that may still add a version.
MayAdd(j) == j.at = "called" /\ j.op \in {"save", "modify"}

LEMMA CreatorsAreFinite ==
    IsFiniteSet(Creators) /\ Cardinality(Creators) \in Nat
  <1>1. Creators \in SUBSET Requests
    BY DEF Creators
  <1> QED BY <1>1, BusinessIsFinite, FS_Subset, FS_CardinalityType

LEMMA RoomInNumbers ==
    ASSUME NEW n \in Nat, NEW k \in Nat, NEW c \in Nat
    PROVE  /\ n + k <= MaxVersions /\ c <= k => n + c <= MaxVersions
           /\ n + k < MaxVersions /\ c <= k + 1 => n + c <= MaxVersions
  <1>1. MaxVersions \in Nat
    BY NumbersAreNat
  <1> QED BY <1>1

\* While the table keeps its versions, only a new call needs room.
LEMMA RoomStays ==
    ASSUME Inv, Inv', TypeInd, NEW r \in Requests, NEW j \in Jobs, job' = [job EXCEPT ![r] = j],
           DOMAIN sets' = DOMAIN sets, MayAdd(j) => Len(sets) + Cardinality(Creators) < MaxVersions
    PROVE  job' \in [Requests -> Jobs] /\ RoomOK'
  <1>1. job' \in [Requests -> Jobs] /\ \A q \in Requests : job'[q] = IF q = r THEN j ELSE job[q]
    BY DEF TypeInd
  <1>2. Len(sets') = Len(sets) /\ Len(sets) \in Nat
    <2>1. sets \in Seq(Rows) /\ sets' \in Seq(Rows)
      BY DEF Inv, Orderly
    <2> QED BY <2>1
  <1>3. /\ Creators' \subseteq Creators \cup {r}
        /\ ~MayAdd(j) => Creators' \subseteq Creators
    BY <1>1 DEF Creators, MayAdd
  <1>4. /\ IsFiniteSet(Creators) /\ Cardinality(Creators) \in Nat /\ Cardinality(Creators)' \in Nat
        /\ IsFiniteSet(Creators \cup {r}) /\ Cardinality(Creators \cup {r}) <= Cardinality(Creators) + 1
    <2>1. IsFiniteSet(Creators) /\ Cardinality(Creators) \in Nat
      BY CreatorsAreFinite
    <2>2. IsFiniteSet(Creators') /\ Cardinality(Creators') \in Nat
      <3>1. Creators' \in SUBSET Requests
        BY DEF Creators
      <3> QED BY <3>1, BusinessIsFinite, FS_Subset, FS_CardinalityType
    <2>3. /\ IsFiniteSet(Creators \cup {r})
          /\ Cardinality(Creators \cup {r}) = IF r \in Creators THEN Cardinality(Creators) ELSE Cardinality(Creators) + 1
      BY <2>1, FS_AddElement
    <2> QED BY <2>1, <2>2, <2>3
  <1>5. CASE MayAdd(j)
    <2>1. Cardinality(Creators') <= Cardinality(Creators \cup {r})
      BY <1>3, <1>4, FS_Subset
    <2>2. Cardinality(Creators \cup {r}) \in Nat
      BY <1>4, FS_CardinalityType
    <2>3. Len(sets') + Cardinality(Creators') <= MaxVersions
      <3>1. Cardinality(Creators') <= Cardinality(Creators) + 1
        BY <1>4, <2>1, <2>2
      <3> QED BY <1>2, <1>4, RoomInNumbers, <1>5, <3>1
    <2> QED BY <1>1, <2>3 DEF RoomOK
  <1>6. CASE ~MayAdd(j)
    <2>1. Cardinality(Creators') <= Cardinality(Creators)
      BY <1>3, <1>4, <1>6, FS_Subset
    <2>2. Len(sets) + Cardinality(Creators) <= MaxVersions
      BY DEF TypeInd, RoomOK
    <2>3. Len(sets') + Cardinality(Creators') <= MaxVersions
      BY <1>2, <1>4, RoomInNumbers, <2>1, <2>2
    <2> QED BY <1>1, <2>3 DEF RoomOK
  <1> QED BY <1>5, <1>6

\* A draft takes the place that was kept for it.
LEMMA RoomIsUsed ==
    ASSUME Inv, TypeInd, NEW r \in Requests, MayAdd(job[r]), job' = [job EXCEPT ![r] = Idle],
           NEW m, NEW terms, NEW base, createDraft(m, terms, base)
    PROVE  job' \in [Requests -> Jobs] /\ RoomOK'
  <1>1. Idle \in Jobs /\ Idle.at = "idle"
    BY DEF Jobs, Idle
  <1>2. job' \in [Requests -> Jobs] /\ \A q \in Requests : job'[q] = IF q = r THEN Idle ELSE job[q]
    BY <1>1 DEF TypeInd
  <1>3. Len(sets') = Len(sets) + 1 /\ Len(sets) \in Nat
    <2>1. sets \in Seq(Rows)
      BY DEF Inv, Orderly
    <2> QED BY <2>1 DEF createDraft
  <1>4. Creators' = Creators \ {r} /\ r \in Creators
    BY <1>1, <1>2 DEF Creators, MayAdd
  <1>5. Cardinality(Creators') = Cardinality(Creators) - 1 /\ Cardinality(Creators) \in Nat
    BY <1>4, CreatorsAreFinite, FS_RemoveElement
  <1> QED BY <1>2, <1>3, <1>5, NumbersAreNat DEF RoomOK, TypeInd

\* What replaces the members of a finite set is finite.
LEMMA FiniteImage ==
    ASSUME NEW f, IsFiniteSet(DOMAIN f)
    PROVE  IsFiniteSet({f[x] : x \in DOMAIN f})
  <1> DEFINE T == {f[x] : x \in DOMAIN f}
             g == [x \in DOMAIN f |-> f[x]]
  <1>1. g \in Surjection(DOMAIN f, T)
    BY DEF Surjection
  <1> HIDE DEF T, g
  <1>2. IsFiniteSet(T)
    BY <1>1, FS_Surjection
  <1> QED BY <1>2 DEF T

\* Links that change keep their type.
LEMMA ChangedLinks ==
    ASSUME TypeInd, NEW f, DOMAIN f = links, \A l \in links : f[l] \in Links
    PROVE  {f[l] : l \in links} \subseteq Links /\ IsFiniteSet({f[l] : l \in links})
  <1>1. IsFiniteSet({f[l] : l \in DOMAIN f})
    BY FiniteImage DEF TypeInd
  <1> QED BY <1>1

LEMMA LinkFields ==
    ASSUME NEW l \in Links
    PROVE  /\ [l EXCEPT !.retired = TRUE] \in Links
           /\ [l EXCEPT !.used = TRUE] \in Links
           /\ [l EXCEPT !.mailed = TRUE, !.sent = TRUE] \in Links
           /\ \A left, now \in BOOLEAN : [l EXCEPT !.mailed = left, !.retired = now] \in Links
           /\ \A age \in 0..2 : [l EXCEPT !.age = age] \in Links
           /\ l.retired \in BOOLEAN /\ l.age \in 0..2
           /\ Key(l) \in Keys
  BY DEF Links, Key, Keys

\* So do those that are issued.
LEMMA IssuedTypes ==
    ASSUME TypeInd, NEW i \in Versions, NEW ms \in SUBSET Members, NEW kind \in {"envio", "reenvio"}
    PROVE  /\ NewLinks(i, ms, kind) \subseteq Links /\ IsFiniteSet(NewLinks(i, ms, kind))
           /\ issue(i, ms, kind) => links' \subseteq Links /\ IsFiniteSet(links')
           /\ Mailing({Key(l) : l \in NewLinks(i, ms, kind)}) \in Jobs
  <1> DEFINE new(m) == [set |-> i, member |-> m, nth |-> Cardinality(Past(i, m)) + 1, kind |-> kind,
                        used |-> FALSE, retired |-> FALSE, mailed |-> FALSE, sent |-> FALSE, age |-> 0]
             f == [m \in ms |-> new(m)]
             g == [l \in links |-> IF l.set = i /\ l.member \in ms /\ Live(l) THEN [l EXCEPT !.retired = TRUE] ELSE l]
  <1>1. \A m \in ms : Cardinality(Past(i, m)) \in Nat
    <2> SUFFICES ASSUME NEW m \in ms PROVE Cardinality(Past(i, m)) \in Nat
      OBVIOUS
    <2>1. Past(i, m) \in SUBSET links /\ IsFiniteSet(links)
      BY DEF Past, TypeInd
    <2> QED BY <2>1, FS_Subset, FS_CardinalityType
  <1>2. \A m \in ms : new(m) \in Links
    BY <1>1 DEF Links
  <1>3. NewLinks(i, ms, kind) = {f[m] : m \in DOMAIN f}
    BY DEF NewLinks
  <1>4. IsFiniteSet(NewLinks(i, ms, kind))
    <2>1. DOMAIN f = ms /\ IsFiniteSet(ms)
      BY BusinessIsFinite, FS_Subset
    <2> HIDE DEF f
    <2>2. IsFiniteSet({f[m] : m \in DOMAIN f})
      BY <2>1, FiniteImage
    <2> QED BY <1>3, <2>2
  <1>5. NewLinks(i, ms, kind) \subseteq Links
    BY <1>2, <1>3
  <1>6. ASSUME issue(i, ms, kind) PROVE links' \subseteq Links /\ IsFiniteSet(links')
    <2>1. links' = {g[l] : l \in links} \cup NewLinks(i, ms, kind)
      BY <1>6 DEF issue
    <2>2. DOMAIN g = links /\ \A l \in links : g[l] \in Links
      BY LinkFields DEF TypeInd
    <2> HIDE DEF g
    <2>3. {g[l] : l \in links} \subseteq Links /\ IsFiniteSet({g[l] : l \in links})
      BY <2>2, ChangedLinks
    <2> QED BY <1>4, <1>5, <2>1, <2>3, FS_Union
  <1>7. Mailing({Key(l) : l \in NewLinks(i, ms, kind)}) \in Jobs
    <2>1. {Key(l) : l \in NewLinks(i, ms, kind)} \subseteq Keys
      BY <1>5, LinkFields
    <2> QED BY <2>1 DEF Mailing, Jobs
  <1> QED BY <1>4, <1>5, <1>6, <1>7

\* The kinds of jobs there are.
LEMMA JobTypes ==
    ASSUME NEW j \in Jobs
    PROVE  /\ j.at = "mailing" => j.queue \subseteq Keys
           /\ j.at = "submitting" => j.partners \subseteq Members /\ j.id \in Versions
           /\ j.at = "answering" => j.link \in Keys
           /\ j.at = "called" /\ j.op \in {"save", "submit", "modify"} => j.who \in Members
           /\ j.at = "called" /\ j.op = "save" => j.terms \in Terms
           /\ j.at = "called" /\ j.op # "save" => j.id \in Versions
  BY DEF Jobs, Idle

LEMMA SmallJobs ==
    /\ Idle \in Jobs /\ ~MayAdd(Idle)
    /\ \A queue \in SUBSET Keys : Mailing(queue) \in Jobs
    /\ \A queue : ~MayAdd(Mailing(queue))
  BY DEF Jobs, Idle, Mailing, MayAdd

\* Versions are the numbers of the table's rows.
LEMMA NumbersOfRows ==
    ASSUME Inv, TypeInd
    PROVE  DOMAIN sets \subseteq Versions /\ Len(sets) <= MaxVersions
  <1>1. sets \in Seq(Rows) /\ MaxVersions \in Nat
    BY NumbersAreNat DEF Inv, Orderly
  <1>2. Len(sets) <= MaxVersions
    <2>1. Cardinality(Creators) \in Nat /\ Len(sets) + Cardinality(Creators) <= MaxVersions /\ Len(sets) \in Nat
      BY <1>1, CreatorsAreFinite DEF TypeInd, RoomOK
    <2> QED BY <1>1, <2>1
  <1> QED BY <1>1, <1>2 DEF Versions

\* A call that goes on, or ends, without adding a version.
LEMMA GoesOn ==
    ASSUME Inv, Inv', TypeInd, NEW r \in Requests, NEW j \in Jobs, job' = [job EXCEPT ![r] = j], ~MayAdd(j),
           DOMAIN sets' = DOMAIN sets, links' \subseteq Links, IsFiniteSet(links'),
           UNCHANGED <<objections, correo, calls>>, events' \in 0..MaxEvents
    PROVE  TypeInd'
  <1>1. job' \in [Requests -> Jobs] /\ RoomOK'
    BY RoomStays
  <1> QED BY <1>1 DEF TypeInd

\* The same where the links stay as they are.
LEMMA JustGoesOn ==
    ASSUME Inv, Inv', TypeInd, NEW r \in Requests, NEW j \in Jobs, Goes(r, j), ~MayAdd(j),
           DOMAIN sets' = DOMAIN sets, UNCHANGED <<links, objections>>
    PROVE  TypeInd'
  <1>1. links' \subseteq Links /\ IsFiniteSet(links') /\ UNCHANGED <<objections, correo, calls, events>>
    BY DEF TypeInd, Goes, people
  <1>2. events' \in 0..MaxEvents /\ job' = [job EXCEPT ![r] = j]
    BY <1>1 DEF TypeInd, Goes
  <1> QED BY <1>1, <1>2, GoesOn

\* A call that adds its version.
LEMMA Adds ==
    ASSUME Inv, TypeInd, NEW r \in Requests, MayAdd(job[r]), Ends(r),
           NEW m, NEW terms, NEW base, createDraft(m, terms, base), UNCHANGED <<links, objections>>
    PROVE  TypeInd'
  <1>1. job' \in [Requests -> Jobs] /\ RoomOK'
    BY RoomIsUsed DEF Ends, Goes
  <1> QED BY <1>1 DEF TypeInd, Ends, Goes, people

LEMMA SaveTypes ==
    ASSUME Inv, Inv', TypeInd, NEW r \in Requests, Save(r) \/ SaveWrite(r) PROVE TypeInd'
  <1>1. CASE Save(r) /\ createDraft(job[r].who, job[r].terms, 0) /\ Ends(r)
    BY <1>1, Adds DEF Save, Called, MayAdd
  <1>2. ASSUME Save(r), UNCHANGED sets, NEW i \in With("borrador"),
               Goes(r, [at |-> "saving", id |-> i, terms |-> job[r].terms])
        PROVE  TypeInd'
    <2> DEFINE j == [at |-> "saving", id |-> i, terms |-> job[r].terms]
    <2>1. i \in Versions /\ job[r].terms \in Terms
      <3>1. job[r] \in Jobs /\ job[r].at = "called" /\ job[r].op = "save"
        BY <1>2 DEF TypeInd, Save, Called
      <3> QED BY <3>1, JobTypes, NumbersOfRows DEF With
    <2>2. j \in Jobs /\ ~MayAdd(j)
      BY <2>1 DEF Jobs, MayAdd
    <2> HIDE DEF j
    <2>3. Goes(r, j) /\ DOMAIN sets' = DOMAIN sets /\ UNCHANGED <<links, objections>>
      BY <1>2 DEF j, Save
    <2> QED BY <2>2, <2>3, JustGoesOn
  <1>3. CASE Save(r) /\ UNCHANGED sets /\ Ends(r)
    BY <1>3, JustGoesOn, SmallJobs DEF Save, Ends
  <1>4. CASE SaveWrite(r)
    <2>1. DOMAIN sets' = DOMAIN sets /\ Ends(r) /\ UNCHANGED <<links, objections>>
      BY <1>4 DEF SaveWrite
    <2> QED BY <2>1, JustGoesOn, SmallJobs DEF Ends
  <1> QED BY <1>1, <1>2, <1>3, <1>4 DEF Save

LEMMA DiscardTypes ==
    ASSUME Inv, Inv', TypeInd, NEW r \in Requests, Discard(r) PROVE TypeInd'
  <1> DEFINE i == job[r].id
             g == [l \in links |-> IF l.set = i /\ Live(l) THEN [l EXCEPT !.retired = TRUE] ELSE l]
  <1>1. CASE Refused(r)
    BY <1>1, JustGoesOn, SmallJobs DEF Refused, Ends, tables
  <1>2. CASE /\ sets' = [sets EXCEPT ![i].status = "descartada"]
             /\ links' = {IF l.set = i /\ Live(l) THEN [l EXCEPT !.retired = TRUE] ELSE l : l \in links}
             /\ Ends(r) /\ UNCHANGED objections
    <2>1. links' = {g[l] : l \in links} /\ DOMAIN g = links /\ \A l \in links : g[l] \in Links
      BY <1>2, LinkFields DEF TypeInd
    <2> HIDE DEF g
    <2>2. links' \subseteq Links /\ IsFiniteSet(links')
      BY <2>1, ChangedLinks
    <2>3. /\ DOMAIN sets' = DOMAIN sets /\ job' = [job EXCEPT ![r] = Idle]
          /\ UNCHANGED <<objections, correo, calls>> /\ events' \in 0..MaxEvents
      BY <1>2 DEF Ends, Goes, people, TypeInd
    <2> QED BY <2>2, <2>3, GoesOn, SmallJobs
  <1> QED BY <1>1, <1>2 DEF Discard

LEMMA SubmitTypes ==
    ASSUME Inv, Inv', TypeInd, NEW r \in Requests, Submit(r) \/ SubmitWrite(r) \/ modify(r) PROVE TypeInd'
  <1> DEFINE i == job[r].id
  <1>1. job[r] \in Jobs
    BY DEF TypeInd
  <1>2. CASE Refused(r)
    BY <1>2, JustGoesOn, SmallJobs DEF Refused, Ends, tables
  <1>3. ASSUME Submit(r), UNCHANGED tables, NEW found \in IF Open = {} THEN {0} ELSE Open,
               Goes(r, [at |-> "submitting", id |-> i, found |-> found, partners |-> active])
        PROVE  TypeInd'
    <2> DEFINE j == [at |-> "submitting", id |-> i, found |-> found, partners |-> active]
    <2>1. i \in Versions
      BY <1>1, <1>3, JobTypes DEF Submit, Called
    <2>2. found \in Versions \cup {0} /\ active \subseteq Members
      BY NumbersOfRows DEF Open, With, Inv
    <2>3. j \in Jobs /\ ~MayAdd(j)
      BY <2>1, <2>2 DEF Jobs, MayAdd
    <2> HIDE DEF j
    <2>4. Goes(r, j) /\ DOMAIN sets' = DOMAIN sets /\ UNCHANGED <<links, objections>>
      BY <1>3 DEF j, tables
    <2> QED BY <2>3, <2>4, JustGoesOn
  <1>4. ASSUME SubmitWrite(r), sets' = Replaced(i, openAfterLock(job[r].found)), issue(i, job[r].partners, "envio"),
               Goes(r, Mailing({Key(l) : l \in NewLinks(i, job[r].partners, "envio")})), UNCHANGED objections
        PROVE  TypeInd'
    <2> DEFINE queue == {Key(l) : l \in NewLinks(i, job[r].partners, "envio")}
    <2>1. i \in Versions /\ job[r].partners \in SUBSET Members
      BY <1>1, <1>4, JobTypes DEF SubmitWrite
    <2>2. links' \subseteq Links /\ IsFiniteSet(links') /\ Mailing(queue) \in Jobs
      BY <1>4, <2>1, IssuedTypes
    <2>3. /\ DOMAIN sets' = DOMAIN sets /\ job' = [job EXCEPT ![r] = Mailing(queue)]
          /\ UNCHANGED <<objections, correo, calls>> /\ events' \in 0..MaxEvents
      BY <1>4 DEF Goes, people, TypeInd, Replaced
    <2>4. ~MayAdd(Mailing(queue))
      BY SmallJobs
    <2> HIDE DEF queue
    <2> QED BY <2>2, <2>3, <2>4, GoesOn
  <1>5. CASE modify(r) /\ createDraft(job[r].who, sets[i].terms, i) /\ Ends(r)
    <2>1. MayAdd(job[r]) /\ UNCHANGED <<links, objections>>
      <3>1. ~Refused(r)
        BY <1>5 DEF Refused, tables, createDraft, Inv, Orderly
      <3> QED BY <1>5, <3>1 DEF modify, Called, MayAdd
    <2> QED BY <1>5, <2>1, Adds
  <1> QED BY <1>2, <1>3, <1>4, <1>5 DEF Submit, SubmitWrite, modify

LEMMA ResendTypes ==
    ASSUME Inv, Inv', TypeInd, NEW r \in Requests, resend(r) PROVE TypeInd'
  <1> DEFINE i == job[r].id
             asked == {m \in (active \cap correo) \ Approvers(approvals, i) : ~Cooling(i, m)}
             queue == {Key(l) : l \in NewLinks(i, asked, "reenvio")}
  <1>1. i \in Versions /\ asked \in SUBSET Members
    <2>1. job[r] \in Jobs /\ job[r].at = "called" /\ job[r].op = "resend"
      BY DEF TypeInd, resend, Called
    <2> QED BY <2>1, JobTypes DEF TypeInd
  <1>2. CASE Ends(r) /\ DOMAIN sets' = DOMAIN sets /\ UNCHANGED links
    BY <1>2, JustGoesOn, SmallJobs DEF resend, Ends
  <1>3. CASE issue(i, asked, "reenvio") /\ Goes(r, Mailing(queue)) /\ UNCHANGED sets
    <2>1. ~MayAdd(Mailing(queue)) /\ UNCHANGED objections
      BY SmallJobs DEF resend
    <2> HIDE DEF i, asked
    <2>2. links' \subseteq Links /\ IsFiniteSet(links') /\ Mailing(queue) \in Jobs
      BY <1>1, <1>3, IssuedTypes
    <2> HIDE DEF queue
    <2>3. /\ DOMAIN sets' = DOMAIN sets /\ job' = [job EXCEPT ![r] = Mailing(queue)]
          /\ UNCHANGED <<objections, correo, calls>> /\ events' \in 0..MaxEvents
      BY <1>3, <2>1 DEF Goes, people, TypeInd
    <2> QED BY <2>1, <2>2, <2>3, GoesOn
  <1>4. CASE Goes(r, [at |-> "settling", id |-> i, partners |-> active]) /\ UNCHANGED <<sets, links>>
    <2> DEFINE j == [at |-> "settling", id |-> i, partners |-> active]
    <2>1. j \in Jobs /\ ~MayAdd(j)
      BY <1>1 DEF Jobs, MayAdd, Inv
    <2>2. Goes(r, j) /\ DOMAIN sets' = DOMAIN sets /\ UNCHANGED <<links, objections>>
      BY <1>4 DEF resend
    <2> HIDE DEF j
    <2> QED BY <2>1, <2>2, JustGoesOn
  <1> QED BY <1>2, <1>3, <1>4 DEF resend

LEMMA MailTypes ==
    ASSUME Inv, Inv', TypeInd, NEW r \in Requests, Deliver(r) \/ (DeliverFails(r) /\ events' \in 0..MaxEvents)
    PROVE  TypeInd'
  <1>1. job[r].at = "mailing" /\ job[r].queue \subseteq Keys
    <2>1. job[r] \in Jobs /\ job[r].at = "mailing"
      BY DEF TypeInd, Deliver, DeliverFails
    <2> QED BY <2>1, JobTypes
  <1>2. ASSUME NEW k, NEW f, DOMAIN f = links, \A l \in links : f[l] \in Links, links' = {f[l] : l \in links},
               job' = [job EXCEPT ![r] = Mailing(job[r].queue \ {k})],
               UNCHANGED <<sets, objections, correo, calls>>, events' \in 0..MaxEvents
        PROVE  TypeInd'
    <2> DEFINE j == Mailing(job[r].queue \ {k})
    <2>1. j \in Jobs /\ ~MayAdd(j)
      BY <1>1, SmallJobs
    <2>2. links' \subseteq Links /\ IsFiniteSet(links')
      BY <1>2, ChangedLinks
    <2>3. job' = [job EXCEPT ![r] = j] /\ DOMAIN sets' = DOMAIN sets
      BY <1>2
    <2> HIDE DEF j
    <2> QED BY <1>2, <2>1, <2>2, <2>3, GoesOn
  <1>3. CASE Deliver(r)
    <2>1. PICK k \in job[r].queue :
             /\ links' = {IF Key(l) = k THEN [l EXCEPT !.mailed = TRUE, !.sent = TRUE] ELSE l : l \in links}
             /\ Goes(r, Mailing(job[r].queue \ {k}))
      BY <1>3 DEF Deliver
    <2> DEFINE f == [l \in links |-> IF Key(l) = k THEN [l EXCEPT !.mailed = TRUE, !.sent = TRUE] ELSE l]
    <2>2. DOMAIN f = links /\ links' = {f[l] : l \in links} /\ \A l \in links : f[l] \in Links
      BY <2>1, LinkFields DEF TypeInd
    <2>3. /\ job' = [job EXCEPT ![r] = Mailing(job[r].queue \ {k})]
          /\ UNCHANGED <<sets, objections, correo, calls>> /\ events' \in 0..MaxEvents
      BY <1>3, <2>1 DEF Deliver, Goes, people, TypeInd
    <2> HIDE DEF f
    <2> QED BY <1>2, <2>2, <2>3
  <1>4. CASE DeliverFails(r) /\ events' \in 0..MaxEvents
    <2>1. PICK k \in job[r].queue, left \in BOOLEAN, retired \in BOOLEAN :
             /\ links' = {IF Key(l) = k THEN [l EXCEPT !.mailed = left, !.retired = @ \/ retired] ELSE l : l \in links}
             /\ job' = [job EXCEPT ![r] = Mailing(job[r].queue \ {k})]
      BY <1>4 DEF DeliverFails
    <2> DEFINE f == [l \in links |-> IF Key(l) = k THEN [l EXCEPT !.mailed = left, !.retired = @ \/ retired] ELSE l]
    <2>2. ASSUME NEW l \in links PROVE f[l] \in Links
      <3>1. l \in Links /\ (l.retired \/ retired) \in BOOLEAN
        BY DEF TypeInd
      <3>2. [l EXCEPT !.mailed = left, !.retired = l.retired \/ retired] \in Links
        BY <3>1, LinkFields
      <3> QED BY <3>1, <3>2
    <2>3. DOMAIN f = links /\ links' = {f[l] : l \in links}
      BY <2>1
    <2>4. UNCHANGED <<sets, objections, correo, calls>>
      BY <1>4 DEF DeliverFails, people
    <2> HIDE DEF f
    <2> QED BY <1>2, <1>4, <2>1, <2>2, <2>3, <2>4
  <1> QED BY <1>3, <1>4

\* Using a link leaves its type.
LEMMA UsedTypes ==
    ASSUME TypeInd, NEW k
    PROVE  Used(k) \subseteq Links /\ IsFiniteSet(Used(k))
  <1> DEFINE f == [l \in links |-> IF Key(l) = k THEN [l EXCEPT !.used = TRUE] ELSE l]
  <1>1. DOMAIN f = links /\ Used(k) = {f[l] : l \in links} /\ \A l \in links : f[l] \in Links
    BY LinkFields DEF TypeInd, Used
  <1> HIDE DEF f
  <1> QED BY <1>1, ChangedLinks

LEMMA ApproveTypes ==
    ASSUME Inv, Inv', TypeInd, NEW r \in Requests, NEW l \in links, Approve(r, l) PROVE TypeInd'
  <1> DEFINE table == approvals \cup {Approval(l.set, l.member)}
             j == [at |-> "answering", id |-> l.set, link |-> Key(l), settles |-> Settled(l.set, table),
                   partners |-> active]
  <1>1. l.set \in Versions /\ Key(l) \in Keys /\ active \in SUBSET Members
    BY AnswerableLink, NumbersOfRows, LinkFields DEF Approve, TypeInd, Inv
  <1>2. Settled(l.set, table) \in BOOLEAN
    BY DEF Settled
  <1>3. Goes(r, j) /\ DOMAIN sets' = DOMAIN sets /\ UNCHANGED <<links, objections>>
    BY DEF Approve, tables
  <1> HIDE DEF table
  <1>4. j \in Jobs /\ ~MayAdd(j)
    BY <1>1, <1>2 DEF Jobs, MayAdd
  <1> HIDE DEF j
  <1> QED BY <1>3, <1>4, JustGoesOn

LEMMA CommitTypes ==
    ASSUME Inv, Inv', TypeInd, NEW r \in Requests, Commit(r) PROVE TypeInd'
  <1>1. DOMAIN sets' = DOMAIN sets
    BY DEF Commit, InForce
  <1>2. links' \subseteq Links /\ IsFiniteSet(links')
    BY UsedTypes DEF Commit, TypeInd
  <1>3. job' = [job EXCEPT ![r] = Idle] /\ UNCHANGED <<objections, correo, calls>> /\ events' \in 0..MaxEvents
    BY DEF Commit, Ends, Goes, people, TypeInd
  <1> QED BY <1>1, <1>2, <1>3, GoesOn, SmallJobs

\* An objection changes no call.
LEMMA AnswerTypes ==
    ASSUME Inv, Inv', TypeInd, NEW l \in links, Object(l) PROVE TypeInd'
  <1>1. /\ l.set \in DOMAIN sets /\ l.member \in Members /\ links' = Used(Key(l))
        /\ DOMAIN sets' = DOMAIN sets /\ UNCHANGED <<people, job, calls, events>>
    BY AnswerableLink DEF Object
  <1>2. links' \subseteq Links /\ IsFiniteSet(links')
    BY <1>1, UsedTypes
  <1>3. objections' \subseteq [set : Versions, member : Members]
    <2>1. [set |-> l.set, member |-> l.member] \in [set : Versions, member : Members]
      BY <1>1, NumbersOfRows
    <2> QED BY <2>1 DEF Object, TypeInd
  <1>4. Len(sets') = Len(sets) /\ Creators' = Creators
    <2>1. sets \in Seq(Rows) /\ sets' \in Seq(Rows)
      BY DEF Inv, Orderly
    <2>2. Len(sets') = Len(sets)
      BY <1>1, <2>1
    <2> QED BY <1>1, <2>2 DEF Creators
  <1> QED BY <1>1, <1>2, <1>3, <1>4 DEF TypeInd, RoomOK, people

LEMMA CallTypes ==
    ASSUME Inv, Inv', TypeInd, NEW r \in Requests, Call(r) PROVE TypeInd'
  <1>1. \E j \in Jobs : /\ job' = [job EXCEPT ![r] = j]
                        /\ MayAdd(j) => Len(sets) + Cardinality(Creators) < MaxVersions
    <2> DEFINE Room == Len(sets) + Cardinality(Creators) < MaxVersions
               Fits(j) == j \in Jobs /\ job' = [job EXCEPT ![r] = j] /\ (MayAdd(j) => Room)
    <2> HIDE DEF Room
    <2>1. PICK m \in active :
             \/ \E t \in Terms :
                   /\ Room
                   /\ job' = [job EXCEPT ![r] = [at |-> "called", op |-> "save", who |-> m, terms |-> t]]
             \/ \E i \in DOMAIN sets, op \in {"discard", "resend"} :
                   job' = [job EXCEPT ![r] = [at |-> "called", op |-> op, id |-> i]]
             \/ \E i \in DOMAIN sets, op \in {"submit", "modify"} :
                   /\ op = "modify" => Room
                   /\ job' = [job EXCEPT ![r] = [at |-> "called", op |-> op, who |-> m, id |-> i]]
      BY DEF Call, Room
    <2>2. m \in Members /\ DOMAIN sets \subseteq Versions
      BY NumbersOfRows DEF Inv
    <2>3. ASSUME NEW t \in Terms, Room,
                 job' = [job EXCEPT ![r] = [at |-> "called", op |-> "save", who |-> m, terms |-> t]]
          PROVE  \E j : Fits(j)
      <3>1. Fits([at |-> "called", op |-> "save", who |-> m, terms |-> t])
        BY <2>2, <2>3 DEF Jobs
      <3> QED BY <3>1
    <2>4. ASSUME NEW i \in DOMAIN sets, NEW op \in {"discard", "resend"},
                 job' = [job EXCEPT ![r] = [at |-> "called", op |-> op, id |-> i]]
          PROVE  \E j : Fits(j)
      <3>1. Fits([at |-> "called", op |-> op, id |-> i])
        BY <2>2, <2>4 DEF Jobs, MayAdd
      <3> QED BY <3>1
    <2>5. ASSUME NEW i \in DOMAIN sets, NEW op \in {"submit", "modify"}, op = "modify" => Room,
                 job' = [job EXCEPT ![r] = [at |-> "called", op |-> op, who |-> m, id |-> i]]
          PROVE  \E j : Fits(j)
      <3>1. Fits([at |-> "called", op |-> op, who |-> m, id |-> i])
        BY <2>2, <2>5 DEF Jobs, MayAdd
      <3> QED BY <3>1
    <2>6. PICK j : Fits(j)
      BY <2>1, <2>3, <2>4, <2>5
    <2> QED BY <2>6 DEF Room
  <1>2. DOMAIN sets' = DOMAIN sets /\ UNCHANGED <<links, objections, correo, events>> /\ calls' \in 0..MaxCalls
    <2>1. calls < MaxCalls /\ calls' = calls + 1 /\ UNCHANGED <<tables, people, events>>
      BY DEF Call
    <2>2. calls \in 0..MaxCalls /\ MaxCalls \in Nat
      BY NumbersAreNat DEF TypeInd
    <2>3. calls' \in 0..MaxCalls
      BY <2>1, <2>2
    <2> QED BY <2>1, <2>3 DEF tables, people
  <1>3. job' \in [Requests -> Jobs] /\ RoomOK'
    BY <1>1, <1>2, RoomStays
  <1> QED BY <1>2, <1>3 DEF TypeInd

LEMMA EventTypes ==
    ASSUME Inv, Inv', TypeInd, Event PROVE TypeInd'
  <1>1. events' \in 0..MaxEvents
    BY NumbersAreNat DEF Event, TypeInd
  <1>2. ASSUME UNCHANGED <<sets, objections, job, calls>>, correo' \subseteq Members,
               links' \subseteq Links, IsFiniteSet(links')
        PROVE  TypeInd'
    BY <1>1, <1>2 DEF TypeInd, RoomOK, Creators
  <1>3. ASSUME NEW m \in Members, Come(m) \/ Go(m) \/ Confirm(m) PROVE TypeInd'
    BY <1>2, <1>3 DEF Come, Go, Confirm, tables, TypeInd
  <1>4. ASSUME NEW age \in {1, 2}, Pass(age) PROVE TypeInd'
    <2> DEFINE f == [l \in links |-> [l EXCEPT !.age = IF @ < age THEN age ELSE @]]
    <2>1. ASSUME NEW l \in links PROVE f[l] \in Links
      <3>0. l \in Links /\ l.age \in 0..2
        BY LinkFields DEF TypeInd
      <3>1. (IF l.age < age THEN age ELSE l.age) \in 0..2
        BY <3>0
      <3>2. [l EXCEPT !.age = IF l.age < age THEN age ELSE l.age] \in Links
        BY <3>0, <3>1, LinkFields
      <3> QED BY <3>2
    <2>2. DOMAIN f = links /\ links' = {f[l] : l \in links} /\ UNCHANGED <<sets, objections, correo, job, calls>>
      BY <1>4 DEF Pass, people
    <2> HIDE DEF f
    <2>3. links' \subseteq Links /\ IsFiniteSet(links')
      BY <2>1, <2>2, ChangedLinks
    <2> QED BY <1>2, <2>2, <2>3 DEF TypeInd
  <1>5. ASSUME NEW r \in Requests, Crash(r) PROVE TypeInd'
    <2>1. /\ job' = [job EXCEPT ![r] = Idle] /\ DOMAIN sets' = DOMAIN sets
          /\ links' \subseteq Links /\ IsFiniteSet(links') /\ UNCHANGED <<objections, correo, calls>>
      BY <1>5 DEF Crash, tables, people, TypeInd
    <2> QED BY <1>1, <2>1, GoesOn, SmallJobs
  <1>6. ASSUME NEW r \in Requests, DeliverFails(r) PROVE TypeInd'
    BY <1>1, <1>6, MailTypes
  <1>7. active \subseteq Members
    BY DEF Inv
  <1> QED BY <1>3, <1>4, <1>5, <1>6, <1>7 DEF Event

(* Tables, links and calls keep their types, and there are never more      *)
(* versions than the bound, whatever calls are under way at once: each     *)
(* call that may add a version has a place, and gives it back if it fails. *)
THEOREM RulesTypes == Spec => []TypeOK
  <1>1. Init => TypeInd
    <2> SUFFICES ASSUME Init PROVE TypeInd
      OBVIOUS
    <2>1. PICK o \in Openings :
             sets = o.sets /\ links = o.links /\ correo = o.correo /\ calls = o.calls /\ events = o.events
      BY DEF Init
    <2>2. /\ links \subseteq Links /\ IsFiniteSet(links) /\ correo \subseteq Members
          /\ calls \in 0..MaxCalls /\ events \in 0..MaxEvents /\ Len(sets) <= MaxVersions
          /\ objections = {} /\ sets \in Seq(Rows)
      BY <2>1, OpeningsAreOrderly DEF Init, Orderly
    <2>3. job \in [Requests -> Jobs]
      BY SmallJobs DEF Init
    <2>4. Creators = {}
      BY DEF Init, Creators, Idle
    <2>5. RoomOK
      <3>1. Cardinality(Creators) = 0 /\ Len(sets) \in Nat
        BY <2>2, <2>4, FS_EmptySet
      <3> QED BY <2>2, <3>1 DEF RoomOK
    <2> QED BY <2>2, <2>3, <2>5 DEF TypeInd
  <1>2. Inv /\ Inv' /\ TypeInd /\ [Next]_vars => TypeInd'
    <2> SUFFICES ASSUME Inv, Inv', TypeInd, [Next]_vars PROVE TypeInd'
      OBVIOUS
    <2>1. ASSUME NEW r \in Requests, Work(r) PROVE TypeInd'
      BY <2>1, SaveTypes, DiscardTypes, SubmitTypes, ResendTypes, CommitTypes, MailTypes DEF Work
    <2>2. CASE UNCHANGED vars
      BY <2>2 DEF vars, tables, people, TypeInd, RoomOK, Creators
    <2> QED BY <2>1, <2>2, CallTypes, AnswerTypes, ApproveTypes, EventTypes DEF Next, Finished
  <1>3. Inv /\ TypeInd => TypeOK
    <2> SUFFICES ASSUME Inv, TypeInd PROVE TypeOK
      OBVIOUS
    <2>1. DOMAIN sets \subseteq Versions /\ Len(sets) <= MaxVersions
      BY NumbersOfRows
    <2>2. approvals \subseteq [set : Versions, member : Members, terms : Terms]
      BY <2>1 DEF Inv, Orderly
    <2> QED BY <2>1, <2>2 DEF TypeOK, TypeInd, Inv, Orderly
  <1> QED BY <1>1, <1>2, <1>3, StaysOrderly, PTL DEF Spec

=============================================================================
