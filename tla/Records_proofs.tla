--------------------------- MODULE Records_proofs ---------------------------
(***************************************************************************)
(* For any records, corrections, processes and bounds: what the identity,  *)
(* day and member locks of the reversible records are for.                 *)
(***************************************************************************)
EXTENDS Records, FinanceTx_proofs, Allocation_proofs

\* Past the re-check of its origin and not yet answered; past the decision.
Acts(r) == pc[r] \in {"identities", "decide", "days", "subject", "count", "write"}
Decided(r) == pc[r] \in {"days", "subject", "count", "write"}

\* What Refusal asks of the tables before it says "none".
Fits(r) ==
    LET k == Kind(r)
    IN  /\ r \in Creations => ~Taken(k, Body[r].id)
        /\ r \in Corrections =>
              /\ ~(k = "shift" /\ rows[<<k, Fix[r].id>>] # NoRow)
              /\ rows[<<k, Fix[r].target>>] # NoRow
              /\ ~Reversed(<<k, Fix[r].target>>)
              /\ \A b \in Inserts(r) : ~Taken(k, b.id)

But(r) == IF r \in Creations THEN {} ELSE {Fix[r].target}

TablesOK ==
    /\ rows \in [Keys -> Rows \cup {NoRow}]
    /\ reversals \in [Keys -> Reversals \cup {NoRow}]
    /\ CorrectionsHoldTogether

RequestOK(r) ==
    /\ Acts(r) => Checked(r) /\ ActorLock(r) \in held[r] /\ MayActAsSocio(ActorOf[r])
    /\ pc[r] = "decide" \/ Decided(r) => \A id \in IdsOf(r) : IdLock(r, id) \in held[r]
    /\ Decided(r) => Recorded(r) = NoRow /\ Fits(r)
    /\ pc[r] \in {"subject", "count", "write"} => \A d \in DaysOf(r) : DayLock(d) \in held[r]
    /\ pc[r] \in {"count", "write"} =>
          \A b \in Inserts(r) : \/ b.kind = "reserve"
                                \/ Share(<<"actor", b.subject>>) \in held[r] /\ Eligible(b.kind, b.subject)
    /\ pc[r] = "write" /\ Kind(r) = "shift" =>
          \A b \in Inserts(r) : others[r] = Cardinality(SameDay(b, But(r)))

Inv ==
    /\ LocksOK /\ TablesOK /\ others \in [Requests -> Nat]
    /\ \A r \in Requests : RequestOK(r)

-----------------------------------------------------------------------------
(* Bodies and identities. *)

LEMMA InsertsAreBodies ==
    ASSUME NEW r \in Requests
    PROVE  /\ Kind(r) \in Kinds /\ IdsOf(r) \subseteq Ids
           /\ \A b \in Inserts(r) : b \in Bodies /\ b.kind = Kind(r) /\ b.id \in IdsOf(r) /\ b.id \in Ids /\ b # NoRow
           /\ \A b, c \in Inserts(r) : b = c
           /\ r \in Creations => Body[r] \in Bodies /\ Inserts(r) = {Body[r]} /\ IdsOf(r) = {Body[r].id} /\ r \notin Corrections
           /\ r \in Corrections =>
                 /\ Fix[r] \in Fixes /\ Fix[r].id \in IdsOf(r) /\ Fix[r].target \in IdsOf(r) /\ r \notin Creations
                 /\ Fix[r].replacement # NoRow => Inserts(r) = {Fix[r].replacement}
                 /\ Fix[r].replacement = NoRow => Inserts(r) = {}
  <1>1. CASE r \in Creations
    <2>1. r \notin Corrections /\ Body[r] \in Bodies /\ Inserts(r) = {Body[r]} /\ IdsOf(r) = {Body[r].id}
          /\ Kind(r) = Body[r].kind
      BY <1>1, RequestsAreOfTwoKinds, RecordBodiesAreValid DEF Inserts, IdsOf, Kind
    <2>2. Body[r].kind \in Kinds /\ Body[r].id \in Ids /\ Body[r] # NoRow
      BY <2>1, NoRowIsNone DEF Bodies
    <2> QED BY <2>1, <2>2
  <1>2. CASE r \in Corrections
    <2>1. r \notin Creations /\ Fix[r] \in Fixes /\ Inserts(r) = {Fix[r].replacement} \ {NoRow}
          /\ IdsOf(r) = {Fix[r].id, Fix[r].target} \cup {b.id : b \in Inserts(r)} /\ Kind(r) = Fix[r].kind
          /\ (Fix[r].replacement = NoRow \/ Fix[r].replacement.kind = Fix[r].kind)
      BY <1>2, RequestsAreOfTwoKinds, RecordBodiesAreValid DEF Inserts, IdsOf, Kind, Replacement
    <2>2. Fix[r].kind \in Kinds /\ Fix[r].id \in Ids /\ Fix[r].target \in Ids
          /\ (Fix[r].replacement \in Bodies \/ Fix[r].replacement = NoRow)
      BY <2>1 DEF Fixes
    <2>3. Fix[r].replacement \in Bodies => Fix[r].replacement.id \in Ids /\ Fix[r].replacement # NoRow
      BY NoRowIsNone DEF Bodies
    <2> QED BY <2>1, <2>2, <2>3
  <1> QED BY <1>1, <1>2, RequestsAreOfTwoKinds

LEMMA RefusalIsFits ==
    ASSUME NEW r \in Requests
    PROVE  Refusal(r) = "none" <=> Fits(r)
  BY RequestsAreOfTwoKinds DEF Refusal, Fits

\* A correction that passed the check of the request names different things.
LEMMA TheyDiffer ==
    ASSUME NEW r \in Corrections, Checked(r), NEW b \in Inserts(r)
    PROVE  b.id # Fix[r].id
  <1> SUFFICES ASSUME b.id = Fix[r].id PROVE FALSE
    OBVIOUS
  <1>1. r \in Requests /\ r \notin Creations
    BY RequestsAreOfTwoKinds
  <1>2. IdsOf(r) = {Fix[r].id, Fix[r].target} /\ Cardinality(IdsOf(r)) = 3
    <2>1. Inserts(r) = {b} /\ Fix[r].replacement # NoRow
      BY <1>1, InsertsAreBodies
    <2> QED BY <1>1, <2>1 DEF IdsOf, Checked, Replaces, Replacement
  <1>3. Cardinality({Fix[r].id, Fix[r].target}) <= 2
    <2>1. IsFiniteSet({Fix[r].id}) /\ Cardinality({Fix[r].id}) = 1
      BY FS_Singleton
    <2>2. {Fix[r].id} \cup {Fix[r].target} = {Fix[r].id, Fix[r].target}
      OBVIOUS
    <2> DEFINE S == {Fix[r].id}
               x == Fix[r].target
    <2>3. Cardinality(S \cup {x}) = IF x \in S THEN Cardinality(S) ELSE Cardinality(S) + 1
      <3>1. IsFiniteSet(S)
        BY <2>1
      <3> HIDE DEF S, x
      <3> QED BY <3>1, FS_AddElement
    <2>4. Cardinality(S) = 1
      BY <2>1
    <2>5. Cardinality(S \cup {x}) <= 2
      <3> HIDE DEF S, x
      <3> QED BY <2>3, <2>4
    <2> QED BY <2>2, <2>5
  <1> QED BY <1>2, <1>3

\* Two requests of one kind past their identities have none in common.
LEMMA IdentitiesAreApart ==
    ASSUME LocksOK, NEW r \in Requests, NEW q \in Requests, r # q, Kind(r) = Kind(q),
           \A id \in IdsOf(r) : IdLock(r, id) \in held[r], \A id \in IdsOf(q) : IdLock(q, id) \in held[q]
    PROVE  IdsOf(r) \cap IdsOf(q) = {}
  BY DEF LocksOK, Conflict, IdLock, Exclusive

LEMMA DaysAreApart ==
    ASSUME LocksOK, NEW r \in Requests, NEW q \in Requests, r # q,
           \A d \in DaysOf(r) : DayLock(d) \in held[r], \A d \in DaysOf(q) : DayLock(d) \in held[q]
    PROVE  DaysOf(r) \cap DaysOf(q) = {}
  BY DEF LocksOK, Conflict, DayLock, Exclusive

-----------------------------------------------------------------------------
(* Steps that change no table. *)

LEMMA SameView ==
    ASSUME UNCHANGED tables, NEW r \in Requests
    PROVE  /\ Recorded(r)' = Recorded(r) /\ Fits(r)' = Fits(r) /\ DaysOf(r)' = DaysOf(r)
           /\ \A b, but : SameDay(b, but)' = SameDay(b, but)
  BY DEF tables, Recorded, Fits, Taken, Reversed, DaysOf, SameDay

LEMMA TablesKeep == ASSUME TablesOK, UNCHANGED tables PROVE TablesOK'
  BY DEF TablesOK, tables, CorrectionsHoldTogether

\* Who does not move keeps what it knows.
LEMMA Keeps ==
    ASSUME NEW q \in Requests, RequestOK(q), UNCHANGED <<tables, authorized>>,
           pc'[q] = pc[q], held'[q] = held[q], others'[q] = others[q]
    PROVE  RequestOK(q)'
  <1>1. /\ Recorded(q)' = Recorded(q) /\ Fits(q)' = Fits(q) /\ DaysOf(q)' = DaysOf(q)
        /\ \A b, but : SameDay(b, but)' = SameDay(b, but)
    BY SameView
  <1>2. Acts(q)' = Acts(q) /\ Decided(q)' = Decided(q)
    BY DEF Acts, Decided
  <1>3. \A m : MayActAsSocio(m)' = MayActAsSocio(m) /\ \A k : Eligible(k, m)' = Eligible(k, m)
    BY DEF MayActAsSocio, MayAct, Eligible
  <1> QED BY <1>1, <1>2, <1>3 DEF RequestOK, Checked, ActorLock, IdLock, But

LEMMA QuietStep ==
    ASSUME Inv, NEW r \in Requests, LocksOK', UNCHANGED <<tables, authorized>>,
           \A q \in Requests \ {r} : pc'[q] = pc[q] /\ held'[q] = held[q] /\ others'[q] = others[q],
           others' \in [Requests -> Nat], RequestOK(r)'
    PROVE  Inv'
  <1>1. \A q \in Requests \ {r} : RequestOK(q)'
    BY Keeps DEF Inv
  <1>2. TablesOK'
    BY TablesKeep DEF Inv
  <1> QED BY <1>1, <1>2 DEF Inv

\* A submission that is answered or not yet under way has nothing to keep.
LEMMA Ended ==
    ASSUME NEW r \in Requests, pc'[r] \in {"away", "idle", "done"}
    PROVE  RequestOK(r)'
  BY DEF RequestOK, Acts, Decided

LEMMA RefusalStep ==
    ASSUME Inv, NEW r \in Requests, NEW code, Finish(r, code), UNCHANGED <<tables, authorized, others>>
    PROVE  Inv'
  <1>1. LocksOK' /\ pc'[r] = "done" /\ \A q \in Requests \ {r} : pc'[q] = pc[q] /\ held'[q] = held[q]
    BY EndStep DEF Inv
  <1>2. RequestOK(r)'
    BY <1>1, Ended
  <1> QED BY <1>1, <1>2, QuietStep DEF Inv

\* A step of a request that only goes on, perhaps with one more lock.
LEMMA GoOn ==
    ASSUME Inv, NEW r \in Requests, NEW where, NEW l,
           Goto(r, where) \/ Acquire(r, l, where),
           UNCHANGED <<tables, authorized>>, \A q \in Requests \ {r} : others'[q] = others[q],
           others' \in [Requests -> Nat], RequestOK(r)'
    PROVE  Inv'
  <1>1. LocksOK' /\ \A q \in Requests \ {r} : pc'[q] = pc[q] /\ held'[q] = held[q]
    BY GotoStep, AcquireStep DEF Inv
  <1> QED BY <1>1, QuietStep DEF Inv

\* What such a step leaves a request with.
LEMMA Moved ==
    ASSUME Inv, NEW r \in Requests, NEW where, NEW l,
           \/ Goto(r, where) /\ l \in held[r]
           \/ Acquire(r, l, where),
           UNCHANGED <<tables, authorized>>
    PROVE  /\ pc'[r] = where /\ held[r] \subseteq held'[r] /\ l \in held'[r]
           /\ Recorded(r)' = Recorded(r) /\ Fits(r)' = Fits(r) /\ DaysOf(r)' = DaysOf(r)
           /\ \A b, but : SameDay(b, but)' = SameDay(b, but)
           /\ \A k, m : (MayActAsSocio(m) => MayActAsSocio(m)') /\ (Eligible(k, m) => Eligible(k, m)')
  <1>1. pc'[r] = where /\ held[r] \subseteq held'[r] /\ l \in held'[r]
    BY GotoStep, AcquireStep DEF Inv
  <1>2. \A k, m : (MayActAsSocio(m) => MayActAsSocio(m)') /\ (Eligible(k, m) => Eligible(k, m)')
    BY DEF MayActAsSocio, MayAct, Eligible
  <1> QED BY <1>1, <1>2, SameView

-----------------------------------------------------------------------------
(* The steps of a request before it writes. *)

LEMMA ReceiveStep ==
    ASSUME Inv, NEW r \in Requests, Receive(r), UNCHANGED authorized
    PROVE  Inv'
  <1> USE DEF Receive
  <1>1. CASE Finish(r, "400")
    BY <1>1, RefusalStep
  <1>2. CASE Finish(r, "403")
    BY <1>2, RefusalStep
  <1>3. CASE Checked(r) /\ Acquire(r, ActorLock(r), "identities") /\ MayActAsSocio(ActorOf[r])
    <2>1. /\ pc'[r] = "identities" /\ ActorLock(r) \in held'[r] /\ MayActAsSocio(ActorOf[r])'
      BY <1>3, Moved
    <2>2. RequestOK(r)'
      BY <1>3, <2>1 DEF RequestOK, Acts, Decided, Checked, ActorLock
    <2> QED BY <1>3, <2>2, GoOn DEF Inv
  <1> QED BY <1>1, <1>2, <1>3, AuthorizeStep DEF Inv

LEMMA lockIdentitiesStep ==
    ASSUME Inv, NEW r \in Requests, lockIdentities(r), UNCHANGED authorized
    PROVE  Inv'
  <1>1. pc[r] = "identities" /\ UNCHANGED <<tables, others>>
        /\ Checked(r) /\ ActorLock(r) \in held[r] /\ MayActAsSocio(ActorOf[r])
    BY DEF lockIdentities, Inv, RequestOK, Acts
  <1>2. CASE /\ \A id \in IdsOf(r) : IdLock(r, id) \in held[r]
             /\ Goto(r, "decide")
    <2>1. pc'[r] = "decide" /\ held[r] \subseteq held'[r] /\ MayActAsSocio(ActorOf[r])'
      BY <1>1, <1>2, Moved
    <2>2. RequestOK(r)'
      BY <1>1, <1>2, <2>1 DEF RequestOK, Acts, Decided, Checked, ActorLock, IdLock
    <2> QED BY <1>1, <1>2, <2>2, GoOn DEF Inv
  <1>3. ASSUME NEW id, Acquire(r, IdLock(r, id), "identities")
        PROVE  Inv'
    <2>1. pc'[r] = "identities" /\ held[r] \subseteq held'[r] /\ MayActAsSocio(ActorOf[r])'
      BY <1>1, <1>3, Moved
    <2>2. RequestOK(r)'
      BY <1>1, <2>1 DEF RequestOK, Acts, Decided, Checked, ActorLock
    <2> QED BY <1>1, <1>3, <2>2, GoOn DEF Inv
  <1> QED BY <1>2, <1>3 DEF lockIdentities

LEMMA DecideStep ==
    ASSUME Inv, NEW r \in Requests, NEW next, Decide(r, next), UNCHANGED authorized,
           \/ next = "days"
           \/ next = "subject" /\ Kind(r) # "shift"
           \/ next = "write" /\ Kind(r) # "shift" /\ \A b \in Inserts(r) : b.kind = "reserve"
    PROVE  Inv'
  <1>1. pc[r] = "decide" /\ UNCHANGED <<tables, others>>
        /\ Checked(r) /\ ActorLock(r) \in held[r] /\ MayActAsSocio(ActorOf[r])
        /\ \A id \in IdsOf(r) : IdLock(r, id) \in held[r]
    BY DEF Decide, Inv, RequestOK, Acts
  <1>2. ASSUME NEW code, Finish(r, code) PROVE Inv'
    BY <1>1, <1>2, RefusalStep
  <1>3. CASE Recorded(r) = NoRow /\ Refusal(r) = "none" /\ Goto(r, next)
    <2>1. pc'[r] = next /\ held[r] \subseteq held'[r] /\ MayActAsSocio(ActorOf[r])'
          /\ Recorded(r)' = NoRow /\ Fits(r)' /\ DaysOf(r)' = DaysOf(r)
      BY <1>1, <1>3, Moved, RefusalIsFits
    <2>2. Kind(r) # "shift" => DaysOf(r) = {}
      BY DEF DaysOf
    <2>3. RequestOK(r)'
      BY <1>1, <2>1, <2>2 DEF RequestOK, Acts, Decided, Checked, ActorLock, IdLock
    <2> QED BY <1>1, <1>3, <2>3, GoOn DEF Inv
  <1> QED BY <1>2, <1>3 DEF Decide

LEMMA lockDaysStep ==
    ASSUME Inv, NEW r \in Requests, lockDays(r), UNCHANGED authorized
    PROVE  Inv'
  <1>1. /\ pc[r] = "days" /\ UNCHANGED <<tables, others>>
        /\ Checked(r) /\ ActorLock(r) \in held[r] /\ MayActAsSocio(ActorOf[r])
        /\ \A id \in IdsOf(r) : IdLock(r, id) \in held[r]
        /\ Recorded(r) = NoRow /\ Fits(r)
    BY DEF lockDays, Inv, RequestOK, Acts, Decided
  <1>2. CASE /\ \A d \in DaysOf(r) : DayLock(d) \in held[r]
             /\ Goto(r, SubjectOrWrite(r))
    <2>1. /\ pc'[r] = SubjectOrWrite(r) /\ held[r] \subseteq held'[r] /\ MayActAsSocio(ActorOf[r])'
          /\ Recorded(r)' = NoRow /\ Fits(r)' /\ DaysOf(r)' = DaysOf(r)
      BY <1>1, <1>2, Moved
    <2>2. SubjectOrWrite(r) = "subject" \/ (SubjectOrWrite(r) = "write" /\ Inserts(r) = {})
      BY DEF SubjectOrWrite
    <2>3. RequestOK(r)'
      BY <1>1, <1>2, <2>1, <2>2 DEF RequestOK, Acts, Decided, Checked, ActorLock, IdLock, DayLock
    <2> QED BY <1>1, <1>2, <2>3, GoOn DEF Inv
  <1>3. ASSUME NEW d, Acquire(r, DayLock(d), "days")
        PROVE  Inv'
    <2>1. /\ pc'[r] = "days" /\ held[r] \subseteq held'[r] /\ MayActAsSocio(ActorOf[r])'
          /\ Recorded(r)' = NoRow /\ Fits(r)'
      BY <1>1, <1>3, Moved
    <2>2. RequestOK(r)'
      BY <1>1, <2>1 DEF RequestOK, Acts, Decided, Checked, ActorLock, IdLock
    <2> QED BY <1>1, <1>3, <2>2, GoOn DEF Inv
  <1> QED BY <1>2, <1>3 DEF lockDays

LEMMA LockSubjectStep ==
    ASSUME Inv, NEW r \in Requests, NEW next, LockSubject(r, next), UNCHANGED authorized,
           next = "count" \/ (next = "write" /\ Kind(r) # "shift")
    PROVE  Inv'
  <1>1. /\ pc[r] = "subject" /\ UNCHANGED <<tables, others>>
        /\ Checked(r) /\ ActorLock(r) \in held[r] /\ MayActAsSocio(ActorOf[r])
        /\ \A id \in IdsOf(r) : IdLock(r, id) \in held[r]
        /\ \A d \in DaysOf(r) : DayLock(d) \in held[r]
        /\ Recorded(r) = NoRow /\ Fits(r)
    BY DEF LockSubject, Inv, RequestOK, Acts, Decided
  <1>2. CASE Finish(r, "403")
    BY <1>1, <1>2, RefusalStep
  <1>3. ASSUME NEW b \in Inserts(r), Eligible(b.kind, b.subject), Acquire(r, Share(<<"actor", b.subject>>), next)
        PROVE  Inv'
    <2>1. /\ pc'[r] = next /\ held[r] \subseteq held'[r] /\ MayActAsSocio(ActorOf[r])'
          /\ Share(<<"actor", b.subject>>) \in held'[r] /\ Eligible(b.kind, b.subject)'
          /\ Recorded(r)' = NoRow /\ Fits(r)' /\ DaysOf(r)' = DaysOf(r)
      BY <1>1, <1>3, Moved
    <2>2. \A c \in Inserts(r) : c = b
      BY InsertsAreBodies
    <2>3. RequestOK(r)'
      BY <1>1, <2>1, <2>2 DEF RequestOK, Acts, Decided, Checked, ActorLock, IdLock, DayLock
    <2> QED BY <1>1, <1>3, <2>3, GoOn DEF Inv
  <1> QED BY <1>2, <1>3 DEF LockSubject

LEMMA CountIsNat ==
    ASSUME NEW b, NEW but
    PROVE  Cardinality(SameDay(b, but)) \in Nat
  <1>1. SameDay(b, but) \subseteq Ids
    BY DEF SameDay
  <1> QED BY <1>1, IdentitiesAreOrdered, FS_Subset, FS_CardinalityType

LEMMA CountOthersStep ==
    ASSUME Inv, NEW r \in Requests, CountOthers(r), UNCHANGED authorized
    PROVE  Inv'
  <1>1. /\ pc[r] = "count" /\ UNCHANGED tables /\ Goto(r, "write")
        /\ Checked(r) /\ ActorLock(r) \in held[r] /\ MayActAsSocio(ActorOf[r])
        /\ \A id \in IdsOf(r) : IdLock(r, id) \in held[r]
        /\ \A d \in DaysOf(r) : DayLock(d) \in held[r]
        /\ \A b \in Inserts(r) : \/ b.kind = "reserve"
                                 \/ Share(<<"actor", b.subject>>) \in held[r] /\ Eligible(b.kind, b.subject)
        /\ Recorded(r) = NoRow /\ Fits(r) /\ others \in [Requests -> Nat]
    BY DEF CountOthers, Inv, RequestOK, Acts, Decided
  <1>2. PICK b \in Inserts(r) : others' = [others EXCEPT ![r] = Cardinality(SameDay(b, But(r)))]
    BY DEF CountOthers, But
  <1>3. \A c \in Inserts(r) : c = b
    BY InsertsAreBodies
  <1>4. /\ others' \in [Requests -> Nat] /\ others'[r] = Cardinality(SameDay(b, But(r)))
        /\ \A q \in Requests \ {r} : others'[q] = others[q]
    BY <1>1, <1>2, CountIsNat
  <1>5. /\ pc'[r] = "write" /\ held[r] \subseteq held'[r] /\ MayActAsSocio(ActorOf[r])'
        /\ Recorded(r)' = NoRow /\ Fits(r)' /\ DaysOf(r)' = DaysOf(r)
        /\ Eligible(b.kind, b.subject) => Eligible(b.kind, b.subject)'
        /\ SameDay(b, But(r))' = SameDay(b, But(r))
    BY <1>1, Moved, SameView DEF But
  <1>6. RequestOK(r)'
    BY <1>1, <1>3, <1>4, <1>5 DEF RequestOK, Acts, Decided, Checked, ActorLock, IdLock, DayLock
  <1> QED BY <1>1, <1>4, <1>6, GoOn DEF Inv

-----------------------------------------------------------------------------
(* What is written: the two tables gain one row each, at most, where there *)
(* was none.                                                               *)

Gains(r) ==
    /\ rows' \in [Keys -> Rows \cup {NoRow}] /\ reversals' \in [Keys -> Reversals \cup {NoRow}]
    /\ \A b \in Inserts(r) : rows'[<<Kind(r), b.id>>] = NewRow(r, b)
    /\ \A k \in Kinds, i \in Ids :
          \/ rows'[<<k, i>>] = rows[<<k, i>>]
          \/ /\ k = Kind(r) /\ rows[<<k, i>>] = NoRow
             /\ \E b \in Inserts(r) : i = b.id /\ rows'[<<k, i>>] = NewRow(r, b)
    /\ r \in Corrections => reversals'[<<Kind(r), Fix[r].id>>] = NewReversal(r)
    /\ \A k \in Kinds, i \in Ids :
          \/ reversals'[<<k, i>>] = reversals[<<k, i>>]
          \/ /\ k = Kind(r) /\ reversals[<<k, i>>] = NoRow
             /\ r \in Corrections /\ i = Fix[r].id /\ reversals'[<<k, i>>] = NewReversal(r)

LEMMA NewRowsAreRows ==
    ASSUME Inv, NEW r \in Requests
    PROVE  /\ \A b \in Inserts(r) : NewRow(r, b) \in Rows /\ NewRow(r, b) # NoRow
           /\ r \in Corrections => NewReversal(r) \in Reversals /\ NewReversal(r) # NoRow
  <1>1. ActorOf[r] \in Actors /\ others[r] \in Nat
    BY ActorOfIsActor DEF Inv
  <1>2. r \in Corrections => Fix[r] \in Fixes /\ Fix[r].id \in Ids
    BY InsertsAreBodies DEF Fixes
  <1>3. \A b \in Inserts(r) : NewRow(r, b) \in Rows
    BY <1>1, <1>2, InsertsAreBodies, RequestsAreOfTwoKinds DEF NewRow, Rows
  <1>4. r \in Corrections => NewReversal(r) \in Reversals
    BY <1>1, <1>2 DEF NewReversal, Reversals
  <1> QED BY <1>3, <1>4, NoRowIsNone

LEMMA Written ==
    ASSUME Inv, NEW r \in Requests, NEW code, Write(r, code)
    PROVE  /\ pc[r] = "write" /\ others' = [others EXCEPT ![r] = 0]
           /\ \/ Finish(r, code) /\ UNCHANGED tables
              \/ Finish(r, "201") /\ Gains(r)
  <1>1. CASE NewIds(r) \cap ForeignIds # {}
    BY <1>1 DEF Write
  <1>2. CASE NewIds(r) \cap ForeignIds = {}
    <2>1. /\ pc[r] = "write" /\ others' = [others EXCEPT ![r] = 0] /\ Finish(r, "201")
          /\ rows' = [key \in Keys |-> IF \E b \in Inserts(r) : key = <<b.kind, b.id>>
                                       THEN NewRow(r, CHOOSE b \in Inserts(r) : TRUE) ELSE rows[key]]
          /\ reversals' = IF r \in Corrections
                          THEN [reversals EXCEPT ![<<Kind(r), Fix[r].id>>] = NewReversal(r)] ELSE reversals
      BY <1>2 DEF Write
    <2>2. Recorded(r) = NoRow /\ Fits(r) /\ rows \in [Keys -> Rows \cup {NoRow}]
          /\ reversals \in [Keys -> Reversals \cup {NoRow}]
      BY <2>1 DEF Inv, TablesOK, RequestOK, Decided
    <2>3. \A b \in Inserts(r) : /\ b = CHOOSE c \in Inserts(r) : TRUE
                                /\ b.kind = Kind(r) /\ b.id \in Ids /\ NewRow(r, b) \in Rows
      BY InsertsAreBodies, NewRowsAreRows
    <2>4. \A b \in Inserts(r) : rows[<<Kind(r), b.id>>] = NoRow
      <3>1. \A b \in Inserts(r) : ~Taken(Kind(r), b.id)
        BY <2>2, InsertsAreBodies, RequestsAreOfTwoKinds DEF Fits
      <3> QED BY <3>1 DEF Taken
    <2>5. Kind(r) \in Kinds /\ (r \in Corrections => Fix[r].id \in Ids /\ NewReversal(r) \in Reversals)
      BY InsertsAreBodies, NewRowsAreRows DEF Fixes
    <2>6. r \in Corrections => reversals[<<Kind(r), Fix[r].id>>] = NoRow
      BY <2>2, RequestsAreOfTwoKinds DEF Recorded
    <2>7. \A key \in Keys :
             \/ rows'[key] = rows[key] /\ ~\E b \in Inserts(r) : key = <<b.kind, b.id>>
             \/ \E b \in Inserts(r) : key = <<Kind(r), b.id>> /\ rows'[key] = NewRow(r, b)
      <3> HIDE DEF NewRow
      <3> QED BY <2>1, <2>3
    <2>8. rows' \in [Keys -> Rows \cup {NoRow}]
      <3>1. \A key \in Keys : rows'[key] \in Rows \cup {NoRow}
        BY <2>2, <2>3, <2>7
      <3> QED BY <2>1, <3>1
    <2>9. \A b \in Inserts(r) : rows'[<<Kind(r), b.id>>] = NewRow(r, b)
      <3>1. SUFFICES ASSUME NEW b \in Inserts(r) PROVE rows'[<<Kind(r), b.id>>] = NewRow(r, b)
        OBVIOUS
      <3>2. <<Kind(r), b.id>> \in Keys /\ <<Kind(r), b.id>> = <<b.kind, b.id>>
        BY <2>3, <2>5 DEF Keys
      <3>3. PICK c \in Inserts(r) : rows'[<<Kind(r), b.id>>] = NewRow(r, c)
        BY <2>7, <3>2
      <3> QED BY <2>3, <3>3
    <2>10. \A k \in Kinds, i \in Ids :
              \/ rows'[<<k, i>>] = rows[<<k, i>>]
              \/ /\ k = Kind(r) /\ rows[<<k, i>>] = NoRow
                 /\ \E b \in Inserts(r) : i = b.id /\ rows'[<<k, i>>] = NewRow(r, b)
      <3>1. SUFFICES ASSUME NEW k \in Kinds, NEW i \in Ids, rows'[<<k, i>>] # rows[<<k, i>>]
                     PROVE  /\ k = Kind(r) /\ rows[<<k, i>>] = NoRow
                            /\ \E b \in Inserts(r) : i = b.id /\ rows'[<<k, i>>] = NewRow(r, b)
        OBVIOUS
      <3>2. PICK b \in Inserts(r) : <<k, i>> = <<Kind(r), b.id>> /\ rows'[<<k, i>>] = NewRow(r, b)
        BY <2>7, <3>1 DEF Keys
      <3> QED BY <2>4, <3>2
    <2>11. /\ reversals' \in [Keys -> Reversals \cup {NoRow}]
           /\ r \in Corrections => reversals'[<<Kind(r), Fix[r].id>>] = NewReversal(r)
           /\ \A k \in Kinds, i \in Ids :
                 \/ reversals'[<<k, i>>] = reversals[<<k, i>>]
                 \/ /\ k = Kind(r) /\ reversals[<<k, i>>] = NoRow
                    /\ r \in Corrections /\ i = Fix[r].id /\ reversals'[<<k, i>>] = NewReversal(r)
      <3>1. CASE r \in Corrections
        <4>1. reversals' = [reversals EXCEPT ![<<Kind(r), Fix[r].id>>] = NewReversal(r)]
              /\ <<Kind(r), Fix[r].id>> \in Keys
          BY <2>1, <2>5, <3>1 DEF Keys
        <4> QED BY <2>2, <2>5, <2>6, <3>1, <4>1 DEF Keys
      <3>2. CASE r \notin Corrections
        BY <2>1, <2>2, <3>2
      <3> QED BY <3>1, <3>2
    <2> QED BY <2>1, <2>8, <2>9, <2>10, <2>11 DEF Gains
  <1> QED BY <1>1, <1>2

\* What the decision established, told in terms of the two tables.
LEMMA Room ==
    ASSUME Inv, NEW r \in Requests, pc[r] = "write"
    PROVE  /\ \A b \in Inserts(r) :
                 /\ rows[<<Kind(r), b.id>>] = NoRow
                 /\ Kind(r) = "shift" => reversals[<<Kind(r), b.id>>] = NoRow
                 /\ r \in Corrections => b.id # Fix[r].id
           /\ r \in Corrections =>
                 /\ reversals[<<Kind(r), Fix[r].id>>] = NoRow
                 /\ Kind(r) = "shift" => rows[<<Kind(r), Fix[r].id>>] = NoRow
                 /\ rows[<<Kind(r), Fix[r].target>>] # NoRow
                 /\ \A id \in Ids : LET v == reversals[<<Kind(r), id>>]
                                    IN  v = NoRow \/ v.body.target # Fix[r].target
  <1>1. Recorded(r) = NoRow /\ Fits(r) /\ Checked(r)
    BY DEF Inv, RequestOK, Decided, Acts
  <1>2. \A b \in Inserts(r) : ~Taken(Kind(r), b.id)
    BY <1>1, InsertsAreBodies, RequestsAreOfTwoKinds DEF Fits
  <1>3. \A b \in Inserts(r) : r \in Corrections => b.id # Fix[r].id
    BY <1>1, TheyDiffer
  <1>4. r \in Corrections => reversals[<<Kind(r), Fix[r].id>>] = NoRow
    BY <1>1, RequestsAreOfTwoKinds DEF Recorded
  <1>5. r \in Corrections => ~Reversed(<<Kind(r), Fix[r].target>>)
    BY <1>1 DEF Fits
  <1>6. r \in Corrections => /\ Kind(r) = "shift" => rows[<<Kind(r), Fix[r].id>>] = NoRow
                             /\ rows[<<Kind(r), Fix[r].target>>] # NoRow
    BY <1>1 DEF Fits
  <1> QED BY <1>2, <1>3, <1>4, <1>5, <1>6 DEF Taken, Reversed

LEMMA WriteKeepsTables ==
    ASSUME Inv, NEW r \in Requests, pc[r] = "write", Gains(r)
    PROVE  TablesOK'
  <1>1. /\ rows \in [Keys -> Rows \cup {NoRow}] /\ reversals \in [Keys -> Reversals \cup {NoRow}]
        /\ CorrectionsHoldTogether
    BY DEF Inv, TablesOK
  <1>0. ASSUME NEW k \in Kinds, NEW i \in Ids, reversals[<<k, i>>] # NoRow
        PROVE  LET v == reversals[<<k, i>>]
                   new == rows[<<k, v.body.replacement.id>>]
               IN  /\ rows[<<k, v.body.target>>] # NoRow
                   /\ \A j \in Ids \ {i} : reversals[<<k, j>>] = NoRow \/ v.body.target # reversals[<<k, j>>].body.target
                   /\ v.body.replacement # NoRow => new # NoRow /\ new.of = i /\ new.body = v.body.replacement
    <2>1. \A j \in Ids :
             LET v == reversals[<<k, i>>]
                 w == reversals[<<k, j>>]
             IN  /\ rows[<<k, v.body.target>>] # NoRow
                 /\ (w # NoRow /\ i # j) => v.body.target # w.body.target
                 /\ v.body.replacement # NoRow =>
                       LET new == rows[<<k, v.body.replacement.id>>]
                       IN  new # NoRow /\ new.of = i /\ new.body = v.body.replacement
      <3> USE <1>0
      <3> QED BY <1>1, Zenon DEF CorrectionsHoldTogether
    <2> QED BY <2>1
  <1>2. \A b \in Inserts(r) : NewRow(r, b) # NoRow /\ NewRow(r, b).body = b
                              /\ NewRow(r, b).of = IF r \in Creations THEN 0 ELSE Fix[r].id
    BY NewRowsAreRows DEF NewRow
  <1>3. r \in Corrections => /\ NewReversal(r) # NoRow /\ NewReversal(r).body = Fix[r]
                             /\ Fix[r].target \in Ids /\ Fix[r].id \in Ids
    BY NewRowsAreRows, InsertsAreBodies DEF NewReversal, Fixes
  <1>4. \A k \in Kinds, i \in Ids : rows[<<k, i>>] # NoRow => rows'[<<k, i>>] = rows[<<k, i>>]
    BY DEF Gains
  <1>5. \A k \in Kinds, i \in Ids : reversals[<<k, i>>] # NoRow => reversals'[<<k, i>>] = reversals[<<k, i>>]
    BY DEF Gains
  <1>6. \A k \in Kinds, i \in Ids : reversals[<<k, i>>] # NoRow =>
           reversals[<<k, i>>].body.target \in Ids
           /\ (reversals[<<k, i>>].body.replacement # NoRow => reversals[<<k, i>>].body.replacement.id \in Ids)
    <2>1. \A k \in Kinds, i \in Ids : reversals[<<k, i>>] # NoRow => reversals[<<k, i>>] \in Reversals
      BY <1>1 DEF Keys
    <2>2. \A v \in Reversals : v.body.target \in Ids /\ (v.body.replacement # NoRow => v.body.replacement.id \in Ids)
      <3>1. \A v \in Reversals : v.body \in Fixes
        BY DEF Reversals
      <3>2. \A f \in Fixes : f.target \in Ids /\ f.replacement \in Bodies \cup {NoRow}
        BY DEF Fixes
      <3>3. \A b \in Bodies : b.id \in Ids
        BY DEF Bodies
      <3> QED BY <3>1, <3>2, <3>3
    <2> QED BY <2>1, <2>2
  <1> HIDE DEF NewRow, NewReversal
  <1>7. ASSUME NEW k \in Kinds, NEW i \in Ids, NEW j \in Ids, reversals'[<<k, i>>] # NoRow
        PROVE  LET v == reversals'[<<k, i>>]
                   w == reversals'[<<k, j>>]
               IN  /\ rows'[<<k, v.body.target>>] # NoRow
                   /\ (w # NoRow /\ i # j) => v.body.target # w.body.target
                   /\ v.body.replacement # NoRow =>
                         LET new == rows'[<<k, v.body.replacement.id>>]
                         IN  new # NoRow /\ new.of = i /\ new.body = v.body.replacement
    <2>1. CASE reversals'[<<k, i>>] = reversals[<<k, i>>]
      <3>1. reversals[<<k, i>>] # NoRow
        BY <1>7, <2>1
      <3> DEFINE old == reversals[<<k, i>>]
      <3>5. /\ rows[<<k, old.body.target>>] # NoRow
            /\ \A jj \in Ids \ {i} : reversals[<<k, jj>>] = NoRow \/ old.body.target # reversals[<<k, jj>>].body.target
            /\ old.body.replacement # NoRow =>
                  LET new == rows[<<k, old.body.replacement.id>>]
                  IN  new # NoRow /\ new.of = i /\ new.body = old.body.replacement
        BY <1>0, <3>1
      <3>6. old.body.target \in Ids /\ (old.body.replacement # NoRow => old.body.replacement.id \in Ids)
        BY <1>6, <3>1
      <3> HIDE DEF old
      <3>2. rows'[<<k, old.body.target>>] # NoRow
        BY <1>4, <3>5, <3>6
      <3>3. old.body.replacement # NoRow =>
               LET new == rows'[<<k, old.body.replacement.id>>]
               IN  new # NoRow /\ new.of = i /\ new.body = old.body.replacement
        BY <1>4, <3>5, <3>6
      <3>4. (reversals'[<<k, j>>] # NoRow /\ i # j) => old.body.target # reversals'[<<k, j>>].body.target
        <4>1. CASE reversals'[<<k, j>>] = reversals[<<k, j>>]
          BY <3>5, <4>1
        <4>2. CASE k = Kind(r) /\ r \in Corrections /\ reversals'[<<k, j>>] = NewReversal(r)
          <5>1. old.body.target # Fix[r].target
            BY <3>1, <4>2, Room DEF old
          <5> QED BY <1>3, <4>2, <5>1
        <4> QED BY <4>1, <4>2 DEF Gains
      <3> QED BY <2>1, <3>2, <3>3, <3>4 DEF old
    <2>2. CASE k = Kind(r) /\ r \in Corrections /\ i = Fix[r].id /\ reversals'[<<k, i>>] = NewReversal(r)
      <3>1. reversals'[<<k, i>>].body = Fix[r]
        BY <1>3, <2>2
      <3>2. rows'[<<k, Fix[r].target>>] # NoRow
        BY <1>3, <1>4, <2>2, Room
      <3>3. Fix[r].replacement # NoRow =>
               LET new == rows'[<<k, Fix[r].replacement.id>>]
               IN  new # NoRow /\ new.of = i /\ new.body = Fix[r].replacement
        <4>1. Fix[r].replacement # NoRow => Fix[r].replacement \in Inserts(r)
          BY <2>2, InsertsAreBodies
        <4>2. r \notin Creations
          BY <2>2, RequestsAreOfTwoKinds
        <4> QED BY <1>2, <2>2, <4>1, <4>2 DEF Gains
      <3>4. (reversals'[<<k, j>>] # NoRow /\ i # j) => Fix[r].target # reversals'[<<k, j>>].body.target
        <4>1. i # j => reversals'[<<k, j>>] = reversals[<<k, j>>]
          BY <2>2 DEF Gains
        <4>2. reversals[<<k, j>>] = NoRow \/ reversals[<<k, j>>].body.target # Fix[r].target
          BY <2>2, Room
        <4> QED BY <4>1, <4>2
      <3> QED BY <3>1, <3>2, <3>3, <3>4
    <2> QED BY <2>1, <2>2 DEF Gains
  <1>8. ASSUME NEW k \in Kinds, NEW i \in Ids, NEW j \in Ids, rows'[<<k, i>>] # NoRow, rows'[<<k, i>>].of = j
        PROVE  reversals'[<<k, j>>] # NoRow /\ reversals'[<<k, j>>].body.replacement = rows'[<<k, i>>].body
    <2>1. CASE rows'[<<k, i>>] = rows[<<k, i>>]
      BY <1>1, <1>5, <1>8, <2>1 DEF CorrectionsHoldTogether
    <2>2. ASSUME NEW b \in Inserts(r), k = Kind(r), rows'[<<k, i>>] = NewRow(r, b)
          PROVE  reversals'[<<k, j>>] # NoRow /\ reversals'[<<k, j>>].body.replacement = rows'[<<k, i>>].body
      <3>1. r \in Corrections /\ j = Fix[r].id
        <4>1. 0 \notin Ids
          BY IdentitiesAreOrdered
        <4> QED BY <1>2, <1>8, <2>2, <4>1, RequestsAreOfTwoKinds
      <3>2. b = Fix[r].replacement
        BY <3>1, InsertsAreBodies
      <3> QED BY <1>2, <1>3, <2>2, <3>1, <3>2 DEF Gains
    <2> QED BY <2>1, <2>2 DEF Gains
  <1>9. ASSUME NEW i \in Ids
        PROVE  rows'[<<"shift", i>>] = NoRow \/ reversals'[<<"shift", i>>] = NoRow
    <2>1. "shift" \in Kinds
      BY DEF Kinds
    <2>2. rows[<<"shift", i>>] = NoRow \/ reversals[<<"shift", i>>] = NoRow
      BY <1>1 DEF CorrectionsHoldTogether
    <2>3. rows'[<<"shift", i>>] = rows[<<"shift", i>>]
          \/ (Kind(r) = "shift" /\ \E b \in Inserts(r) : i = b.id)
      BY <2>1 DEF Gains
    <2>4. reversals'[<<"shift", i>>] = reversals[<<"shift", i>>]
          \/ (Kind(r) = "shift" /\ r \in Corrections /\ i = Fix[r].id)
      BY <2>1 DEF Gains
    <2>5. Kind(r) = "shift" =>
             /\ \A b \in Inserts(r) : reversals[<<"shift", b.id>>] = NoRow /\ (r \in Corrections => b.id # Fix[r].id)
             /\ r \in Corrections => rows[<<"shift", Fix[r].id>>] = NoRow
      BY Room
    <2> QED BY <2>2, <2>3, <2>4, <2>5
  <1>10. CorrectionsHoldTogether'
    BY <1>7, <1>8, <1>9 DEF CorrectionsHoldTogether
  <1> QED BY <1>10 DEF TablesOK, Gains

\* Of the records, it reverses its target and no other.
LEMMA NowReversed ==
    ASSUME Inv, NEW r \in Requests, pc[r] = "write", Gains(r), NEW k \in Kinds, NEW i \in Ids
    PROVE  Reversed(<<k, i>>)' <=> Reversed(<<k, i>>) \/ (r \in Corrections /\ k = Kind(r) /\ i = Fix[r].target)
  <1>1. r \in Corrections => /\ NewReversal(r) # NoRow /\ NewReversal(r).body = Fix[r] /\ Fix[r].id \in Ids
    BY NewRowsAreRows, InsertsAreBodies DEF NewReversal
  <1> HIDE DEF NewReversal
  <1>2. ASSUME Reversed(<<k, i>>)' PROVE Reversed(<<k, i>>) \/ (r \in Corrections /\ k = Kind(r) /\ i = Fix[r].target)
    <2>1. PICK id \in Ids : reversals'[<<k, id>>] # NoRow /\ reversals'[<<k, id>>].body.target = i
      BY <1>2 DEF Reversed
    <2>2. CASE reversals'[<<k, id>>] = reversals[<<k, id>>]
      BY <2>1, <2>2 DEF Reversed
    <2>3. CASE r \in Corrections /\ k = Kind(r) /\ reversals'[<<k, id>>] = NewReversal(r)
      BY <1>1, <2>1, <2>3
    <2> QED BY <2>2, <2>3 DEF Gains
  <1>3. ASSUME Reversed(<<k, i>>) PROVE Reversed(<<k, i>>)'
    <2>1. PICK id \in Ids : reversals[<<k, id>>] # NoRow /\ reversals[<<k, id>>].body.target = i
      BY <1>3 DEF Reversed
    <2>2. reversals'[<<k, id>>] = reversals[<<k, id>>]
      BY <2>1 DEF Gains
    <2> QED BY <2>1, <2>2 DEF Reversed
  <1>4. ASSUME r \in Corrections, k = Kind(r), i = Fix[r].target PROVE Reversed(<<k, i>>)'
    <2>1. reversals'[<<k, Fix[r].id>>] = NewReversal(r)
      BY <1>4 DEF Gains
    <2> QED BY <1>1, <1>4, <2>1 DEF Reversed
  <1> QED BY <1>2, <1>3, <1>4

\* The locks of the identities: what another request decided on stays as it was.
LEMMA OthersStillFit ==
    ASSUME Inv, NEW r \in Requests, pc[r] = "write", Gains(r), NEW q \in Requests \ {r}, Decided(q)
    PROVE  Recorded(q)' = NoRow /\ Fits(q)' /\ DaysOf(q)' = DaysOf(q)
  <1>1. Recorded(q) = NoRow /\ Fits(q)
    BY DEF Inv, RequestOK
  <1>2. Kind(q) = Kind(r) => IdsOf(r) \cap IdsOf(q) = {}
    BY IdentitiesAreApart DEF Inv, RequestOK, Decided
  <1>3. \A id \in IdsOf(q) : /\ rows'[<<Kind(q), id>>] = rows[<<Kind(q), id>>]
                             /\ reversals'[<<Kind(q), id>>] = reversals[<<Kind(q), id>>]
    <2>1. Kind(q) \in Kinds /\ IdsOf(q) \subseteq Ids
      BY InsertsAreBodies
    <2>2. (\A b \in Inserts(r) : b.id \in IdsOf(r)) /\ (r \in Corrections => Fix[r].id \in IdsOf(r))
      BY InsertsAreBodies
    <2> HIDE DEF NewRow, NewReversal
    <2> QED BY <1>2, <2>1, <2>2 DEF Gains
  <1>4. CASE q \in Creations
    <2>1. q \notin Corrections /\ Body[q].id \in IdsOf(q) /\ Kind(q) = Body[q].kind
      BY <1>4, InsertsAreBodies, RequestsAreOfTwoKinds DEF Kind
    <2>2. Recorded(q)' = NoRow
      BY <1>1, <1>3, <1>4, <2>1 DEF Recorded, Kind
    <2>3. ~Taken(Kind(q), Body[q].id)
      BY <1>1, <1>4 DEF Fits
    <2>4. ~Taken(Kind(q), Body[q].id)'
      BY <1>3, <2>1, <2>3 DEF Taken, Kind
    <2> QED BY <1>4, <2>1, <2>2, <2>4 DEF Fits, DaysOf, Kind, Inserts
  <1>5. CASE q \in Corrections
    <2>1. /\ q \notin Creations /\ Fix[q].id \in IdsOf(q) /\ Fix[q].target \in IdsOf(q) /\ Fix[q].target \in Ids
          /\ Kind(q) = Fix[q].kind /\ Kind(q) \in Kinds /\ \A b \in Inserts(q) : b.id \in IdsOf(q)
      BY <1>5, InsertsAreBodies, RequestsAreOfTwoKinds DEF Kind
    <2>2. Recorded(q)' = NoRow
      BY <1>1, <1>3, <2>1 DEF Recorded, Kind
    <2>3. /\ Kind(q) = "shift" => rows[<<Kind(q), Fix[q].id>>] = NoRow
          /\ rows[<<Kind(q), Fix[q].target>>] # NoRow
          /\ ~Reversed(<<Kind(q), Fix[q].target>>)
          /\ \A b \in Inserts(q) : ~Taken(Kind(q), b.id)
      BY <1>1, <1>5 DEF Fits
    <2>4. ~Reversed(<<Kind(q), Fix[q].target>>)'
      <3>1. r \in Corrections => Fix[r].target \in IdsOf(r)
        BY InsertsAreBodies
      <3>2. ~(r \in Corrections /\ Kind(q) = Kind(r) /\ Fix[q].target = Fix[r].target)
        BY <1>2, <2>1, <3>1
      <3> QED BY <2>1, <2>3, <3>2, NowReversed
    <2>5. \A b \in Inserts(q) : ~Taken(Kind(q), b.id)'
      BY <1>3, <2>1, <2>3 DEF Taken
    <2>6. rows'[<<Kind(q), Fix[q].target>>] = rows[<<Kind(q), Fix[q].target>>]
          /\ rows'[<<Kind(q), Fix[q].id>>] = rows[<<Kind(q), Fix[q].id>>]
      BY <1>3, <2>1
    <2>7. Kind(q)' = Kind(q) /\ Inserts(q)' = Inserts(q)
      BY DEF Kind, Inserts, Replacement
    <2>8. Fits(q)'
      BY <2>1, <2>3, <2>4, <2>5, <2>6, <2>7 DEF Fits
    <2>9. DaysOf(q)' = DaysOf(q)
      BY <2>1, <2>6, <2>7 DEF DaysOf
    <2> QED BY <2>2, <2>8, <2>9
  <1> QED BY <1>4, <1>5, RequestsAreOfTwoKinds

\* The locks of the days: the shifts that another request has counted stay the same.
LEMMA OthersStillCount ==
    ASSUME Inv, NEW r \in Requests, pc[r] = "write", Gains(r),
           NEW q \in Requests \ {r}, pc[q] = "write", Kind(q) = "shift", NEW b \in Inserts(q), NEW but
    PROVE  SameDay(b, but)' = SameDay(b, but)
  <1>1. DaysOf(r) \cap DaysOf(q) = {}
    BY DaysAreApart DEF Inv, RequestOK
  <1>2. <<b.subject, b.day>> \in DaysOf(q)
    BY DEF DaysOf
  <1>3. "shift" \in Kinds
    BY DEF Kinds
  <1>4. SUFFICES ASSUME NEW id \in Ids \ but
                 PROVE  (id \in SameDay(b, but))' <=> id \in SameDay(b, but)
    BY DEF SameDay
  <1> DEFINE key == <<"shift", id>>
             On(body) == body.subject = b.subject /\ body.day = b.day
  <1>5. /\ (id \in SameDay(b, but))' <=> rows'[key] # NoRow /\ ~Reversed(key)' /\ On(rows'[key].body)
        /\ id \in SameDay(b, but) <=> rows[key] # NoRow /\ ~Reversed(key) /\ On(rows[key].body)
    BY DEF SameDay
  <1>6. CASE rows'[key] = rows[key]
    <2>1. CASE Kind(r) = "shift" /\ r \in Corrections /\ id = Fix[r].target
      <3>1. <<rows[key].body.subject, rows[key].body.day>> \in DaysOf(r)
        BY <2>1, RequestsAreOfTwoKinds DEF DaysOf
      <3>2. ~On(rows[key].body)
        BY <1>1, <1>2, <3>1
      <3> QED BY <1>5, <1>6, <3>2
    <2>2. CASE ~(Kind(r) = "shift" /\ r \in Corrections /\ id = Fix[r].target)
      <3>1. Reversed(key)' <=> Reversed(key)
        BY <1>3, <1>4, <2>2, NowReversed
      <3> QED BY <1>5, <1>6, <3>1
    <2> QED BY <2>1, <2>2
  <1>7. ASSUME NEW c \in Inserts(r), Kind(r) = "shift", rows[key] = NoRow, rows'[key] = NewRow(r, c)
        PROVE  (id \in SameDay(b, but))' <=> id \in SameDay(b, but)
    <2>1. <<c.subject, c.day>> \in DaysOf(r)
      BY <1>7 DEF DaysOf
    <2>2. ~On(rows'[key].body)
      <3>1. rows'[key].body = c
        BY <1>7 DEF NewRow
      <3> QED BY <1>1, <1>2, <2>1, <3>1
    <2> QED BY <1>5, <1>7, <2>2
  <1> QED BY <1>3, <1>6, <1>7 DEF Gains

LEMMA WriteStep ==
    ASSUME Inv, NEW r \in Requests, NEW code, Write(r, code), UNCHANGED authorized
    PROVE  Inv'
  <1>1. /\ pc[r] = "write" /\ others' = [others EXCEPT ![r] = 0]
        /\ \/ Finish(r, code) /\ UNCHANGED tables
           \/ Finish(r, "201") /\ Gains(r)
    BY Written
  <1>2. /\ LocksOK' /\ pc'[r] = "done"
        /\ \A q \in Requests \ {r} : pc'[q] = pc[q] /\ held'[q] = held[q]
    BY <1>1, EndStep DEF Inv
  <1>3. /\ others' \in [Requests -> Nat]
        /\ \A q \in Requests \ {r} : others'[q] = others[q]
    BY <1>1 DEF Inv
  <1>4. RequestOK(r)'
    BY <1>2, Ended
  <1>5. CASE UNCHANGED tables
    BY <1>2, <1>3, <1>4, <1>5, QuietStep
  <1>6. CASE Gains(r)
    <2>1. TablesOK'
      BY <1>1, <1>6, WriteKeepsTables
    <2>2. ASSUME NEW q \in Requests \ {r} PROVE RequestOK(q)'
      <3>1. pc'[q] = pc[q] /\ held'[q] = held[q] /\ others'[q] = others[q] /\ RequestOK(q)
        BY <1>2, <1>3 DEF Inv
      <3>2. Acts(q)' = Acts(q) /\ Decided(q)' = Decided(q) /\ Checked(q)' = Checked(q)
        BY <3>1 DEF Acts, Decided, Checked
      <3>3. \A m : MayActAsSocio(m)' = MayActAsSocio(m) /\ \A k : Eligible(k, m)' = Eligible(k, m)
        BY DEF MayActAsSocio, MayAct, Eligible
      <3>4. Decided(q) => Recorded(q)' = NoRow /\ Fits(q)' /\ DaysOf(q)' = DaysOf(q)
        BY <1>1, <1>6, OthersStillFit
      <3>5. pc[q] = "write" /\ Kind(q) = "shift" => \A b \in Inserts(q) : SameDay(b, But(q))' = SameDay(b, But(q))
        BY <1>1, <1>6, OthersStillCount
      <3>6. pc[q] \in {"subject", "count", "write"} => Decided(q)
        BY DEF Decided
      <3> QED BY <3>1, <3>2, <3>3, <3>4, <3>5, <3>6 DEF RequestOK, ActorLock, IdLock, But
    <2> QED BY <1>2, <1>3, <1>4, <2>1, <2>2 DEF Inv
  <1> QED BY <1>1, <1>5, <1>6

-----------------------------------------------------------------------------
(* Every step. *)

LEMMA HandleStep ==
    ASSUME Inv, NEW r \in Requests, Handle(r)
    PROVE  Inv'
  <1>1. UNCHANGED authorized
    BY DEF Handle
  <1>2. \A b \in Inserts(r) : b.kind = Kind(r)
    BY InsertsAreBodies
  <1>3. CASE Receive(r)
    BY <1>1, <1>3, ReceiveStep
  <1>4. CASE lockIdentities(r)
    BY <1>1, <1>4, lockIdentitiesStep
  <1>5. CASE \E code : Write(r, code)
    BY <1>1, <1>5, WriteStep
  <1>6. CASE lockDays(r)
    BY <1>1, <1>6, lockDaysStep
  <1>7. CASE CountOthers(r)
    BY <1>1, <1>7, CountOthersStep
  <1>8. CASE Kind(r) \in {"contribution", "expense"} /\ Decide(r, SubjectOrWrite(r))
    BY <1>1, <1>8, DecideStep DEF SubjectOrWrite
  <1>9. CASE Kind(r) = "shift" /\ Decide(r, "days")
    BY <1>1, <1>9, DecideStep
  <1>10. CASE Kind(r) = "reserve" /\ Decide(r, "write")
    BY <1>1, <1>2, <1>10, DecideStep
  <1>11. CASE Kind(r) \in {"contribution", "expense"} /\ LockSubject(r, "write")
    BY <1>1, <1>11, LockSubjectStep
  <1>12. CASE Kind(r) = "shift" /\ LockSubject(r, "count")
    BY <1>1, <1>12, LockSubjectStep
  <1> QED
    BY <1>3, <1>4, <1>5, <1>6, <1>7, <1>8, <1>9, <1>10, <1>11, <1>12
       DEF Handle, Serve, Contribution, Expense, WorkShift, FinanceReserve

LEMMA RepeatStep ==
    ASSUME Inv, NEW r \in Requests, Repeat(r)
    PROVE  Inv'
  <1>1. /\ UNCHANGED <<tables, authorized, others, held, reply>>
        /\ pc' = [pc EXCEPT ![r] = "idle"]
    BY DEF Repeat, Resend
  <1>2. /\ LocksOK' /\ pc'[r] = "idle"
        /\ \A q \in Requests \ {r} : pc'[q] = pc[q] /\ held'[q] = held[q]
    BY <1>1 DEF Inv, LocksOK
  <1>3. RequestOK(r)'
    BY <1>2, Ended
  <1> QED BY <1>1, <1>2, <1>3, QuietStep DEF Inv

LEMMA EventStep ==
    ASSUME Inv, Event
    PROVE  Inv'
  <1>1. UNCHANGED tables /\ others' = [r \in Requests |-> IF pc'[r] = "done" THEN 0 ELSE others[r]]
    BY DEF Event
  <1>2. others' \in [Requests -> Nat] /\ TablesOK'
    BY <1>1, TablesKeep DEF Inv
  <1>3. ASSUME NEW q \in Requests, pc'[q] = "done" PROVE RequestOK(q)'
    BY <1>3, Ended
  <1>4. ASSUME UNCHANGED authorized, NEW q \in Requests, pc'[q] = pc[q], held'[q] = held[q], pc'[q] # "done"
        PROVE  RequestOK(q)'
    BY <1>1, <1>4, Keeps DEF Inv
  <1>5. ASSUME NEW r \in Requests, Expire(r) PROVE Inv'
    <2>1. /\ LocksOK' /\ pc'[r] = "done" /\ UNCHANGED authorized
          /\ \A q \in Requests \ {r} : pc'[q] = pc[q] /\ held'[q] = held[q]
      BY <1>5, EndStep DEF Inv, Expire
    <2> QED BY <1>2, <1>3, <1>4, <2>1 DEF Inv
  <1>6. ASSUME NEW i, DropHome(i), UNCHANGED authorized PROVE Inv'
    <2>1. \A q \in Requests : pc'[q] = "done" \/ (pc'[q] = pc[q] /\ held'[q] = held[q])
      BY <1>6 DEF DropHome
    <2> QED BY <1>2, <1>3, <1>4, <1>6, <2>1, DropStep DEF Inv
  <1>7. ASSUME NEW a \in Actors, Authority(a) PROVE Inv'
    <2>1. /\ UNCHANGED txVars /\ \A r \in Requests : Share(<<"actor", a>>) \notin held[r]
          /\ \A m \in Actors \ {a} : (m \in authorized') <=> (m \in authorized)
      BY <1>7 DEF Authority, Unshared, Revoke, Reinstate
    <2>2. LocksOK'
      BY <2>1 DEF Inv, LocksOK, txVars
    <2>3. ASSUME NEW q \in Requests PROVE RequestOK(q)'
      <3>1. CASE pc'[q] = "done"
        BY <1>3, <3>1
      <3>2. CASE pc'[q] # "done"
        <4>1. pc'[q] = pc[q] /\ held'[q] = held[q] /\ others'[q] = others[q] /\ RequestOK(q)
          BY <1>1, <2>1, <3>2 DEF Inv, txVars
        <4>2. /\ Recorded(q)' = Recorded(q) /\ Fits(q)' = Fits(q) /\ DaysOf(q)' = DaysOf(q)
              /\ \A b, but : SameDay(b, but)' = SameDay(b, but)
          BY <1>1, SameView
        <4>3. Acts(q)' = Acts(q) /\ Decided(q)' = Decided(q)
          BY <4>1 DEF Acts, Decided
        <4>4. ActorLock(q) \in held[q] /\ MayActAsSocio(ActorOf[q]) => MayActAsSocio(ActorOf[q])'
          BY <2>1, ActorOfIsActor DEF ActorLock, MayActAsSocio
        <4>5. ASSUME NEW b \in Inserts(q), Share(<<"actor", b.subject>>) \in held[q], Eligible(b.kind, b.subject)
              PROVE  Eligible(b.kind, b.subject)'
          <5>1. b.subject \in Actors \ {a}
            BY <2>1, <4>5, InsertsAreBodies DEF Bodies
          <5> QED BY <2>1, <4>5, <5>1 DEF Eligible, MayActAsSocio, MayAct
        <4> QED BY <4>1, <4>2, <4>3, <4>4, <4>5 DEF RequestOK, Checked, ActorLock, IdLock, But
      <3> QED BY <3>1, <3>2
    <2> QED BY <1>2, <2>2, <2>3 DEF Inv
  <1> QED BY <1>5, <1>6, <1>7 DEF Event

LEMMA QuietInv == ASSUME Inv, UNCHANGED <<txVars, authorized, tables, others>> PROVE Inv'
  <1>1. /\ LocksOK' /\ UNCHANGED <<tables, authorized>> /\ others' \in [Requests -> Nat]
        /\ \A q \in Requests : pc'[q] = pc[q] /\ held'[q] = held[q] /\ others'[q] = others[q]
    BY DEF Inv, LocksOK, txVars
  <1>2. TablesOK' /\ \A q \in Requests : RequestOK(q)'
    BY <1>1, TablesKeep, Keeps DEF Inv
  <1> QED BY <1>1, <1>2 DEF Inv

LEMMA Initially == Init => Inv
  <1> SUFFICES ASSUME Init PROVE Inv
    OBVIOUS
  <1>1. PICK homes \in Homes : TxInit(homes)
    BY DEF Init
  <1>2. /\ LocksOK /\ others \in [Requests -> Nat]
        /\ \A r \in Requests : pc[r] \in {"away", "idle", "done"}
    BY <1>1 DEF TxInit, LocksOK, Init
  <1>3. \A r \in Requests : RequestOK(r)
    BY <1>2 DEF RequestOK, Acts, Decided
  <1>4. rows = Filed /\ reversals = [key \in Keys |-> NoRow] /\ 0 \notin Ids
    BY IdentitiesAreOrdered DEF Init
  <1>5. \A k \in Kinds, i \in Ids : /\ reversals[<<k, i>>] = NoRow
                                    /\ rows[<<k, i>>] = NoRow \/ rows[<<k, i>>].of = 0
    BY <1>4, FiledIsRecorded DEF Keys
  <1>6. TablesOK
    <2>1. \A i \in Ids : reversals[<<"shift", i>>] = NoRow
      BY <1>5 DEF Kinds
    <2>2. CorrectionsHoldTogether
      BY <1>4, <1>5, <2>1 DEF CorrectionsHoldTogether
    <2>3. rows \in [Keys -> Rows \cup {NoRow}] /\ reversals \in [Keys -> Reversals \cup {NoRow}]
      BY <1>4, FiledIsRecorded
    <2> QED BY <2>2, <2>3 DEF TablesOK
  <1> QED BY <1>2, <1>3, <1>6 DEF Inv

\* Every step keeps the invariant.
LEMMA EveryStep == Inv /\ [Next]_vars => Inv'
  <1> SUFFICES ASSUME Inv, [Next]_vars PROVE Inv'
    OBVIOUS
  <1>1. CASE \E r \in Requests : Handle(r)
    BY <1>1, HandleStep
  <1>2. CASE \E r \in Requests : Repeat(r)
    BY <1>2, RepeatStep
  <1>3. CASE list
    BY <1>3, QuietInv DEF list
  <1>4. CASE Event
    BY <1>4, EventStep
  <1>5. CASE UNCHANGED vars
    BY <1>5, QuietInv DEF vars
  <1> QED BY <1>1, <1>2, <1>3, <1>4, <1>5 DEF Next, Finished

LEMMA OnlyWritesRecord ==
    ASSUME [Next]_vars
    PROVE  UNCHANGED tables \/ \E r \in Requests : \E code : Write(r, code)
  <1>1. CASE \E r \in Requests : Handle(r)
    BY <1>1 DEF Handle, Receive, Serve, Contribution, Expense, WorkShift, FinanceReserve,
                lockIdentities, Decide, lockDays, LockSubject, CountOthers
  <1>2. CASE \E r \in Requests : Repeat(r)
    BY <1>2 DEF Repeat
  <1>3. CASE list \/ Event \/ UNCHANGED vars
    BY <1>3 DEF list, Event, vars
  <1> QED BY <1>1, <1>2, <1>3 DEF Next, Finished

\* Once a shift is recorded, the others of its day are those that were counted.
LEMMA WarningIsExact ==
    ASSUME Inv, NEW r \in Requests, pc[r] = "write", Gains(r), Kind(r) = "shift", NEW b \in Inserts(r)
    PROVE  rows'[<<"shift", b.id>>].others = Cardinality(SameDay(b, {b.id})')
  <1>1. rows'[<<"shift", b.id>>] = NewRow(r, b) /\ others[r] = Cardinality(SameDay(b, But(r)))
    BY DEF Gains, Inv, RequestOK
  <1>2. rows[<<"shift", b.id>>] = NoRow
    BY Room
  <1>3. "shift" \in Kinds
    BY DEF Kinds
  <1>4. ASSUME NEW id \in Ids PROVE (id \in SameDay(b, {b.id}))' <=> id \in SameDay(b, But(r))
    <2> DEFINE key == <<"shift", id>>
               On(body) == body.subject = b.subject /\ body.day = b.day
    <2>1. /\ (id \in SameDay(b, {b.id}))' <=>
                id # b.id /\ rows'[key] # NoRow /\ ~Reversed(key)' /\ On(rows'[key].body)
          /\ id \in SameDay(b, But(r)) <=>
                id \notin But(r) /\ rows[key] # NoRow /\ ~Reversed(key) /\ On(rows[key].body)
      BY DEF SameDay
    <2>2. id # b.id => rows'[key] = rows[key]
      <3>1. \A c \in Inserts(r) : c = b
        BY InsertsAreBodies
      <3> QED BY <1>3, <3>1 DEF Gains
    <2>3. Reversed(key)' <=> Reversed(key) \/ id \in But(r)
      BY <1>3, NowReversed, RequestsAreOfTwoKinds DEF But
    <2> QED BY <1>2, <2>1, <2>2, <2>3
  <1>5. SameDay(b, {b.id})' = SameDay(b, But(r))
    <2>1. SameDay(b, {b.id})' \subseteq Ids /\ SameDay(b, But(r)) \subseteq Ids
      BY DEF SameDay
    <2> QED BY <1>4, <2>1
  <1> QED BY <1>1, <1>5 DEF NewRow

LEMMA WarningStep ==
    ASSUME Inv, [Next]_vars, NEW i \in Ids, rows[<<"shift", i>>] = NoRow, rows'[<<"shift", i>>] # NoRow
    PROVE  rows'[<<"shift", i>>].others = Cardinality(SameDay(rows[<<"shift", i>>].body, {i}))'
  <1>1. PICK r \in Requests : pc[r] = "write" /\ Gains(r)
    BY OnlyWritesRecord, Written DEF tables
  <1>2. PICK b \in Inserts(r) : Kind(r) = "shift" /\ i = b.id /\ rows'[<<"shift", i>>] = NewRow(r, b)
    BY <1>1 DEF Gains, Kinds
  <1>3. rows'[<<"shift", i>>].body = b
    BY <1>2 DEF NewRow
  <1>4. SameDay(rows[<<"shift", i>>].body, {i})' = SameDay(b, {b.id})'
    BY <1>2, <1>3 DEF SameDay
  <1> QED BY <1>1, <1>2, <1>4, WarningIsExact

-----------------------------------------------------------------------------
(***************************************************************************)
(* Whoever is past the decision holds every identity it named, sees none   *)
(* of them taken, and holds the day and the member it is about; what it    *)
(* counted is still what it would count.                                   *)
(***************************************************************************)
THEOREM RecordsStayOrderly == Spec => []Inv
  <1>1. Init => Inv
    BY Initially
  <1>2. Inv /\ [Next]_vars => Inv'
    BY EveryStep
  <1> QED BY <1>1, <1>2, PTL DEF Spec

(***************************************************************************)
(* A reversal and its replacement are recorded together, no record is      *)
(* reversed twice, and shifts share no identity with their reversals.      *)
(***************************************************************************)
THEOREM CorrectionsStayTogether == Spec => []CorrectionsHoldTogether
  <1>1. Inv => CorrectionsHoldTogether
    BY DEF Inv, TablesOK
  <1> QED BY <1>1, RecordsStayOrderly, PTL

(***************************************************************************)
(* The warning of a shift counts exactly the other live shifts of the      *)
(* member's day, however many shifts of that day are filed at once: each   *)
(* holds the day from before it counts until it is committed.              *)
(***************************************************************************)
THEOREM ReceiptsAreExact == Spec => WarningsAreExact
  <1> DEFINE A == \A i \in Ids :
                     LET key == <<"shift", i>>
                     IN  (rows[key] = NoRow /\ rows'[key] # NoRow) =>
                            rows'[key].others = Cardinality(SameDay(rows[key].body, {i}))'
  <1>1. Inv /\ [Next]_vars => A
    BY WarningStep
  <1>2. Inv /\ [Next]_vars => [A]_vars
    BY <1>1
  <1> HIDE DEF A
  <1>3. Spec => [][A]_vars
    BY <1>2, RecordsStayOrderly, PTL DEF Spec
  <1> QED BY <1>3 DEF WarningsAreExact, A

(***************************************************************************)
(* No record or reversal is committed for, or by, somebody who is out.     *)
(***************************************************************************)
THEOREM NobodyOutIsRecorded == Spec => OnlyForThoseInForce
  <1> DEFINE A == \A r \in Requests :
                     (pc[r] = "write" /\ reply'[r] = "201") =>
                        /\ MayActAsSocio(ActorOf[r])
                        /\ \A b \in Inserts(r) : b.kind = "reserve" \/ Eligible(b.kind, b.subject)
  <1>1. Inv => A
    BY DEF Inv, RequestOK, Acts
  <1>2. Inv /\ [Next]_vars => [A]_vars
    BY <1>1
  <1> HIDE DEF A
  <1>3. Spec => [][A]_vars
    BY <1>2, RecordsStayOrderly, PTL DEF Spec
  <1> QED BY <1>3 DEF OnlyForThoseInForce, A

-----------------------------------------------------------------------------
(* The list by pages. *)

\* A finite set that a transitive relation orders has an element that nothing comes before.
LEMMA HasFirst ==
    ASSUME NEW S, IsFiniteSet(S), S # {}, NEW R,
           \A i \in S : <<i, i>> \notin R,
           \A i, j, k \in S : <<i, j>> \in R /\ <<j, k>> \in R => <<i, k>> \in R
    PROVE  \E i \in S : \A j \in S : <<j, i>> \notin R
  <1> DEFINE Ahead(i) == {j \in S : <<j, i>> \in R}
             C == {Ahead(i) : i \in S}
  <1>1. C \in SUBSET SUBSET S /\ C # {}
    <2>1. \A i \in S : Ahead(i) \in SUBSET S
      OBVIOUS
    <2>2. PICK i \in S : TRUE
      OBVIOUS
    <2> HIDE DEF Ahead
    <2>3. Ahead(i) \in C
      OBVIOUS
    <2> QED BY <2>1, <2>3
  <1>2. \E T \in C : \A U \in C : U \subseteq T => U = T
    <2> HIDE DEF C
    <2> QED BY <1>1, SmallestSubset
  <1>2a. PICK T \in C : \A U \in C : U \subseteq T => U = T
    BY <1>2
  <1>3. PICK i \in S : T = Ahead(i)
    BY <1>2a
  <1>4. ASSUME NEW j \in S, <<j, i>> \in R PROVE FALSE
    <2>1. Ahead(j) \in C /\ Ahead(j) \subseteq T
      BY <1>3, <1>4
    <2>2. j \in T /\ j \notin Ahead(j)
      BY <1>3, <1>4
    <2> QED BY <1>2a, <2>1, <2>2
  <1> QED BY <1>4

\* The ids that have a row, and how the list orders them.
HasRow(id) == id \in Ids /\ rows[<<Listed, id>>] # NoRow

LEMMA ListIsOrdered ==
    ASSUME Inv
    PROVE  /\ \A i : HasRow(i) => Day(i) \in Nat /\ i \in Nat
           /\ \A i : HasRow(i) => ~Precedes(i, i)
           /\ \A i, j, k : HasRow(i) /\ HasRow(j) /\ HasRow(k) /\ Precedes(i, j) /\ Precedes(j, k) => Precedes(i, k)
           /\ \A i, j : HasRow(i) /\ HasRow(j) => Precedes(i, j) \/ Precedes(j, i) \/ i = j
           /\ Shown \subseteq {i \in Ids : HasRow(i)}
  <1>1. ASSUME NEW i, HasRow(i) PROVE Day(i) \in Nat /\ i \in Nat
    <2>1. rows[<<Listed, i>>] \in Rows
      BY <1>1, ListedIsAKind DEF HasRow, Inv, TablesOK, Keys
    <2>2. rows[<<Listed, i>>].body \in Bodies
      BY <2>1 DEF Rows
    <2> QED BY <1>1, <2>2, IdentitiesAreOrdered DEF Day, Bodies, HasRow
  <1>2. Shown \subseteq {i \in Ids : HasRow(i)}
    BY DEF Shown, HasRow
  <1> HIDE DEF HasRow, Day
  <1>3. \A i : HasRow(i) => ~Precedes(i, i)
    BY <1>1 DEF Precedes
  <1>4. \A i, j, k : HasRow(i) /\ HasRow(j) /\ HasRow(k) /\ Precedes(i, j) /\ Precedes(j, k) => Precedes(i, k)
    BY <1>1 DEF Precedes
  <1>5. \A i, j : HasRow(i) /\ HasRow(j) => Precedes(i, j) \/ Precedes(j, i) \/ i = j
    BY <1>1 DEF Precedes
  <1> QED BY <1>1, <1>2, <1>3, <1>4, <1>5

\* A page is the beginning of what is left, and has a last row.
LEMMA PageIsFirst ==
    ASSUME Inv, NEW rest, rest \subseteq Shown, NEW page,
           page = {i \in rest : Cardinality({j \in rest : Precedes(j, i)}) < Limit}
    PROVE  /\ page = {} => rest = {}
           /\ page # {} => \E m \in page : \A j \in page \ {m} : Precedes(j, m)
           /\ \A i \in page, j \in rest : Precedes(j, i) => j \in page
  <1> DEFINE Up(i) == {j \in rest : Precedes(j, i)}
  <1>1. /\ \A i \in rest : HasRow(i) /\ ~Precedes(i, i)
        /\ \A i, j, k \in rest : Precedes(i, j) /\ Precedes(j, k) => Precedes(i, k)
        /\ \A i, j \in rest : Precedes(i, j) \/ Precedes(j, i) \/ i = j
    BY ListIsOrdered
  <1>2. IsFiniteSet(rest) /\ page \subseteq rest /\ IsFiniteSet(page)
    <2>1. rest \subseteq Ids /\ page \subseteq rest
      BY DEF Shown
    <2> QED BY <2>1, IdentitiesAreOrdered, FS_Subset
  <1>3. \A i \in rest : IsFiniteSet(Up(i)) /\ Cardinality(Up(i)) \in Nat
    BY <1>2, FS_Subset, FS_CardinalityType
  <1>4. \A i \in rest : i \in page <=> Cardinality(Up(i)) < Limit
    OBVIOUS
  <1>5. ASSUME rest # {} PROVE page # {}
    <2> DEFINE R == {x \in rest \X rest : Precedes(x[1], x[2])}
    <2>1. /\ \A i \in rest : <<i, i>> \notin R
          /\ \A i, j, k \in rest : <<i, j>> \in R /\ <<j, k>> \in R => <<i, k>> \in R
          /\ \A i, j \in rest : <<i, j>> \in R <=> Precedes(i, j)
      BY <1>1
    <2> HIDE DEF R
    <2>2. PICK i \in rest : \A j \in rest : <<j, i>> \notin R
      BY <1>2, <1>5, <2>1, HasFirst
    <2>3. Up(i) = {}
      BY <2>1, <2>2
    <2>4. Cardinality(Up(i)) = 0
      BY <2>3, FS_EmptySet
    <2> QED BY <1>4, <2>4, RecordBounds
  <1>6. ASSUME page # {} PROVE \E m \in page : \A j \in page \ {m} : Precedes(j, m)
    <2> DEFINE R == {x \in rest \X rest : Precedes(x[2], x[1])}
    <2>1. /\ \A i \in page : <<i, i>> \notin R
          /\ \A i, j, k \in page : <<i, j>> \in R /\ <<j, k>> \in R => <<i, k>> \in R
          /\ \A i, j \in page : <<i, j>> \in R <=> Precedes(j, i)
      BY <1>1, <1>2
    <2> HIDE DEF R
    <2>2. \A S : /\ IsFiniteSet(S) /\ S # {} /\ \A i \in S : <<i, i>> \notin R
                 /\ \A i, j, k \in S : <<i, j>> \in R /\ <<j, k>> \in R => <<i, k>> \in R
                 => \E m \in S : \A j \in S : <<j, m>> \notin R
      BY HasFirst
    <2>3. PICK m \in page : \A j \in page : <<j, m>> \notin R
      BY <1>2, <1>6, <2>1, <2>2
    <2> QED BY <1>1, <1>2, <2>1, <2>3
  <1>7. ASSUME NEW i \in page, NEW j \in rest, Precedes(j, i) PROVE j \in page
    <2>1. Up(j) \subseteq Up(i) /\ i \in rest
      BY <1>1, <1>2, <1>7
    <2>2. Cardinality(Up(j)) <= Cardinality(Up(i))
      BY <1>3, <2>1, FS_Subset
    <2>3. Cardinality(Up(i)) < Limit /\ Cardinality(Up(i)) \in Nat /\ Cardinality(Up(j)) \in Nat
      BY <1>3, <1>4, <2>1
    <2>4. Cardinality(Up(j)) < Limit
      BY <2>2, <2>3, RecordBounds
    <2> QED BY <1>4, <2>4
  <1> QED BY <1>5, <1>6, <1>7

\* Rows stay as they are, and what is hidden stays hidden.
LEMMA RowsStay ==
    ASSUME Inv, [Next]_vars
    PROVE  \A i : HasRow(i) => /\ HasRow(i)' /\ rows'[<<Listed, i>>] = rows[<<Listed, i>>]
                               /\ (i \in Shown)' => i \in Shown
  <1> SUFFICES ASSUME NEW i, HasRow(i)
               PROVE  /\ HasRow(i)' /\ rows'[<<Listed, i>>] = rows[<<Listed, i>>]
                      /\ (i \in Shown)' => i \in Shown
    OBVIOUS
  <1>1. CASE UNCHANGED tables
    BY <1>1 DEF tables, HasRow, Shown, Reversed
  <1>2. ASSUME NEW r \in Requests, Gains(r)
        PROVE  /\ HasRow(i)' /\ rows'[<<Listed, i>>] = rows[<<Listed, i>>]
               /\ (i \in Shown)' => i \in Shown
    <2>1. rows'[<<Listed, i>>] = rows[<<Listed, i>>]
      BY <1>2, ListedIsAKind DEF Gains, HasRow
    <2>2. \A j \in Ids : reversals[<<Listed, j>>] # NoRow => reversals'[<<Listed, j>>] = reversals[<<Listed, j>>]
      BY <1>2, ListedIsAKind DEF Gains
    <2>3. Reversed(<<Listed, i>>) => Reversed(<<Listed, i>>)'
      BY <2>2 DEF Reversed
    <2> QED BY <2>1, <2>3 DEF HasRow, Shown
  <1> QED BY <1>1, <1>2, OnlyWritesRecord, Written

\* What the reader has got so far is what comes up to its cursor, once each; of the rows that were there when
\* it began it has missed none that is still shown and comes up to its cursor.
Caught(i) == walk.got[i] = 1
Behind(i) == HasRow(i) /\ ~Precedes(walk.cursor, i)

WalkInd ==
    /\ \A i \in walk.began : HasRow(i)
    /\ walk.more /\ walk.cursor = NoRow => walk.got = << >>
    /\ walk.cursor # NoRow =>
          /\ HasRow(walk.cursor) /\ walk.got \in [Ids -> 0..1]
          /\ \A i \in Ids : Caught(i) => Behind(i)
          /\ \A i \in walk.began \cap Shown : Caught(i) \/ Precedes(walk.cursor, i)
    /\ walk.got = << >> => walk.began = {}
    /\ PagesMissNothing

\* Whatever is recorded or reversed meanwhile, the reader is where it was.
LEMMA ReaderWaits ==
    ASSUME Inv, WalkInd, [Next]_vars, UNCHANGED walk
    PROVE  WalkInd'
  <1>1. \A i : HasRow(i) => /\ HasRow(i)' /\ rows'[<<Listed, i>>] = rows[<<Listed, i>>]
                            /\ (i \in Shown)' => i \in Shown
    BY RowsStay
  <1>2. \A i, j : HasRow(i) /\ HasRow(j) => (Precedes(i, j)' <=> Precedes(i, j))
    BY <1>1 DEF Precedes, Day
  <1>3. \A i \in walk.began : HasRow(i) /\ (i \in Shown' => i \in Shown)
    BY <1>1 DEF WalkInd
  <1>4. PagesMissNothing'
    BY <1>3 DEF WalkInd, PagesMissNothing
  <1>5. ASSUME walk.cursor # NoRow
        PROVE  /\ HasRow(walk.cursor)'
               /\ \A i \in Ids : Caught(i) => Behind(i)'
               /\ \A i \in walk.began \cap Shown' : Caught(i) \/ Precedes(walk.cursor, i)'
    <2>1. /\ HasRow(walk.cursor) /\ \A i \in Ids : Caught(i) => Behind(i)
          /\ \A i \in walk.began \cap Shown : Caught(i) \/ Precedes(walk.cursor, i)
      BY <1>5 DEF WalkInd
    <2>2. HasRow(walk.cursor)'
      BY <1>1, <2>1 DEF HasRow
    <2>3. ASSUME NEW i, HasRow(i) PROVE Precedes(walk.cursor, i)' <=> Precedes(walk.cursor, i)
      BY <1>2, <2>1, <2>3 DEF Precedes, Day
    <2>4. ASSUME NEW i \in Ids, Caught(i) PROVE Behind(i)'
      <3>1. HasRow(i) /\ ~Precedes(walk.cursor, i)
        BY <2>1, <2>4 DEF Behind
      <3> QED BY <1>1, <2>3, <3>1 DEF Behind
    <2>5. ASSUME NEW i \in walk.began, i \in Shown' PROVE Caught(i) \/ Precedes(walk.cursor, i)'
      <3>1. HasRow(i) /\ i \in Shown
        BY <1>3, <2>5
      <3> QED BY <2>1, <2>3, <3>1
    <2> QED BY <2>2, <2>4, <2>5
  <1>6. /\ \A i \in walk'.began : HasRow(i)'
        /\ walk'.more /\ walk'.cursor = NoRow => walk'.got = << >>
        /\ walk'.got = << >> => walk'.began = {}
        /\ walk'.cursor # NoRow => walk'.got \in [Ids -> 0..1]
    BY <1>1, <1>3 DEF WalkInd
  <1> QED BY <1>4, <1>5, <1>6 DEF WalkInd, Caught

\* A page more: nothing on it was there before, and nothing before its last row is left out.
LEMMA ListStep ==
    ASSUME Inv, WalkInd, list
    PROVE  WalkInd'
  <1> DEFINE rest == After(walk.cursor)
             page == {i \in rest : Cardinality({j \in rest : Precedes(j, i)}) < Limit}
             last == CHOOSE i \in page : \A j \in page \ {i} : Precedes(j, i)
             had(i) == IF walk.got = << >> THEN 0 ELSE walk.got[i]
             start == IF walk.got = << >> THEN Shown ELSE walk.began
             seen == [i \in Ids |-> had(i) + IF i \in page THEN 1 ELSE 0]
  <1>1. /\ walk.more
        /\ walk' = [cursor |-> IF page = {} THEN NoRow ELSE last, got |-> seen, more |-> page # rest, began |-> start]
        /\ UNCHANGED <<rows, reversals>>
    BY DEF list, tables
  <1>2. /\ rest \subseteq Shown /\ page \subseteq rest
        /\ \A i \in Shown : HasRow(i) /\ i \in Ids
    BY DEF After, Shown, HasRow
  <1>3. /\ \A i \in Ids : had(i) \in 0..1 /\ (i \in rest => had(i) = 0)
        /\ \A i \in Ids : had(i) = 1 => HasRow(i) /\ \A m \in rest : ~Precedes(m, i)
        /\ \A i \in start \cap Shown : had(i) = 1 \/ i \in rest
        /\ \A i \in start : HasRow(i)
    <2>1. CASE walk.cursor = NoRow
      <3>1. walk.got = << >>
        BY <1>1, <2>1 DEF WalkInd
      <3>2. rest = Shown
        BY <2>1 DEF After
      <3> QED BY <1>2, <3>1, <3>2
    <2>2. CASE walk.cursor # NoRow
      <3>1. /\ HasRow(walk.cursor) /\ walk.got \in [Ids -> 0..1]
            /\ \A i \in Ids : Caught(i) => Behind(i)
            /\ \A i \in walk.began \cap Shown : Caught(i) \/ Precedes(walk.cursor, i)
            /\ \A i \in walk.began : HasRow(i)
        BY <2>2 DEF WalkInd
      <3>2. walk.got # << >>
        <4>1. walk.cursor \in Ids /\ DOMAIN walk.got = Ids
          BY <3>1 DEF HasRow
        <4>2. DOMAIN << >> = {}
          OBVIOUS
        <4> QED BY <4>1, <4>2
      <3>3. rest = {i \in Shown : Precedes(walk.cursor, i)}
        BY <2>2 DEF After
      <3>4. \A i : had(i) = walk.got[i] /\ start = walk.began
        BY <3>2
      <3> HIDE DEF rest, had, start, page
      <3>5. ASSUME NEW i \in Ids
            PROVE  had(i) \in 0..1 /\ (i \in rest => had(i) = 0)
        <4>1. had(i) \in 0..1 /\ (had(i) = 1 <=> Caught(i))
          BY <3>1, <3>4 DEF Caught
        <4>2. i \in rest => ~Caught(i)
          BY <3>1, <3>3 DEF Behind
        <4> QED BY <4>1, <4>2
      <3>6. ASSUME NEW i \in Ids, had(i) = 1, NEW m \in rest
            PROVE  ~Precedes(m, i)
        <4>1. HasRow(i) /\ ~Precedes(walk.cursor, i)
          BY <3>1, <3>4, <3>6 DEF Caught, Behind
        <4>2. HasRow(m) /\ Precedes(walk.cursor, m)
          BY <1>2, <3>3
        <4> QED BY <3>1, <4>1, <4>2, ListIsOrdered
      <3>7. \A i \in Ids : had(i) = 1 => HasRow(i)
        BY <3>1, <3>4 DEF Caught, Behind
      <3>8. \A i \in start \cap Shown : had(i) = 1 \/ i \in rest
        BY <3>1, <3>3, <3>4 DEF Caught
      <3> QED BY <3>1, <3>4, <3>5, <3>6, <3>7, <3>8
    <2> QED BY <2>1, <2>2
  <1>4. /\ page = {} => rest = {}
        /\ page # {} => \E m \in page : \A j \in page \ {m} : Precedes(j, m)
        /\ \A i \in page, j \in rest : Precedes(j, i) => j \in page
    BY <1>2, PageIsFirst
  <1>5. page # {} => last \in page /\ \A j \in page \ {last} : Precedes(j, last)
    BY <1>4
  <1>6. /\ walk'.got = seen /\ walk'.began = start
        /\ walk'.more = (page # rest)
        /\ walk'.cursor = IF page = {} THEN NoRow ELSE last
    BY <1>1
  <1>7. \A i \in Ids : seen[i] \in 0..1 /\ (seen[i] = 1 <=> had(i) = 1 \/ i \in page)
    <2>1. \A i \in Ids : seen[i] = had(i) + IF i \in page THEN 1 ELSE 0
      OBVIOUS
    <2> HIDE DEF seen, had, page, rest
    <2> QED BY <1>2, <1>3, <2>1
  <1>8. seen \in [Ids -> 0..1] /\ (seen = << >> => Ids = {})
    <2>1. DOMAIN seen = Ids /\ seen = [i \in Ids |-> seen[i]]
      OBVIOUS
    <2>2. DOMAIN << >> = {}
      OBVIOUS
    <2> HIDE DEF seen
    <2> QED BY <1>7, <2>1, <2>2
  <1>9. /\ Shown' = Shown /\ \A i : HasRow(i)' <=> HasRow(i)
        /\ \A i, j : Precedes(i, j)' <=> Precedes(i, j)
    BY <1>1 DEF Shown, HasRow, Precedes, Day, Reversed
  <1> HIDE DEF page, rest, last, had, start, seen
  <1>10. \A i \in Ids : Caught(i)' <=> had(i) = 1 \/ i \in page
    BY <1>6, <1>7 DEF Caught
  <1>11. ASSUME page # {}
         PROVE  /\ HasRow(last) /\ last \in rest
                /\ \A i \in Ids : Caught(i)' => HasRow(i) /\ ~Precedes(last, i)
                /\ \A i \in start \cap Shown : Caught(i)' \/ Precedes(last, i)
    <2>1. HasRow(last) /\ last \in rest /\ last \in page
      BY <1>2, <1>5, <1>11
    <2>2. ASSUME NEW i \in Ids, Caught(i)' PROVE HasRow(i) /\ ~Precedes(last, i)
      <3>1. CASE had(i) = 1
        BY <1>3, <2>1, <3>1
      <3>2. CASE i \in page
        <4>1. HasRow(i) /\ (i = last \/ Precedes(i, last))
          BY <1>2, <1>5, <1>11, <3>2
        <4> QED BY <2>1, <4>1, ListIsOrdered
      <3> QED BY <1>10, <2>2, <3>1, <3>2
    <2>3. ASSUME NEW i \in start \cap Shown PROVE Caught(i)' \/ Precedes(last, i)
      <3>1. HasRow(i) /\ i \in Ids
        BY <1>2
      <3>2. CASE i \in rest /\ i \notin page
        <4>1. ~Precedes(i, last) /\ i # last
          BY <1>4, <2>1, <3>2
        <4> QED BY <2>1, <3>1, <4>1, ListIsOrdered
      <3> QED BY <1>3, <1>10, <3>1, <3>2
    <2> QED BY <2>1, <2>2, <2>3
  <1>12. /\ walk'.cursor # NoRow => page # {} /\ walk'.cursor = last
         /\ walk'.cursor = NoRow => page = {}
    <2>1. page # {} => last \in Ids /\ last # NoRow
      BY <1>11, NoRowIsNone DEF HasRow
    <2> QED BY <1>6, <2>1
  <1>13. PagesMissNothing'
    <2>1. \A i \in Ids : walk'.got[i] <= 1
      BY <1>6, <1>7
    <2>2. ASSUME ~walk'.more, NEW i \in start, i \in Shown PROVE walk'.got[i] = 1
      BY <1>2, <1>3, <1>6, <1>7, <2>2
    <2> QED BY <1>6, <1>9, <2>1, <2>2 DEF PagesMissNothing
  <1>14. walk'.more /\ walk'.cursor = NoRow => walk'.got = << >>
    BY <1>2, <1>4, <1>6, <1>12
  <1>15. walk'.got = << >> => walk'.began = {}
    BY <1>3, <1>6, <1>8 DEF HasRow
  <1>16. \A i \in walk'.began : HasRow(i)'
    BY <1>3, <1>6, <1>9
  <1>17. ASSUME walk'.cursor # NoRow
         PROVE  /\ HasRow(walk.cursor)' /\ walk'.got \in [Ids -> 0..1]
                /\ \A i \in Ids : Caught(i)' => Behind(i)'
                /\ \A i \in walk'.began \cap Shown' : Caught(i)' \/ Precedes(walk.cursor, i)'
    <2>1. page # {} /\ walk'.cursor = last
      BY <1>12, <1>17
    <2>2. \A i : Precedes(walk.cursor, i)' <=> Precedes(last, i)
      BY <1>1, <2>1 DEF Precedes, Day
    <2>3. HasRow(walk.cursor)'
      BY <1>1, <1>11, <2>1 DEF HasRow
    <2>4. \A i \in Ids : Caught(i)' => Behind(i)'
      BY <1>9, <1>11, <2>1, <2>2 DEF Behind
    <2>5. \A i \in walk'.began \cap Shown' : Caught(i)' \/ Precedes(walk.cursor, i)'
      BY <1>6, <1>9, <1>11, <2>1, <2>2
    <2> QED BY <1>6, <1>8, <2>3, <2>4, <2>5
  <1> QED BY <1>13, <1>14, <1>15, <1>16, <1>17 DEF WalkInd

(* Somebody who reads the list by pages, each from the day and the id of   *)
(* the last row of the one before, gets every record that was there when   *)
(* the reading began and is still shown when it ends, and none twice:      *)
(* whatever number of rows a page has, and whatever is recorded, before or *)
(* after the cursor, and reversed between two pages.                       *)
THEOREM PagesAreWhole == Spec => []PagesMissNothing
  <1>1. Init => WalkInd
    <2>1. Init => walk.cursor = NoRow /\ walk.got = << >> /\ walk.began = {}
      BY DEF Init, Reader
    <2> QED BY <2>1 DEF WalkInd, PagesMissNothing
  <1>2. Inv /\ WalkInd /\ [Next]_vars => WalkInd'
    <2> SUFFICES ASSUME Inv, WalkInd, [Next]_vars PROVE WalkInd'
      OBVIOUS
    <2>1. list \/ UNCHANGED walk
      BY DEF Next, Handle, Repeat, Event, Finished, vars
    <2> QED BY <2>1, ListStep, ReaderWaits
  <1>3. WalkInd => PagesMissNothing
    BY DEF WalkInd
  <1> QED BY <1>1, <1>2, <1>3, RecordsStayOrderly, PTL DEF Spec

=============================================================================
