--------------------------- MODULE Finance_proofs ---------------------------
(***************************************************************************)
(* For any submissions, bodies, processes and bounds: what the locks and   *)
(* the snapshots of the agreements and of their payments are for.          *)
(***************************************************************************)
EXTENDS Finance, FinanceTx_proofs, Allocation_proofs, FiniteSetTheorems

tables == <<agreements, voids, counter, payments, undos>>

\* Past the re-check of its origin and not yet answered.
Acts(r) == pc[r] \notin {"away", "idle", "done", "queued", "authorize"}

TablesOK ==
    /\ agreements = [i \in Ids |-> agreements[i]] /\ voids = [i \in Ids |-> voids[i]]
    /\ payments = [p \in PayIds |-> payments[p]] /\ undos = [u \in UndoIds |-> undos[u]]
    /\ counter \in [Years -> Nat] /\ books \in [Periods -> Ledgers] /\ year \in Years
    /\ DOMAIN snap = CreateReqs /\ DOMAIN folioYear = CreateReqs
    /\ FoliosAreGapless /\ ReplacementsAreChains

CreateOK(r) ==
    LET b == CreateBody[r]
        s == snap[r]
        y == folioYear[r]
    IN  /\ pc[r] \in {"authorize", "identity", "decide", "folio", "insert"} =>
              /\ \A i \in Ids : s.agreements[i] # NoAgreement => agreements[i] # NoAgreement
              /\ \A i \in Ids : s.voids[i] # NoVoid => voids[i] = s.voids[i]
              /\ s.books \in [Periods -> Ledgers]
        /\ pc[r] \in {"folio", "insert"} =>
              y \in Years /\ (b.replaces # NoId => Replaceable(s, b.replaces, b.id))
        /\ pc[r] = "insert" => CounterLock(y) \in held[r] /\ counter[y] = s.counter[y]

VoidOK(r) ==
    LET b == VoidBody[r]
    IN  /\ pc[r] = "second" => IdLock(Sorted(r)[1]) \in held[r]
        /\ pc[r] \in {"row", "check", "void"} => IdLock(b.id) \in held[r]
        /\ pc[r] \in {"check", "void"} => RowLock(b.target) \in held[r] /\ voids[b.id] = NoVoid

PayIdLock(r) == Exclusive(<<"payment id", PayBody[r].id>>)
PayOK(r) ==
    LET b == PayBody[r]
    IN  /\ pc[r] \in {"replay", "agreement", "participant", "balance", "pay"} => PayIdLock(r) \in held[r]
        /\ pc[r] \in {"agreement", "participant", "balance", "pay"} =>
              AgreementShare(b.agreement) \in held[r] /\ payments[b.id] = NoPayment
        /\ pc[r] \in {"participant", "balance", "pay"} => ~Voided(voids, b.agreement)

UndoIdLock(r) == Exclusive(<<"payment reversal id", UndoBody[r].id>>)
UndoOK(r) ==
    /\ pc[r] \in {"undo replay", "undo row", "undo check", "undo"} => UndoIdLock(r) \in held[r]
    /\ pc[r] \in {"undo row", "undo check", "undo"} => undos[UndoBody[r].id] = NoUndo

RequestOK(r) ==
    /\ Acts(r) => ActorLock(r) \in held[r] /\ MayActAsSocio(ActorOf[r])
    /\ r \in CreateReqs => CreateOK(r)
    /\ r \in VoidReqs => VoidOK(r)
    /\ r \in PayReqs => PayOK(r)
    /\ r \in UndoReqs => UndoOK(r)

Inv == LocksOK /\ TablesOK /\ \A r \in Requests : RequestOK(r)

\* The other requests do not notice that r moves.
Others(r) ==
    /\ \A q \in Requests \ {r} : pc'[q] = pc[q] /\ held'[q] = held[q] /\ reply'[q] = reply[q]
    /\ \A q \in CreateReqs \ {r} : snap'[q] = snap[q] /\ folioYear'[q] = folioYear[q]
    /\ DOMAIN snap' = CreateReqs /\ DOMAIN folioYear' = CreateReqs

-----------------------------------------------------------------------------
(* Steps that change no table. *)

\* While the tables stay, whoever does not move keeps what it knows.
LEMMA OthersKeep ==
    ASSUME Inv, NEW r \in Requests, Others(r), UNCHANGED <<tables, authorized>>
    PROVE  \A q \in Requests \ {r} : RequestOK(q)'
  <1> SUFFICES ASSUME NEW q \in Requests \ {r} PROVE RequestOK(q)'
    OBVIOUS
  <1>1. RequestOK(q) /\ pc'[q] = pc[q] /\ held'[q] = held[q]
    BY DEF Inv, Others
  <1>2. Acts(q)' => ActorLock(q) \in held'[q] /\ MayActAsSocio(ActorOf[q])'
    BY <1>1 DEF RequestOK, Acts, MayActAsSocio, ActorLock
  <1>3. q \in CreateReqs => CreateOK(q)'
    <2> HAVE q \in CreateReqs
    <2>1. snap'[q] = snap[q] /\ folioYear'[q] = folioYear[q] /\ CreateOK(q)
      BY <1>1 DEF Others, RequestOK
    <2> QED BY <1>1, <2>1 DEF CreateOK, tables
  <1>4. q \in VoidReqs => VoidOK(q)'
    BY <1>1 DEF RequestOK, VoidOK, tables
  <1>5. q \in PayReqs => PayOK(q)'
    BY <1>1 DEF RequestOK, PayOK, tables, Voided
  <1>6. q \in UndoReqs => UndoOK(q)'
    BY <1>1 DEF RequestOK, UndoOK, tables
  <1> QED BY <1>2, <1>3, <1>4, <1>5, <1>6 DEF RequestOK

\* Whoever touches neither agreements nor voids nor counters keeps what is said of them.
LEMMA LedgerKeeps ==
    ASSUME FoliosAreGapless, ReplacementsAreChains, UNCHANGED <<agreements, voids, counter>>
    PROVE  FoliosAreGapless' /\ ReplacementsAreChains'
  <1>1. FoliosAreGapless'
    BY DEF FoliosAreGapless, InYear, Numbers
  <1>2. ReplacementsAreChains'
    BY DEF ReplacementsAreChains, Voided
  <1> QED BY <1>1, <1>2

LEMMA TablesKeep ==
    ASSUME TablesOK, UNCHANGED tables, books' \in [Periods -> Ledgers], year' \in Years,
           DOMAIN snap' = CreateReqs, DOMAIN folioYear' = CreateReqs
    PROVE  TablesOK'
  <1>1. UNCHANGED <<agreements, voids, counter, payments, undos>>
    BY DEF tables
  <1>2. FoliosAreGapless' /\ ReplacementsAreChains'
    BY <1>1, LedgerKeeps DEF TablesOK
  <1> QED BY <1>1, <1>2 DEF TablesOK
\* A step that changes no table.
LEMMA QuietStep ==
    ASSUME Inv, NEW r \in Requests, LocksOK', Others(r), UNCHANGED <<tables, authorized, books, year>>,
           RequestOK(r)'
    PROVE  Inv'
  <1>1. \A q \in Requests \ {r} : RequestOK(q)'
    BY OthersKeep
  <1>2. TablesOK'
    <2>1. TablesOK /\ UNCHANGED tables
      BY DEF Inv
    <2>2. books' \in [Periods -> Ledgers] /\ year' \in Years
      BY <2>1 DEF TablesOK
    <2> QED BY <2>1, <2>2, TablesKeep DEF Others
  <1> QED BY <1>1, <1>2 DEF Inv

\* A submission that is answered, or waits in its queue, has nothing to keep.
LEMMA Ended ==
    ASSUME NEW r \in Requests, pc'[r] \in {"away", "idle", "done", "queued"}
    PROVE  RequestOK(r)'
  BY DEF RequestOK, Acts, CreateOK, VoidOK, PayOK, UndoOK

\* Requests of one kind are of no other.
LEMMA Kinds ==
    /\ CreateReqs \cup VoidReqs \cup PayReqs \cup UndoReqs = Requests
    /\ \A r \in PayReqs : r \in Requests /\ r \notin CreateReqs /\ r \notin VoidReqs /\ r \notin UndoReqs
    /\ \A r \in UndoReqs : r \in Requests /\ r \notin CreateReqs /\ r \notin VoidReqs /\ r \notin PayReqs
    /\ \A r \in VoidReqs : r \in Requests /\ r \notin CreateReqs /\ r \notin PayReqs /\ r \notin UndoReqs
    /\ \A r \in CreateReqs : r \in Requests /\ r \notin VoidReqs /\ r \notin PayReqs /\ r \notin UndoReqs
  BY RequestsAreOfFourKinds

LEMMA RefusalStep ==
    ASSUME Inv, NEW r \in Requests, NEW code, Finish(r, code), UNCHANGED <<agreementVars, payTables, authorized>>
    PROVE  Inv'
  <1>1. LocksOK' /\ pc'[r] = "done"
        /\ \A q \in Requests \ {r} : pc'[q] = pc[q] /\ held'[q] = held[q] /\ reply'[q] = reply[q]
    BY EndStep DEF Inv
  <1>2. Others(r) /\ UNCHANGED <<tables, authorized, books, year>>
    BY <1>1 DEF Others, agreementVars, creationVars, agreementTables, payTables, tables, Inv, TablesOK
  <1> QED BY <1>1, <1>2, QuietStep, Ended

\* One lock more, or none, and further.
LEMMA Further ==
    ASSUME Inv, NEW r \in Requests, NEW where, NEW l,
           Goto(r, where) \/ Acquire(r, l, where),
           UNCHANGED <<agreementVars, payTables, authorized>>
    PROVE  /\ LocksOK' /\ Others(r) /\ UNCHANGED <<tables, authorized, books, year>>
           /\ pc'[r] = where /\ held[r] \subseteq held'[r] /\ reply'[r] = reply[r]
           /\ Acquire(r, l, where) => l \in held'[r]
           /\ RequestOK(r)' => Inv'
  <1>1. /\ LocksOK' /\ pc'[r] = where /\ held[r] \subseteq held'[r] /\ reply'[r] = reply[r]
        /\ Acquire(r, l, where) => l \in held'[r]
        /\ \A q \in Requests \ {r} : pc'[q] = pc[q] /\ held'[q] = held[q] /\ reply'[q] = reply[q]
    <2>1. LocksOK
      BY DEF Inv
    <2>2. CASE Acquire(r, l, where)
      BY <2>1, <2>2, AcquireStep
    <2>3. CASE Goto(r, where) /\ ~Acquire(r, l, where)
      BY <2>1, <2>3, GotoStep
    <2> QED BY <2>2, <2>3
  <1>2. Others(r) /\ UNCHANGED <<tables, authorized, books, year>>
    BY <1>1 DEF Others, agreementVars, creationVars, agreementTables, payTables, tables, Inv, TablesOK
  <1> QED BY <1>1, <1>2, QuietStep

\* It goes on with what it holds and knows.
LEMMA GoingOn ==
    ASSUME Inv, NEW r \in Requests, NEW where, NEW l,
           Goto(r, where) \/ Acquire(r, l, where),
           UNCHANGED <<agreementVars, payTables, authorized>>,
           Acts(r) \/ (l = ActorLock(r) /\ Acquire(r, l, where) /\ MayActAsSocio(ActorOf[r])),
           r \in CreateReqs => CreateOK(r)', r \in VoidReqs => VoidOK(r)',
           r \in PayReqs => PayOK(r)', r \in UndoReqs => UndoOK(r)'
    PROVE  Inv'
  <1>1. ActorLock(r) \in held'[r] /\ MayActAsSocio(ActorOf[r])
    BY Further DEF Inv, RequestOK
  <1>2. RequestOK(r)'
    BY <1>1 DEF RequestOK, MayActAsSocio, ActorLock
  <1> QED BY <1>2, Further

-----------------------------------------------------------------------------
(* POST /finance/distribution-agreements/:id/payments *)

LEMMA PayQuiet ==
    ASSUME Inv, NEW r \in PayReqs, UNCHANGED <<agreementVars, authorized>>,
           AuthorizePay(r) \/ LockPayId(r) \/ ReplayPay(r) \/ CheckAgreement(r)
              \/ LockParticipant(r) \/ ReadBalance(r)
    PROVE  Inv'
  <1> DEFINE b == PayBody[r]
  <1>1. r \in Requests /\ PayOK(r) /\ LocksOK
    BY Kinds DEF Inv, RequestOK
  <1>2. ASSUME NEW code, Finish(r, code), UNCHANGED payTables PROVE Inv'
    BY <1>1, <1>2, RefusalStep
  <1>3. ASSUME NEW where, NEW l, Goto(r, where) \/ Acquire(r, l, where), UNCHANGED payTables,
               Acts(r) \/ (l = ActorLock(r) /\ Acquire(r, l, where) /\ MayActAsSocio(ActorOf[r])),
               pc'[r] = where /\ held[r] \subseteq held'[r] /\ (Acquire(r, l, where) => l \in held'[r]) => PayOK(r)'
        PROVE  Inv'
    <2>1. pc'[r] = where /\ held[r] \subseteq held'[r] /\ (Acquire(r, l, where) => l \in held'[r])
      BY <1>1, <1>3, Further
    <2> QED BY <1>1, <1>3, <2>1, GoingOn, Kinds
  <1>4. CASE AuthorizePay(r)
    <2>1. UNCHANGED payTables
      BY <1>4 DEF AuthorizePay, payVars
    <2>2. CASE Finish(r, "403")
      BY <1>2, <2>1, <2>2
    <2>3. CASE Acquire(r, ActorLock(r), "identity") /\ MayActAsSocio(ActorOf[r])
      BY <1>3, <2>1, <2>3 DEF PayOK
    <2> QED BY <1>1, <1>4, <2>2, <2>3, AuthorizeStep DEF AuthorizePay
  <1>5. CASE LockPayId(r)
    <2>1. Acts(r) /\ UNCHANGED payTables /\ Acquire(r, PayIdLock(r), "replay")
      BY <1>5 DEF LockPayId, Acts, payVars, PayIdLock
    <2> QED BY <1>3, <2>1 DEF PayOK, PayIdLock
  <1>6. CASE ReplayPay(r)
    <2>1. Acts(r) /\ UNCHANGED payTables /\ PayIdLock(r) \in held[r]
      BY <1>1, <1>6 DEF ReplayPay, Acts, payVars, PayReject, LockAgreement, PayOK
    <2>2. CASE payments[b.id] = NoPayment /\ Acquire(r, AgreementShare(b.agreement), "agreement")
      BY <1>3, <2>1, <2>2 DEF PayOK, PayIdLock, AgreementShare, payTables
    <2> QED BY <1>2, <1>6, <2>1, <2>2 DEF ReplayPay, LockAgreement, PayReject
  <1>7. CASE CheckAgreement(r)
    <2>1. /\ Acts(r) /\ UNCHANGED payTables /\ PayIdLock(r) \in held[r]
          /\ AgreementShare(b.agreement) \in held[r] /\ payments[b.id] = NoPayment
      BY <1>1, <1>7 DEF CheckAgreement, Acts, payVars, PayReject, Proceed, PayOK
    <2>2. CASE ~Voided(voids, b.agreement) /\ Goto(r, "participant")
      BY <1>3, <2>1, <2>2 DEF PayOK, PayIdLock, AgreementShare, payTables, Voided, agreementVars, agreementTables
    <2> QED BY <1>2, <1>7, <2>1, <2>2 DEF CheckAgreement, PayReject, Proceed
  <1>8. CASE LockParticipant(r)
    <2>1. /\ Acts(r) /\ UNCHANGED payTables /\ PayIdLock(r) \in held[r] /\ ~Voided(voids, b.agreement)
          /\ AgreementShare(b.agreement) \in held[r] /\ payments[b.id] = NoPayment
      BY <1>1, <1>8 DEF LockParticipant, Acts, payVars, PayOK
    <2>2. Acquire(r, ParticipantLock(b.agreement, b.member), "balance")
      BY <1>8 DEF LockParticipant
    <2> QED BY <1>3, <2>1, <2>2 DEF PayOK, PayIdLock, AgreementShare, payTables, Voided, agreementVars, agreementTables
  <1>9. CASE ReadBalance(r)
    <2>1. /\ Acts(r) /\ UNCHANGED payTables /\ PayIdLock(r) \in held[r] /\ ~Voided(voids, b.agreement)
          /\ AgreementShare(b.agreement) \in held[r] /\ payments[b.id] = NoPayment
      BY <1>1, <1>9 DEF ReadBalance, Acts, payVars, PayReject, PayOK
    <2>2. CASE Goto(r, "pay")
      BY <1>3, <2>1, <2>2 DEF PayOK, PayIdLock, AgreementShare, payTables, Voided, agreementVars, agreementTables
    <2> QED BY <1>2, <1>9, <2>1, <2>2 DEF ReadBalance, PayReject
  <1> QED BY <1>4, <1>5, <1>6, <1>7, <1>8, <1>9
\* Two requests cannot hold the same exclusive lock, nor one of them while the other shares it.
LEMMA Excluded ==
    ASSUME LocksOK, NEW p \in Requests, NEW q \in Requests, NEW thing, NEW l,
           Exclusive(thing) \in held[p], l \in held[q], l = Exclusive(thing) \/ l = Share(thing)
    PROVE  p = q
  <1>1. Conflict(Exclusive(thing), l)
    BY DEF Conflict, Exclusive, Share
  <1> QED BY <1>1 DEF LocksOK

LEMMA InsertPaymentStep ==
    ASSUME Inv, NEW r \in PayReqs, UNCHANGED <<agreementVars, authorized>>, InsertPayment(r)
    PROVE  Inv'
  <1> DEFINE b == PayBody[r]
  <1>1. r \in Requests /\ r \notin CreateReqs /\ PayOK(r) /\ LocksOK /\ TablesOK
    BY Kinds DEF Inv, RequestOK
  <1>2. CASE \E code : Finish(r, code) /\ UNCHANGED payTables
    BY <1>1, <1>2, RefusalStep
  <1>3. ASSUME NEW e, payments' = [payments EXCEPT ![b.id] = e], Finish(r, "201"), UNCHANGED undos
        PROVE  Inv'
    <2>1. LocksOK' /\ pc'[r] = "done"
          /\ \A q \in Requests \ {r} : pc'[q] = pc[q] /\ held'[q] = held[q] /\ reply'[q] = reply[q]
      BY <1>1, <1>3, EndStep
    <2>2. UNCHANGED <<agreements, voids, counter, undos, books, year, snap, folioYear>>
      BY <1>3 DEF agreementVars, creationVars, agreementTables
    <2>3. TablesOK'
      <3>1. FoliosAreGapless' /\ ReplacementsAreChains'
        BY <1>1, <2>2, LedgerKeeps DEF TablesOK
      <3>2. payments' = [p \in PayIds |-> payments'[p]]
        BY <1>1, <1>3 DEF TablesOK
      <3> QED BY <1>1, <2>2, <3>1, <3>2 DEF TablesOK
    <2>4. ASSUME NEW q \in Requests \ {r} PROVE RequestOK(q)'
      <3>1. RequestOK(q) /\ pc'[q] = pc[q] /\ held'[q] = held[q]
        BY <2>1 DEF Inv
      <3>2. Acts(q)' => ActorLock(q) \in held'[q] /\ MayActAsSocio(ActorOf[q])'
        BY <3>1 DEF RequestOK, Acts, MayActAsSocio, ActorLock
      <3>3. q \in CreateReqs => CreateOK(q)'
        BY <2>2, <3>1 DEF RequestOK, CreateOK
      <3>4. q \in VoidReqs => VoidOK(q)'
        BY <2>2, <3>1 DEF RequestOK, VoidOK
      <3>5. q \in UndoReqs => UndoOK(q)'
        BY <2>2, <3>1 DEF RequestOK, UndoOK
      <3>6. q \in PayReqs => PayOK(q)'
        <4> HAVE q \in PayReqs
        <4>1. PayOK(q)
          BY <3>1 DEF RequestOK
        <4>2. pc[q] \in {"agreement", "participant", "balance", "pay"} => PayBody[q].id # b.id
          <5> HAVE pc[q] \in {"agreement", "participant", "balance", "pay"}
          <5>1. PayIdLock(q) \in held[q] /\ PayIdLock(r) \in held[r]
            BY <1>1, <4>1 DEF PayOK, InsertPayment
          <5> QED BY <1>1, <5>1, Excluded DEF PayIdLock
        <4>3. payments'[PayBody[q].id] = payments[PayBody[q].id] \/ PayBody[q].id = b.id
          <5>1. PayBody[q].id \in PayIds /\ DOMAIN payments = PayIds
            BY <1>1, PayBodiesAreValid DEF PayBodies, TablesOK
          <5> QED BY <1>3, <5>1
        <4> QED BY <2>2, <3>1, <4>1, <4>2, <4>3 DEF PayOK, Voided, PayIdLock
      <3> QED BY <3>2, <3>3, <3>4, <3>5, <3>6 DEF RequestOK
    <2> QED BY <1>1, <2>1, <2>3, <2>4, Ended DEF Inv
  <1> QED BY <1>2, <1>3 DEF InsertPayment, PayReject

-----------------------------------------------------------------------------
(* POST /finance/distribution-payments/:id/reversals *)

LEMMA UndoQuiet ==
    ASSUME Inv, NEW r \in UndoReqs, UNCHANGED <<agreementVars, authorized>>,
           AuthorizeUndo(r) \/ LockUndoId(r) \/ ReplayUndo(r) \/ LockPayment(r) \/ CheckUndo(r)
    PROVE  Inv'
  <1> DEFINE b == UndoBody[r]
  <1>1. r \in Requests /\ UndoOK(r) /\ LocksOK
    BY Kinds DEF Inv, RequestOK
  <1>2. ASSUME NEW code, Finish(r, code), UNCHANGED payTables PROVE Inv'
    BY <1>1, <1>2, RefusalStep
  <1>3. ASSUME NEW where, NEW l, Goto(r, where) \/ Acquire(r, l, where), UNCHANGED payTables,
               Acts(r) \/ (l = ActorLock(r) /\ Acquire(r, l, where) /\ MayActAsSocio(ActorOf[r])),
               pc'[r] = where /\ held[r] \subseteq held'[r] /\ (Acquire(r, l, where) => l \in held'[r]) => UndoOK(r)'
        PROVE  Inv'
    <2>1. pc'[r] = where /\ held[r] \subseteq held'[r] /\ (Acquire(r, l, where) => l \in held'[r])
      BY <1>1, <1>3, Further
    <2> QED BY <1>1, <1>3, <2>1, GoingOn, Kinds
  <1>4. CASE AuthorizeUndo(r)
    <2>1. UNCHANGED payTables
      BY <1>4 DEF AuthorizeUndo, payVars
    <2>2. CASE Finish(r, "403")
      BY <1>2, <2>1, <2>2
    <2>3. CASE Acquire(r, ActorLock(r), "undo identity") /\ MayActAsSocio(ActorOf[r])
      BY <1>3, <2>1, <2>3 DEF UndoOK
    <2> QED BY <1>1, <1>4, <2>2, <2>3, AuthorizeStep DEF AuthorizeUndo
  <1>5. CASE LockUndoId(r)
    <2>1. Acts(r) /\ UNCHANGED payTables /\ Acquire(r, UndoIdLock(r), "undo replay")
      BY <1>5 DEF LockUndoId, Acts, payVars, UndoIdLock
    <2> QED BY <1>3, <2>1 DEF UndoOK, UndoIdLock
  <1>6. CASE ReplayUndo(r)
    <2>1. Acts(r) /\ UNCHANGED payTables /\ UndoIdLock(r) \in held[r]
      BY <1>1, <1>6 DEF ReplayUndo, Acts, payVars, PayReject, UndoOK
    <2>2. ASSUME NEW l, undos[b.id] = NoUndo, Acquire(r, l, "undo row") PROVE Inv'
      BY <1>3, <2>1, <2>2 DEF UndoOK, UndoIdLock, payTables
    <2> QED BY <1>2, <1>6, <2>1, <2>2 DEF ReplayUndo, PayReject
  <1>7. CASE LockPayment(r)
    <2>1. Acts(r) /\ UNCHANGED payTables /\ UndoIdLock(r) \in held[r] /\ undos[b.id] = NoUndo
      BY <1>1, <1>7 DEF LockPayment, Acts, payVars, UndoOK
    <2>2. Acquire(r, Exclusive(<<"payment", b.payment>>), "undo check")
      BY <1>7 DEF LockPayment
    <2> QED BY <1>3, <2>1, <2>2 DEF UndoOK, UndoIdLock, payTables
  <1>8. CASE CheckUndo(r)
    <2>1. Acts(r) /\ UNCHANGED payTables /\ UndoIdLock(r) \in held[r] /\ undos[b.id] = NoUndo
      BY <1>1, <1>8 DEF CheckUndo, Acts, payVars, PayReject, Proceed, UndoOK
    <2>2. CASE Goto(r, "undo")
      BY <1>3, <2>1, <2>2 DEF UndoOK, UndoIdLock, payTables
    <2> QED BY <1>2, <1>8, <2>1, <2>2 DEF CheckUndo, PayReject, Proceed
  <1> QED BY <1>4, <1>5, <1>6, <1>7, <1>8

LEMMA InsertUndoStep ==
    ASSUME Inv, NEW r \in UndoReqs, UNCHANGED <<agreementVars, authorized>>, InsertUndo(r)
    PROVE  Inv'
  <1> DEFINE b == UndoBody[r]
  <1>1. r \in Requests /\ r \notin CreateReqs /\ UndoOK(r) /\ LocksOK /\ TablesOK
    BY Kinds DEF Inv, RequestOK
  <1>2. CASE \E code : Finish(r, code) /\ UNCHANGED payTables
    BY <1>1, <1>2, RefusalStep
  <1>3. ASSUME NEW e, undos' = [undos EXCEPT ![b.id] = e], Finish(r, "201"), UNCHANGED payments
        PROVE  Inv'
    <2>1. LocksOK' /\ pc'[r] = "done"
          /\ \A q \in Requests \ {r} : pc'[q] = pc[q] /\ held'[q] = held[q] /\ reply'[q] = reply[q]
      BY <1>1, <1>3, EndStep
    <2>2. UNCHANGED <<agreements, voids, counter, payments, books, year, snap, folioYear>>
      BY <1>3 DEF agreementVars, creationVars, agreementTables
    <2>3. TablesOK'
      <3>1. FoliosAreGapless' /\ ReplacementsAreChains'
        BY <1>1, <2>2, LedgerKeeps DEF TablesOK
      <3>2. undos' = [u \in UndoIds |-> undos'[u]]
        BY <1>1, <1>3 DEF TablesOK
      <3> QED BY <1>1, <2>2, <3>1, <3>2 DEF TablesOK
    <2>4. ASSUME NEW q \in Requests \ {r} PROVE RequestOK(q)'
      <3>1. RequestOK(q) /\ pc'[q] = pc[q] /\ held'[q] = held[q]
        BY <2>1 DEF Inv
      <3>2. Acts(q)' => ActorLock(q) \in held'[q] /\ MayActAsSocio(ActorOf[q])'
        BY <3>1 DEF RequestOK, Acts, MayActAsSocio, ActorLock
      <3>3. q \in CreateReqs => CreateOK(q)'
        BY <2>2, <3>1 DEF RequestOK, CreateOK
      <3>4. q \in VoidReqs => VoidOK(q)'
        BY <2>2, <3>1 DEF RequestOK, VoidOK
      <3>5. q \in PayReqs => PayOK(q)'
        BY <2>2, <3>1 DEF RequestOK, PayOK, Voided
      <3>6. q \in UndoReqs => UndoOK(q)'
        <4> HAVE q \in UndoReqs
        <4>1. UndoOK(q)
          BY <3>1 DEF RequestOK
        <4>2. pc[q] \in {"undo row", "undo check", "undo"} => UndoBody[q].id # b.id
          <5> HAVE pc[q] \in {"undo row", "undo check", "undo"}
          <5>1. UndoIdLock(q) \in held[q] /\ UndoIdLock(r) \in held[r]
            BY <1>1, <4>1 DEF UndoOK, InsertUndo
          <5> QED BY <1>1, <5>1, Excluded DEF UndoIdLock
        <4>3. undos'[UndoBody[q].id] = undos[UndoBody[q].id] \/ UndoBody[q].id = b.id
          <5>1. UndoBody[q].id \in UndoIds /\ DOMAIN undos = UndoIds
            BY <1>1, UndoBodiesAreValid DEF UndoBodies, TablesOK
          <5> QED BY <1>3, <5>1
        <4> QED BY <3>1, <4>1, <4>2, <4>3 DEF UndoOK, UndoIdLock
      <3> QED BY <3>2, <3>3, <3>4, <3>5, <3>6 DEF RequestOK
    <2> QED BY <1>1, <2>1, <2>3, <2>4, Ended DEF Inv
  <1> QED BY <1>2, <1>3 DEF InsertUndo, PayReject
-----------------------------------------------------------------------------
(* POST /finance/distribution-agreements/:id/reversals *)

LEMMA VoidQuiet ==
    ASSUME Inv, NEW r \in VoidReqs, UNCHANGED <<payVars, authorized>>,
           AuthorizeVoid(r) \/ LockFirst(r) \/ LockSecond(r) \/ LockRow(r) \/ CheckVoid(r)
    PROVE  Inv'
  <1> DEFINE b == VoidBody[r]
  <1>1. r \in Requests /\ VoidOK(r) /\ LocksOK /\ UNCHANGED payTables
    BY Kinds DEF Inv, RequestOK, payVars
  <1>2. ASSUME NEW code, Finish(r, code), UNCHANGED agreementVars PROVE Inv'
    BY <1>1, <1>2, RefusalStep
  <1>3. ASSUME NEW where, NEW l, Goto(r, where) \/ Acquire(r, l, where), UNCHANGED agreementVars,
               Acts(r) \/ (l = ActorLock(r) /\ Acquire(r, l, where) /\ MayActAsSocio(ActorOf[r])),
               pc'[r] = where /\ held[r] \subseteq held'[r] /\ (Acquire(r, l, where) => l \in held'[r])
                  /\ voids' = voids => VoidOK(r)'
        PROVE  Inv'
    <2>1. pc'[r] = where /\ held[r] \subseteq held'[r] /\ (Acquire(r, l, where) => l \in held'[r])
      BY <1>1, <1>3, Further
    <2>2. voids' = voids
      BY <1>3 DEF agreementVars, agreementTables
    <2>3. VoidOK(r)'
      BY <1>3, <2>1, <2>2
    <2> QED BY <1>1, <1>3, <2>3, GoingOn, Kinds
  <1>4. CASE AuthorizeVoid(r)
    <2>1. UNCHANGED agreementVars
      BY <1>4 DEF AuthorizeVoid, VoidReject
    <2>2. CASE Finish(r, "403") \/ Finish(r, "400")
      BY <1>2, <2>1, <2>2
    <2>3. CASE Acquire(r, ActorLock(r), "first") /\ MayActAsSocio(ActorOf[r])
      BY <1>3, <2>1, <2>3 DEF VoidOK
    <2> QED BY <1>1, <1>4, <2>2, <2>3, AuthorizeStep DEF AuthorizeVoid, VoidReject
  <1>5. CASE LockFirst(r)
    <2>1. Acts(r) /\ UNCHANGED agreementVars /\ Acquire(r, IdLock(Sorted(r)[1]), "second")
      BY <1>5 DEF LockFirst, Acts
    <2> QED BY <1>3, <2>1 DEF VoidOK, Sorted
  <1>6. CASE LockSecond(r)
    <2>1. Acts(r) /\ UNCHANGED agreementVars /\ Acquire(r, IdLock(Sorted(r)[2]), "row")
          /\ IdLock(Sorted(r)[1]) \in held[r]
      BY <1>1, <1>6 DEF LockSecond, Acts, VoidOK
    <2>2. b.id = Sorted(r)[1] \/ b.id = Sorted(r)[2]
      BY DEF Sorted
    <2> QED BY <1>3, <2>1, <2>2 DEF VoidOK
  <1>7. CASE LockRow(r)
    <2>1. Acts(r) /\ UNCHANGED agreementVars /\ IdLock(b.id) \in held[r]
      BY <1>1, <1>7 DEF LockRow, Acts, VoidReject, VoidOK
    <2>2. CASE voids[b.id] = NoVoid /\ Acquire(r, RowLock(b.target), "check")
      BY <1>3, <2>1, <2>2 DEF VoidOK
    <2> QED BY <1>2, <1>7, <2>1, <2>2 DEF LockRow, VoidReject
  <1>8. CASE CheckVoid(r)
    <2>1. Acts(r) /\ UNCHANGED agreementVars /\ IdLock(b.id) \in held[r]
          /\ RowLock(b.target) \in held[r] /\ voids[b.id] = NoVoid
      BY <1>1, <1>8 DEF CheckVoid, Acts, VoidReject, VoidOK
    <2>2. CASE Goto(r, "void")
      BY <1>3, <2>1, <2>2 DEF VoidOK
    <2> QED BY <1>2, <1>8, <2>1, <2>2 DEF CheckVoid, VoidReject
  <1> QED BY <1>4, <1>5, <1>6, <1>7, <1>8

LEMMA InsertVoidStep ==
    ASSUME Inv, NEW r \in VoidReqs, UNCHANGED <<payVars, authorized>>, InsertVoid(r)
    PROVE  Inv'
  <1> DEFINE b == VoidBody[r]
  <1>1. r \in Requests /\ r \notin CreateReqs /\ VoidOK(r) /\ LocksOK /\ TablesOK /\ UNCHANGED payTables
    BY Kinds DEF Inv, RequestOK, payVars
  <1>2. CASE \E code : Finish(r, code) /\ UNCHANGED agreementVars
    BY <1>1, <1>2, RefusalStep
  <1>3. ASSUME NEW e, e.target = b.target, voids' = [voids EXCEPT ![b.id] = e], Finish(r, "201"),
               UNCHANGED <<creationVars, agreements, counter, books, year>>
        PROVE  Inv'
    <2>1. LocksOK' /\ pc'[r] = "done"
          /\ \A q \in Requests \ {r} : pc'[q] = pc[q] /\ held'[q] = held[q] /\ reply'[q] = reply[q]
      BY <1>1, <1>3, EndStep
    <2>2. UNCHANGED <<agreements, counter, payments, undos, books, year, snap, folioYear>>
      BY <1>1, <1>3 DEF creationVars, payTables
    <2>3. b.id \in Ids /\ voids[b.id] = NoVoid
          /\ IdLock(b.id) \in held[r] /\ RowLock(b.target) \in held[r]
      BY <1>1, VoidBodiesAreValid DEF VoidBodies, VoidOK, InsertVoid
    <2>4. \A i \in Ids : voids'[i] = IF i = b.id THEN e ELSE voids[i]
      BY <1>1, <1>3, <2>3 DEF TablesOK
    <2>5. TablesOK'
      <3>1. FoliosAreGapless'
        <4>1. FoliosAreGapless /\ UNCHANGED <<agreements, counter>>
          BY <1>1, <2>2 DEF TablesOK
        <4> QED BY <4>1 DEF FoliosAreGapless, InYear, Numbers
      <3>2. \A i : Voided(voids, i) => Voided(voids', i)
        BY <2>3, <2>4 DEF Voided
      <3>3. ReplacementsAreChains'
        BY <1>1, <2>2, <3>2 DEF TablesOK, ReplacementsAreChains
      <3>4. voids' = [i \in Ids |-> voids'[i]]
        BY <1>1, <1>3 DEF TablesOK
      <3> QED BY <1>1, <2>2, <3>1, <3>3, <3>4 DEF TablesOK
    <2>6. ASSUME NEW q \in Requests \ {r} PROVE RequestOK(q)'
      <3>1. RequestOK(q) /\ pc'[q] = pc[q] /\ held'[q] = held[q]
        BY <2>1 DEF Inv
      <3>2. Acts(q)' => ActorLock(q) \in held'[q] /\ MayActAsSocio(ActorOf[q])'
        BY <3>1 DEF RequestOK, Acts, MayActAsSocio, ActorLock
      <3>3. q \in CreateReqs => CreateOK(q)'
        BY <2>2, <2>3, <2>4, <3>1 DEF RequestOK, CreateOK
      <3>4. q \in VoidReqs => VoidOK(q)'
        <4> HAVE q \in VoidReqs
        <4>1. VoidOK(q) /\ VoidBody[q].id \in Ids
          BY <3>1, VoidBodiesAreValid DEF RequestOK, VoidBodies
        <4>2. pc[q] \in {"check", "void"} => VoidBody[q].id # b.id
          <5> HAVE pc[q] \in {"check", "void"}
          <5>1. IdLock(VoidBody[q].id) \in held[q]
            BY <4>1 DEF VoidOK
          <5> QED BY <1>1, <2>3, <5>1, Excluded DEF IdLock
        <4> QED BY <2>4, <3>1, <4>1, <4>2 DEF VoidOK, Sorted
      <3>5. q \in PayReqs => PayOK(q)'
        <4> HAVE q \in PayReqs
        <4>1. PayOK(q)
          BY <3>1 DEF RequestOK
        <4>2. pc[q] \in {"participant", "balance", "pay"} => ~Voided(voids', PayBody[q].agreement)
          <5> HAVE pc[q] \in {"participant", "balance", "pay"}
          <5>1. AgreementShare(PayBody[q].agreement) \in held[q] /\ ~Voided(voids, PayBody[q].agreement)
            BY <4>1 DEF PayOK
          <5>2. PayBody[q].agreement # b.target
            BY <1>1, <2>3, <5>1, Excluded DEF AgreementShare, RowLock
          <5> QED BY <1>3, <2>4, <5>1, <5>2 DEF Voided
        <4> QED BY <2>2, <3>1, <4>1, <4>2 DEF PayOK, PayIdLock
      <3>6. q \in UndoReqs => UndoOK(q)'
        BY <2>2, <3>1 DEF RequestOK, UndoOK
      <3> QED BY <3>2, <3>3, <3>4, <3>5, <3>6 DEF RequestOK
    <2> QED BY <1>1, <2>1, <2>5, <2>6, Ended DEF Inv
  <1>4. CASE ~(b.id \in ForeignIds \/ voids[b.id] # NoVoid \/ Voided(voids, b.target))
    <2> DEFINE e == [target |-> b.target, fingerprint |-> VoidFingerprint(r)]
    <2>1. e.target = b.target /\ voids' = [voids EXCEPT ![b.id] = e] /\ Finish(r, "201")
          /\ UNCHANGED <<creationVars, agreements, counter, books, year>>
      BY <1>4 DEF InsertVoid
    <2> HIDE DEF e
    <2> QED BY <2>1, <1>3
  <1>5. CASE b.id \in ForeignIds \/ voids[b.id] # NoVoid \/ Voided(voids, b.target)
    BY <1>2, <1>5 DEF InsertVoid, VoidReject
  <1> QED BY <1>4, <1>5
-----------------------------------------------------------------------------
(* POST /finance/distribution-agreements *)

\* A step of a creation, before it inserts.
LEMMA CreationStep ==
    ASSUME Inv, NEW r \in CreateReqs, LocksOK', UNCHANGED <<payVars, agreementTables, authorized, books, year>>,
           \A q \in Requests \ {r} : pc'[q] = pc[q] /\ held'[q] = held[q] /\ reply'[q] = reply[q],
           \A q \in CreateReqs \ {r} : snap'[q] = snap[q] /\ folioYear'[q] = folioYear[q],
           DOMAIN snap' = CreateReqs, DOMAIN folioYear' = CreateReqs,
           RequestOK(r)'
    PROVE  Inv'
  <1>1. r \in Requests /\ Others(r)
    BY Kinds DEF Others
  <1>2. UNCHANGED <<tables, authorized, books, year>>
    BY DEF tables, payVars, payTables, agreementTables
  <1> QED BY <1>1, <1>2, QuietStep

\* It is answered, or begins anew.
LEMMA CreationEnds ==
    ASSUME Inv, NEW r \in CreateReqs, NEW code, CreateReject(r, code) \/ Retry(r, code),
           UNCHANGED <<payVars, authorized>>
    PROVE  Inv' /\ (reply'[r] = reply[r] \/ reply'[r] = code) /\ pc'[r] \in {"queued", "done"}
  <1>1. r \in Requests /\ LocksOK /\ DOMAIN snap = CreateReqs /\ DOMAIN folioYear = CreateReqs
    BY Kinds DEF Inv, TablesOK
  <1>2. /\ Finish(r, code) \/ Leave(r, "queued")
        /\ snap' = [snap EXCEPT ![r] = NoSnap] /\ folioYear' = [folioYear EXCEPT ![r] = 0]
        /\ UNCHANGED <<agreementTables, books, year>>
    BY DEF CreateReject, CreateFinish, Retry
  <1>3. /\ LocksOK' /\ pc'[r] \in {"queued", "done"} /\ (reply'[r] = reply[r] \/ reply'[r] = code)
        /\ \A q \in Requests \ {r} : pc'[q] = pc[q] /\ held'[q] = held[q] /\ reply'[q] = reply[q]
    <2>1. CASE Finish(r, code)
      BY <1>1, <2>1, EndStep
    <2>2. CASE Leave(r, "queued")
      BY <1>1, <2>2, EndStep
    <2> QED BY <1>2, <2>1, <2>2
  <1>4. RequestOK(r)'
    BY <1>1, <1>3, Ended
  <1> QED BY <1>1, <1>2, <1>3, <1>4, CreationStep

LEMMA EnqueueStep ==
    ASSUME Inv, NEW r \in CreateReqs, Enqueue(r), UNCHANGED <<payVars, authorized>>
    PROVE  Inv'
  <1>1. r \in Requests /\ LocksOK /\ DOMAIN snap = CreateReqs /\ DOMAIN folioYear = CreateReqs
    BY Kinds DEF Inv, TablesOK
  <1>2. /\ LocksOK' /\ pc'[r] = "queued"
        /\ \A q \in Requests \ {r} : pc'[q] = pc[q] /\ held'[q] = held[q] /\ reply'[q] = reply[q]
    BY <1>1, GotoStep DEF Enqueue
  <1>3. RequestOK(r)'
    BY <1>1, <1>2, Ended
  <1> QED BY <1>1, <1>2, <1>3, CreationStep DEF Enqueue

LEMMA BeginStep ==
    ASSUME Inv, NEW r \in CreateReqs, Begin(r), UNCHANGED <<payVars, authorized>>
    PROVE  Inv'
  <1>1. r \in Requests /\ LocksOK /\ TablesOK /\ DOMAIN snap = CreateReqs /\ DOMAIN folioYear = CreateReqs
    BY Kinds DEF Inv, TablesOK
  <1>2. /\ LocksOK' /\ pc'[r] = "authorize"
        /\ \A q \in Requests \ {r} : pc'[q] = pc[q] /\ held'[q] = held[q] /\ reply'[q] = reply[q]
    BY <1>1, GotoStep DEF Begin
  <1>3. /\ snap' = [snap EXCEPT ![r] = Snapshot] /\ UNCHANGED <<folioYear, agreementTables, books, year>>
        /\ DOMAIN snap' = CreateReqs /\ DOMAIN folioYear' = CreateReqs
    BY <1>1 DEF Begin
  <1>4. CreateOK(r)'
    <2>1. snap'[r] = Snapshot
      BY <1>1, <1>3
    <2>2. Snapshot.agreements = agreements /\ Snapshot.voids = voids /\ Snapshot.books = books
      BY DEF Snapshot
    <2>3. UNCHANGED <<agreements, voids>> /\ books \in [Periods -> Ledgers]
      BY <1>1, <1>3 DEF agreementTables, TablesOK
    <2> HIDE DEF Snapshot
    <2> QED BY <1>2, <2>1, <2>2, <2>3 DEF CreateOK
  <1>5. RequestOK(r)'
    BY <1>2, <1>4, Kinds DEF RequestOK, Acts
  <1> QED BY <1>1, <1>2, <1>3, <1>5, CreationStep
LEMMA CreateQuiet ==
    ASSUME Inv, NEW r \in CreateReqs, AuthorizeCreate(r) \/ LockIdentity(r) \/ Decide(r) \/ TakeFolio(r),
           UNCHANGED <<payVars, authorized>>
    PROVE  Inv'
  <1> DEFINE b == CreateBody[r]
             s == snap[r]
             y == folioYear[r]
  <1>1. /\ r \in Requests /\ CreateOK(r) /\ LocksOK /\ TablesOK /\ UNCHANGED payTables
        /\ DOMAIN snap = CreateReqs /\ DOMAIN folioYear = CreateReqs
    BY Kinds DEF Inv, RequestOK, TablesOK, payVars
  <1>2. ASSUME NEW code, CreateReject(r, code) \/ Retry(r, code) PROVE Inv'
    BY <1>2, CreationEnds
  <1>3. ASSUME NEW where, NEW l, Goto(r, where) \/ Acquire(r, l, where), UNCHANGED agreementVars,
               Acts(r) \/ (l = ActorLock(r) /\ Acquire(r, l, where) /\ MayActAsSocio(ActorOf[r])),
               (/\ pc'[r] = where /\ held[r] \subseteq held'[r] /\ (Acquire(r, l, where) => l \in held'[r])
                /\ UNCHANGED <<snap, folioYear, agreements, voids, counter>>) => CreateOK(r)'
        PROVE  Inv'
    <2>1. pc'[r] = where /\ held[r] \subseteq held'[r] /\ (Acquire(r, l, where) => l \in held'[r])
      BY <1>1, <1>3, Further
    <2>2. UNCHANGED <<snap, folioYear, agreements, voids, counter>>
      BY <1>3 DEF agreementVars, creationVars, agreementTables
    <2>3. CreateOK(r)'
      BY <1>3, <2>1, <2>2
    <2> QED BY <1>1, <1>3, <2>3, GoingOn, Kinds
  <1>4. CASE AuthorizeCreate(r)
    <2>1. CASE /\ Acquire(r, ActorLock(r), "identity") /\ UNCHANGED agreementVars
               /\ ActorOf[r] \in s.authorized \cap Socios /\ MayAct(ActorOf[r])
      <3>1. MayActAsSocio(ActorOf[r])
        BY <2>1 DEF MayAct, MayActAsSocio
      <3>2. pc[r] = "authorize"
        BY <1>4 DEF AuthorizeCreate
      <3> QED BY <1>1, <1>3, <2>1, <3>1, <3>2 DEF CreateOK
    <2> QED BY <1>2, <1>4, <2>1 DEF AuthorizeCreate
  <1>5. CASE LockIdentity(r)
    <2>1. Acquire(r, IdLock(b.id), "decide") /\ UNCHANGED agreementVars /\ pc[r] = "identity" /\ Acts(r)
      BY <1>5 DEF LockIdentity, Acts
    <2> QED BY <1>1, <1>3, <2>1 DEF CreateOK
  <1>6. CASE Decide(r)
    <2>1. CASE /\ b.replaces # NoId => Replaceable(s, b.replaces, b.id)
               /\ Goto(r, "folio") /\ folioYear' = [folioYear EXCEPT ![r] = year]
               /\ UNCHANGED <<queue, attempt, snap, agreementTables, books, year>>
      <3>1. /\ LocksOK' /\ pc'[r] = "folio" /\ held'[r] = held[r] /\ pc[r] = "decide" /\ Acts(r)
            /\ \A q \in Requests \ {r} : pc'[q] = pc[q] /\ held'[q] = held[q] /\ reply'[q] = reply[q]
        BY <1>1, <1>6, <2>1, GotoStep DEF Decide, Acts
      <3>2. folioYear'[r] \in Years /\ UNCHANGED <<agreements, voids, counter, snap>>
        BY <1>1, <2>1 DEF TablesOK, agreementTables
      <3>3. CreateOK(r)'
        BY <1>1, <2>1, <3>1, <3>2 DEF CreateOK, Replaceable
      <3>4. RequestOK(r)'
        <4>1. ActorLock(r) \in held'[r] /\ MayActAsSocio(ActorOf[r])'
          BY <1>1, <3>1 DEF Inv, RequestOK, MayActAsSocio
        <4> QED BY <3>3, <4>1, Kinds DEF RequestOK, ActorLock
      <3> QED BY <1>1, <2>1, <3>1, <3>4, CreationStep
    <2> QED BY <1>2, <1>6, <2>1 DEF Decide
  <1>7. CASE TakeFolio(r)
    <2>1. CASE counter[y] = s.counter[y] /\ Acquire(r, CounterLock(y), "insert") /\ UNCHANGED agreementVars
      <3>1. pc[r] = "folio" /\ Acts(r)
        BY <1>7 DEF TakeFolio, Acts
      <3> QED BY <1>1, <1>3, <2>1, <3>1 DEF CreateOK, Replaceable
    <2> QED BY <1>2, <1>7, <2>1 DEF TakeFolio
  <1> QED BY <1>4, <1>5, <1>6, <1>7
\* The folios of a year stay gapless when the next one is given to a new row.
LEMMA NextFolio ==
    ASSUME FoliosAreGapless, counter \in [Years -> Nat], NEW id \in Ids, NEW y \in Years, NEW row,
           agreements = [i \in Ids |-> agreements[i]], agreements[id] = NoAgreement,
           row # NoAgreement, row.folio.year = y, row.folio.number = counter[y] + 1,
           agreements' = [agreements EXCEPT ![id] = row],
           counter' = [counter EXCEPT ![y] = counter[y] + 1]
    PROVE  FoliosAreGapless'
  <1>1. \A i \in Ids : agreements'[i] = IF i = id THEN row ELSE agreements[i]
    OBVIOUS
  <1> SUFFICES ASSUME NEW z \in Years
               PROVE  /\ Numbers(agreements', z) = 1..counter'[z]
                      /\ Cardinality(InYear(agreements', z)) = counter'[z]
    BY DEF FoliosAreGapless, Numbers, InYear
  <1>2. Numbers(agreements, z) = 1..counter[z] /\ Cardinality(InYear(agreements, z)) = counter[z]
    BY DEF FoliosAreGapless
  <1>3. CASE z # y
    <2>1. InYear(agreements', z) = InYear(agreements, z)
      BY <1>1, <1>3 DEF InYear
    <2>2. \A i \in InYear(agreements, z) : agreements'[i] = agreements[i]
      BY <1>1 DEF InYear
    <2>3. Numbers(agreements', z) = Numbers(agreements, z)
      BY <2>1, <2>2 DEF Numbers
    <2>4. counter'[z] = counter[z]
      BY <1>3
    <2> QED BY <1>2, <2>1, <2>3, <2>4
  <1>4. CASE z = y
    <2>1. InYear(agreements', z) = InYear(agreements, z) \cup {id} /\ id \notin InYear(agreements, z)
      BY <1>1, <1>4 DEF InYear
    <2>2. IsFiniteSet(InYear(agreements, z))
      <3>1. InYear(agreements, z) \subseteq Ids
        BY DEF InYear
      <3> QED BY <3>1, IdsAreOrdered, FS_Subset
    <2>3. Cardinality(InYear(agreements', z)) = counter[z] + 1
      BY <1>2, <2>1, <2>2, FS_AddElement
    <2>4. Numbers(agreements', z) = Numbers(agreements, z) \cup {counter[z] + 1}
      <3>1. \A i \in InYear(agreements, z) : agreements'[i] = agreements[i]
        BY <1>1, <2>1
      <3>2. agreements'[id].folio.number = counter[z] + 1
        BY <1>1, <1>4
      <3>3. ASSUME NEW n PROVE n \in Numbers(agreements', z) <=> n \in Numbers(agreements, z) \/ n = counter[z] + 1
        <4>1. n \in Numbers(agreements', z) <=> \E i \in InYear(agreements', z) : n = agreements'[i].folio.number
          BY DEF Numbers
        <4>2. n \in Numbers(agreements, z) <=> \E i \in InYear(agreements, z) : n = agreements[i].folio.number
          BY DEF Numbers
        <4> QED BY <2>1, <3>1, <3>2, <4>1, <4>2
      <3> QED BY <3>3
    <2>5. counter'[z] = counter[z] + 1 /\ counter[z] \in Nat
      BY <1>4
    <2>6. \A n \in Nat : 1..(n + 1) = (1..n) \cup {n + 1}
      OBVIOUS
    <2> QED BY <1>2, <2>3, <2>4, <2>5, <2>6
  <1> QED BY <1>3, <1>4

LEMMA InsertStep ==
    ASSUME Inv, NEW r \in CreateReqs, Insert(r), UNCHANGED <<payVars, authorized>>
    PROVE  Inv'
  <1> DEFINE b == CreateBody[r]
             s == snap[r]
             y == folioYear[r]
             row == AgreementRow(r)
  <1>1. /\ r \in Requests /\ CreateOK(r) /\ LocksOK /\ TablesOK /\ UNCHANGED <<payments, undos>>
        /\ DOMAIN snap = CreateReqs /\ DOMAIN folioYear = CreateReqs /\ pc[r] = "insert"
    BY Kinds DEF Inv, RequestOK, TablesOK, payVars, payTables, Insert
  <1>2. CASE Retry(r, "404")
    BY <1>2, CreationEnds
  <1>3. CASE /\ ~Clashes(r) /\ agreements' = [agreements EXCEPT ![b.id] = row]
             /\ counter' = [counter EXCEPT ![y] = row.folio.number]
             /\ CreateFinish(r, "201") /\ UNCHANGED <<voids, books, year>>
    <2>1. /\ LocksOK' /\ pc'[r] = "done"
          /\ \A q \in Requests \ {r} : pc'[q] = pc[q] /\ held'[q] = held[q] /\ reply'[q] = reply[q]
      BY <1>1, <1>3, EndStep DEF CreateFinish
    <2>2. /\ \A q \in CreateReqs \ {r} : snap'[q] = snap[q] /\ folioYear'[q] = folioYear[q]
          /\ DOMAIN snap' = CreateReqs /\ DOMAIN folioYear' = CreateReqs
      BY <1>1, <1>3 DEF CreateFinish
    <2>3. b.id \in Ids /\ b.period \in Periods /\ b.replaces \in Ids \cup {NoId} /\ NoId \notin Ids
      BY CreateBodiesAreValid, IdsAreOrdered DEF CreateBodies
    <2>4. y \in Years /\ CounterLock(y) \in held[r] /\ counter[y] = s.counter[y]
          /\ s.books[b.period] \in Ledgers /\ (b.replaces # NoId => Replaceable(s, b.replaces, b.id))
      BY <1>1, <2>3 DEF CreateOK
    <2>5. row.body = b /\ row.folio.year = y /\ row.folio.number = counter[y] + 1
      BY <2>4 DEF AgreementRow
    <2>6. row # NoAgreement
      <3>1. counter[y] + 1 \in Nat \ {0}
        BY <1>1, <2>4 DEF TablesOK
      <3> QED BY <2>4, <2>5, <3>1, NoAgreementIsNoRow DEF AgreementRow
    <2>7. agreements[b.id] = NoAgreement
          /\ (b.replaces # NoId => \A j \in Ids : agreements[j] # NoAgreement => agreements[j].body.replaces # b.replaces)
      BY <1>3 DEF Clashes
    <2> HIDE DEF row, y, b
    <2>8. FoliosAreGapless'
      BY <1>1, <1>3, <2>3, <2>4, <2>5, <2>6, <2>7, NextFolio DEF TablesOK
    <2>9. \A i \in Ids : agreements'[i] = IF i = b.id THEN row ELSE agreements[i]
      BY <1>1, <1>3 DEF TablesOK
    <2>10. ReplacementsAreChains'
      <3>1. b.replaces # NoId => /\ b.replaces # b.id /\ agreements[b.replaces] # NoAgreement
                                 /\ Voided(voids, b.replaces)
        BY <1>1, <2>3, <2>4 DEF Replaceable, CreateOK, Voided
      <3> SUFFICES ASSUME NEW i \in Ids, agreements'[i] # NoAgreement, agreements'[i].body.replaces # NoId
                   PROVE  LET old == agreements'[i].body.replaces
                          IN  /\ agreements'[old] # NoAgreement
                              /\ Voided(voids', old)
                              /\ \A j \in Ids \ {i} : agreements'[j] # NoAgreement => agreements'[j].body.replaces # old
        BY DEF ReplacementsAreChains
      <3>2. voids' = voids
        BY <1>3
      <3>3. CASE i = b.id
        <4>1. agreements'[i].body.replaces = b.replaces /\ b.replaces \in Ids
          BY <2>3, <2>5, <2>9, <3>3
        <4> QED BY <2>3, <2>5, <2>7, <2>9, <3>1, <3>2, <3>3, <4>1
      <3>4. CASE i # b.id
        <4> DEFINE old == agreements[i].body.replaces
        <4>1. agreements'[i] = agreements[i]
          BY <2>9, <3>4
        <4>2. /\ agreements[old] # NoAgreement /\ Voided(voids, old)
              /\ \A j \in Ids \ {i} : agreements[j] # NoAgreement => agreements[j].body.replaces # old
          BY <1>1, <4>1 DEF TablesOK, ReplacementsAreChains
        <4>3. b.replaces # old
          BY <2>7, <4>1
        <4>4. agreements'[old] = agreements[old]
          BY <1>1, <1>3, <2>7, <4>2 DEF TablesOK
        <4> QED BY <2>5, <2>9, <3>2, <4>1, <4>2, <4>3, <4>4
      <3> QED BY <3>3, <3>4
    <2>11. TablesOK'
      <3>1. agreements' = [i \in Ids |-> agreements'[i]] /\ counter' \in [Years -> Nat]
        BY <1>1, <1>3, <2>4, <2>5 DEF TablesOK
      <3> QED BY <1>1, <1>3, <2>2, <2>8, <2>10, <3>1 DEF TablesOK
    <2>12. ASSUME NEW q \in Requests \ {r} PROVE RequestOK(q)'
      <3>1. RequestOK(q) /\ pc'[q] = pc[q] /\ held'[q] = held[q]
        BY <2>1 DEF Inv
      <3>2. Acts(q)' => ActorLock(q) \in held'[q] /\ MayActAsSocio(ActorOf[q])'
        BY <3>1 DEF RequestOK, Acts, MayActAsSocio, ActorLock
      <3>3. q \in CreateReqs => CreateOK(q)'
        <4> HAVE q \in CreateReqs
        <4>1. CreateOK(q) /\ snap'[q] = snap[q] /\ folioYear'[q] = folioYear[q]
          BY <2>2, <3>1 DEF RequestOK
        <4>2. \A i \in Ids : agreements[i] # NoAgreement => agreements'[i] # NoAgreement
          BY <2>7, <2>9
        <4>3. pc[q] = "insert" => counter'[folioYear[q]] = counter[folioYear[q]]
          <5> HAVE pc[q] = "insert"
          <5>1. CounterLock(folioYear[q]) \in held[q] /\ folioYear[q] \in Years
            BY <4>1 DEF CreateOK
          <5>2. folioYear[q] # y
            BY <1>1, <2>4, <5>1, Excluded DEF CounterLock
          <5> QED BY <1>1, <1>3, <5>1, <5>2 DEF TablesOK
        <4> QED BY <1>3, <3>1, <4>1, <4>2, <4>3 DEF CreateOK, Replaceable
      <3>4. q \in VoidReqs => VoidOK(q)'
        BY <1>3, <3>1 DEF RequestOK, VoidOK
      <3>5. q \in PayReqs => PayOK(q)'
        BY <1>1, <1>3, <3>1 DEF RequestOK, PayOK, Voided
      <3>6. q \in UndoReqs => UndoOK(q)'
        BY <1>1, <3>1 DEF RequestOK, UndoOK
      <3> QED BY <3>2, <3>3, <3>4, <3>5, <3>6 DEF RequestOK
    <2> QED BY <1>1, <2>1, <2>11, <2>12, Ended DEF Inv
  <1> QED BY <1>2, <1>3 DEF Insert
-----------------------------------------------------------------------------
(* Everything that can happen. *)

LEMMA HandleStep == ASSUME Inv, NEW r \in Requests, Handle(r) PROVE Inv'
  <1>1. UNCHANGED authorized
    BY DEF Handle
  <1>2. CASE r \in CreateReqs
    <2>1. (Enqueue(r) \/ Creating(r)) /\ UNCHANGED payVars
      BY <1>2, Kinds DEF Handle, Receive, Serve
    <2> QED BY <1>1, <1>2, <2>1, EnqueueStep, BeginStep, CreateQuiet, InsertStep DEF Creating
  <1>3. CASE r \in VoidReqs
    <2>1. (AuthorizeVoid(r) \/ Voiding(r)) /\ UNCHANGED payVars
      BY <1>3, Kinds DEF Handle, Receive, Serve
    <2> QED BY <1>1, <1>3, <2>1, VoidQuiet, InsertVoidStep DEF Voiding
  <1>4. CASE r \in PayReqs
    <2>1. (AuthorizePay(r) \/ Paying(r)) /\ UNCHANGED agreementVars
      BY <1>4, Kinds DEF Handle, Receive, Serve
    <2> QED BY <1>1, <1>4, <2>1, PayQuiet, InsertPaymentStep DEF Paying
  <1>5. CASE r \in UndoReqs
    <2>1. (AuthorizeUndo(r) \/ Undoing(r)) /\ UNCHANGED agreementVars
      BY <1>5, Kinds DEF Handle, Receive, Serve
    <2> QED BY <1>1, <1>5, <2>1, UndoQuiet, InsertUndoStep DEF Undoing
  <1> QED BY <1>2, <1>3, <1>4, <1>5, Kinds

LEMMA RepeatStep == ASSUME Inv, NEW r \in Requests, Repeat(r) PROVE Inv'
  <1>1. LocksOK' /\ pc'[r] = "idle"
        /\ \A q \in Requests \ {r} : pc'[q] = pc[q] /\ held'[q] = held[q] /\ reply'[q] = reply[q]
    BY DEF Inv, LocksOK, Repeat, Resend
  <1>2. Others(r) /\ UNCHANGED <<tables, authorized, books, year>>
    BY <1>1 DEF Others, Repeat, agreementVars, creationVars, agreementTables, payVars, payTables, tables, Inv, TablesOK
  <1> QED BY <1>1, <1>2, QuietStep, Ended

LEMMA ExpireStep == ASSUME Inv, NEW r \in Requests, Expire(r) PROVE Inv'
  <1>1. UNCHANGED authorized
    BY DEF Expire
  <1>2. CASE r \in CreateReqs /\ ExpireCreate(r) /\ UNCHANGED payVars
    BY <1>1, <1>2, CreationEnds DEF ExpireCreate
  <1>3. CASE r \in VoidReqs /\ ExpireVoid(r) /\ UNCHANGED payVars
    BY <1>1, <1>3, RefusalStep DEF ExpireVoid, VoidReject, payVars
  <1>4. CASE r \in PayReqs \cup UndoReqs /\ ExpirePay(r) /\ UNCHANGED agreementVars
    BY <1>1, <1>4, RefusalStep DEF ExpirePay, PayReject
  <1> QED BY <1>2, <1>3, <1>4 DEF Expire

\* Nothing is known of a process that stopped.
LEMMA StopStep == ASSUME Inv, NEW i, Stop(i) PROVE Inv'
  <1> DEFINE dead == {r \in Requests : home[r] = i /\ Running(r)}
             gone == {r \in CreateReqs : home[r] = i}
  <1>1. /\ pc' = [r \in Requests |-> IF r \in dead THEN "done" ELSE pc[r]]
        /\ reply' = [r \in Requests |-> IF r \in dead THEN "lost" ELSE reply[r]]
        /\ held' = [r \in Requests |-> IF r \in dead THEN {} ELSE held[r]]
        /\ snap' = [r \in CreateReqs |-> IF r \in gone THEN NoSnap ELSE snap[r]]
        /\ folioYear' = [r \in CreateReqs |-> IF r \in gone THEN 0 ELSE folioYear[r]]
        /\ UNCHANGED <<agreementTables, payTables, books, year, authorized>>
    BY DEF Stop, Crash, DropHome
  <1>2. LocksOK'
    BY DropStep DEF Inv, Stop, Crash
  <1>3. UNCHANGED tables
    BY <1>1 DEF tables, agreementTables, payTables
  <1>4. TablesOK'
    <2>1. TablesOK
      BY DEF Inv
    <2>2. books' \in [Periods -> Ledgers] /\ year' \in Years
      BY <1>1, <2>1 DEF TablesOK
    <2>3. DOMAIN snap' = CreateReqs /\ DOMAIN folioYear' = CreateReqs
      BY <1>1
    <2> QED BY <1>3, <2>1, <2>2, <2>3, TablesKeep
  <1>5. ASSUME NEW q \in Requests PROVE RequestOK(q)'
    <2>1. CASE q \in dead
      BY <1>1, <2>1, Ended
    <2>2. CASE q \notin dead /\ home[q] = i
      <3>1. pc'[q] \in {"away", "idle", "done"}
        BY <1>1, <2>2 DEF Running
      <3> QED BY <3>1, Ended
    <2>3. CASE home[q] # i
      <3>1. RequestOK(q) /\ pc'[q] = pc[q] /\ held'[q] = held[q]
        BY <1>1, <2>3 DEF Inv
      <3>2. Acts(q)' => ActorLock(q) \in held'[q] /\ MayActAsSocio(ActorOf[q])'
        BY <1>1, <3>1 DEF RequestOK, Acts, MayActAsSocio, ActorLock
      <3>3. q \in CreateReqs => CreateOK(q)'
        <4> HAVE q \in CreateReqs
        <4>1. snap'[q] = snap[q] /\ folioYear'[q] = folioYear[q] /\ CreateOK(q)
          BY <1>1, <2>3, <3>1 DEF RequestOK
        <4> QED BY <1>3, <3>1, <4>1 DEF CreateOK, tables
      <3>4. q \in VoidReqs => VoidOK(q)'
        BY <1>3, <3>1 DEF RequestOK, VoidOK, tables
      <3>5. q \in PayReqs => PayOK(q)'
        BY <1>3, <3>1 DEF RequestOK, PayOK, tables, Voided
      <3>6. q \in UndoReqs => UndoOK(q)'
        BY <1>3, <3>1 DEF RequestOK, UndoOK, tables
      <3> QED BY <3>2, <3>3, <3>4, <3>5, <3>6 DEF RequestOK
    <2> QED BY <2>1, <2>2, <2>3
  <1> QED BY <1>2, <1>4, <1>5 DEF Inv

\* What goes on around the requests leaves them and the tables alone.
LEMMA AroundStep ==
    ASSUME Inv, UNCHANGED <<txVars, tables, snap, folioYear>>,
           books' \in [Periods -> Ledgers], year' \in Years,
           \A r \in Requests : ActorLock(r) \in held[r] /\ MayActAsSocio(ActorOf[r]) => MayActAsSocio(ActorOf[r])'
    PROVE  Inv'
  <1>1. UNCHANGED <<pc, held, reply>>
    BY DEF txVars
  <1>2. LocksOK' /\ TablesOK'
    <2>1. LocksOK /\ TablesOK
      BY DEF Inv
    <2>2. DOMAIN snap' = CreateReqs /\ DOMAIN folioYear' = CreateReqs
      BY <2>1 DEF TablesOK
    <2>3. TablesOK'
      BY <2>1, <2>2, TablesKeep
    <2> QED BY <1>1, <2>1, <2>3 DEF LocksOK
  <1>3. ASSUME NEW q \in Requests PROVE RequestOK(q)'
    <2>1. RequestOK(q)
      BY DEF Inv
    <2>2. Acts(q)' => ActorLock(q)' \in held'[q] /\ MayActAsSocio(ActorOf[q])'
      BY <1>1, <2>1 DEF RequestOK, Acts, ActorLock
    <2>3. UNCHANGED <<agreements, voids, counter, payments, undos>>
      BY DEF tables
    <2>4. /\ q \in CreateReqs => CreateOK(q)'
          /\ q \in VoidReqs => VoidOK(q)'
      BY <1>1, <2>1, <2>3 DEF RequestOK, CreateOK, VoidOK
    <2>5. /\ q \in PayReqs => PayOK(q)'
          /\ q \in UndoReqs => UndoOK(q)'
      BY <1>1, <2>1, <2>3 DEF RequestOK, PayOK, UndoOK, Voided
    <2> QED BY <2>2, <2>4, <2>5 DEF RequestOK
  <1> QED BY <1>2, <1>3 DEF Inv

LEMMA SurroundingsStep == ASSUME Inv, Surroundings PROVE Inv'
  <1>1. books \in [Periods -> Ledgers] /\ year \in Years
    BY DEF Inv, TablesOK
  <1>2. ASSUME NEW a \in Actors, Authority(a) PROVE Inv'
    <2>1. ASSUME NEW r \in Requests, ActorLock(r) \in held[r], MayActAsSocio(ActorOf[r])
          PROVE  MayActAsSocio(ActorOf[r])'
      <3>1. ActorOf[r] # a
        BY <1>2, <2>1 DEF Authority, Unshared, ActorLock
      <3> QED BY <1>2, <2>1, <3>1 DEF Authority, Revoke, Reinstate, MayActAsSocio
    <2>2. UNCHANGED <<txVars, tables, snap, folioYear, books, year>>
      BY <1>2 DEF Authority, agreementVars, creationVars, agreementTables, payVars, payTables, tables
    <2> QED BY <1>1, <2>1, <2>2, AroundStep
  <1>3. ASSUME NEW p \in Periods, NEW l \in Ledgers, Book(p, l), UNCHANGED <<payVars, authorized>> PROVE Inv'
    <2>1. UNCHANGED <<txVars, tables, snap, folioYear, year, authorized>> /\ books' \in [Periods -> Ledgers]
      BY <1>1, <1>3 DEF Book, creationVars, agreementTables, payVars, payTables, tables
    <2> QED BY <1>1, <2>1, AroundStep DEF MayActAsSocio
  <1>4. CASE NewYear /\ UNCHANGED <<payVars, authorized>>
    <2>1. UNCHANGED <<txVars, tables, snap, folioYear, books, authorized>> /\ year' \in Years
      BY <1>4 DEF NewYear, creationVars, agreementTables, payVars, payTables, tables
    <2> QED BY <1>1, <2>1, AroundStep DEF MayActAsSocio
  <1> QED BY <1>2, <1>3, <1>4, ExpireStep, StopStep DEF Surroundings

LEMMA AtFirst == ASSUME Init PROVE Inv
  <1>1. \A r \in Requests : held[r] = {} /\ pc[r] \in {"away", "idle"}
    BY DEF Init, TxInit
  <1>2. LocksOK
    BY <1>1 DEF LocksOK, Init, TxInit
  <1>3. agreements = Filed /\ voids = [v \in Ids |-> NoVoid] /\ books = Opening /\ year \in Years
        /\ counter = [z \in Years |-> Cardinality(InYear(Filed, z))]
    BY DEF Init, AgreementsInit, InYear
  <1>4. counter \in [Years -> Nat]
    <2> SUFFICES ASSUME NEW z \in Years PROVE Cardinality(InYear(Filed, z)) \in Nat
      BY <1>3
    <2>1. InYear(Filed, z) \subseteq Ids
      BY DEF InYear
    <2> QED BY <2>1, IdsAreOrdered, FS_Subset, FS_CardinalityType
  <1>5. FoliosAreGapless
    BY <1>3, FiledIsValid DEF FoliosAreGapless, Gapless
  <1>6. ReplacementsAreChains
    BY <1>3, FiledIsValid DEF ReplacementsAreChains
  <1>7. TablesOK
    BY <1>3, <1>4, <1>5, <1>6, FiledIsValid, OpeningIsValid DEF TablesOK, Init, AgreementsInit, PaymentsInit
  <1>8. ASSUME NEW r \in Requests PROVE RequestOK(r)
    BY <1>1 DEF RequestOK, Acts, CreateOK, VoidOK, PayOK, UndoOK
  <1> QED BY <1>2, <1>7, <1>8 DEF Inv

LEMMA EveryStep == ASSUME Inv, [Next]_vars PROVE Inv'
  <1>1. ASSUME UNCHANGED vars PROVE Inv'
    <2>1. UNCHANGED <<txVars, tables, snap, folioYear, books, year, authorized>>
      BY <1>1 DEF vars, agreementVars, creationVars, agreementTables, payVars, payTables, tables
    <2>2. books \in [Periods -> Ledgers] /\ year \in Years
      BY DEF Inv, TablesOK
    <2> QED BY <2>1, <2>2, AroundStep DEF MayActAsSocio
  <1> QED BY <1>1, HandleStep, RepeatStep, SurroundingsStep DEF Next, Event, Finished

(* What each request holds and knows, and what the tables say, at any      *)
(* time: the inductive invariant behind the theorems below.                *)
THEOREM LocksAndTables == Spec => []Inv
  <1>1. Init => Inv
    BY AtFirst
  <1>2. Inv /\ [Next]_vars => Inv'
    BY EveryStep
  <1> QED BY <1>1, <1>2, PTL DEF Spec

(* Folios have no gaps and no repetitions, whatever is rolled back.        *)
THEOREM FoliosHaveNoGaps == Spec => []FoliosAreGapless
  <1>1. Inv => FoliosAreGapless
    BY DEF Inv, TablesOK
  <1> QED BY <1>1, LocksAndTables, PTL

(* Corrections are chains, never trees.                                    *)
THEOREM CorrectionsAreChains == Spec => []ReplacementsAreChains
  <1>1. Inv => ReplacementsAreChains
    BY DEF Inv, TablesOK
  <1> QED BY <1>1, LocksAndTables, PTL
-----------------------------------------------------------------------------
(* What a step may do. *)

\* A step of a request is a step of no other.
LEMMA OnlyOneMoves ==
    ASSUME LocksOK, NEW r \in Requests, Handle(r) \/ Repeat(r) \/ Expire(r)
    PROVE  \A q \in Requests \ {r} : pc'[q] = pc[q] /\ reply'[q] = reply[q]
  <1>1. \/ \E where : Goto(r, where)
        \/ \E where, l : Acquire(r, l, where)
        \/ \E where : Leave(r, where)
        \/ \E code : Finish(r, code)
        \/ Resend(r)
    <2>1. CASE Handle(r)
      <3>1. CASE r \in CreateReqs
        <4>1. Enqueue(r) \/ Creating(r)
          BY <2>1, <3>1, Kinds DEF Handle, Receive, Serve
        <4> QED BY <4>1 DEF Enqueue, Creating, Begin, AuthorizeCreate, LockIdentity, Decide, TakeFolio, Insert,
                            CreateReject, CreateFinish, Retry
      <3>2. CASE r \in VoidReqs
        <4>1. AuthorizeVoid(r) \/ Voiding(r)
          BY <2>1, <3>2, Kinds DEF Handle, Receive, Serve
        <4> QED BY <4>1 DEF AuthorizeVoid, Authorize, Voiding, LockFirst, LockSecond, LockRow, CheckVoid, InsertVoid,
                            VoidReject
      <3>3. CASE r \in PayReqs
        <4>1. AuthorizePay(r) \/ Paying(r)
          BY <2>1, <3>3, Kinds DEF Handle, Receive, Serve
        <4> QED BY <4>1 DEF AuthorizePay, Authorize, Paying, LockPayId, ReplayPay, LockAgreement, CheckAgreement,
                            LockParticipant, ReadBalance, InsertPayment, PayReject, Proceed
      <3>4. CASE r \in UndoReqs
        <4>1. AuthorizeUndo(r) \/ Undoing(r)
          BY <2>1, <3>4, Kinds DEF Handle, Receive, Serve
        <4> QED BY <4>1 DEF AuthorizeUndo, Authorize, Undoing, LockUndoId, ReplayUndo, LockPayment, CheckUndo,
                            InsertUndo, PayReject, Proceed
      <3> QED BY <3>1, <3>2, <3>3, <3>4, Kinds
    <2>2. CASE Repeat(r)
      BY <2>2 DEF Repeat
    <2>3. CASE Expire(r)
      BY <2>3 DEF Expire, ExpireCreate, ExpireVoid, ExpirePay, CreateReject, CreateFinish, VoidReject, PayReject
    <2> QED BY <2>1, <2>2, <2>3
  <1>2. ASSUME NEW where, Goto(r, where) PROVE \A q \in Requests \ {r} : pc'[q] = pc[q] /\ reply'[q] = reply[q]
    BY <1>2, GotoStep
  <1>3. ASSUME NEW where, NEW l, Acquire(r, l, where)
        PROVE  \A q \in Requests \ {r} : pc'[q] = pc[q] /\ reply'[q] = reply[q]
    BY <1>3, AcquireStep
  <1>4. ASSUME NEW where, Leave(r, where) PROVE \A q \in Requests \ {r} : pc'[q] = pc[q] /\ reply'[q] = reply[q]
    BY <1>4, EndStep
  <1>5. ASSUME NEW code, Finish(r, code) PROVE \A q \in Requests \ {r} : pc'[q] = pc[q] /\ reply'[q] = reply[q]
    BY <1>5, EndStep
  <1>6. ASSUME Resend(r) PROVE \A q \in Requests \ {r} : pc'[q] = pc[q] /\ reply'[q] = reply[q]
    BY <1>6 DEF Resend, LocksOK
  <1> QED BY <1>1, <1>2, <1>3, <1>4, <1>5, <1>6

\* What surrounds the requests answers none of them.
LEMMA OnlyHandlersAnswer ==
    ASSUME Inv, [Next]_vars, NEW r \in Requests, pc'[r] = "done", pc[r] # "done",
           reply'[r] \notin {"500", "lost"}
    PROVE  Handle(r)
  <1>1. LocksOK
    BY DEF Inv
  <1>2. CASE UNCHANGED vars
    BY <1>2 DEF vars, txVars
  <1>3. ASSUME NEW q \in Requests, Handle(q) \/ Repeat(q) \/ Expire(q) PROVE Handle(r)
    <2>1. q = r
      BY <1>1, <1>3, OnlyOneMoves
    <2>2. ~Repeat(r)
      BY <1>1 DEF Repeat, Resend, LocksOK
    <2>3. ASSUME Expire(r) PROVE FALSE
      <3>1. Finish(r, "500")
        BY <2>3 DEF Expire, ExpireCreate, ExpireVoid, ExpirePay, CreateReject, CreateFinish, VoidReject, PayReject
      <3> QED BY <1>1, <3>1 DEF Finish, LocksOK
    <2> QED BY <1>3, <2>1, <2>2, <2>3
  <1>4. ASSUME NEW i, Stop(i) PROVE FALSE
    <2>1. pc'[r] = pc[r] \/ reply'[r] = "lost"
      BY <1>4 DEF Stop, Crash, DropHome
    <2> QED BY <2>1
  <1>5. ASSUME (\E a \in Actors : Authority(a)) \/ (\E p \in Periods, l \in Ledgers : Book(p, l)) \/ NewYear PROVE FALSE
    BY <1>5 DEF Authority, Book, NewYear, txVars
  <1>6. CASE Finished
    BY <1>2, <1>6 DEF Finished
  <1> QED BY <1>2, <1>3, <1>4, <1>5, <1>6 DEF Next, Event, Surroundings

\* Who is not past the re-check is not answered with a row.
LEMMA OnlyActorsInsert ==
    ASSUME Inv, NEW r \in Requests, Handle(r), pc'[r] = "done", reply'[r] = "201", pc[r] # "done"
    PROVE  Acts(r)
  <1> SUFFICES ASSUME pc[r] \in {"away", "idle", "queued", "authorize"} PROVE FALSE
    BY DEF Acts
  <1>1. LocksOK
    BY DEF Inv
  <1>2. ASSUME NEW code, Finish(r, code) PROVE reply'[r] = code
    BY <1>1, <1>2 DEF Finish, LocksOK
  <1>3. ASSUME NEW where, NEW l, Goto(r, where) \/ Acquire(r, l, where) \/ Leave(r, where) PROVE pc'[r] = where
    BY <1>1, <1>3, GotoStep, AcquireStep, EndStep
  <1>4. CASE r \in CreateReqs
    <2>1. Enqueue(r) \/ Begin(r) \/ AuthorizeCreate(r)
      BY <1>4, Kinds DEF Handle, Receive, Serve, Creating, LockIdentity, Decide, TakeFolio, Insert
    <2> QED BY <1>2, <1>3, <2>1 DEF Enqueue, Begin, AuthorizeCreate, CreateReject, CreateFinish, Retry
  <1>5. CASE r \in VoidReqs
    <2>1. AuthorizeVoid(r)
      BY <1>5, Kinds DEF Handle, Receive, Serve, Voiding, LockFirst, LockSecond, LockRow, CheckVoid, InsertVoid
    <2> QED BY <1>2, <1>3, <2>1 DEF AuthorizeVoid, VoidReject, Authorize
  <1>6. CASE r \in PayReqs
    <2>1. AuthorizePay(r)
      BY <1>6, Kinds DEF Handle, Receive, Serve, Paying, LockPayId, ReplayPay, CheckAgreement, LockParticipant,
                        ReadBalance, InsertPayment
    <2> QED BY <1>2, <1>3, <2>1 DEF AuthorizePay, Authorize
  <1>7. CASE r \in UndoReqs
    <2>1. AuthorizeUndo(r)
      BY <1>7, Kinds DEF Handle, Receive, Serve, Undoing, LockUndoId, ReplayUndo, LockPayment, CheckUndo, InsertUndo
    <2> QED BY <1>2, <1>3, <2>1 DEF AuthorizeUndo, Authorize
  <1> QED BY <1>4, <1>5, <1>6, <1>7, Kinds

(* No row is inserted in the name of an actor who is not in force at the   *)
(* commit: the shared locks of the re-check outlive it.                    *)
THEOREM RevocationsAreHonored == Spec => RevocationIsHonored
  <1>1. ASSUME Inv, [Next]_vars, NEW r \in Requests, reply'[r] = "201", pc'[r] = "done", pc[r] # "done"
        PROVE  MayActAsSocio(ActorOf[r])
    <2>1. Handle(r)
      BY <1>1, OnlyHandlersAnswer
    <2>2. Acts(r)
      BY <1>1, <2>1, OnlyActorsInsert
    <2> QED BY <1>1, <2>2 DEF Inv, RequestOK
  <1>2. Inv /\ [Next]_vars =>
          [\A r \in Requests :
              (reply'[r] = "201" /\ pc'[r] = "done" /\ pc[r] # "done") => MayActAsSocio(ActorOf[r])]_vars
    BY <1>1
  <1> QED BY <1>2, LocksAndTables, PTL DEF Spec, RevocationIsHonored

\* Only the insert of a payment changes the payments.
LEMMA OnlyPaymentsPay ==
    ASSUME [Next]_vars, payments' # payments
    PROVE  \E r \in PayReqs : InsertPayment(r)
  <1>1. ASSUME UNCHANGED payVars PROVE FALSE
    BY <1>1 DEF payVars, payTables
  <1>2. ASSUME NEW r \in Requests, Handle(r) PROVE \E q \in PayReqs : InsertPayment(q)
    <2>1. CASE r \in PayReqs
      <3>1. AuthorizePay(r) \/ Paying(r)
        BY <1>2, <2>1, Kinds DEF Handle, Receive, Serve
      <3> QED BY <2>1, <3>1 DEF AuthorizePay, Paying, LockPayId, ReplayPay, LockAgreement, CheckAgreement,
                          LockParticipant, ReadBalance, PayReject, Proceed, payVars, payTables
    <2>2. CASE r \in UndoReqs
      <3>1. AuthorizeUndo(r) \/ Undoing(r)
        BY <1>2, <2>2, Kinds DEF Handle, Receive, Serve
      <3> QED BY <3>1 DEF AuthorizeUndo, Undoing, LockUndoId, ReplayUndo, LockPayment, CheckUndo,
                          InsertUndo, PayReject, Proceed, payVars, payTables
    <2> QED BY <1>1, <1>2, <2>1, <2>2, Kinds DEF Handle, Receive, Serve
  <1>3. ASSUME NEW r \in Requests, Repeat(r) PROVE FALSE
    BY <1>1, <1>3 DEF Repeat
  <1>4. ASSUME NEW r \in Requests, Expire(r) PROVE FALSE
    BY <1>1, <1>4 DEF Expire, ExpirePay, PayReject, payTables
  <1>5. ASSUME Event PROVE FALSE
    BY <1>1, <1>4, <1>5 DEF Event, Surroundings, Stop, Authority, payTables
  <1>6. CASE UNCHANGED vars
    BY <1>1, <1>6 DEF vars
  <1> QED BY <1>2, <1>3, <1>5, <1>6 DEF Next, Finished

(* A payment is committed before the agreement is voided or not at all:    *)
(* it shares the row that the void locks for itself.                       *)
THEOREM NothingIsPaidAfterVoid == Spec => NoPaymentAfterVoid
  <1>1. ASSUME Inv, [Next]_vars, NEW p \in PayIds, payments[p] = NoPayment, payments'[p] # NoPayment
        PROVE  ~Voided(voids, payments'[p].body.agreement)
    <2>1. PICK r \in PayReqs : InsertPayment(r)
      BY <1>1, OnlyPaymentsPay
    <2>2. pc[r] = "pay" /\ payments' = [payments EXCEPT ![PayBody[r].id] =
                              [body |-> PayBody[r], fingerprint |-> PayFingerprint(r)]]
      BY <1>1, <2>1 DEF InsertPayment, PayReject, payTables
    <2>3. DOMAIN payments = PayIds
      BY <1>1 DEF Inv, TablesOK
    <2>4. payments'[p].body = PayBody[r]
      BY <1>1, <2>2, <2>3
    <2>5. ~Voided(voids, PayBody[r].agreement)
      BY <1>1, <2>2, Kinds DEF Inv, RequestOK, PayOK
    <2> QED BY <2>4, <2>5
  <1>2. Inv /\ [Next]_vars =>
          [\A p \in PayIds : (payments[p] = NoPayment /\ payments'[p] # NoPayment) =>
              ~Voided(voids, payments'[p].body.agreement)]_vars
    BY <1>1
  <1> QED BY <1>2, LocksAndTables, PTL DEF Spec, NoPaymentAfterVoid

(* What was accepted is never refused to a retry: the lock of the identity *)
(* is held from before the replay to the commit.                           *)
THEOREM RetriesAreReplayed == Spec => AcceptedIsNotRefused
  <1>1. ASSUME Inv, [Next]_vars, NEW r \in VoidReqs \cup PayReqs \cup UndoReqs, Refuses(r), Recorded(r)
        PROVE  FALSE
    <2>1. /\ r \in Requests /\ LocksOK /\ RequestOK(r) /\ pc'[r] = "done" /\ reply'[r] \in Refusals
          /\ pc[r] \notin {"away", "idle", "done"}
      BY <1>1, Kinds DEF Inv, Refuses, Running
    <2>2. Handle(r)
      BY <1>1, <2>1, OnlyHandlersAnswer DEF Refusals
    <2>3. ASSUME NEW code, Finish(r, code) PROVE reply'[r] = code
      BY <2>1, <2>3 DEF Finish, LocksOK
    <2>4. ASSUME NEW where, NEW l, Goto(r, where) \/ Acquire(r, l, where) PROVE where = "done"
      BY <2>1, <2>4, GotoStep, AcquireStep
    <2>5. CASE r \in VoidReqs
      <3>1. Voiding(r) /\ VoidOK(r) /\ ~(\E where, l : where # "done" /\ (Goto(r, where) \/ Acquire(r, l, where)))
        BY <2>1, <2>2, <2>4, <2>5, Kinds DEF Handle, Receive, Serve, AuthorizeVoid, RequestOK
      <3>2. voids[VoidBody[r].id] # NoVoid /\ voids[VoidBody[r].id].fingerprint = VoidFingerprint(r)
        BY <1>1, <2>5, Kinds DEF Recorded
      <3>3. LockRow(r)
        BY <3>1, <3>2 DEF Voiding, LockFirst, LockSecond, CheckVoid, InsertVoid, VoidOK
      <3> QED BY <2>1, <2>3, <3>2, <3>3 DEF LockRow, VoidReject, Refusals
    <2>6. CASE r \in PayReqs
      <3>1. Paying(r) /\ PayOK(r) /\ ~(\E where, l : where # "done" /\ (Goto(r, where) \/ Acquire(r, l, where)))
        BY <2>1, <2>2, <2>4, <2>6, Kinds DEF Handle, Receive, Serve, AuthorizePay, RequestOK
      <3>2. payments[PayBody[r].id] # NoPayment /\ payments[PayBody[r].id].fingerprint = PayFingerprint(r)
        BY <1>1, <2>6, Kinds DEF Recorded
      <3>3. ReplayPay(r)
        BY <3>1, <3>2 DEF Paying, LockPayId, CheckAgreement, LockParticipant, ReadBalance, InsertPayment, PayOK
      <3> QED BY <2>1, <2>3, <3>2, <3>3 DEF ReplayPay, PayReject, Refusals
    <2>7. CASE r \in UndoReqs
      <3>1. Undoing(r) /\ UndoOK(r) /\ ~(\E where, l : where # "done" /\ (Goto(r, where) \/ Acquire(r, l, where)))
        BY <2>1, <2>2, <2>4, <2>7, Kinds DEF Handle, Receive, Serve, AuthorizeUndo, RequestOK
      <3>2. undos[UndoBody[r].id] # NoUndo /\ undos[UndoBody[r].id].fingerprint = UndoFingerprint(r)
        BY <1>1, <2>7, Kinds DEF Recorded
      <3>3. ReplayUndo(r)
        BY <3>1, <3>2 DEF Undoing, LockUndoId, LockPayment, CheckUndo, InsertUndo, UndoOK
      <3> QED BY <2>1, <2>3, <3>2, <3>3 DEF ReplayUndo, PayReject, Refusals
    <2> QED BY <2>5, <2>6, <2>7
  <1>2. Inv /\ [Next]_vars => [\A r \in VoidReqs \cup PayReqs \cup UndoReqs : Refuses(r) => ~Recorded(r)]_vars
    BY <1>1
  <1> QED BY <1>2, LocksAndTables, PTL DEF Spec, AcceptedIsNotRefused

-----------------------------------------------------------------------------
(* The steps by what they change. *)

\* A request goes somewhere and changes its locks, and no other request does.
Moves(r) ==
    /\ UNCHANGED <<home, sends>>
    /\ \E where \in Places : pc' = [pc EXCEPT ![r] = where]
    /\ held' = held \/ \E locks : held' = [held EXCEPT ![r] = locks]

\* The books of a snapshot can be divided as a body asks.
Divisible(s, b) == Simulable(s.books[b.period], b.requested, b.bps)

Enqueues(r) ==
    /\ pc[r] = "idle" /\ pc'[r] = "queued"
    /\ queue' = [queue EXCEPT ![home[r]] = Append(@, r)]
    /\ UNCHANGED <<attempt, snap, folioYear, agreements, counter>>

Begins(r) ==
    /\ pc[r] = "queued" /\ pc'[r] = "authorize"
    /\ Head(queue[home[r]]) = r
    /\ attempt' = [attempt EXCEPT ![r] = @ + 1]
    /\ snap' = [snap EXCEPT ![r] = Snapshot]
    /\ UNCHANGED <<queue, folioYear, agreements, counter>>

\* Its snapshot stays; a decision adds the year, and that the money is there
\* and can be divided.
Advances(r) ==
    /\ pc[r] \in {"authorize", "identity", "decide", "folio"}
    /\ pc'[r] \in {"identity", "decide", "folio", "insert"}
    /\ UNCHANGED <<queue, attempt, snap, agreements, counter>>
    /\ held[r] \subseteq held'[r] /\ (pc'[r] = "decide" => IdLock(CreateBody[r].id) \in held'[r])
    /\ \/ pc[r] = "folio" /\ pc'[r] = "insert" /\ folioYear' = folioYear
       \/ pc'[r] \in {"identity", "decide"} /\ folioYear' = folioYear
       \/ /\ pc[r] = "decide" /\ pc'[r] = "folio"
          /\ folioYear' = [folioYear EXCEPT ![r] = year]
          /\ CreateBody[r].requested <= FreeMoney(snap[r], CreateBody[r].period)
          /\ Divisible(snap[r], CreateBody[r])

\* Answered, or back to the head of the queue.
Leaves(r) ==
    /\ Running(r) /\ pc[r] # "queued"
    /\ \/ /\ pc'[r] = "queued" /\ attempt[r] < MaxAttempts
          /\ UNCHANGED <<queue, attempt>>
       \/ /\ pc'[r] = "done"
          /\ queue' = [queue EXCEPT ![home[r]] = Tail(@)]
          /\ attempt' = [attempt EXCEPT ![r] = 0]
    /\ snap' = [snap EXCEPT ![r] = NoSnap]
    /\ folioYear' = [folioYear EXCEPT ![r] = 0]

Inserts(r) ==
    /\ pc[r] = "insert" /\ pc'[r] = "done" /\ Leaves(r)
    /\ ~Clashes(r)
    /\ agreements' = [agreements EXCEPT ![CreateBody[r].id] = AgreementRow(r)]
    /\ counter' = [counter EXCEPT ![folioYear[r]] = AgreementRow(r).folio.number]

Creates(r) ==
    /\ Moves(r) /\ UNCHANGED <<payVars, authorized, books, year, voids>>
    /\ \/ Enqueues(r) \/ Begins(r) \/ Advances(r) \/ Inserts(r)
       \/ Leaves(r) /\ UNCHANGED <<agreements, counter>>

VoidsIt(r) ==
    /\ AuthorizeVoid(r) \/ Voiding(r) \/ ExpireVoid(r)
    /\ Moves(r) /\ pc[r] # "away"
    /\ UNCHANGED <<payVars, authorized, creationVars, agreements, counter, books, year>>
    /\ \/ UNCHANGED voids
       \/ /\ pc[r] = "void" /\ voids[VoidBody[r].id] = NoVoid /\ ~Voided(voids, VoidBody[r].target)
          /\ voids' = [voids EXCEPT ![VoidBody[r].id] =
                 [target |-> VoidBody[r].target, fingerprint |-> VoidFingerprint(r)]]

PaysIt(r) ==
    /\ AuthorizePay(r) \/ Paying(r) \/ ExpirePay(r)
    /\ Moves(r) /\ pc[r] # "away" /\ UNCHANGED <<agreementVars, authorized>>
    /\ \/ UNCHANGED payVars
       \/ UNCHANGED payTables /\ paidSoFar' = [paidSoFar EXCEPT ![r] = 0]
       \/ ReadBalance(r)
       \/ InsertPayment(r)

UndoesIt(r) ==
    /\ AuthorizeUndo(r) \/ Undoing(r) \/ ExpirePay(r)
    /\ Moves(r) /\ pc[r] # "away" /\ UNCHANGED <<agreementVars, authorized>>
    /\ \/ UNCHANGED payVars
       \/ UNCHANGED payTables /\ paidSoFar' = [paidSoFar EXCEPT ![r] = 0]
       \/ InsertUndo(r)

Around ==
    /\ UNCHANGED <<txVars, creationVars, agreementTables, payVars>>
    /\ authorized \subseteq Actors => authorized' \subseteq Actors
    /\ books \in [Periods -> Ledgers] => books' \in [Periods -> Ledgers]
    /\ year \in Years => year' \in Years

LEMMA Going ==
    ASSUME NEW r \in Requests, NEW where \in Places, NEW l, NEW code,
           Goto(r, where) \/ Acquire(r, l, where) \/ Leave(r, where) \/ Finish(r, code)
    PROVE  Moves(r)
<1>1. "done" \in Places
  BY DEF Places
<1>2. CASE Goto(r, where)
  BY <1>2 DEF Goto, Moves
<1>3. CASE Acquire(r, l, where) \/ Leave(r, where) \/ Finish(r, code)
  BY <1>1, <1>3 DEF Acquire, Leave, Finish, Moves
<1> QED
  BY <1>2, <1>3

LEMMA CreationSteps ==
    ASSUME Inv, NEW r \in CreateReqs, Enqueue(r) \/ Creating(r) \/ ExpireCreate(r),
           UNCHANGED <<payVars, authorized>>
    PROVE  Creates(r)
<1>1. /\ r \in Requests /\ LocksOK /\ {"queued", "authorize", "identity", "decide", "folio", "insert", "done"} \subseteq Places
      /\ DOMAIN pc = Requests
  BY Kinds DEF Inv, LocksOK, Places
<1>2. ASSUME NEW where \in Places, NEW l, NEW code,
             Goto(r, where) \/ Acquire(r, l, where) \/ Leave(r, where) \/ (Finish(r, code) /\ where = "done")
      PROVE  /\ Moves(r) /\ pc'[r] = where
             /\ Goto(r, where) => held'[r] = held[r]
             /\ Acquire(r, l, where) => held'[r] = held[r] \cup {l}
  <2>1. Moves(r)
    BY <1>1, <1>2, Going
  <2>2. pc' = [pc EXCEPT ![r] = where]
    BY <1>2 DEF Goto, Acquire, Leave, Finish
  <2>3. /\ Goto(r, where) => held'[r] = held[r]
        /\ Acquire(r, l, where) => held'[r] = held[r] \cup {l}
    BY <1>1 DEF Goto, Acquire, LocksOK
  <2> QED BY <1>1, <2>1, <2>2, <2>3
<1>3. ASSUME NEW code, CreateReject(r, code) \/ Retry(r, code), Running(r), pc[r] # "queued"
      PROVE  Creates(r)
  <2>1. CASE CreateReject(r, code)
    <3>1. Moves(r) /\ pc'[r] = "done"
      BY <1>1, <1>2, <2>1 DEF CreateReject, CreateFinish
    <3> QED BY <1>3, <2>1, <3>1 DEF CreateReject, CreateFinish, Leaves, Creates, agreementTables
  <2>2. CASE Retry(r, code) /\ ~CreateReject(r, code)
    <3>1. Moves(r) /\ pc'[r] = "queued"
      BY <1>1, <1>2, <2>2 DEF Retry
    <3> QED BY <1>3, <2>2, <3>1 DEF Retry, Leaves, Creates, agreementTables
  <2> QED BY <1>3, <2>1, <2>2
<1>4. CASE Enqueue(r)
  BY <1>1, <1>2, <1>4 DEF Enqueue, Creates, Enqueues, agreementTables
<1>5. CASE Begin(r)
  BY <1>1, <1>2, <1>5 DEF Begin, Creates, Begins, agreementTables
<1>6. CASE AuthorizeCreate(r)
  <2>1. pc[r] = "authorize" /\ Running(r)
    BY <1>6 DEF AuthorizeCreate, Running
  <2>2. CASE Acquire(r, ActorLock(r), "identity") /\ UNCHANGED agreementVars
    BY <1>1, <1>2, <2>1, <2>2 DEF Creates, Advances, agreementVars, creationVars, agreementTables
  <2> QED BY <1>3, <1>6, <2>1, <2>2 DEF AuthorizeCreate
<1>7. CASE LockIdentity(r)
  BY <1>1, <1>2, <1>7 DEF LockIdentity, Creates, Advances, agreementVars, creationVars, agreementTables
<1>8. CASE Decide(r)
  <2>1. pc[r] = "decide" /\ Running(r)
    BY <1>8 DEF Decide, Running
  <2>2. CASE /\ Goto(r, "folio") /\ CreateBody[r].requested <= FreeMoney(snap[r], CreateBody[r].period)
             /\ Divisible(snap[r], CreateBody[r])
             /\ folioYear' = [folioYear EXCEPT ![r] = year]
             /\ UNCHANGED <<queue, attempt, snap, agreementTables, books, year>>
    BY <1>1, <1>2, <2>1, <2>2 DEF Creates, Advances, agreementTables
  <2> QED BY <1>3, <1>8, <2>1, <2>2 DEF Decide, Divisible
<1>9. CASE TakeFolio(r)
  <2>1. pc[r] = "folio" /\ Running(r)
    BY <1>9 DEF TakeFolio, Running
  <2>2. CASE Acquire(r, CounterLock(folioYear[r]), "insert") /\ UNCHANGED agreementVars
    BY <1>1, <1>2, <2>1, <2>2 DEF Creates, Advances, agreementVars, creationVars, agreementTables
  <2> QED BY <1>3, <1>9, <2>1, <2>2 DEF TakeFolio
<1>10. CASE Insert(r)
  <2>1. pc[r] = "insert" /\ Running(r)
    BY <1>10 DEF Insert, Running
  <2>2. CASE /\ ~Clashes(r) /\ CreateFinish(r, "201") /\ UNCHANGED <<voids, books, year>>
             /\ agreements' = [agreements EXCEPT ![CreateBody[r].id] = AgreementRow(r)]
             /\ counter' = [counter EXCEPT ![folioYear[r]] = AgreementRow(r).folio.number]
    <3>1. Moves(r) /\ pc'[r] = "done"
      BY <1>1, <1>2, <2>2 DEF CreateFinish
    <3>2. Leaves(r)
      BY <2>1, <2>2, <3>1 DEF Leaves, CreateFinish
    <3> QED BY <2>1, <2>2, <3>1, <3>2 DEF Creates, Inserts
  <2> QED BY <1>3, <1>10, <2>1, <2>2 DEF Insert
<1>11. CASE ExpireCreate(r)
  BY <1>3, <1>11 DEF ExpireCreate
<1> QED
  BY <1>4, <1>5, <1>6, <1>7, <1>8, <1>9, <1>10, <1>11 DEF Creating

LEMMA VoidSteps ==
    ASSUME Inv, NEW r \in VoidReqs, AuthorizeVoid(r) \/ Voiding(r) \/ ExpireVoid(r),
           UNCHANGED <<payVars, authorized>>
    PROVE  VoidsIt(r)
<1>1. r \in Requests /\ {"first", "second", "row", "check", "void", "done"} \subseteq Places
  BY Kinds DEF Places
<1>2. pc[r] # "away"
  BY DEF AuthorizeVoid, Voiding, LockFirst, LockSecond, LockRow, CheckVoid, InsertVoid, ExpireVoid, Running
<1>3. \/ \E where \in Places : \E l : Goto(r, where) \/ Acquire(r, l, where)
      \/ \E code : Finish(r, code)
  <2>1. CASE AuthorizeVoid(r)
    BY <1>1, <2>1 DEF AuthorizeVoid, Authorize, VoidReject
  <2>2. CASE Voiding(r) \/ ExpireVoid(r)
    BY <1>1, <2>2 DEF Voiding, LockFirst, LockSecond, LockRow, CheckVoid, InsertVoid, ExpireVoid, VoidReject
  <2> QED BY <2>1, <2>2
<1>4. Moves(r)
  BY <1>1, <1>3, Going
<1>5. \/ UNCHANGED agreementVars
      \/ InsertVoid(r) /\ ~UNCHANGED agreementVars
  BY DEF AuthorizeVoid, Voiding, LockFirst, LockSecond, LockRow, CheckVoid, ExpireVoid, VoidReject
<1> QED
  BY <1>2, <1>4, <1>5 DEF VoidsIt, InsertVoid, VoidReject, agreementVars, creationVars, agreementTables

LEMMA PaySteps ==
    ASSUME Inv, NEW r \in PayReqs, AuthorizePay(r) \/ Paying(r) \/ ExpirePay(r),
           UNCHANGED <<agreementVars, authorized>>
    PROVE  PaysIt(r)
<1>1. r \in Requests /\ {"identity", "replay", "agreement", "participant", "balance", "pay", "done"} \subseteq Places
  BY Kinds DEF Places
<1>2. pc[r] # "away"
  BY DEF AuthorizePay, Paying, LockPayId, ReplayPay, CheckAgreement, LockParticipant, ReadBalance, InsertPayment,
         ExpirePay, Running
<1>3. \/ \E where \in Places : \E l : Goto(r, where) \/ Acquire(r, l, where)
      \/ \E code : Finish(r, code)
  <2>1. CASE AuthorizePay(r)
    BY <1>1, <2>1 DEF AuthorizePay, Authorize
  <2>2. CASE LockPayId(r) \/ ReplayPay(r) \/ CheckAgreement(r)
    BY <1>1, <2>2 DEF LockPayId, ReplayPay, LockAgreement, CheckAgreement, Proceed, PayReject
  <2>3. CASE LockParticipant(r) \/ ReadBalance(r) \/ InsertPayment(r) \/ ExpirePay(r)
    BY <1>1, <2>3 DEF LockParticipant, ReadBalance, InsertPayment, ExpirePay, PayReject
  <2> QED BY <2>1, <2>2, <2>3 DEF Paying
<1>4. Moves(r)
  BY <1>1, <1>3, Going
<1>5. \/ UNCHANGED payVars
      \/ UNCHANGED payTables /\ paidSoFar' = [paidSoFar EXCEPT ![r] = 0]
      \/ ReadBalance(r) \/ InsertPayment(r)
  BY DEF AuthorizePay, Paying, LockPayId, ReplayPay, LockAgreement, CheckAgreement, LockParticipant, ExpirePay,
         Proceed, PayReject
<1> QED
  BY <1>2, <1>4, <1>5 DEF PaysIt

LEMMA UndoSteps ==
    ASSUME Inv, NEW r \in UndoReqs, AuthorizeUndo(r) \/ Undoing(r) \/ ExpirePay(r),
           UNCHANGED <<agreementVars, authorized>>
    PROVE  UndoesIt(r)
<1>1. r \in Requests /\ {"undo identity", "undo replay", "undo row", "undo check", "undo", "done"} \subseteq Places
  BY Kinds DEF Places
<1>2. pc[r] # "away"
  BY DEF AuthorizeUndo, Undoing, LockUndoId, ReplayUndo, LockPayment, CheckUndo, InsertUndo, ExpirePay, Running
<1>3. \/ \E where \in Places : \E l : Goto(r, where) \/ Acquire(r, l, where)
      \/ \E code : Finish(r, code)
  <2>1. CASE AuthorizeUndo(r)
    BY <1>1, <2>1 DEF AuthorizeUndo, Authorize
  <2>2. CASE Undoing(r) \/ ExpirePay(r)
    BY <1>1, <2>2 DEF Undoing, LockUndoId, ReplayUndo, LockPayment, CheckUndo, InsertUndo, ExpirePay,
                      Proceed, PayReject
  <2> QED BY <2>1, <2>2
<1>4. Moves(r)
  BY <1>1, <1>3, Going
<1>5. \/ UNCHANGED payVars
      \/ UNCHANGED payTables /\ paidSoFar' = [paidSoFar EXCEPT ![r] = 0]
      \/ InsertUndo(r)
  BY DEF AuthorizeUndo, Undoing, LockUndoId, ReplayUndo, LockPayment, CheckUndo, ExpirePay, Proceed, PayReject
<1> QED
  BY <1>2, <1>4, <1>5 DEF UndoesIt

Steps ==
    \/ \E r \in CreateReqs : Creates(r)
    \/ \E r \in VoidReqs : VoidsIt(r)
    \/ \E r \in PayReqs : PaysIt(r)
    \/ \E r \in UndoReqs : UndoesIt(r)
    \/ \E r \in Requests : Repeat(r)
    \/ \E i \in Instances : Stop(i)
    \/ Around

LEMMA AllSteps == ASSUME Inv, [Next]_vars PROVE Steps /\ events' \in {events, events + 1}
                                                     /\ (events' = events \/ events < MaxEvents)
<1>1. ASSUME NEW r \in Requests, Handle(r) \/ Expire(r) PROVE Steps
  <2>1. UNCHANGED authorized
    BY <1>1 DEF Handle, Expire
  <2>2. CASE r \in CreateReqs
    <3>1. (Enqueue(r) \/ Creating(r) \/ ExpireCreate(r)) /\ UNCHANGED payVars
      BY <1>1, <2>2, Kinds DEF Handle, Expire, Receive, Serve
    <3> QED BY <2>1, <2>2, <3>1, CreationSteps DEF Steps
  <2>3. CASE r \in VoidReqs
    <3>1. (AuthorizeVoid(r) \/ Voiding(r) \/ ExpireVoid(r)) /\ UNCHANGED payVars
      BY <1>1, <2>3, Kinds DEF Handle, Expire, Receive, Serve
    <3> QED BY <2>1, <2>3, <3>1, VoidSteps DEF Steps
  <2>4. CASE r \in PayReqs
    <3>1. (AuthorizePay(r) \/ Paying(r) \/ ExpirePay(r)) /\ UNCHANGED agreementVars
      BY <1>1, <2>4, Kinds DEF Handle, Expire, Receive, Serve
    <3> QED BY <2>1, <2>4, <3>1, PaySteps DEF Steps
  <2>5. CASE r \in UndoReqs
    <3>1. (AuthorizeUndo(r) \/ Undoing(r) \/ ExpirePay(r)) /\ UNCHANGED agreementVars
      BY <1>1, <2>5, Kinds DEF Handle, Expire, Receive, Serve
    <3> QED BY <2>1, <2>5, <3>1, UndoSteps DEF Steps
  <2> QED BY <2>2, <2>3, <2>4, <2>5, Kinds
<1>2. ASSUME NEW a \in Actors, Authority(a) PROVE Around
  BY <1>2 DEF Authority, Revoke, Reinstate, Around, agreementVars, agreementTables
<1>3. ASSUME NEW p \in Periods, NEW l \in Ledgers, Book(p, l), UNCHANGED <<payVars, authorized>> PROVE Around
  BY <1>3 DEF Book, Around
<1>4. ASSUME NewYear, UNCHANGED <<payVars, authorized>> PROVE Around
  BY <1>4 DEF NewYear, Around
<1>5. ASSUME UNCHANGED vars PROVE Around
  BY <1>5 DEF vars, agreementVars, agreementTables, Around
<1>6. ASSUME Surroundings PROVE Steps
  BY <1>1, <1>2, <1>3, <1>4, <1>6 DEF Surroundings, Steps
<1>7. Steps
  BY <1>1, <1>5, <1>6 DEF Next, Event, Finished, Steps
<1>8. events' = events \/ (events' = events + 1 /\ events < MaxEvents)
  BY DEF Next, Handle, Repeat, Event, Finished, vars
<1> QED
  BY <1>7, <1>8

-----------------------------------------------------------------------------
(* Types, and the queues of the processes. *)

TxTypes ==
    /\ home \in [Requests -> Instances \cup {Nowhere}]
    /\ pc \in [Requests -> Places]
    /\ held = [r \in Requests |-> held[r]]
    /\ sends \in [Requests -> 0..MaxSends]

CreationTypes ==
    /\ queue \in [Instances -> Seq(CreateReqs)]
    /\ attempt \in [CreateReqs -> 0..MaxAttempts]
    /\ folioYear \in [CreateReqs -> Years \cup {0}]

TableTypes ==
    /\ agreements = [i \in Ids |-> agreements[i]]
    /\ \A i \in Ids : agreements[i] = NoAgreement \/ IsAgreement(agreements[i])
    /\ voids \in [Ids -> VoidRows \cup {NoVoid}]
    /\ counter \in [Years -> Nat]
    /\ books \in [Periods -> Ledgers]
    /\ year \in Years

PayTypes ==
    /\ paidSoFar \in [PayReqs \cup UndoReqs -> Nat]
    /\ payments \in [PayIds -> PaymentRows \cup {NoPayment}]
    /\ undos \in [UndoIds -> UndoRows \cup {NoUndo}]
    /\ IsFiniteSet({p \in PayIds : payments[p] # NoPayment})

\* A creation that is under way waits in the queue of its process, and the
\* one in its transaction is the first of it.
QueueOK(r) ==
    /\ home[r] = Nowhere => pc[r] = "away"
    /\ Running(r) =>
          /\ \E k \in DOMAIN queue[home[r]] : queue[home[r]][k] = r
          /\ pc[r] = "queued" => attempt[r] < MaxAttempts
          /\ pc[r] # "queued" => Head(queue[home[r]]) = r
    /\ ~Running(r) => attempt[r] = 0

TypeInd ==
    /\ TxTypes /\ CreationTypes /\ TableTypes /\ PayTypes
    /\ authorized \subseteq Actors /\ events \in 0..MaxEvents
    /\ \A r \in CreateReqs : QueueOK(r)

LEMMA MovesKeepsTypes ==
    ASSUME TxTypes, NEW r \in Requests, Moves(r)
    PROVE  /\ TxTypes'
           /\ \A q \in Requests \ {r} : pc'[q] = pc[q] /\ held'[q] = held[q]
BY DEF TxTypes, Moves

LEMMA MovesKeepsQueues ==
    ASSUME TxTypes, NEW r \in Requests, r \notin CreateReqs, Moves(r), UNCHANGED <<queue, attempt>>,
           \A q \in CreateReqs : QueueOK(q)
    PROVE  \A q \in CreateReqs : QueueOK(q)'
<1> SUFFICES ASSUME NEW q \in CreateReqs PROVE QueueOK(q)'
  OBVIOUS
<1>1. QueueOK(q) /\ pc'[q] = pc[q] /\ home' = home /\ q \in Requests
  BY MovesKeepsTypes, Kinds DEF Moves
<1> QED
  BY <1>1 DEF QueueOK, Running

LEMMA CreatesKeepsQueues ==
    ASSUME TxTypes, CreationTypes, NEW r \in CreateReqs, Creates(r), \A q \in CreateReqs : QueueOK(q)
    PROVE  /\ queue' \in [Instances -> Seq(CreateReqs)]
           /\ attempt' \in [CreateReqs -> 0..MaxAttempts]
           /\ \A q \in CreateReqs : QueueOK(q)'
<1>1. /\ r \in Requests /\ Moves(r) /\ home' = home /\ MaxAttempts \in Nat \ {0}
      /\ \A q \in CreateReqs : q \in Requests
      /\ \A q \in Requests \ {r} : pc'[q] = pc[q]
  BY Kinds, MovesKeepsTypes, MaxAttemptsIsPositive DEF Creates, Moves
<1> DEFINE h == home[r]
           Q == queue[h]
<1>2. pc[r] # "away" => h \in Instances
  BY <1>1 DEF QueueOK, TxTypes
<1>3. CASE Enqueues(r)
  <2>1. /\ h \in Instances /\ Q \in Seq(CreateReqs) /\ queue' = [queue EXCEPT ![h] = Append(Q, r)]
        /\ attempt' = attempt /\ pc[r] = "idle" /\ pc'[r] = "queued"
    BY <1>2, <1>3 DEF Enqueues, CreationTypes
  <2>2. /\ Append(Q, r) \in Seq(CreateReqs) /\ DOMAIN Q \subseteq DOMAIN Append(Q, r)
        /\ \A k \in DOMAIN Q : Append(Q, r)[k] = Q[k]
        /\ \E k \in DOMAIN Append(Q, r) : Append(Q, r)[k] = r
        /\ DOMAIN Q # {} => Head(Append(Q, r)) = Head(Q)
    <3>1. Len(Append(Q, r)) = Len(Q) + 1 /\ Append(Q, r)[Len(Q) + 1] = r
      BY <2>1
    <3> QED BY <2>1, <3>1
  <2>3. queue' \in [Instances -> Seq(CreateReqs)] /\ attempt' \in [CreateReqs -> 0..MaxAttempts]
    BY <2>1, <2>2 DEF CreationTypes
  <2>4. ASSUME NEW q \in CreateReqs PROVE QueueOK(q)'
    <3>1. CASE q = r
      <4>1. queue'[h] = Append(Q, r) /\ attempt[r] = 0
        BY <2>1 DEF CreationTypes, QueueOK, Running
      <4> QED BY <1>1, <2>1, <2>2, <3>1, <4>1 DEF QueueOK, Running, TxTypes
    <3>2. CASE q # r
      <4>1. queue'[home[q]] = IF home[q] = h THEN Append(Q, r) ELSE queue[home[q]]
        BY <2>1 DEF CreationTypes
      <4>2. QueueOK(q) /\ pc'[q] = pc[q] /\ attempt'[q] = attempt[q]
        BY <1>1, <2>1, <3>2
      <4> HIDE DEF Q, h
      <4> QED BY <1>1, <2>2, <4>1, <4>2 DEF QueueOK, Running, Q, h
    <3> QED BY <3>1, <3>2
  <2> QED BY <2>3, <2>4
<1>4. CASE Begins(r)
  <2>1. /\ Head(Q) = r /\ pc[r] = "queued" /\ pc'[r] = "authorize" /\ queue' = queue
        /\ attempt' = [attempt EXCEPT ![r] = attempt[r] + 1]
    BY <1>4 DEF Begins
  <2>2. attempt[r] \in 0..MaxAttempts /\ attempt[r] < MaxAttempts /\ \E k \in DOMAIN Q : Q[k] = r
    BY <2>1 DEF QueueOK, Running, CreationTypes
  <2>3. attempt' \in [CreateReqs -> 0..MaxAttempts]
    <3>1. attempt[r] + 1 \in 0..MaxAttempts
      BY <1>1, <2>2
    <3> QED BY <2>1, <3>1 DEF CreationTypes
  <2>4. ASSUME NEW q \in CreateReqs PROVE QueueOK(q)'
    <3>1. CASE q = r
      BY <1>1, <1>2, <2>1, <2>2, <3>1 DEF QueueOK, Running
    <3>2. CASE q # r
      <4>1. QueueOK(q) /\ pc'[q] = pc[q] /\ attempt'[q] = attempt[q]
        BY <1>1, <2>1, <3>2 DEF CreationTypes
      <4> QED BY <1>1, <2>1, <4>1 DEF QueueOK, Running
    <3> QED BY <3>1, <3>2
  <2> QED BY <2>1, <2>3, <2>4 DEF CreationTypes
<1>5. CASE Advances(r)
  <2>1. /\ UNCHANGED <<queue, attempt>> /\ Running(r) /\ pc[r] # "queued"
        /\ Running(r)' /\ pc'[r] # "queued"
    BY <1>5 DEF Advances, Running
  <2>2. ASSUME NEW q \in CreateReqs PROVE QueueOK(q)'
    <3>1. QueueOK(q) /\ QueueOK(r)
      OBVIOUS
    <3>2. CASE q = r
      <4>1. pc[r] # "away" /\ pc'[r] # "away"
        BY <2>1 DEF Running
      <4> QED BY <1>1, <2>1, <3>1, <3>2, <4>1 DEF QueueOK
    <3>3. CASE q # r
      <4>1. pc'[q] = pc[q]
        BY <1>1, <3>3
      <4> QED BY <1>1, <2>1, <3>1, <4>1 DEF QueueOK, Running
    <3> QED BY <3>2, <3>3
  <2> QED BY <2>1, <2>2 DEF CreationTypes
<1>6. CASE Leaves(r) /\ pc'[r] = "queued"
  <2>1. /\ UNCHANGED <<queue, attempt>> /\ Running(r) /\ pc[r] # "queued" /\ attempt[r] < MaxAttempts
        /\ Running(r)' /\ pc'[r] = "queued" /\ pc[r] # "away"
    BY <1>6 DEF Leaves, Running
  <2>2. ASSUME NEW q \in CreateReqs PROVE QueueOK(q)'
    <3>1. QueueOK(q) /\ QueueOK(r)
      OBVIOUS
    <3>2. CASE q = r
      BY <1>1, <2>1, <3>1, <3>2 DEF QueueOK
    <3>3. CASE q # r
      <4>1. pc'[q] = pc[q]
        BY <1>1, <3>3
      <4> QED BY <1>1, <2>1, <3>1, <4>1 DEF QueueOK, Running
    <3> QED BY <3>2, <3>3
  <2> QED BY <2>1, <2>2 DEF CreationTypes
<1>7. CASE Leaves(r) /\ pc'[r] = "done"
  <2>1. /\ queue' = [queue EXCEPT ![h] = Tail(Q)] /\ attempt' = [attempt EXCEPT ![r] = 0]
        /\ Running(r) /\ pc[r] # "queued" /\ ~Running(r)'
    BY <1>7 DEF Leaves, Running
  <2>2. Head(Q) = r /\ (\E k \in DOMAIN Q : Q[k] = r) /\ h \in Instances /\ Q \in Seq(CreateReqs)
    BY <1>2, <2>1 DEF QueueOK, CreationTypes, Running
  <2>3. /\ Tail(Q) \in Seq(CreateReqs)
        /\ \A q \in CreateReqs \ {r} : (\E k \in DOMAIN Q : Q[k] = q) => \E k \in DOMAIN Tail(Q) : Tail(Q)[k] = q
    <3>1. Q # << >> /\ Q[1] = r /\ Len(Q) \in Nat /\ DOMAIN Q = 1..Len(Q)
      BY <2>2
    <3>2. Tail(Q) \in Seq(CreateReqs) /\ Len(Tail(Q)) = Len(Q) - 1
          /\ \A k \in 1..Len(Tail(Q)) : Tail(Q)[k] = Q[k + 1]
      BY <2>2, <3>1
    <3>3. ASSUME NEW q \in CreateReqs \ {r}, NEW k \in DOMAIN Q, Q[k] = q
          PROVE  \E j \in DOMAIN Tail(Q) : Tail(Q)[j] = q
      <4>1. k - 1 \in 1..Len(Tail(Q)) /\ (k - 1) + 1 = k /\ DOMAIN Tail(Q) = 1..Len(Tail(Q))
        BY <3>1, <3>2, <3>3
      <4>2. Tail(Q)[k - 1] = Q[(k - 1) + 1]
        BY <3>2, <4>1
      <4> HIDE DEF Q
      <4> QED BY <3>3, <4>1, <4>2
    <3> QED BY <3>2, <3>3
  <2>4. queue' \in [Instances -> Seq(CreateReqs)] /\ attempt' \in [CreateReqs -> 0..MaxAttempts]
    BY <1>1, <2>1, <2>2, <2>3 DEF CreationTypes
  <2>5. ASSUME NEW q \in CreateReqs PROVE QueueOK(q)'
    <3>1. CASE q = r
      <4>1. attempt'[r] = 0
        BY <2>1 DEF CreationTypes
      <4> QED BY <1>1, <2>1, <2>2, <3>1, <4>1, NowhereIsNoInstance DEF QueueOK
    <3>2. CASE q # r
      <4>1. queue'[home[q]] = IF home[q] = h THEN Tail(Q) ELSE queue[home[q]]
        BY <2>1, <2>2 DEF CreationTypes
      <4>2. QueueOK(q) /\ pc'[q] = pc[q] /\ attempt'[q] = attempt[q]
        BY <1>1, <2>1, <3>2 DEF CreationTypes
      <4>3. CASE home[q] = h
        <5>1. Running(q) => pc[q] = "queued"
          BY <2>2, <3>2, <4>2, <4>3 DEF QueueOK
        <5> HIDE DEF Q, h
        <5>2. queue[home[q]] = Q
          BY <4>3 DEF Q
        <5> QED BY <1>1, <2>3, <3>2, <4>1, <4>2, <4>3, <5>1, <5>2 DEF QueueOK, Running
      <4>4. CASE home[q] # h
        <5>1. queue'[home'[q]] = queue[home[q]]
          BY <1>1, <4>1, <4>4
        <5> QED BY <1>1, <4>2, <5>1 DEF QueueOK, Running
      <4> QED BY <4>3, <4>4
    <3> QED BY <3>1, <3>2
  <2> QED BY <2>4, <2>5
<1> QED
  BY <1>3, <1>4, <1>5, <1>6, <1>7 DEF Creates, Inserts, Leaves

-----------------------------------------------------------------------------
(* Shares. *)

LEMMA LedgerTypes ==
    ASSUME NEW l \in Ledgers
    PROVE  /\ l.socios \subseteq Members /\ DOMAIN l.work \subseteq Members
           /\ \A m \in DOMAIN l.work : l.work[m] \in Nat
BY LedgersAreValid

\* The books that a snapshot shows can be divided.
LEMMA LedgerIsBooks ==
    ASSUME NEW l \in Ledgers
    PROVE  BooksOK(l) /\ Participants(l) \subseteq Members
<1>1. /\ l.socios \subseteq Members /\ DOMAIN l.work \subseteq Members
      /\ \A m \in DOMAIN l.work : l.work[m] \in Nat
  BY LedgerTypes
<1>2. IsFiniteSet(l.socios) /\ IsFiniteSet(DOMAIN l.work)
  BY <1>1, MembersAreFinite, FS_Subset
<1> QED
  BY <1>1, <1>2, MembersAreFinite DEF BooksOK, WeightOK, Participants

LEMMA BodyNumbers ==
    ASSUME NEW r \in CreateReqs
    PROVE  CreateBody[r].requested \in Nat \ {0} /\ CreateBody[r].bps \in 0..BpsTotal
BY CreateBodiesAreValid DEF CreateBodies

\* The row that a creation inserts is an agreement.
LEMMA RowIsAgreement ==
    ASSUME Inv, TypeInd, NEW r \in CreateReqs, pc[r] = "insert"
    PROVE  IsAgreement(AgreementRow(r)) /\ folioYear[r] \in Years
<1> DEFINE b == CreateBody[r]
           y == folioYear[r]
           l == snap[r].books[b.period]
<1>1. r \in Requests /\ CreateOK(r) /\ TablesOK
  BY Kinds DEF Inv, RequestOK
<1>2. b \in CreateBodies /\ b.period \in Periods
  BY CreateBodiesAreValid DEF CreateBodies
<1>3. b.requested \in Nat /\ b.bps \in 0..BpsTotal
  BY BodyNumbers
<1>4. y \in Years /\ counter[y] = snap[r].counter[y] /\ l \in Ledgers
  BY <1>1, <1>2 DEF CreateOK
<1>5. counter[y] \in Nat
  BY <1>1, <1>4 DEF TablesOK
<1> DEFINE sh == Shares(l, b.requested, b.bps)
<1>6. DOMAIN sh \subseteq Members /\ \A m \in DOMAIN sh : sh[m] \in Nat
  BY <1>3, <1>4, LedgerIsBooks, SharesAreNat
<1>7. l.available \in Int
  BY <1>4, LedgersAreValid
<1>8. ActorOf[r] \in Actors
  BY <1>1, ActorOfIsActor
<1> DEFINE row == AgreementRow(r)
<1>9. /\ row.body = b /\ row.fingerprint = <<ActorOf[r], b>> /\ row.shares = sh /\ row.available = l.available
      /\ row.folio = [year |-> y, number |-> snap[r].counter[y] + 1]
  BY Zenon DEF AgreementRow, CreateFingerprint
<1> HIDE DEF row, sh, b, l, y
<1>10. row.folio \in [year : Years, number : Nat \ {0}]
  BY <1>4, <1>5, <1>9
<1>11. row.fingerprint \in Actors \X CreateBodies
  BY <1>2, <1>8, <1>9
<1>12. IsAgreement(row)
  BY <1>2, <1>6, <1>7, <1>9, <1>10, <1>11 DEF IsAgreement
<1> QED
  BY <1>4, <1>12 DEF row, y

LEMMA CreatesKeepsTypes ==
    ASSUME Inv, TypeInd, NEW r \in CreateReqs, Creates(r), events' \in 0..MaxEvents
    PROVE  TypeInd'
<1>1. r \in Requests /\ TxTypes' /\ Moves(r)
  BY Kinds, MovesKeepsTypes DEF Creates, TypeInd
<1>2. UNCHANGED <<payVars, authorized, books, year, voids>>
  BY DEF Creates
<1>3. PayTypes'
  BY <1>2 DEF TypeInd, PayTypes, payVars, payTables
<1>4. /\ queue' \in [Instances -> Seq(CreateReqs)] /\ attempt' \in [CreateReqs -> 0..MaxAttempts]
      /\ \A q \in CreateReqs : QueueOK(q)'
  BY CreatesKeepsQueues DEF TypeInd
<1>5. folioYear' \in [CreateReqs -> Years \cup {0}]
  <2>1. \/ folioYear' = folioYear \/ folioYear' = [folioYear EXCEPT ![r] = year]
        \/ folioYear' = [folioYear EXCEPT ![r] = 0]
    BY DEF Creates, Enqueues, Begins, Advances, Inserts, Leaves
  <2> QED BY <2>1 DEF TypeInd, CreationTypes, TableTypes
<1>6. TableTypes'
  <2>1. CASE UNCHANGED <<agreements, counter>>
    BY <1>2, <2>1 DEF TypeInd, TableTypes
  <2>2. CASE Inserts(r)
    <3> DEFINE row == AgreementRow(r)
               id == CreateBody[r].id
    <3>1. IsAgreement(row) /\ folioYear[r] \in Years
      BY <2>2, RowIsAgreement DEF Inserts
    <3>2. agreements' = [agreements EXCEPT ![id] = row] /\ counter' = [counter EXCEPT ![folioYear[r]] = row.folio.number]
      BY <2>2 DEF Inserts
    <3>3. row.folio.number \in Nat
      BY <3>1 DEF IsAgreement
    <3>4. agreements = [i \in Ids |-> agreements[i]] /\ counter \in [Years -> Nat]
          /\ \A i \in Ids : agreements[i] = NoAgreement \/ IsAgreement(agreements[i])
      BY DEF TypeInd, TableTypes
    <3> HIDE DEF row, id
    <3>5. /\ agreements' = [i \in Ids |-> agreements'[i]] /\ counter' \in [Years -> Nat]
          /\ \A i \in Ids : agreements'[i] = agreements[i] \/ agreements'[i] = row
      BY <3>2, <3>3, <3>4
    <3>6. \A i \in Ids : agreements'[i] = NoAgreement \/ IsAgreement(agreements'[i])
      BY <3>1, <3>4, <3>5
    <3> QED BY <1>2, <3>5, <3>6 DEF TypeInd, TableTypes, IsAgreement
  <2> QED BY <2>1, <2>2 DEF Creates, Enqueues, Begins, Advances
<1> QED
  BY <1>1, <1>2, <1>3, <1>4, <1>5, <1>6 DEF TypeInd, CreationTypes

LEMMA VoidsKeepTypes ==
    ASSUME TypeInd, NEW r \in VoidReqs, VoidsIt(r), events' \in 0..MaxEvents
    PROVE  TypeInd'
<1>1. r \in Requests /\ r \notin CreateReqs /\ TxTypes' /\ Moves(r)
  BY Kinds, MovesKeepsTypes DEF VoidsIt, TypeInd
<1>2. UNCHANGED <<queue, attempt, folioYear, agreements, counter, books, year, authorized, paidSoFar, payments, undos>>
  BY DEF VoidsIt, creationVars, payVars, payTables
<1>3. \A q \in CreateReqs : QueueOK(q)'
  BY <1>1, <1>2, MovesKeepsQueues DEF TypeInd
<1>4. voids' \in [Ids -> VoidRows \cup {NoVoid}]
  <2>1. [target |-> VoidBody[r].target, fingerprint |-> VoidFingerprint(r)] \in VoidRows
    <3>1. VoidBody[r] \in VoidBodies /\ VoidBody[r].target \in Ids /\ ActorOf[r] \in Actors
      BY <1>1, VoidBodiesAreValid, ActorOfIsActor DEF VoidBodies
    <3> QED BY <3>1 DEF VoidRows, VoidFingerprint
  <2> QED BY <2>1 DEF VoidsIt, TypeInd, TableTypes
<1> QED
  BY <1>1, <1>2, <1>3, <1>4 DEF TypeInd, CreationTypes, TableTypes, PayTypes

\* What somebody has received is a sum of natural numbers.
LEMMA PaidIsNat ==
    ASSUME PayTypes, NEW i, NEW m
    PROVE  /\ Paid(i, m) \in Nat /\ IsFiniteSet(Received(i, m))
           /\ \A p \in PayIds : payments[p] # NoPayment => payments[p].body.amount \in Nat
<1>1. IsFiniteSet(Received(i, m))
  <2>1. Received(i, m) \subseteq {p \in PayIds : payments[p] # NoPayment}
    BY DEF Received
  <2> QED BY <2>1, FS_Subset DEF PayTypes
<1>2. \A p \in PayIds : payments[p] # NoPayment => payments[p].body.amount \in Nat
  BY DEF PayTypes, PaymentRows, PayBodies
<1>3. \A p \in Received(i, m) : payments[p].body.amount \in Nat
  BY <1>2 DEF Received
<1> QED
  BY <1>1, <1>2, <1>3, TotalIsNat DEF Paid

LEMMA PaysKeepTypes ==
    ASSUME TypeInd, NEW r \in PayReqs \cup UndoReqs, (PaysIt(r) /\ r \in PayReqs) \/ (UndoesIt(r) /\ r \in UndoReqs),
           events' \in 0..MaxEvents
    PROVE  TypeInd'
<1>1. r \in Requests /\ r \notin CreateReqs /\ TxTypes' /\ Moves(r)
  BY Kinds, MovesKeepsTypes DEF PaysIt, UndoesIt, TypeInd
<1>2. UNCHANGED <<queue, attempt, folioYear, agreements, counter, voids, books, year, authorized>>
  BY DEF PaysIt, UndoesIt, agreementVars, creationVars, agreementTables
<1>3. \A q \in CreateReqs : QueueOK(q)'
  BY <1>1, <1>2, MovesKeepsQueues DEF TypeInd
<1>4. PayTypes
  BY DEF TypeInd
<1>5. PayTypes'
  <2>1. CASE UNCHANGED payTables /\ paidSoFar' \in {paidSoFar, [paidSoFar EXCEPT ![r] = 0]}
    BY <1>4, <2>1 DEF PayTypes, payTables
  <2>2. CASE ReadBalance(r) /\ UNCHANGED payTables /\ r \in PayReqs
    <3>1. \E n \in Nat : paidSoFar' = [paidSoFar EXCEPT ![r] = n]
      BY <1>4, <2>2, PaidIsNat DEF ReadBalance, PayReject
    <3> QED BY <1>4, <2>2, <3>1 DEF PayTypes, payTables
  <2>3. ASSUME r \in PayReqs,
               payments' = [payments EXCEPT ![PayBody[r].id] = [body |-> PayBody[r], fingerprint |-> PayFingerprint(r)]],
               paidSoFar' = [paidSoFar EXCEPT ![r] = 0], UNCHANGED undos
        PROVE  PayTypes'
    <3> DEFINE b == PayBody[r]
               row == [body |-> b, fingerprint |-> PayFingerprint(r)]
    <3>1. b \in PayBodies /\ b.id \in PayIds /\ ActorOf[r] \in Actors
      BY <1>1, <2>3, PayBodiesAreValid, ActorOfIsActor DEF PayBodies
    <3>2. row \in PaymentRows
      BY <3>1 DEF PaymentRows, PayFingerprint
    <3> HIDE DEF b, row
    <3>3. payments' = [payments EXCEPT ![b.id] = row]
      BY <2>3 DEF b, row
    <3>4. payments' \in [PayIds -> PaymentRows \cup {NoPayment}]
      BY <1>4, <3>2, <3>3 DEF PayTypes
    <3>5. IsFiniteSet({p \in PayIds : payments'[p] # NoPayment})
      <4>1. {p \in PayIds : payments'[p] # NoPayment} \subseteq {p \in PayIds : payments[p] # NoPayment} \cup {b.id}
        BY <1>4, <3>3 DEF PayTypes
      <4>2. IsFiniteSet({p \in PayIds : payments[p] # NoPayment} \cup {b.id})
        BY <1>4, FS_AddElement DEF PayTypes
      <4> QED BY <4>1, <4>2, FS_Subset
    <3> QED BY <1>4, <2>3, <3>4, <3>5 DEF PayTypes
  <2>4. ASSUME r \in UndoReqs, UNCHANGED <<paidSoFar, payments>>,
               undos' = [undos EXCEPT ![UndoBody[r].id] =
                     [payment |-> UndoBody[r].payment, fingerprint |-> UndoFingerprint(r)]]
        PROVE  PayTypes'
    <3>1. UndoBody[r] \in UndoBodies /\ UndoBody[r].payment \in PayIds /\ ActorOf[r] \in Actors
      BY <1>1, <2>4, UndoBodiesAreValid, ActorOfIsActor DEF UndoBodies
    <3>2. [payment |-> UndoBody[r].payment, fingerprint |-> UndoFingerprint(r)] \in UndoRows
      BY <3>1 DEF UndoRows, UndoFingerprint
    <3> QED BY <1>4, <2>4, <3>2 DEF PayTypes
  <2>5. CASE PaysIt(r) /\ r \in PayReqs
    <3>1. CASE InsertPayment(r)
      BY <2>1, <2>3, <2>5, <3>1 DEF InsertPayment, PayReject
    <3>2. CASE ReadBalance(r)
      <4>1. UNCHANGED payTables
        BY <3>2 DEF ReadBalance, PayReject
      <4> QED BY <2>2, <2>5, <3>2, <4>1
    <3> QED BY <2>1, <2>5, <3>1, <3>2 DEF PaysIt, payVars
  <2>6. CASE UndoesIt(r) /\ r \in UndoReqs
    <3>1. CASE InsertUndo(r)
      BY <2>1, <2>4, <2>6, <3>1 DEF InsertUndo, PayReject
    <3> QED BY <2>1, <2>6, <3>1 DEF UndoesIt, payVars
  <2> QED BY <2>5, <2>6
<1> QED
  BY <1>1, <1>2, <1>3, <1>5 DEF TypeInd, CreationTypes, TableTypes

LEMMA RepeatKeepsTypes ==
    ASSUME TypeInd, NEW r \in Requests, Repeat(r), events' \in 0..MaxEvents
    PROVE  TypeInd'
<1>1. /\ UNCHANGED <<home, held, queue, attempt, folioYear, agreements, counter, voids, books, year, authorized,
                     paidSoFar, payments, undos>>
      /\ pc[r] = "done" /\ pc' = [pc EXCEPT ![r] = "idle"]
      /\ sends[r] < MaxSends /\ sends' = [sends EXCEPT ![r] = sends[r] + 1]
  BY DEF Repeat, Resend, agreementVars, creationVars, agreementTables, payVars, payTables
<1>2. TxTypes'
  <2>1. sends[r] + 1 \in 0..MaxSends
    BY <1>1, MaxSendsIsNat DEF TypeInd, TxTypes
  <2>2. "idle" \in Places
    BY DEF Places
  <2> QED BY <1>1, <2>1, <2>2 DEF TypeInd, TxTypes
<1>3. ASSUME NEW q \in CreateReqs PROVE QueueOK(q)'
  <2>1. QueueOK(q) /\ q \in Requests /\ DOMAIN pc = Requests
    BY Kinds DEF TypeInd, TxTypes
  <2>2. CASE q = r
    BY <1>1, <2>1, <2>2 DEF QueueOK, Running
  <2>3. CASE q # r
    <3>1. pc'[q] = pc[q]
      BY <1>1, <2>1, <2>3
    <3> QED BY <1>1, <2>1, <3>1 DEF QueueOK, Running
  <2> QED BY <2>2, <2>3
<1> QED
  BY <1>1, <1>2, <1>3 DEF TypeInd, CreationTypes, TableTypes, PayTypes

LEMMA StopKeepsTypes ==
    ASSUME TypeInd, NEW i \in Instances, Stop(i), events' \in 0..MaxEvents
    PROVE  TypeInd'
<1>1. /\ UNCHANGED <<home, sends, agreements, counter, voids, books, year, authorized, payments, undos>>
      /\ DropHome(i) /\ queue' = [queue EXCEPT ![i] = << >>]
      /\ attempt' = [r \in CreateReqs |-> IF home[r] = i THEN 0 ELSE attempt[r]]
      /\ folioYear' = [r \in CreateReqs |-> IF home[r] = i THEN 0 ELSE folioYear[r]]
      /\ paidSoFar' = [r \in PayReqs \cup UndoReqs |-> IF home[r] = i THEN 0 ELSE paidSoFar[r]]
  <2>1. \A r \in CreateReqs : r \in {q \in CreateReqs : home[q] = i} <=> home[r] = i
    OBVIOUS
  <2> QED BY <2>1 DEF Stop, Crash, DropHome, agreementTables, payTables
<1>2. \A r \in Requests : pc'[r] = IF home[r] = i /\ Running(r) THEN "done" ELSE pc[r]
  BY <1>1 DEF DropHome
<1>3. TxTypes'
  <2>1. "done" \in Places
    BY DEF Places
  <2>2. pc' \in [Requests -> Places]
    BY <1>1, <2>1 DEF DropHome, TypeInd, TxTypes
  <2>3. held' = [r \in Requests |-> held'[r]]
    BY <1>1 DEF DropHome
  <2> QED BY <1>1, <2>2, <2>3 DEF TypeInd, TxTypes
<1>4. ASSUME NEW q \in CreateReqs PROVE QueueOK(q)'
  <2>1. QueueOK(q) /\ q \in Requests /\ home'[q] = home[q] /\ queue \in [Instances -> Seq(CreateReqs)]
    BY <1>1, Kinds DEF TypeInd, CreationTypes
  <2>2. CASE home[q] = i
    <3>1. ~Running(q)' /\ attempt'[q] = 0
      BY <1>1, <1>2, <2>1, <2>2 DEF Running
    <3> QED BY <2>1, <2>2, <3>1, NowhereIsNoInstance DEF QueueOK
  <2>3. CASE home[q] # i
    <3>1. pc'[q] = pc[q] /\ attempt'[q] = attempt[q] /\ queue'[home[q]] = queue[home[q]]
      BY <1>1, <1>2, <2>1, <2>3
    <3> QED BY <2>1, <3>1 DEF QueueOK, Running
  <2> QED BY <2>2, <2>3
<1>5. CreationTypes'
  <2>1. << >> \in Seq(CreateReqs) /\ 0 \in 0..MaxAttempts
    BY MaxAttemptsIsPositive
  <2> QED BY <1>1, <2>1 DEF TypeInd, CreationTypes
<1> QED
  BY <1>1, <1>3, <1>4, <1>5 DEF TypeInd, TableTypes, PayTypes

LEMMA AroundKeepsTypes ==
    ASSUME TypeInd, Around, events' \in 0..MaxEvents
    PROVE  TypeInd'
<1>1. /\ UNCHANGED <<home, pc, held, sends, queue, attempt, folioYear, agreements, counter, voids, paidSoFar, payments, undos>>
      /\ authorized' \subseteq Actors /\ books' \in [Periods -> Ledgers] /\ year' \in Years
  BY DEF Around, TypeInd, TableTypes, txVars, creationVars, agreementTables, payVars, payTables
<1> QED
  BY <1>1 DEF TypeInd, TxTypes, CreationTypes, TableTypes, PayTypes, QueueOK, Running

LEMMA TypesAtFirst == ASSUME Init PROVE TypeInd
<1>1. PICK homes \in Homes : TxInit(homes)
  BY DEF Init
<1>2. homes \in [Requests -> Instances \cup {Nowhere}] /\ AgreementsInit(Filed, Opening) /\ PaymentsInit
  BY HomesAreHomes DEF Init
<1>3. TxTypes
  <2>1. "away" \in Places /\ "idle" \in Places
    BY DEF Places
  <2> QED BY <1>1, <1>2, <2>1, MaxSendsIsNat DEF TxInit, TxTypes
<1>4. CreationTypes
  BY <1>2, MaxAttemptsIsPositive DEF AgreementsInit, CreationTypes
<1>5. TableTypes
  <2>1. counter \in [Years -> Nat]
    <3>1. ASSUME NEW y \in Years PROVE counter[y] \in Nat
      <4>1. IsFiniteSet({i \in Ids : Filed[i] # NoAgreement /\ Filed[i].folio.year = y})
        BY IdsAreOrdered, FS_Subset
      <4>2. counter[y] = Cardinality({i \in Ids : Filed[i] # NoAgreement /\ Filed[i].folio.year = y})
        BY <1>2 DEF AgreementsInit
      <4> QED BY <4>1, <4>2, FS_CardinalityType
    <3>2. counter = [y \in Years |-> counter[y]]
      BY <1>2 DEF AgreementsInit
    <3> QED BY <3>1, <3>2
  <2>2. agreements = Filed /\ books = Opening /\ year \in Years /\ voids = [v \in Ids |-> NoVoid]
    BY <1>2 DEF AgreementsInit
  <2>3. /\ agreements = [i \in Ids |-> agreements[i]]
        /\ \A i \in Ids : agreements[i] = NoAgreement \/ IsAgreement(agreements[i])
    BY <2>2, FiledIsValid
  <2> QED BY <2>1, <2>2, <2>3, OpeningIsValid DEF TableTypes
<1>6. PayTypes
  <2>1. {p \in PayIds : payments[p] # NoPayment} = {}
    BY <1>2 DEF PaymentsInit
  <2> QED BY <1>2, <2>1, FS_EmptySet DEF PaymentsInit, PayTypes
<1>7. \A r \in CreateReqs : QueueOK(r)
  BY <1>1, <1>2, Kinds DEF TxInit, AgreementsInit, QueueOK, Running
<1> QED
  BY <1>3, <1>4, <1>5, <1>6, <1>7, MaxEventsIsNat DEF Init, ActorsInit, TypeInd

LEMMA TypesKept == ASSUME Inv, TypeInd, [Next]_vars PROVE TypeInd'
<1>1. Steps /\ events' \in 0..MaxEvents
  <2>1. events \in 0..MaxEvents /\ MaxEvents \in Nat
    BY MaxEventsIsNat DEF TypeInd
  <2> QED BY <2>1, AllSteps
<1> QED
  <2>1. ASSUME NEW r \in PayReqs, PaysIt(r) PROVE TypeInd'
    BY <1>1, <2>1, PaysKeepTypes
  <2>2. ASSUME NEW r \in UndoReqs, UndoesIt(r) PROVE TypeInd'
    BY <1>1, <2>2, PaysKeepTypes
  <2>3. ASSUME NEW r \in CreateReqs, Creates(r) PROVE TypeInd'
    BY <1>1, <2>3, CreatesKeepsTypes
  <2>4. ASSUME NEW r \in VoidReqs, VoidsIt(r) PROVE TypeInd'
    BY <1>1, <2>4, VoidsKeepTypes
  <2>5. ASSUME NEW r \in Requests, Repeat(r) PROVE TypeInd'
    BY <1>1, <2>5, RepeatKeepsTypes
  <2>6. ASSUME NEW i \in Instances, Stop(i) PROVE TypeInd'
    BY <1>1, <2>6, StopKeepsTypes
  <2>7. ASSUME Around PROVE TypeInd'
    BY <1>1, <2>7, AroundKeepsTypes
  <2> QED BY <1>1, <2>1, <2>2, <2>3, <2>4, <2>5, <2>6, <2>7 DEF Steps

(* Whatever happens, every table, queue and lock has its type: a folio is  *)
(* a positive number of a year, a share is a natural number of minor units *)
(* of a member, and nothing is attempted more than MAX_CREATE_ATTEMPTS     *)
(* times.                                                                  *)
THEOREM FinanceTypes == Spec => []TypeOK
<1>1. Init => Inv /\ TypeInd
  BY AtFirst, TypesAtFirst
<1>2. Inv /\ TypeInd /\ [Next]_vars => (Inv /\ TypeInd)'
  BY EveryStep, TypesKept
<1>3. TypeInd => TypeOK
  BY DEF TypeInd, TypeOK, TxTypes, CreationTypes, TableTypes, PayTypes, ActorsTypeOK
<1> QED
  BY <1>1, <1>2, <1>3, PTL DEF Spec

-----------------------------------------------------------------------------
(* Money. *)

\* Payments are of agreements that exist, reversals of payments that do.
Ties ==
    /\ \A p \in PayIds : payments[p] # NoPayment => agreements[payments[p].body.agreement] # NoAgreement
    /\ \A u \in UndoIds : undos[u] # NoUndo => payments[undos[u].payment] # NoPayment

\* What a payment has read stays true while it holds the participant's lock.
PayKnows(r) ==
    LET b == PayBody[r]
    IN  /\ pc[r] \in {"agreement", "participant", "balance", "pay"} => agreements[b.agreement] # NoAgreement
        /\ pc[r] \in {"participant", "balance", "pay"} => b.member \in DOMAIN agreements[b.agreement].shares
        /\ pc[r] \in {"balance", "pay"} => ParticipantLock(b.agreement, b.member) \in held[r]
        /\ pc[r] = "pay" => paidSoFar[r] = Paid(b.agreement, b.member)

UndoKnows(r) ==
    LET p == UndoBody[r].payment
    IN  pc[r] \in {"undo row", "undo check", "undo"} =>
            /\ payments[p] # NoPayment
            /\ ParticipantLock(payments[p].body.agreement, payments[p].body.member) \in held[r]

Knowing == (\A r \in PayReqs : PayKnows(r)) /\ (\A r \in UndoReqs : UndoKnows(r))

NoneOverpaid ==
    \A i \in Ids : agreements[i] # NoAgreement =>
        \A m \in DOMAIN agreements[i].shares : Paid(i, m) <= agreements[i].shares[m]

Money == Ties /\ Knowing /\ NoneOverpaid

\* Rows of agreements stay.
RowsStay == \A i \in Ids : agreements[i] # NoAgreement => agreements'[i] = agreements[i]

LEMMA PayTargets ==
    /\ \A r \in PayReqs : /\ PayBody[r].id \in PayIds /\ PayBody[r].agreement \in Ids
                          /\ PayBody[r].amount \in Nat /\ PayBody[r].member \in Members
    /\ \A r \in UndoReqs : UndoBody[r].id \in UndoIds /\ UndoBody[r].payment \in PayIds
BY PayBodiesAreValid, UndoBodiesAreValid DEF PayBodies, UndoBodies

LEMMA PaymentTargets ==
    ASSUME PayTypes, NEW p \in PayIds, payments[p] # NoPayment
    PROVE  payments[p].body.agreement \in Ids /\ payments[p].body.amount \in Nat
BY DEF PayTypes, PaymentRows, PayBodies

\* Payments and reversals stay: whoever does not move still knows what it knew.
LEMMA StillKnow ==
    ASSUME Knowing, UNCHANGED <<payments, undos>>, RowsStay, NEW q \in PayReqs \cup UndoReqs,
           pc'[q] = pc[q], held'[q] = held[q], q \in PayReqs => paidSoFar'[q] = paidSoFar[q]
    PROVE  /\ q \in PayReqs => PayKnows(q)'
           /\ q \in UndoReqs => UndoKnows(q)'
<1>1. ASSUME NEW i, NEW m PROVE Paid(i, m)' = Paid(i, m)
  BY DEF Paid, Received, Undone
<1>2. q \in PayReqs => PayKnows(q)'
  <2> HAVE q \in PayReqs
  <2>1. PayKnows(q) /\ PayBody[q].agreement \in Ids
    BY PayTargets DEF Knowing
  <2>2. agreements[PayBody[q].agreement] # NoAgreement
           => agreements'[PayBody[q].agreement] = agreements[PayBody[q].agreement]
    BY <2>1 DEF RowsStay
  <2> QED BY <1>1, <2>1, <2>2 DEF PayKnows, ParticipantLock, Exclusive
<1>3. q \in UndoReqs => UndoKnows(q)'
  <2> HAVE q \in UndoReqs
  <2>1. UndoKnows(q)
    BY DEF Knowing
  <2> QED BY <2>1 DEF UndoKnows, ParticipantLock, Exclusive
<1> QED
  BY <1>2, <1>3

\* A new agreement has no payments yet.
LEMMA TablesStayTied ==
    ASSUME TypeInd, TypeInd', Money, UNCHANGED <<payments, undos>>, RowsStay
    PROVE  Ties' /\ NoneOverpaid'
<1>1. Ties'
  <2>1. ASSUME NEW p \in PayIds, payments[p] # NoPayment
        PROVE  agreements'[payments[p].body.agreement] # NoAgreement
    <3>1. payments[p].body.agreement \in Ids
      BY <2>1, PaymentTargets DEF TypeInd
    <3> QED BY <2>1, <3>1 DEF Money, Ties, RowsStay
  <2> QED BY <2>1 DEF Money, Ties
<1>2. ASSUME NEW i, NEW m PROVE Paid(i, m)' = Paid(i, m)
  BY DEF Paid, Received, Undone
<1>3. ASSUME NEW i \in Ids, agreements'[i] # NoAgreement, NEW m \in DOMAIN agreements'[i].shares
      PROVE  Paid(i, m) <= agreements'[i].shares[m]
  <2>1. CASE agreements[i] # NoAgreement
    BY <1>3, <2>1 DEF Money, NoneOverpaid, RowsStay
  <2>2. CASE agreements[i] = NoAgreement
    <3>1. Received(i, m) = {}
      BY <2>2 DEF Received, Money, Ties
    <3>2. Paid(i, m) = 0
      BY <3>1, SumOfNone DEF Paid
    <3>3. agreements'[i].shares[m] \in Nat
      BY <1>3 DEF TypeInd, TableTypes, IsAgreement
    <3> QED BY <3>2, <3>3
  <2> QED BY <2>1, <2>2
<1> QED
  BY <1>1, <1>2, <1>3 DEF NoneOverpaid

\* One request moves, payments and reversals stay.
LEMMA QuietMoney ==
    ASSUME TypeInd, TypeInd', Money, NEW r \in Requests, Moves(r), UNCHANGED <<payments, undos>>, RowsStay,
           \A q \in PayReqs \ {r} : paidSoFar'[q] = paidSoFar[q],
           r \in PayReqs => PayKnows(r)', r \in UndoReqs => UndoKnows(r)'
    PROVE  Money'
<1>1. \A q \in Requests \ {r} : pc'[q] = pc[q] /\ held'[q] = held[q]
  BY MovesKeepsTypes DEF TypeInd
<1>2. Ties' /\ NoneOverpaid'
  BY TablesStayTied
<1>3. ASSUME NEW q \in PayReqs PROVE PayKnows(q)'
  BY <1>1, StillKnow, Kinds DEF Money
<1>4. ASSUME NEW q \in UndoReqs PROVE UndoKnows(q)'
  BY <1>1, StillKnow, Kinds DEF Money
<1> QED
  BY <1>2, <1>3, <1>4 DEF Money, Knowing

LEMMA PaidLater ==
    ASSUME PayTypes', NEW i, NEW m
    PROVE  Paid(i, m)' \in Nat
<1>1. IsFiniteSet(Received(i, m)')
  <2>1. Received(i, m)' \subseteq {p \in PayIds : payments'[p] # NoPayment}
    BY DEF Received
  <2> QED BY <2>1, FS_Subset DEF PayTypes
<1>2. \A p \in PayIds : payments'[p] # NoPayment => payments'[p].body.amount \in Nat
  BY DEF PayTypes, PaymentRows, PayBodies
<1>3. \A p \in Received(i, m)' : payments'[p].body.amount \in Nat
  BY <1>2 DEF Received
<1> QED
  BY <1>1, <1>2, <1>3, TotalIsNat DEF Paid

LEMMA PaidsAreNat ==
    ASSUME TypeInd, TypeInd', NEW i, NEW m
    PROVE  Paid(i, m) \in Nat /\ Paid(i, m)' \in Nat
BY PaidIsNat, PaidLater DEF TypeInd

\* The sum after a payment of b has been recorded.
LEMMA PaidAfterPay ==
    ASSUME TypeInd, Ties, NEW b \in PayBodies, NEW row, row.body = b, payments[b.id] = NoPayment,
           payments' = [payments EXCEPT ![b.id] = row], undos' = undos, NEW i, NEW m
    PROVE  /\ (i # b.agreement \/ m # b.member) => Paid(i, m)' = Paid(i, m)
           /\ Paid(i, m)' <= Paid(i, m) + b.amount
<1>1. b.id \in PayIds /\ b.amount \in Nat /\ PayTypes
  BY DEF PayBodies, TypeInd
<1> DEFINE S == Received(i, m)
           f == [p \in S |-> payments[p].body.amount]
<1>2. /\ Paid(i, m) \in Nat /\ IsFiniteSet(S) /\ \A p \in S : payments[p].body.amount \in Nat
      /\ Paid(i, m) = SumFunction(f) /\ b.id \notin S
  <2>1. \A p \in S : payments[p].body.amount \in Nat
    BY <1>1, PaidIsNat DEF Received
  <2>2. Paid(i, m) = SumFunction(f)
    BY DEF Paid
  <2>3. b.id \notin S
    BY DEF Received
  <2>4. Paid(i, m) \in Nat /\ IsFiniteSet(S)
    BY <1>1, PaidIsNat
  <2> QED BY <2>1, <2>2, <2>3, <2>4
<1>3. /\ \A p \in PayIds \ {b.id} : payments'[p] = payments[p]
      /\ payments'[b.id] = row
      /\ \A p : Undone(p)' <=> Undone(p)
  BY <1>1 DEF PayTypes, Undone
<1>4. CASE Received(i, m)' = S
  <2>1. Paid(i, m)' = SumFunction([p \in S |-> payments'[p].body.amount])
    BY <1>4 DEF Paid
  <2>2. \A p \in S : payments'[p] = payments[p]
    BY <1>2, <1>3 DEF Received
  <2>3. [p \in S |-> payments'[p].body.amount] = f
    BY <2>2
  <2> HIDE DEF f, S
  <2> QED BY <1>1, <1>2, <2>1, <2>3
<1>5. CASE Received(i, m)' # S
  <2>1. /\ i = b.agreement /\ m = b.member
        /\ Received(i, m)' = S \cup {b.id}
    <3>1. \A p \in PayIds \ {b.id} : p \in Received(i, m)' <=> p \in S
      BY <1>3 DEF Received
    <3>2. Received(i, m)' \subseteq PayIds /\ S \subseteq PayIds
      BY DEF Received
    <3>3. b.id \in Received(i, m)'
      <4>1. b.id \notin S
        BY <1>2
      <4> DEFINE R == Received(i, m)'
      <4>2. R # S /\ (\A p \in PayIds \ {b.id} : p \in R <=> p \in S) /\ R \subseteq PayIds /\ S \subseteq PayIds
        BY <1>5, <3>1, <3>2
      <4> HIDE DEF R, S
      <4>3. b.id \in R
        BY <4>1, <4>2
      <4> QED BY <4>3 DEF R
    <3>4. i = b.agreement /\ m = b.member
      BY <1>3, <3>3 DEF Received
    <3> HIDE DEF S
    <3> QED BY <3>1, <3>2, <3>3, <3>4
  <2> DEFINE g == [p \in S \cup {b.id} |-> payments'[p].body.amount]
  <2>2. Paid(i, m)' = SumFunction(g)
    BY <2>1 DEF Paid
  <2>3. \A p \in S : payments'[p] = payments[p]
    BY <1>2, <1>3 DEF Received
  <2>4. /\ DOMAIN g = S \cup {b.id} /\ g[b.id] = b.amount
        /\ \A p \in S : g[p] = f[p] /\ f[p] = payments[p].body.amount
        /\ DOMAIN f = S
    BY <1>3, <2>3
  <2> HIDE DEF f, S, g
  <2>5. \A p \in DOMAIN g : g[p] \in Int
    BY <1>1, <1>2, <2>4
  <2>6. SumFunction(g) = SumFunction(f) + g[b.id] /\ SumFunction(f) \in Int
    BY <1>2, <2>4, <2>5, SumGrows
  <2> QED BY <1>1, <1>2, <2>1, <2>2, <2>4, <2>6
<1> QED
  BY <1>4, <1>5

\* The sum after a payment has been reversed.
LEMMA PaidAfterUndo ==
    ASSUME TypeInd, NEW u \in UndoIds, NEW row, undos[u] = NoUndo,
           undos' = [undos EXCEPT ![u] = row], payments' = payments, NEW i, NEW m
    PROVE  /\ Paid(i, m)' <= Paid(i, m)
           /\ (payments[row.payment].body.agreement # i \/ payments[row.payment].body.member # m)
                 => Paid(i, m)' = Paid(i, m)
<1>1. PayTypes
  BY DEF TypeInd
<1> DEFINE S == Received(i, m)
           f == [p \in S |-> payments[p].body.amount]
           g == [p \in Received(i, m)' |-> payments[p].body.amount]
<1>2. /\ Paid(i, m) \in Nat /\ IsFiniteSet(S) /\ \A p \in S : payments[p].body.amount \in Nat
      /\ Paid(i, m) = SumFunction(f) /\ Paid(i, m)' = SumFunction(g)
  <2>1. \A p \in S : payments[p].body.amount \in Nat
    BY <1>1, PaidIsNat DEF Received
  <2> QED BY <1>1, <2>1, PaidIsNat DEF Paid
<1>3. /\ \A p : Undone(p) => Undone(p)'
      /\ \A p : p # row.payment => (Undone(p)' <=> Undone(p))
  BY <1>1 DEF PayTypes, Undone
<1>4. Received(i, m)' \subseteq S
  BY <1>3 DEF Received
<1>5. Paid(i, m)' <= Paid(i, m)
  <2>1. DOMAIN g \subseteq DOMAIN f /\ DOMAIN f = S /\ (\A p \in DOMAIN g : g[p] = f[p]) /\ \A p \in S : f[p] \in Nat
    BY <1>2, <1>4
  <2> HIDE DEF f, g, S
  <2> QED BY <1>2, <2>1, SumSmaller
<1>6. ASSUME payments[row.payment].body.agreement # i \/ payments[row.payment].body.member # m
      PROVE  Paid(i, m)' = Paid(i, m)
  <2>1. row.payment \notin S
    BY <1>6 DEF Received
  <2>2. Received(i, m)' = S
    BY <1>3, <2>1 DEF Received
  <2> QED BY <1>2, <2>2
<1> QED
  BY <1>5, <1>6

LEMMA InsertPaymentKeepsMoney ==
    ASSUME Inv, TypeInd, TypeInd', Money, NEW r \in PayReqs, InsertPayment(r), Moves(r), UNCHANGED agreements,
           payments' # payments
    PROVE  Money'
<1> DEFINE b == PayBody[r]
           row == [body |-> b, fingerprint |-> PayFingerprint(r)]
           i == b.agreement
           m == b.member
<1>1. /\ pc[r] = "pay" /\ payments[b.id] = NoPayment
      /\ ~(paidSoFar[r] + b.amount > agreements[i].shares[m])
      /\ payments' = [payments EXCEPT ![b.id] = row] /\ Finish(r, "201")
      /\ paidSoFar' = [paidSoFar EXCEPT ![r] = 0] /\ undos' = undos
  BY DEF InsertPayment, PayReject, payTables
<1>2. /\ r \in Requests /\ LocksOK /\ b \in PayBodies /\ b.id \in PayIds /\ i \in Ids /\ b.amount \in Nat
      /\ \A q \in Requests \ {r} : pc'[q] = pc[q] /\ held'[q] = held[q]
      /\ pc'[r] = "done" /\ DOMAIN payments = PayIds
  <2>1. pc'[r] = "done"
    BY <1>1, Kinds DEF Finish, TypeInd, TxTypes
  <2>2. b \in PayBodies
    BY PayBodiesAreValid
  <2> QED BY <2>1, <2>2, Kinds, PayTargets, MovesKeepsTypes DEF Inv, TypeInd, PayTypes
<1>3. /\ agreements[i] # NoAgreement /\ m \in DOMAIN agreements[i].shares
      /\ ParticipantLock(i, m) \in held[r] /\ paidSoFar[r] = Paid(i, m)
  BY <1>1 DEF Money, Knowing, PayKnows
<1>4. row.body = b
  OBVIOUS
<1> HIDE DEF row
<1>5. ASSUME NEW j, NEW n
      PROVE  /\ (j # i \/ n # m) => Paid(j, n)' = Paid(j, n)
             /\ Paid(j, n)' <= Paid(j, n) + b.amount
  BY <1>1, <1>2, <1>4, PaidAfterPay DEF Money
<1>6. \A p \in PayIds : payments[p] # NoPayment => payments'[p] = payments[p]
  BY <1>1, <1>2
<1>7. Ties'
  <2>1. \A p \in PayIds : payments'[p] = IF p = b.id THEN row ELSE payments[p]
    BY <1>1, <1>2
  <2>2. \A p \in PayIds : payments'[p] # NoPayment => agreements[payments'[p].body.agreement] # NoAgreement
    BY <1>3, <1>4, <2>1 DEF Money, Ties
  <2>3. ASSUME NEW u \in UndoIds, undos[u] # NoUndo PROVE payments'[undos[u].payment] # NoPayment
    <3>1. payments[undos[u].payment] # NoPayment /\ undos[u].payment \in PayIds
      BY <2>3 DEF Money, Ties, TypeInd, PayTypes, UndoRows
    <3> QED BY <1>6, <3>1
  <2> QED BY <1>1, <2>2, <2>3 DEF Ties
<1>8. NoneOverpaid'
  <2>1. ASSUME NEW j \in Ids, agreements[j] # NoAgreement, NEW n \in DOMAIN agreements[j].shares
        PROVE  Paid(j, n)' <= agreements[j].shares[n]
    <3>1. CASE j = i /\ n = m
      <4>1. Paid(i, m)' <= Paid(i, m) + b.amount
        BY <1>5
      <4>2. Paid(i, m) \in Nat /\ Paid(i, m)' \in Nat
        BY PaidsAreNat
      <4>3. agreements[i].shares[m] \in Nat
        BY <1>2, <1>3 DEF TypeInd, TableTypes, IsAgreement
      <4>4. Paid(i, m) + b.amount <= agreements[i].shares[m]
        BY <1>1, <1>2, <1>3, <4>2, <4>3
      <4> HIDE DEF i, m, b
      <4> QED BY <1>2, <3>1, <4>1, <4>2, <4>3, <4>4
    <3>2. CASE j # i \/ n # m
      BY <1>5, <2>1, <3>2 DEF Money, NoneOverpaid
    <3> QED BY <3>1, <3>2
  <2> QED BY <2>1 DEF NoneOverpaid
<1>9. ASSUME NEW q \in PayReqs PROVE PayKnows(q)'
  <2>1. CASE q = r
    BY <1>2, <2>1 DEF PayKnows
  <2>2. CASE q # r
    <3> DEFINE c == PayBody[q]
    <3>1. PayKnows(q) /\ pc'[q] = pc[q] /\ held'[q] = held[q] /\ q \in Requests
      BY <1>2, <2>2, Kinds DEF Money, Knowing
    <3>2. paidSoFar'[q] = paidSoFar[q]
      BY <1>1, <2>2 DEF TypeInd, PayTypes
    <3>3. pc[q] = "pay" => Paid(c.agreement, c.member)' = Paid(c.agreement, c.member)
      <4> HAVE pc[q] = "pay"
      <4>1. ParticipantLock(c.agreement, c.member) \in held[q]
        BY <3>1 DEF PayKnows
      <4>2. c.agreement # i \/ c.member # m
        BY <1>2, <1>3, <2>2, <3>1, <4>1, Excluded DEF ParticipantLock
      <4> QED BY <1>5, <4>2
    <3> QED BY <3>1, <3>2, <3>3 DEF PayKnows, ParticipantLock, Exclusive
  <2> QED BY <2>1, <2>2
<1>10. ASSUME NEW q \in UndoReqs PROVE UndoKnows(q)'
  <2>1. UndoKnows(q) /\ pc'[q] = pc[q] /\ held'[q] = held[q] /\ UndoBody[q].payment \in PayIds
    BY <1>2, Kinds, PayTargets DEF Money, Knowing
  <2>2. payments[UndoBody[q].payment] # NoPayment => payments'[UndoBody[q].payment] = payments[UndoBody[q].payment]
    BY <1>6, <2>1
  <2> QED BY <2>1, <2>2 DEF UndoKnows, ParticipantLock, Exclusive
<1> QED
  BY <1>7, <1>8, <1>9, <1>10 DEF Money, Knowing

Reverses == undos' # undos

LEMMA InsertUndoKeepsMoney ==
    ASSUME Inv, TypeInd, TypeInd', Money, NEW r \in UndoReqs, InsertUndo(r), Moves(r), UNCHANGED agreements, Reverses
    PROVE  Money'
<1> DEFINE b == UndoBody[r]
           ag == payments[b.payment].body.agreement
           who == payments[b.payment].body.member
<1>0. /\ pc[r] = "undo" /\ undos[b.id] = NoUndo
      /\ undos' = [undos EXCEPT ![b.id] = [payment |-> b.payment, fingerprint |-> UndoFingerprint(r)]]
      /\ Finish(r, "201") /\ paidSoFar' = paidSoFar /\ payments' = payments
  BY DEF InsertUndo, PayReject, payTables, Reverses
<1>4. PICK row : row = [payment |-> b.payment, fingerprint |-> UndoFingerprint(r)]
  OBVIOUS
<1>1. /\ pc[r] = "undo" /\ undos[b.id] = NoUndo /\ row.payment = b.payment
      /\ undos' = [undos EXCEPT ![b.id] = row] /\ Finish(r, "201")
      /\ paidSoFar' = paidSoFar /\ payments' = payments
  BY <1>0, <1>4
<1>2. /\ r \in Requests /\ LocksOK /\ b.id \in UndoIds /\ b.payment \in PayIds
      /\ \A q \in Requests \ {r} : pc'[q] = pc[q] /\ held'[q] = held[q]
      /\ pc'[r] = "done"
  <2>1. pc'[r] = "done"
    BY <1>1, Kinds DEF Finish, TypeInd, TxTypes
  <2> QED BY <2>1, Kinds, PayTargets, MovesKeepsTypes DEF Inv, TypeInd
<1>3. payments[b.payment] # NoPayment /\ ParticipantLock(ag, who) \in held[r]
  BY <1>1 DEF Money, Knowing, UndoKnows
<1>5. ASSUME NEW j, NEW n
      PROVE  Paid(j, n)' <= Paid(j, n) /\ ((ag # j \/ who # n) => Paid(j, n)' = Paid(j, n))
  <2>1. undos' = [undos EXCEPT ![b.id] = row] /\ undos[b.id] = NoUndo /\ payments' = payments /\ b.id \in UndoIds
    BY <1>1, <1>2
  <2>2. Paid(j, n)' <= Paid(j, n)
    BY <2>1, PaidAfterUndo
  <2>3. (payments[row.payment].body.agreement # j \/ payments[row.payment].body.member # n)
              => Paid(j, n)' = Paid(j, n)
    BY <2>1, PaidAfterUndo
  <2> QED BY <1>1, <2>2, <2>3
<1>6. Ties'
  <2>1. \A u \in UndoIds : undos'[u] = undos[u] \/ undos'[u] = row
    BY <1>1, <1>2 DEF TypeInd, PayTypes
  <2> QED BY <1>1, <1>3, <2>1 DEF Money, Ties
<1>7. NoneOverpaid'
  <2>1. ASSUME NEW j \in Ids, agreements[j] # NoAgreement, NEW n \in DOMAIN agreements[j].shares
        PROVE  Paid(j, n)' <= agreements[j].shares[n]
    <3>1. Paid(j, n)' <= Paid(j, n) /\ Paid(j, n) <= agreements[j].shares[n]
      BY <1>5, <2>1 DEF Money, NoneOverpaid
    <3>2. Paid(j, n) \in Nat /\ Paid(j, n)' \in Nat
      BY PaidsAreNat
    <3>3. agreements[j].shares[n] \in Nat
      BY <2>1 DEF TypeInd, TableTypes, IsAgreement
    <3> QED BY <3>1, <3>2, <3>3
  <2> QED BY <2>1 DEF NoneOverpaid
<1>8. ASSUME NEW q \in PayReqs PROVE PayKnows(q)'
  <2> DEFINE c == PayBody[q]
  <2>1. PayKnows(q) /\ pc'[q] = pc[q] /\ held'[q] = held[q] /\ q \in Requests /\ q # r
    BY <1>2, Kinds DEF Money, Knowing
  <2>2. pc[q] = "pay" => Paid(c.agreement, c.member)' = Paid(c.agreement, c.member)
    <3> HAVE pc[q] = "pay"
    <3>1. ParticipantLock(c.agreement, c.member) \in held[q]
      BY <2>1 DEF PayKnows
    <3>2. c.agreement # ag \/ c.member # who
      BY <1>2, <1>3, <2>1, <3>1, Excluded DEF ParticipantLock
    <3> QED BY <1>5, <3>2
  <2> QED BY <1>1, <2>1, <2>2 DEF PayKnows, ParticipantLock, Exclusive
<1>9. ASSUME NEW q \in UndoReqs PROVE UndoKnows(q)'
  <2>1. CASE q = r
    BY <1>2, <2>1 DEF UndoKnows
  <2>2. CASE q # r
    <3>1. UndoKnows(q) /\ pc'[q] = pc[q] /\ held'[q] = held[q]
      BY <1>2, <2>2, Kinds DEF Money, Knowing
    <3> QED BY <1>1, <3>1 DEF UndoKnows, ParticipantLock, Exclusive
  <2> QED BY <2>1, <2>2
<1> QED
  BY <1>6, <1>7, <1>8, <1>9 DEF Money, Knowing

\* A creation changes no row that is there.
LEMMA CreatesKeepRows == ASSUME TypeInd, NEW r \in CreateReqs, Creates(r) PROVE RowsStay
<1>1. CASE Inserts(r)
  BY <1>1 DEF Inserts, Clashes, RowsStay, TypeInd, TableTypes
<1>2. CASE ~Inserts(r)
  BY <1>2 DEF Creates, Enqueues, Begins, Advances, RowsStay
<1> QED BY <1>1, <1>2

LEMMA CreatesKeepMoney ==
    ASSUME TypeInd, TypeInd', Money, NEW r \in CreateReqs, Creates(r)
    PROVE  Money'
<1>1. /\ r \in Requests /\ Moves(r) /\ UNCHANGED <<payments, undos, paidSoFar>>
      /\ r \notin PayReqs /\ r \notin UndoReqs
  BY Kinds DEF Creates, payVars, payTables
<1>2. RowsStay
  BY CreatesKeepRows
<1> QED
  BY <1>1, <1>2, QuietMoney

LEMMA VoidsKeepMoney ==
    ASSUME TypeInd, TypeInd', Money, NEW r \in VoidReqs, VoidsIt(r)
    PROVE  Money'
<1>1. /\ r \in Requests /\ Moves(r) /\ UNCHANGED <<payments, undos, paidSoFar>> /\ RowsStay
      /\ r \notin PayReqs /\ r \notin UndoReqs
  BY Kinds DEF VoidsIt, payVars, payTables, RowsStay
<1> QED
  BY <1>1, QuietMoney

LEMMA PaysKeepMoney ==
    ASSUME Inv, TypeInd, TypeInd', Money, NEW r \in PayReqs, PaysIt(r)
    PROVE  Money'
<1> DEFINE b == PayBody[r]
<1>1. /\ r \in Requests /\ Moves(r) /\ r \notin UndoReqs /\ UNCHANGED <<agreements, undos>> /\ RowsStay
      /\ PayKnows(r) /\ DOMAIN pc = Requests /\ DOMAIN held = Requests /\ DOMAIN paidSoFar = PayReqs \cup UndoReqs
  <2>1. DOMAIN pc = Requests /\ DOMAIN held = Requests /\ DOMAIN paidSoFar = PayReqs \cup UndoReqs
    BY DEF TypeInd, TxTypes, PayTypes
  <2>2. UNCHANGED <<agreements, undos>>
    BY DEF PaysIt, agreementVars, agreementTables, payVars, payTables, ReadBalance, InsertPayment, PayReject
  <2> QED BY <2>1, <2>2, Kinds DEF PaysIt, RowsStay, Money, Knowing
<1>2. CASE InsertPayment(r) /\ payments' # payments
  BY <1>1, <1>2, InsertPaymentKeepsMoney
<1>3. CASE payments' = payments
  <2>1. \A q \in PayReqs \ {r} : paidSoFar'[q] = paidSoFar[q]
    BY <1>1, <1>3 DEF PaysIt, payVars, payTables, ReadBalance, InsertPayment, PayReject
  <2>2. ASSUME NEW code, Finish(r, code) PROVE PayKnows(r)'
    BY <1>1, <2>2 DEF Finish, PayKnows
  <2>3. PayKnows(r)'
    <3>1. CASE AuthorizePay(r) \/ LockPayId(r)
      <4>1. (\E code : Finish(r, code)) \/ pc'[r] \in {"identity", "replay"}
        BY <1>1, <3>1 DEF AuthorizePay, Authorize, Acquire, LockPayId
      <4> QED BY <2>2, <4>1 DEF PayKnows
    <3>2. CASE ReplayPay(r)
      <4>1. CASE agreements[b.agreement] # NoAgreement /\ LockAgreement(r)
        <5>1. pc'[r] = "agreement"
          BY <1>1, <4>1 DEF LockAgreement, Acquire
        <5> QED BY <1>1, <4>1, <5>1 DEF PayKnows
      <4> QED BY <2>2, <3>2, <4>1 DEF ReplayPay, PayReject
    <3>3. CASE CheckAgreement(r)
      <4>1. CASE b.member \in DOMAIN agreements[b.agreement].shares /\ Proceed(r, "participant")
        <5>1. pc'[r] = "participant" /\ pc[r] = "agreement"
          BY <1>1, <3>3, <4>1 DEF Proceed, Goto, CheckAgreement
        <5> QED BY <1>1, <4>1, <5>1 DEF PayKnows
      <4> QED BY <2>2, <3>3, <4>1 DEF CheckAgreement, PayReject
    <3>4. CASE LockParticipant(r)
      <4>1. /\ pc'[r] = "balance" /\ pc[r] = "participant"
            /\ ParticipantLock(b.agreement, b.member) \in held'[r]
        BY <1>1, <3>4 DEF LockParticipant, Acquire
      <4> QED BY <1>1, <4>1 DEF PayKnows, ParticipantLock, Exclusive
    <3>5. CASE ReadBalance(r)
      <4>1. CASE Goto(r, "pay") /\ paidSoFar' = [paidSoFar EXCEPT ![r] = Paid(b.agreement, b.member)]
        <5>1. pc'[r] = "pay" /\ pc[r] = "balance" /\ held'[r] = held[r]
          BY <1>1, <3>5, <4>1 DEF Goto, ReadBalance
        <5>2. Paid(b.agreement, b.member)' = Paid(b.agreement, b.member)
          BY <1>1, <1>3 DEF Paid, Received, Undone
        <5>3. paidSoFar'[r] = Paid(b.agreement, b.member)
          BY <1>1, <4>1
        <5> QED BY <1>1, <5>1, <5>2, <5>3 DEF PayKnows, ParticipantLock, Exclusive
      <4> QED BY <2>2, <3>5, <4>1 DEF ReadBalance, PayReject
    <3>6. CASE InsertPayment(r) \/ ExpirePay(r)
      BY <2>2, <3>6 DEF InsertPayment, ExpirePay, PayReject
    <3> QED BY <3>1, <3>2, <3>3, <3>4, <3>5, <3>6 DEF PaysIt, Paying
  <2> QED BY <1>1, <1>3, <2>1, <2>3, QuietMoney
<1> QED
  BY <1>2, <1>3 DEF PaysIt, payVars, payTables, ReadBalance, PayReject

LEMMA UndoesKeepMoney ==
    ASSUME Inv, TypeInd, TypeInd', Money, NEW r \in UndoReqs, UndoesIt(r)
    PROVE  Money'
<1> DEFINE b == UndoBody[r]
<1>1. /\ r \in Requests /\ Moves(r) /\ r \notin PayReqs /\ UNCHANGED <<agreements, payments>> /\ RowsStay
      /\ UndoKnows(r) /\ DOMAIN pc = Requests /\ DOMAIN held = Requests /\ DOMAIN paidSoFar = PayReqs \cup UndoReqs
  <2>1. DOMAIN pc = Requests /\ DOMAIN held = Requests /\ DOMAIN paidSoFar = PayReqs \cup UndoReqs
    BY DEF TypeInd, TxTypes, PayTypes
  <2>2. UNCHANGED <<agreements, payments>>
    BY DEF UndoesIt, agreementVars, agreementTables, payVars, payTables, InsertUndo, PayReject
  <2> QED BY <2>1, <2>2, Kinds DEF UndoesIt, RowsStay, Money, Knowing
<1>2. CASE InsertUndo(r) /\ undos' # undos
  BY <1>1, <1>2, InsertUndoKeepsMoney DEF Reverses
<1>3. CASE undos' = undos
  <2>1. \A q \in PayReqs \ {r} : paidSoFar'[q] = paidSoFar[q]
    BY <1>1, <1>3, Kinds DEF UndoesIt, payVars, payTables, InsertUndo, PayReject
  <2>2. ASSUME NEW code, Finish(r, code) PROVE UndoKnows(r)'
    BY <1>1, <2>2 DEF Finish, UndoKnows
  <2>3. UndoKnows(r)'
    <3>1. CASE AuthorizeUndo(r) \/ LockUndoId(r)
      <4>1. (\E code : Finish(r, code)) \/ pc'[r] \in {"undo identity", "undo replay"}
        BY <1>1, <3>1 DEF AuthorizeUndo, Authorize, Acquire, LockUndoId
      <4> QED BY <2>2, <4>1 DEF UndoKnows
    <3>2. CASE ReplayUndo(r)
      <4> DEFINE l == ParticipantLock(payments[b.payment].body.agreement, payments[b.payment].body.member)
      <4>1. CASE payments[b.payment] # NoPayment /\ Acquire(r, l, "undo row")
        <5>1. l \in held'[r]
          BY <1>1, <4>1 DEF Acquire
        <5> QED BY <1>1, <4>1, <5>1 DEF UndoKnows, ParticipantLock, Exclusive
      <4> QED BY <2>2, <3>2, <4>1 DEF ReplayUndo, PayReject
    <3>3. CASE LockPayment(r)
      <4>1. pc[r] = "undo row" /\ held[r] \subseteq held'[r]
        BY <1>1, <3>3 DEF LockPayment, Acquire
      <4> QED BY <1>1, <4>1 DEF UndoKnows, ParticipantLock, Exclusive
    <3>4. CASE CheckUndo(r)
      <4>1. CASE Goto(r, "undo") /\ pc[r] = "undo check"
        <5>1. held[r] \subseteq held'[r]
          BY <1>1, <4>1 DEF Goto
        <5> QED BY <1>1, <4>1, <5>1 DEF UndoKnows, ParticipantLock, Exclusive
      <4> QED BY <2>2, <3>4, <4>1 DEF CheckUndo, PayReject, Proceed
    <3>5. CASE InsertUndo(r) \/ ExpirePay(r)
      BY <2>2, <3>5 DEF InsertUndo, ExpirePay, PayReject
    <3> QED BY <3>1, <3>2, <3>3, <3>4, <3>5 DEF UndoesIt, Undoing
  <2> QED BY <1>1, <1>3, <2>1, <2>3, QuietMoney
<1> QED
  BY <1>2, <1>3 DEF UndoesIt, payVars, payTables

LEMMA RepeatKeepsMoney ==
    ASSUME TypeInd, TypeInd', Money, NEW r \in Requests, Repeat(r)
    PROVE  Money'
<1>1. /\ UNCHANGED <<held, agreements, payments, undos, paidSoFar>> /\ RowsStay
      /\ pc'[r] = "idle" /\ \A q \in Requests \ {r} : pc'[q] = pc[q]
  BY DEF Repeat, Resend, agreementVars, agreementTables, payVars, payTables, RowsStay, TypeInd, TxTypes
<1>2. ASSUME NEW q \in PayReqs \cup UndoReqs PROVE (q \in PayReqs => PayKnows(q)') /\ (q \in UndoReqs => UndoKnows(q)')
  <2>1. CASE q = r
    BY <1>1, <2>1 DEF PayKnows, UndoKnows
  <2>2. CASE q # r
    <3>1. pc'[q] = pc[q] /\ held'[q] = held[q] /\ paidSoFar'[q] = paidSoFar[q]
      BY <1>1, <2>2, Kinds
    <3> QED BY <1>1, <3>1, StillKnow DEF Money
  <2> QED BY <2>1, <2>2
<1>3. Ties' /\ NoneOverpaid'
  BY <1>1, TablesStayTied
<1> QED
  BY <1>2, <1>3 DEF Money, Knowing

LEMMA StopKeepsMoney ==
    ASSUME TypeInd, TypeInd', Money, NEW i \in Instances, Stop(i)
    PROVE  Money'
<1>1. /\ UNCHANGED <<agreements, payments, undos>> /\ RowsStay /\ DropHome(i)
      /\ paidSoFar' = [r \in PayReqs \cup UndoReqs |-> IF home[r] = i THEN 0 ELSE paidSoFar[r]]
  BY DEF Stop, Crash, agreementTables, payTables, RowsStay
<1>2. \A q \in Requests : \/ pc'[q] \in {"away", "idle", "done"}
                          \/ pc'[q] = pc[q] /\ held'[q] = held[q] /\ home[q] # i
  BY <1>1 DEF DropHome, Running
<1>3. ASSUME NEW q \in PayReqs \cup UndoReqs PROVE (q \in PayReqs => PayKnows(q)') /\ (q \in UndoReqs => UndoKnows(q)')
  <2>1. CASE pc'[q] \in {"away", "idle", "done"}
    BY <2>1 DEF PayKnows, UndoKnows
  <2>2. CASE pc'[q] = pc[q] /\ held'[q] = held[q] /\ home[q] # i
    <3>1. paidSoFar'[q] = paidSoFar[q]
      BY <1>1, <2>2
    <3> QED BY <1>1, <2>2, <3>1, StillKnow DEF Money
  <2>3. q \in Requests
    BY Kinds
  <2> QED BY <1>2, <2>1, <2>2, <2>3
<1>4. Ties' /\ NoneOverpaid'
  BY <1>1, TablesStayTied
<1> QED
  BY <1>3, <1>4 DEF Money, Knowing

LEMMA AroundKeepsMoney ==
    ASSUME TypeInd, TypeInd', Money, Around
    PROVE  Money'
<1>1. UNCHANGED <<pc, held, paidSoFar, agreements, payments, undos>> /\ RowsStay
  BY DEF Around, txVars, agreementTables, payVars, payTables, RowsStay
<1>2. ASSUME NEW q \in PayReqs \cup UndoReqs PROVE (q \in PayReqs => PayKnows(q)') /\ (q \in UndoReqs => UndoKnows(q)')
  BY <1>1, StillKnow DEF Money
<1>3. Ties' /\ NoneOverpaid'
  BY <1>1, TablesStayTied
<1> QED
  BY <1>2, <1>3 DEF Money, Knowing

LEMMA MoneyAtFirst == ASSUME Init PROVE Money
<1>1. /\ payments = [p \in PayIds |-> NoPayment] /\ undos = [u \in UndoIds |-> NoUndo]
      /\ \A r \in Requests : pc[r] \in {"away", "idle"}
      /\ TypeInd
  BY TypesAtFirst DEF Init, PaymentsInit, TxInit
<1>2. Ties
  BY <1>1 DEF Ties
<1>3. Knowing
  BY <1>1, Kinds DEF Knowing, PayKnows, UndoKnows
<1>4. ASSUME NEW i \in Ids, agreements[i] # NoAgreement, NEW m \in DOMAIN agreements[i].shares
      PROVE  Paid(i, m) <= agreements[i].shares[m]
  <2>1. Received(i, m) = {}
    BY <1>1 DEF Received
  <2>2. Paid(i, m) = 0
    BY <2>1, SumOfNone DEF Paid
  <2>3. agreements[i].shares[m] \in Nat
    BY <1>1, <1>4 DEF TypeInd, TableTypes, IsAgreement
  <2> QED BY <2>2, <2>3
<1> QED
  BY <1>2, <1>3, <1>4 DEF Money, NoneOverpaid

LEMMA MoneyKept == ASSUME Inv, TypeInd, TypeInd', Money, [Next]_vars PROVE Money'
<1>1. Steps
  BY AllSteps
<1>2. ASSUME NEW r \in PayReqs, PaysIt(r) PROVE Money'
  BY <1>2, PaysKeepMoney
<1>3. ASSUME NEW r \in UndoReqs, UndoesIt(r) PROVE Money'
  BY <1>3, UndoesKeepMoney
<1>4. ASSUME NEW r \in CreateReqs, Creates(r) PROVE Money'
  BY <1>4, CreatesKeepMoney
<1>5. ASSUME NEW r \in VoidReqs, VoidsIt(r) PROVE Money'
  BY <1>5, VoidsKeepMoney
<1>6. ASSUME NEW r \in Requests, Repeat(r) PROVE Money'
  BY <1>6, RepeatKeepsMoney
<1>7. ASSUME NEW i \in Instances, Stop(i) PROVE Money'
  BY <1>7, StopKeepsMoney
<1>8. ASSUME Around PROVE Money'
  BY <1>8, AroundKeepsMoney
<1> QED
  BY <1>1, <1>2, <1>3, <1>4, <1>5, <1>6, <1>7, <1>8 DEF Steps

-----------------------------------------------------------------------------
(* Snapshots. *)

\* While a creation decides, the tables only grow, and only by what the
\* creations of other processes insert.
SnapKnows(r) ==
    LET s == snap[r]
        b == CreateBody[r]
    IN  /\ pc[r] \in {"authorize", "identity", "decide", "folio", "insert"} =>
              /\ \A i \in Ids : s.agreements[i] # NoAgreement => agreements[i] = s.agreements[i]
              /\ \A y \in Years : s.counter[y] = Cardinality(InYear(s.agreements, y))
              /\ \A i \in Ids : (s.agreements[i] = NoAgreement /\ agreements[i] # NoAgreement) =>
                     \E q \in CreateReqs : CreateBody[q].id = i /\ home[q] # home[r]
        /\ pc[r] \in {"decide", "folio", "insert"} => IdLock(b.id) \in held[r]
        /\ pc[r] \in {"folio", "insert"} => b.requested <= FreeMoney(s, b.period) /\ Divisible(s, b)

Snaps == \A r \in CreateReqs : SnapKnows(r)

\* Neither it nor the agreements move.
LEMMA SnapStays ==
    ASSUME Snaps, NEW q \in CreateReqs, UNCHANGED <<home, agreements>>, snap'[q] = snap[q],
           pc'[q] = pc[q], held'[q] = held[q]
    PROVE  SnapKnows(q)'
<1>1. SnapKnows(q)
  BY DEF Snaps
<1>2. /\ CreateBody[q].requested <= FreeMoney(snap[q], CreateBody[q].period) =>
          CreateBody[q].requested <= FreeMoney(snap'[q], CreateBody[q].period)
      /\ Divisible(snap[q], CreateBody[q]) => Divisible(snap'[q], CreateBody[q])
  OBVIOUS
<1> QED
  BY <1>1, <1>2, Zenon DEF SnapKnows, IdLock, Exclusive

LEMMA CreatesKeepSnaps ==
    ASSUME Inv, TypeInd, Snaps, NEW r \in CreateReqs, Creates(r)
    PROVE  Snaps'
<1>1. /\ r \in Requests /\ Moves(r) /\ home' = home /\ DOMAIN snap = CreateReqs
      /\ \A q \in CreateReqs : q \in Requests
      /\ \A q \in Requests \ {r} : pc'[q] = pc[q] /\ held'[q] = held[q]
  BY Kinds, MovesKeepsTypes DEF Creates, Moves, TypeInd, Inv, TablesOK
<1>2. \A q \in CreateReqs \ {r} : snap'[q] = snap[q]
  BY <1>1 DEF Creates, Enqueues, Begins, Advances, Inserts, Leaves
<1>3. ASSUME NEW q \in CreateReqs \ {r} PROVE SnapKnows(q)'
  <2>1. snap'[q] = snap[q] /\ pc'[q] = pc[q] /\ held'[q] = held[q] /\ SnapKnows(q)
    BY <1>1, <1>2, <1>3 DEF Snaps
  <2>2. CASE UNCHANGED agreements
    BY <1>1, <2>1, <2>2, SnapStays
  <2>3. CASE Inserts(r)
    <3> DEFINE id == CreateBody[r].id
    <3>1. /\ agreements' = [agreements EXCEPT ![id] = AgreementRow(r)] /\ agreements[id] = NoAgreement
          /\ pc[r] = "insert"
      BY <2>3 DEF Inserts, Clashes
    <3>2. \A i \in Ids : i # id => agreements'[i] = agreements[i]
      BY <3>1 DEF TypeInd, TableTypes
    <3>3. pc[q] \in {"authorize", "identity", "decide", "folio", "insert"} => home[q] # home[r]
      <4> HAVE pc[q] \in {"authorize", "identity", "decide", "folio", "insert"}
      <4>1. Running(q) /\ pc[q] # "queued" /\ Running(r) /\ pc[r] # "queued"
        BY <3>1 DEF Running
      <4>2. Head(queue[home[q]]) = q /\ Head(queue[home[r]]) = r
        BY <4>1 DEF TypeInd, QueueOK
      <4> QED BY <1>3, <4>2
    <3> DEFINE s == snap[q]
    <3>4. pc[q] \in {"authorize", "identity", "decide", "folio", "insert"} =>
              /\ \A i \in Ids : s.agreements[i] # NoAgreement => agreements'[i] = s.agreements[i]
              /\ \A i \in Ids : (s.agreements[i] = NoAgreement /\ agreements'[i] # NoAgreement) =>
                     \E p \in CreateReqs : CreateBody[p].id = i /\ home[p] # home[q]
      <4> HAVE pc[q] \in {"authorize", "identity", "decide", "folio", "insert"}
      <4>1. ASSUME NEW i \in Ids, s.agreements[i] # NoAgreement PROVE agreements'[i] = s.agreements[i]
        BY <2>1, <3>1, <3>2, <4>1 DEF SnapKnows
      <4>2. ASSUME NEW i \in Ids, s.agreements[i] = NoAgreement, agreements'[i] # NoAgreement
            PROVE  \E p \in CreateReqs : CreateBody[p].id = i /\ home[p] # home[q]
        <5>1. CASE i = id
          BY <3>3, <5>1
        <5>2. CASE i # id
          BY <2>1, <3>2, <4>2, <5>2 DEF SnapKnows
        <5> QED BY <5>1, <5>2
      <4> QED BY <4>1, <4>2
    <3> QED BY <1>1, <2>1, <3>4 DEF SnapKnows, IdLock, Exclusive
  <2> QED BY <2>2, <2>3 DEF Creates, Enqueues, Begins, Advances
<1>4. SnapKnows(r)'
  <2>1. CASE pc'[r] \in {"queued", "done"}
    BY <2>1 DEF SnapKnows
  <2>2. CASE Begins(r)
    <3>1. snap'[r] = Snapshot /\ agreements' = agreements /\ pc'[r] = "authorize"
      BY <1>1, <2>2 DEF Begins
    <3>2. Snapshot.agreements = agreements /\ Snapshot.counter = counter
      BY DEF Snapshot
    <3>3. \A y \in Years : counter[y] = Cardinality(InYear(agreements, y))
      BY DEF Inv, TablesOK, FoliosAreGapless
    <3> HIDE DEF Snapshot
    <3> QED BY <3>1, <3>2, <3>3 DEF SnapKnows
  <2>3. CASE Advances(r)
    <3>1. /\ snap' = snap /\ agreements' = agreements /\ held[r] \subseteq held'[r] /\ SnapKnows(r)
          /\ pc[r] \in {"authorize", "identity", "decide", "folio"}
          /\ pc'[r] \in {"identity", "decide", "folio", "insert"}
          /\ pc'[r] = "decide" => IdLock(CreateBody[r].id) \in held'[r]
          /\ pc'[r] = "folio" => /\ pc[r] = "decide" /\ Divisible(snap[r], CreateBody[r])
                                  /\ CreateBody[r].requested <= FreeMoney(snap[r], CreateBody[r].period)
          /\ pc'[r] = "insert" => pc[r] = "folio"
      BY <2>3 DEF Advances, Snaps
    <3> QED BY <1>1, <3>1 DEF SnapKnows, IdLock, Exclusive
  <2> QED BY <2>1, <2>2, <2>3 DEF Creates, Enqueues, Inserts, Leaves
<1> QED
  BY <1>3, <1>4 DEF Snaps

LEMMA OthersKeepSnaps ==
    ASSUME Inv, TypeInd, Snaps, NEW r \in Requests, r \notin CreateReqs, Moves(r), UNCHANGED <<snap, agreements>>
    PROVE  Snaps'
<1>1. /\ home' = home /\ \A q \in CreateReqs : q \in Requests
      /\ \A q \in Requests \ {r} : pc'[q] = pc[q] /\ held'[q] = held[q]
  BY Kinds, MovesKeepsTypes DEF Moves, TypeInd
<1>2. ASSUME NEW q \in CreateReqs PROVE SnapKnows(q)'
  BY <1>1, SnapStays
<1> QED
  BY <1>2 DEF Snaps

LEMMA SnapsKept == ASSUME Inv, TypeInd, Snaps, [Next]_vars PROVE Snaps'
<1>1. Steps
  BY AllSteps
<1>2. ASSUME NEW r \in CreateReqs, Creates(r) PROVE Snaps'
  BY <1>2, CreatesKeepSnaps
<1>3. ASSUME NEW r \in VoidReqs, VoidsIt(r) PROVE Snaps'
  BY <1>3, OthersKeepSnaps, Kinds DEF VoidsIt, creationVars
<1>4. ASSUME NEW r \in PayReqs \cup UndoReqs, PaysIt(r) \/ UndoesIt(r) PROVE Snaps'
  BY <1>4, OthersKeepSnaps, Kinds DEF PaysIt, UndoesIt, agreementVars, creationVars, agreementTables
<1>5. ASSUME NEW r \in Requests, Repeat(r) PROVE Snaps'
  <2>1. /\ UNCHANGED <<home, held, snap, agreements>> /\ pc'[r] = "idle" /\ \A q \in Requests \ {r} : pc'[q] = pc[q]
    BY <1>5 DEF Repeat, Resend, agreementVars, creationVars, agreementTables, TypeInd, TxTypes
  <2>2. ASSUME NEW q \in CreateReqs PROVE SnapKnows(q)'
    <3>1. CASE q = r
      BY <2>1, <3>1 DEF SnapKnows
    <3>2. CASE q # r
      BY <2>1, <3>2, SnapStays, Kinds
    <3> QED BY <3>1, <3>2
  <2> QED BY <2>2 DEF Snaps
<1>6. ASSUME NEW i \in Instances, Stop(i) PROVE Snaps'
  <2>1. /\ UNCHANGED <<home, agreements>> /\ DropHome(i)
        /\ \A q \in CreateReqs : home[q] # i => snap'[q] = snap[q]
    BY <1>6 DEF Stop, Crash, DropHome, agreementTables
  <2>2. \A q \in Requests : \/ pc'[q] \in {"away", "idle", "done"}
                            \/ pc'[q] = pc[q] /\ held'[q] = held[q] /\ home[q] # i
    BY <2>1 DEF DropHome, Running
  <2>3. ASSUME NEW q \in CreateReqs PROVE SnapKnows(q)'
    <3>1. CASE pc'[q] \in {"away", "idle", "done"}
      BY <3>1 DEF SnapKnows
    <3>2. CASE pc'[q] = pc[q] /\ held'[q] = held[q] /\ home[q] # i
      BY <2>1, <3>2, SnapStays
    <3> QED BY <2>2, <3>1, <3>2, Kinds
  <2> QED BY <2>3 DEF Snaps
<1>7. ASSUME Around PROVE Snaps'
  <2>1. UNCHANGED <<home, pc, held, snap, agreements>>
    BY <1>7 DEF Around, txVars, creationVars, agreementTables
  <2>2. ASSUME NEW q \in CreateReqs PROVE SnapKnows(q)'
    BY <2>1, SnapStays
  <2> QED BY <2>2 DEF Snaps
<1> QED
  BY <1>1, <1>2, <1>3, <1>4, <1>5, <1>6, <1>7 DEF Steps

LEMMA SnapsAtFirst == ASSUME Init PROVE Snaps
BY Kinds DEF Init, TxInit, Snaps, SnapKnows

-----------------------------------------------------------------------------
(* What is handed out. *)

\* What an agreement hands out is what was requested.
HandedOut(a) == TotalOf(a.shares) = a.body.requested
AllHandedOut == \A i \in Ids : agreements[i] # NoAgreement => HandedOut(agreements[i])

\* The row that a creation inserts hands out what its body requests.
LEMMA RowIsHandedOut ==
    ASSUME Inv, Snaps, NEW r \in CreateReqs, pc[r] = "insert"
    PROVE  HandedOut(AgreementRow(r))
<1> DEFINE b == CreateBody[r]
           l == snap[r].books[b.period]
<1>1. CreateOK(r)
  BY Kinds DEF Inv, RequestOK
<1>2. b.period \in Periods
  BY CreateBodiesAreValid DEF CreateBodies
<1>3. b.requested \in Nat /\ b.bps \in 0..BpsTotal
  BY BodyNumbers
<1>4. l \in Ledgers
  BY <1>1, <1>2 DEF CreateOK
<1>5. Simulable(l, b.requested, b.bps)
  BY DEF Snaps, SnapKnows, Divisible
<1>6. AgreementRow(r).body = b /\ AgreementRow(r).shares = Shares(l, b.requested, b.bps)
  BY Zenon DEF AgreementRow
<1> HIDE DEF b, l
<1>7. TotalOf(Shares(l, b.requested, b.bps)) = b.requested
  BY <1>3, <1>4, <1>5, LedgerIsBooks, SharesAddUp
<1> QED
  BY <1>6, <1>7 DEF HandedOut

LEMMA CreatesHandOut ==
    ASSUME Inv, TypeInd, Snaps, AllHandedOut, NEW r \in CreateReqs, Creates(r)
    PROVE  AllHandedOut'
<1>1. CASE UNCHANGED agreements
  BY <1>1 DEF AllHandedOut, HandedOut
<1>2. CASE Inserts(r)
  <2> DEFINE row == AgreementRow(r)
             id == CreateBody[r].id
  <2>1. pc[r] = "insert" /\ agreements' = [agreements EXCEPT ![id] = row]
    BY <1>2 DEF Inserts
  <2>2. HandedOut(row)
    BY <2>1, RowIsHandedOut
  <2> HIDE DEF row, id
  <2>3. ASSUME NEW i \in Ids, agreements'[i] # NoAgreement PROVE HandedOut(agreements'[i])
    <3>1. agreements'[i] = agreements[i] \/ agreements'[i] = row
      BY <2>1 DEF TypeInd, TableTypes
    <3> QED BY <2>2, <2>3, <3>1 DEF AllHandedOut
  <2> QED BY <2>3 DEF AllHandedOut, HandedOut
<1> QED
  BY <1>1, <1>2 DEF Creates, Enqueues, Begins, Advances

LEMMA HandedOutKept == ASSUME Inv, TypeInd, Snaps, AllHandedOut, [Next]_vars PROVE AllHandedOut'
<1>1. Steps
  BY AllSteps
<1>2. ASSUME NEW r \in CreateReqs, Creates(r) PROVE AllHandedOut'
  BY <1>2, CreatesHandOut
<1>3. ASSUME UNCHANGED agreements PROVE AllHandedOut'
  BY <1>3 DEF AllHandedOut, HandedOut
<1> QED
  BY <1>1, <1>2, <1>3
  DEF Steps, VoidsIt, PaysIt, UndoesIt, Repeat, Stop, Crash, Around, agreementVars, agreementTables

LEMMA HandedOutAtFirst == ASSUME Init PROVE AllHandedOut
BY FiledIsValid DEF Init, AgreementsInit, AllHandedOut, HandedOut

\* Each is paid within its share: all together, within what was requested.
LEMMA AllWithinRequested ==
    ASSUME TypeInd, NoneOverpaid, AllHandedOut
    PROVE  PaidWithinShare
<1> SUFFICES ASSUME NEW i \in Ids, agreements[i] # NoAgreement
             PROVE  LET shares == agreements[i].shares
                        paid == [m \in DOMAIN shares |-> Paid(i, m)]
                    IN  /\ \A m \in DOMAIN shares : paid[m] <= shares[m]
                        /\ TotalOf(shares) = agreements[i].body.requested
                        /\ TotalOf(paid) <= agreements[i].body.requested
  BY DEF PaidWithinShare
<1> DEFINE shares == agreements[i].shares
           S == DOMAIN shares
           paid == [m \in S |-> Paid(i, m)]
<1>1. TotalOf(shares) = agreements[i].body.requested /\ \A m \in S : Paid(i, m) <= shares[m]
  BY DEF NoneOverpaid, AllHandedOut, HandedOut
<1>2. S \subseteq Members /\ \A m \in S : shares[m] \in Nat
  BY DEF TypeInd, TableTypes, IsAgreement
<1>3. IsFiniteSet(S)
  BY <1>2, MembersAreFinite, FS_Subset
<1>4. \A m \in S : Paid(i, m) \in Nat
  BY PaidIsNat DEF TypeInd
<1>5. /\ DOMAIN paid = S /\ \A m \in S : paid[m] = Paid(i, m)
      /\ TotalOf(paid) = SumFunctionOnSet(paid, S) /\ TotalOf(shares) = SumFunctionOnSet(shares, S)
  BY DEF TotalOf, SumFunction
<1> HIDE DEF shares, S, paid
<1>6. SumFunctionOnSet(paid, S) <= SumFunctionOnSet(shares, S)
  BY <1>1, <1>2, <1>3, <1>4, <1>5, SumLeq
<1>7. TotalOf(paid) <= agreements[i].body.requested
  BY <1>1, <1>5, <1>6
<1>8. \A m \in S : paid[m] <= shares[m]
  BY <1>1, <1>5
<1> QED
  BY <1>1, <1>7, <1>8 DEF shares, S, paid

(* Nobody is ever paid more than the share the agreement froze, however    *)
(* many payments and reversals race: between the sum a payment reads and   *)
(* its insert it holds the lock of the participant, so the sum stays what  *)
(* it read.  And the shares are what was requested, to the last minor unit:*)
(* the simulation whose books the creation read in its snapshot adds up.   *)
THEOREM NobodyIsOverpaid == Spec => []PaidWithinShare
<1> DEFINE I == Inv /\ TypeInd /\ Money /\ Snaps /\ AllHandedOut
<1>1. Init => I
  BY AtFirst, TypesAtFirst, MoneyAtFirst, SnapsAtFirst, HandedOutAtFirst
<1>2. I /\ [Next]_vars => I'
  BY EveryStep, TypesKept, MoneyKept, SnapsKept, HandedOutKept
<1>3. I => PaidWithinShare
  BY AllWithinRequested DEF Money
<1> QED
  BY <1>1, <1>2, <1>3, PTL DEF Spec

-----------------------------------------------------------------------------
\* As many agreements of a year as the snapshot had are the same agreements.
LEMMA SameYear ==
    ASSUME Inv, Snaps, NEW r \in CreateReqs, pc[r] \in {"folio", "insert"},
           NEW y \in Years, counter[y] = snap[r].counter[y]
    PROVE  InYear(agreements, y) = InYear(snap[r].agreements, y)
<1> DEFINE S == InYear(snap[r].agreements, y)
           T == InYear(agreements, y)
<1>1. S \subseteq T
  BY DEF Snaps, SnapKnows, InYear
<1>2. Cardinality(S) = Cardinality(T)
  BY DEF Inv, TablesOK, FoliosAreGapless, Snaps, SnapKnows
<1>3. IsFiniteSet(T)
  <2>1. T \subseteq Ids
    BY DEF InYear
  <2> QED BY <2>1, IdsAreOrdered, FS_Subset
<1> HIDE DEF S, T
<1>4. S = T
  BY <1>1, <1>2, <1>3, FS_Subset
<1> QED
  BY <1>4 DEF S, T

LEMMA OvertakenFromElsewhere ==
    ASSUME Inv, Snaps, NEW r \in CreateReqs, pc[r] = "folio",
           snap[r].counter[folioYear[r]] # counter[folioYear[r]]
    PROVE  \E q \in CreateReqs : /\ home[q] # home[r]
                                 /\ snap[r].agreements[CreateBody[q].id] = NoAgreement
                                 /\ agreements[CreateBody[q].id] # NoAgreement
<1> DEFINE y == folioYear[r]
           s == snap[r]
<1>1. y \in Years /\ SnapKnows(r)
  BY Kinds DEF Inv, RequestOK, CreateOK, Snaps
<1>2. s.counter[y] = Cardinality(InYear(s.agreements, y)) /\ counter[y] = Cardinality(InYear(agreements, y))
  BY <1>1 DEF SnapKnows, Inv, TablesOK, FoliosAreGapless
<1>3. InYear(s.agreements, y) \subseteq InYear(agreements, y)
  BY <1>1 DEF SnapKnows, InYear
<1>4. PICK i \in InYear(agreements, y) : i \notin InYear(s.agreements, y)
  <2>1. InYear(s.agreements, y) # InYear(agreements, y)
    BY <1>2
  <2> QED BY <1>3, <2>1
<1>5. i \in Ids /\ agreements[i] # NoAgreement /\ s.agreements[i] = NoAgreement
  BY <1>1, <1>4 DEF SnapKnows, InYear
<1> QED
  BY <1>1, <1>5 DEF SnapKnows

(* Creations of one process never fight over the counter of folios: the    *)
(* queue of the process lets one of them at a time take a snapshot, so one *)
(* that finds the counter changed was overtaken by another process.        *)
THEOREM OvertakenOnlyFromElsewhere == Spec => RetriesComeFromElsewhere
<1>1. Init => Inv /\ TypeInd /\ Snaps
  BY AtFirst, TypesAtFirst, SnapsAtFirst
<1>2. Inv /\ TypeInd /\ Snaps /\ [Next]_vars => (Inv /\ TypeInd /\ Snaps)'
  BY EveryStep, TypesKept, SnapsKept
<1> DEFINE Overtaken ==
        \A r \in CreateReqs :
          (pc[r] = "folio" /\ snap[r].counter[folioYear[r]] # counter[folioYear[r]]
             /\ pc'[r] # "folio" /\ reply'[r] \notin {"500", "lost"}) =>
              \E q \in CreateReqs : /\ home[q] # home[r]
                                    /\ snap[r].agreements[CreateBody[q].id] = NoAgreement
                                    /\ agreements[CreateBody[q].id] # NoAgreement
<1>3. Inv /\ Snaps => Overtaken
  BY OvertakenFromElsewhere
<1>4. Inv /\ TypeInd /\ Snaps /\ [Next]_vars => [Overtaken]_vars
  BY <1>3
<1>5. Spec => [][Overtaken]_vars
  <2> HIDE DEF Overtaken
  <2> QED BY <1>1, <1>2, <1>4, PTL DEF Spec
<1> QED
  BY <1>5 DEF RetriesComeFromElsewhere

\* What the live agreements of the period distribute fits into what the
\* creation that is committed read as available.
Fits(r) ==
    LET b == CreateBody[r]
        missed == {i \in Ids : /\ snap[r].agreements[i] = NoAgreement
                               /\ agreements'[i] # NoAgreement
                               /\ agreements'[i].folio.year # folioYear[r]}
    IN  Distributed(agreements', LiveIn(agreements', voids', b.period) \ missed)
            <= snap[r].books[b.period].available

LEMMA InsertFits ==
    ASSUME Inv, TypeInd, TypeInd', Snaps, NEW r \in CreateReqs, Inserts(r), UNCHANGED voids
    PROVE  Fits(r)
<1> DEFINE b == CreateBody[r]
           s == snap[r]
           missed == {i \in Ids : /\ s.agreements[i] = NoAgreement
                                  /\ agreements'[i] # NoAgreement
                                  /\ agreements'[i].folio.year # folioYear[r]}
           V == LiveIn(s.agreements, s.voids, b.period)
           W == LiveIn(agreements', voids', b.period) \ missed
           f == [i \in V |-> s.agreements[i].body.requested]
           g == [i \in V \cup {b.id} |-> agreements'[i].body.requested]
           h == [i \in W |-> agreements'[i].body.requested]
<1>1. /\ r \in Requests /\ pc[r] = "insert" /\ agreements[b.id] = NoAgreement
      /\ agreements' = [agreements EXCEPT ![b.id] = AgreementRow(r)]
      /\ counter[folioYear[r]] = s.counter[folioYear[r]] /\ folioYear[r] \in Years
      /\ CreateOK(r) /\ SnapKnows(r) /\ b \in CreateBodies
  <2>1. pc[r] = "insert" /\ ~Clashes(r) /\ agreements' = [agreements EXCEPT ![b.id] = AgreementRow(r)]
    BY DEF Inserts
  <2>2. r \in Requests /\ b \in CreateBodies /\ SnapKnows(r)
    BY Kinds, CreateBodiesAreValid DEF Snaps
  <2>3. CreateOK(r)
    BY <2>2 DEF Inv, RequestOK
  <2> QED BY <2>1, <2>2, <2>3 DEF Clashes, CreateOK
<1>2. b.id \in Ids /\ b.requested \in Nat \ {0} /\ b.period \in Periods
  BY <1>1 DEF CreateBodies
<1>3. \A i \in Ids : i # b.id => agreements'[i] = agreements[i]
  BY <1>1 DEF TypeInd, TableTypes
<1>4. agreements'[b.id].body = b
  BY <1>1, <1>2 DEF TypeInd, TableTypes, AgreementRow
<1>5. \A i \in Ids : s.agreements[i] # NoAgreement => agreements[i] = s.agreements[i]
  BY <1>1 DEF SnapKnows
<1>6. V \subseteq Ids /\ b.id \notin V /\ W \subseteq Ids /\ IsFiniteSet(V) /\ IsFiniteSet(V \cup {b.id})
  <2>1. V \subseteq Ids /\ b.id \notin V /\ W \subseteq Ids
    BY <1>1, <1>2, <1>5 DEF LiveIn
  <2>2. IsFiniteSet(V)
    BY <2>1, IdsAreOrdered, FS_Subset
  <2> QED BY <2>1, <2>2, FS_AddElement
<1>7. W \subseteq V \cup {b.id}
  <2> SUFFICES ASSUME NEW i \in W, i # b.id PROVE i \in V
    OBVIOUS
  <2>1. /\ i \in Ids /\ agreements'[i] = agreements[i] /\ agreements[i] # NoAgreement
        /\ agreements[i].body.period = b.period /\ ~Voided(voids, i)
        /\ s.agreements[i] # NoAgreement \/ agreements[i].folio.year = folioYear[r]
    BY <1>3 DEF LiveIn
  <2>2. s.agreements[i] # NoAgreement
    <3>1. CASE agreements[i].folio.year = folioYear[r]
      <4>1. InYear(agreements, folioYear[r]) = InYear(s.agreements, folioYear[r])
        BY <1>1, SameYear
      <4>2. i \in InYear(agreements, folioYear[r])
        BY <2>1, <3>1 DEF InYear
      <4> QED BY <4>1, <4>2 DEF InYear
    <3> QED BY <2>1, <3>1
  <2>3. ~Voided(s.voids, i)
    BY <1>1, <2>1 DEF CreateOK, Voided
  <2> QED BY <1>5, <2>1, <2>2, <2>3 DEF LiveIn
<1>8. \A i \in V \cup {b.id} : g[i] \in Nat
  <2>1. \A i \in V : agreements[i] # NoAgreement /\ agreements'[i] = agreements[i] /\ i \in Ids
    BY <1>3, <1>5, <1>6 DEF LiveIn
  <2>2. \A i \in Ids : agreements[i] = NoAgreement \/ agreements[i].body.requested \in Nat
    BY DEF TypeInd, TableTypes, IsAgreement, CreateBodies
  <2>3. g[b.id] \in Nat
    BY <1>2, <1>4
  <2>4. \A i \in V : g[i] \in Nat
    BY <2>1, <2>2
  <2> QED BY <2>3, <2>4
<1>9. \A i \in V : g[i] = f[i]
  BY <1>3, <1>5, <1>6 DEF LiveIn
<1>10. SumFunction(g) = SumFunction(f) + b.requested /\ SumFunction(f) \in Int
  <2>1. DOMAIN f = V /\ DOMAIN g = V \cup {b.id} /\ g[b.id] = b.requested
    BY <1>4
  <2> HIDE DEF f, g, V
  <2>2. \A i \in DOMAIN g : g[i] \in Int
    BY <1>8, <2>1
  <2> QED BY <1>6, <1>9, <2>1, <2>2, SumGrows
<1>11. SumFunction(h) <= SumFunction(g)
  <2>1. DOMAIN h = W /\ DOMAIN g = V \cup {b.id}
    OBVIOUS
  <2>2. \A i \in DOMAIN h : h[i] = g[i]
    BY <1>7
  <2> HIDE DEF h, g, V, W
  <2> QED BY <1>6, <1>7, <1>8, <2>1, <2>2, SumSmaller
<1>12. SumFunction(h) \in Int /\ SumFunction(g) \in Int
  <2>1. IsFiniteSet(W)
    BY <1>6, <1>7, FS_Subset
  <2>2. \A i \in W : h[i] = g[i]
    BY <1>7
  <2>3. DOMAIN h = W
    OBVIOUS
  <2> HIDE DEF h, g, V, W, f
  <2>4. \A i \in W : h[i] \in Int
    BY <1>7, <1>8, <2>2
  <2> QED BY <1>2, <1>10, <2>1, <2>3, <2>4, SumIsInt
<1>13. /\ SumFunction(f) + b.requested <= s.books[b.period].available
       /\ s.books[b.period].available \in Int
  <2>1. s.books[b.period] \in Ledgers
    BY <1>1, <1>2 DEF CreateOK
  <2>2. s.books[b.period].available \in Int
    BY <2>1, LedgersAreValid
  <2>3. b.requested <= FreeMoney(s, b.period)
    BY <1>1 DEF SnapKnows
  <2>4. FreeMoney(s, b.period) = IF s.books[b.period].available > SumFunction(f)
                                 THEN s.books[b.period].available - SumFunction(f) ELSE 0
    BY DEF FreeMoney, Distributed
  <2> HIDE DEF f, s
  <2> QED BY <1>2, <1>10, <2>2, <2>3, <2>4
<1>14. Fits(r) <=> SumFunction(h) <= s.books[b.period].available
  BY DEF Fits, Distributed
<1> HIDE DEF f, g, h, s, V, W
<1> QED
  BY <1>2, <1>10, <1>11, <1>12, <1>13, <1>14

LEMMA OnlyInsertsFile ==
    ASSUME Inv, TypeInd, Snaps, [Next]_vars, NEW r \in CreateReqs, pc[r] = "insert",
           agreements[CreateBody[r].id] # agreements'[CreateBody[r].id]
    PROVE  Inserts(r) /\ UNCHANGED voids
<1> DEFINE id == CreateBody[r].id
<1>1. PICK q \in CreateReqs : Creates(q)
  <2>1. agreements' # agreements
    OBVIOUS
  <2>2. Steps
    BY AllSteps
  <2>3. \A q \in VoidReqs : ~VoidsIt(q)
    BY <2>1 DEF VoidsIt
  <2>4. \A q \in PayReqs : ~PaysIt(q)
    BY <2>1 DEF PaysIt, agreementVars, agreementTables
  <2>5. \A q \in UndoReqs : ~UndoesIt(q)
    BY <2>1 DEF UndoesIt, agreementVars, agreementTables
  <2>6. \A q \in Requests : ~Repeat(q)
    BY <2>1 DEF Repeat, Resend, agreementVars, agreementTables
  <2>7. \A i \in Instances : ~Stop(i)
    BY <2>1 DEF Stop, Crash, agreementTables
  <2>8. ~Around
    BY <2>1 DEF Around, agreementTables
  <2> QED BY <2>2, <2>3, <2>4, <2>5, <2>6, <2>7, <2>8 DEF Steps
<1>2. Inserts(q) /\ UNCHANGED voids
  BY <1>1 DEF Creates, Enqueues, Begins, Advances
<1>3. CreateBody[q].id = id
  <2>1. agreements' = [agreements EXCEPT ![CreateBody[q].id] = AgreementRow(q)]
    BY <1>2 DEF Inserts
  <2>2. id \in Ids /\ CreateBody[q].id \in Ids
    BY CreateBodiesAreValid DEF CreateBodies
  <2> QED BY <2>1, <2>2 DEF TypeInd, TableTypes
<1>4. q = r
  <2>1. IdLock(id) \in held[q] /\ IdLock(id) \in held[r]
    BY <1>2, <1>3 DEF Snaps, SnapKnows, Inserts
  <2>2. q \in Requests /\ r \in Requests /\ LocksOK
    BY Kinds DEF Inv
  <2> QED BY <2>1, <2>2, Excluded DEF IdLock
<1> QED
  BY <1>2, <1>4

(* The same available money is never agreed twice: a creation that is      *)
(* committed distributes, together with the live agreements of its period, *)
(* no more than was available when it decided.  Its snapshot may be old by *)
(* then; the counter of folios tells it so, except for agreements that     *)
(* took their folio from the counter of another year.                      *)
THEOREM MoneyIsAgreedOnce == Spec => NeverAgreedTwice
<1>1. Init => Inv /\ TypeInd /\ Snaps
  BY AtFirst, TypesAtFirst, SnapsAtFirst
<1>2. Inv /\ TypeInd /\ Snaps /\ [Next]_vars => (Inv /\ TypeInd /\ Snaps)'
  BY EveryStep, TypesKept, SnapsKept
<1> DEFINE Once ==
        \A r \in CreateReqs :
          LET b == CreateBody[r]
              missed == {i \in Ids : /\ snap[r].agreements[i] = NoAgreement
                                     /\ agreements'[i] # NoAgreement
                                     /\ agreements'[i].folio.year # folioYear[r]}
          IN  (pc[r] = "insert" /\ agreements[b.id] # agreements'[b.id]) =>
                  Distributed(agreements', LiveIn(agreements', voids', b.period) \ missed)
                      <= snap[r].books[b.period].available
<1>3. Inv /\ TypeInd /\ Snaps /\ [Next]_vars => [Once]_vars
  <2> SUFFICES ASSUME Inv, TypeInd, Snaps, [Next]_vars, NEW r \in CreateReqs, pc[r] = "insert",
                      agreements[CreateBody[r].id] # agreements'[CreateBody[r].id]
               PROVE  Fits(r)
    BY Zenon DEF Fits
  <2>1. TypeInd'
    BY TypesKept
  <2>2. Inserts(r) /\ UNCHANGED voids
    BY OnlyInsertsFile
  <2> QED BY <2>1, <2>2, InsertFits
<1>4. Spec => [][Once]_vars
  <2> HIDE DEF Once
  <2> QED BY <1>1, <1>2, <1>3, PTL DEF Spec
<1> QED
  BY <1>4, PTL DEF NeverAgreedTwice

-----------------------------------------------------------------------------
(* The accounts. *)

\* What a void is about to void has been agreed: agreements are never deleted.
VoidTargets ==
    \A r \in VoidReqs : pc[r] \in {"check", "void"} => agreements[VoidBody[r].target] # NoAgreement

LEMMA VoidTargetIsId == \A r \in VoidReqs : VoidBody[r].target \in Ids /\ VoidBody[r].id \in Ids
BY VoidBodiesAreValid DEF VoidBodies

\* It knows what it knew.
LEMMA TargetStays ==
    ASSUME VoidTargets, RowsStay, NEW q \in VoidReqs, pc'[q] = pc[q]
    PROVE  pc'[q] \in {"check", "void"} => agreements'[VoidBody[q].target] # NoAgreement
BY VoidTargetIsId DEF VoidTargets, RowsStay

LEMMA VoidTargetsKept == ASSUME Inv, TypeInd, VoidTargets, [Next]_vars PROVE VoidTargets'
<1>1. Steps
  BY AllSteps
<1>2. ASSUME NEW r \in Requests, Moves(r), RowsStay, r \notin VoidReqs PROVE VoidTargets'
  <2>1. \A q \in VoidReqs : pc'[q] = pc[q]
    BY <1>2, MovesKeepsTypes, Kinds DEF TypeInd
  <2> QED BY <1>2, <2>1, TargetStays DEF VoidTargets
<1>3. ASSUME NEW r \in VoidReqs, VoidsIt(r) PROVE VoidTargets'
  <2>1. r \in Requests /\ Moves(r) /\ RowsStay /\ UNCHANGED agreements /\ DOMAIN pc = Requests
    BY <1>3, Kinds DEF VoidsIt, RowsStay, TypeInd, TxTypes
  <2>2. \A q \in VoidReqs \ {r} : pc'[q] = pc[q]
    BY <2>1, MovesKeepsTypes, Kinds DEF TypeInd
  <2>3. \A q \in VoidReqs \ {r} : pc'[q] \in {"check", "void"} => agreements'[VoidBody[q].target] # NoAgreement
    BY <2>1, <2>2, TargetStays
  <2>4. ASSUME pc'[r] \in {"check", "void"} PROVE agreements[VoidBody[r].target] # NoAgreement
    <3>1. ASSUME NEW code, Finish(r, code) PROVE FALSE
      BY <2>1, <2>4, <3>1 DEF Finish
    <3>2. CASE AuthorizeVoid(r) \/ LockFirst(r) \/ LockSecond(r)
      <4>1. pc'[r] \in {"first", "second", "row", "done"}
        BY <2>1, <3>2 DEF AuthorizeVoid, VoidReject, Finish, Authorize, Acquire, LockFirst, LockSecond
      <4> QED BY <2>4, <4>1
    <3>3. CASE LockRow(r)
      BY <3>1, <3>3 DEF LockRow, VoidReject
    <3>4. CASE CheckVoid(r)
      BY <3>4 DEF CheckVoid, VoidTargets
    <3>5. CASE InsertVoid(r) \/ ExpireVoid(r)
      BY <3>1, <3>5 DEF InsertVoid, ExpireVoid, VoidReject
    <3> QED BY <1>3, <3>2, <3>3, <3>4, <3>5 DEF VoidsIt, Voiding
  <2> QED BY <2>1, <2>3, <2>4 DEF VoidTargets
<1>4. ASSUME NEW r \in CreateReqs, Creates(r) PROVE VoidTargets'
  <2>1. Moves(r) /\ r \in Requests /\ r \notin VoidReqs
    BY <1>4, Kinds DEF Creates
  <2> QED BY <1>2, <1>4, <2>1, CreatesKeepRows
<1>5. ASSUME NEW r \in PayReqs, PaysIt(r) PROVE VoidTargets'
  <2>1. Moves(r) /\ RowsStay
    BY <1>5 DEF PaysIt, agreementVars, agreementTables, RowsStay
  <2> QED BY <1>2, <2>1, Kinds
<1>6. ASSUME NEW r \in UndoReqs, UndoesIt(r) PROVE VoidTargets'
  <2>1. Moves(r) /\ RowsStay
    BY <1>6 DEF UndoesIt, agreementVars, agreementTables, RowsStay
  <2> QED BY <1>2, <2>1, Kinds
<1>7. ASSUME UNCHANGED agreements, \A q \in VoidReqs : pc'[q] = pc[q] \/ pc'[q] \in {"idle", "done"}
      PROVE  VoidTargets'
  BY <1>7 DEF VoidTargets
<1>8. ASSUME NEW r \in Requests, Repeat(r) PROVE VoidTargets'
  <2>1. UNCHANGED agreements /\ \A q \in Requests : pc'[q] = pc[q] \/ pc'[q] \in {"idle", "done"}
    BY <1>8 DEF Repeat, Resend, agreementVars, agreementTables, TypeInd, TxTypes
  <2> QED BY <1>7, <2>1, Kinds
<1>9. ASSUME NEW i \in Instances, Stop(i) PROVE VoidTargets'
  <2>1. UNCHANGED agreements /\ \A q \in Requests : pc'[q] = pc[q] \/ pc'[q] \in {"idle", "done"}
    BY <1>9 DEF Stop, Crash, DropHome, agreementTables
  <2> QED BY <1>7, <2>1, Kinds
<1>10. ASSUME Around PROVE VoidTargets'
  BY <1>7, <1>10 DEF Around, txVars, agreementTables
<1> QED
  BY <1>1, <1>3, <1>4, <1>5, <1>6, <1>8, <1>9, <1>10 DEF Steps

\* Only what has been agreed is voided.
VoidedAreAgreed == \A i \in Ids : Voided(voids, i) => agreements[i] # NoAgreement

LEMMA VoidedAreAgreedKept ==
    ASSUME Inv, TypeInd, VoidTargets, VoidedAreAgreed, [Next]_vars
    PROVE  VoidedAreAgreed'
<1>1. Steps
  BY AllSteps
<1>2. ASSUME UNCHANGED voids, RowsStay PROVE VoidedAreAgreed'
  BY <1>2 DEF VoidedAreAgreed, RowsStay, Voided
<1>3. ASSUME NEW r \in VoidReqs, VoidsIt(r) PROVE VoidedAreAgreed'
  <2>1. UNCHANGED agreements
    BY <1>3 DEF VoidsIt
  <2>2. CASE UNCHANGED voids
    BY <1>2, <2>1, <2>2 DEF RowsStay
  <2>3. CASE pc[r] = "void" /\ \E e : e.target = VoidBody[r].target /\ voids' = [voids EXCEPT ![VoidBody[r].id] = e]
    <3>1. agreements[VoidBody[r].target] # NoAgreement
      BY <2>3 DEF VoidTargets
    <3>2. \A i \in Ids : Voided(voids, i)' => Voided(voids, i) \/ i = VoidBody[r].target
      BY <2>3 DEF Voided, TypeInd, TableTypes
    <3> QED BY <2>1, <3>1, <3>2 DEF VoidedAreAgreed
  <2> QED BY <1>3, <2>2, <2>3 DEF VoidsIt
<1>4. ASSUME NEW r \in CreateReqs, Creates(r) PROVE VoidedAreAgreed'
  <2>1. UNCHANGED voids
    BY <1>4 DEF Creates
  <2> QED BY <1>2, <1>4, <2>1, CreatesKeepRows
<1>5. ASSUME UNCHANGED <<agreements, voids>> PROVE VoidedAreAgreed'
  BY <1>2, <1>5 DEF RowsStay
<1> QED
  BY <1>1, <1>3, <1>4, <1>5
  DEF Steps, PaysIt, UndoesIt, Repeat, Stop, Crash, Around, agreementVars, agreementTables

LEMMA VoidsAtFirst == ASSUME Init PROVE VoidTargets /\ VoidedAreAgreed
BY Kinds DEF Init, TxInit, AgreementsInit, VoidTargets, VoidedAreAgreed, Voided

\* The accounts add up as the tables do.
LEMMA AccountSums ==
    ASSUME NEW f
    PROVE  Accounts!SumFunction(f) = SumFunction(f)
<1>1. Accounts!SumFunction(f) = (CHOOSE g : Adds(g, f, DOMAIN f))[DOMAIN f]
  BY Zenon DEF Accounts!SumFunction, Accounts!SumFunctionOnSet, Accounts!FoldFunctionOnSet,
               Accounts!MapThenFoldSet, Adds, Choice
<1> QED
  BY <1>1, SumIsChosen DEF SumFunction

\* As the accounts see the tables.
VoidedIds == {i \in Ids : Voided(voids, i)}
PaidTo == [i \in Ids |-> [m \in Members |-> Paid(i, m)]]

LEMMA PaidsStay ==
    ASSUME UNCHANGED <<payments, undos>>
    PROVE  UNCHANGED PaidTo
<1>1. ASSUME NEW i, NEW m PROVE Paid(i, m)' = Paid(i, m)
  BY DEF Paid, Received, Undone
<1> QED
  BY <1>1 DEF PaidTo

LEMMA VoidedStay ==
    ASSUME UNCHANGED voids
    PROVE  UNCHANGED VoidedIds
BY DEF VoidedIds, Voided

LEMMA AccountsAtFirst == ASSUME Init PROVE Accounts!Init
<1>1. agreements = Filed /\ voids = [v \in Ids |-> NoVoid] /\ payments = [p \in PayIds |-> NoPayment]
  BY DEF Init, AgreementsInit, PaymentsInit
<1>2. VoidedIds = {}
  BY <1>1 DEF VoidedIds, Voided
<1>3. ASSUME NEW i \in Ids, NEW m \in Members PROVE Paid(i, m) = 0
  <2>1. Received(i, m) = {}
    BY <1>1 DEF Received
  <2> QED BY <2>1, SumOfNone DEF Paid
<1>4. PaidTo = [i \in Ids |-> [m \in Members |-> 0]]
  BY <1>3 DEF PaidTo
<1> QED
  BY <1>1, <1>2, <1>4 DEF Accounts!Init, VoidedIds, PaidTo

\* A step that changes none of the tables is not seen.
LEMMA UnseenStep ==
    ASSUME UNCHANGED <<agreements, voids, payments, undos>>
    PROVE  UNCHANGED Accounts!vars
<1>1. UNCHANGED VoidedIds /\ UNCHANGED PaidTo
  BY PaidsStay, VoidedStay
<1> QED
  BY <1>1 DEF Accounts!vars, VoidedIds, PaidTo

\* A payment is there from its commit on.
LEMMA PaidMore ==
    ASSUME TypeInd, Ties, NEW b \in PayBodies, NEW row, row.body = b, row # NoPayment, payments[b.id] = NoPayment,
           payments' = [payments EXCEPT ![b.id] = row], undos' = undos
    PROVE  Paid(b.agreement, b.member)' = Paid(b.agreement, b.member) + b.amount
<1> DEFINE i == b.agreement
           m == b.member
           S == Received(i, m)
           f == [p \in S |-> payments[p].body.amount]
           g == [p \in S \cup {b.id} |-> payments'[p].body.amount]
<1>1. b.id \in PayIds /\ b.amount \in Nat /\ PayTypes
  BY DEF PayBodies, TypeInd
<1>2. IsFiniteSet(S) /\ b.id \notin S /\ S \subseteq PayIds
  BY <1>1, PaidIsNat DEF Received
<1>3. /\ \A p \in PayIds \ {b.id} : payments'[p] = payments[p]
      /\ payments'[b.id] = row
      /\ \A p : Undone(p)' <=> Undone(p)
  BY <1>1 DEF PayTypes, Undone
<1>4. ~Undone(b.id)
  BY DEF Undone, Ties
<1>5. Received(i, m)' = S \cup {b.id}
  <2>1. \A p \in PayIds \ {b.id} : p \in Received(i, m)' <=> p \in S
    BY <1>3 DEF Received
  <2>2. b.id \in Received(i, m)'
    BY <1>1, <1>3, <1>4 DEF Received
  <2>3. Received(i, m)' \subseteq PayIds
    BY DEF Received
  <2> HIDE DEF S, i, m
  <2> QED BY <1>2, <2>1, <2>2, <2>3
<1>6. Paid(i, m) = SumFunction(f) /\ Paid(i, m)' = SumFunction(g)
  BY <1>5 DEF Paid
<1>7. \A p \in S : payments[p] # NoPayment /\ payments'[p] = payments[p]
  BY <1>2, <1>3 DEF Received
<1>8. \A p \in S : payments[p].body.amount \in Nat
  BY <1>1, <1>2, <1>7, PaidIsNat
<1>9. DOMAIN f = S /\ DOMAIN g = S \cup {b.id} /\ g[b.id] = b.amount /\ \A p \in S : g[p] = f[p] /\ f[p] \in Nat
  BY <1>3, <1>7, <1>8
<1> HIDE DEF f, g, S, i, m
<1>10. \A p \in DOMAIN g : g[p] \in Int
  BY <1>1, <1>9
<1>11. SumFunction(g) = SumFunction(f) + g[b.id]
  BY <1>2, <1>9, <1>10, SumGrows
<1> QED
  BY <1>6, <1>9, <1>11 DEF i, m

\* A reversal takes back a payment that counted.
LEMMA PaidLess ==
    ASSUME TypeInd, NEW u \in UndoIds, NEW row, row # NoUndo, undos' = [undos EXCEPT ![u] = row],
           payments' = payments, undos[u] = NoUndo,
           NEW p \in PayIds, row.payment = p, payments[p] # NoPayment, ~Undone(p),
           NEW i, i = payments[p].body.agreement, NEW m, m = payments[p].body.member
    PROVE  /\ Paid(i, m)' = Paid(i, m) - payments[p].body.amount
           /\ payments[p].body.amount \in Nat /\ payments[p].body.amount <= Paid(i, m)
<1> DEFINE S == Received(i, m)
           f == [q \in S |-> payments[q].body.amount]
           g == [q \in S \ {p} |-> payments[q].body.amount]
<1>1. PayTypes
  BY DEF TypeInd
<1>2. IsFiniteSet(S) /\ p \in S /\ \A q \in S : payments[q].body.amount \in Nat
  <2>1. IsFiniteSet(S)
    BY <1>1, PaidIsNat
  <2>2. p \in S /\ \A q \in S : q \in PayIds /\ payments[q] # NoPayment
    BY DEF Received
  <2> QED BY <1>1, <2>1, <2>2, PaidIsNat
<1>3. \A q : Undone(q)' <=> Undone(q) \/ q = p
  BY <1>1 DEF PayTypes, Undone
<1>4. Received(i, m)' = S \ {p}
  BY <1>3 DEF Received
<1>5. Paid(i, m) = SumFunction(f) /\ Paid(i, m)' = SumFunction(g)
  BY <1>4 DEF Paid
<1>6. /\ DOMAIN g = S \ {p} /\ DOMAIN f = DOMAIN g \cup {p} /\ p \notin DOMAIN g /\ IsFiniteSet(DOMAIN g)
      /\ f[p] = payments[p].body.amount /\ \A q \in DOMAIN g : f[q] = g[q] /\ g[q] \in Nat
  BY <1>2, FS_Subset
<1> HIDE DEF f, g, S
<1>7. f[p] \in Nat /\ \A q \in DOMAIN f : f[q] \in Int
  BY <1>2, <1>6
<1>8. SumFunction(f) = SumFunction(g) + f[p] /\ SumFunction(g) \in Int
  BY <1>6, <1>7, SumGrows
<1>9. SumFunction(g) \in Nat
  BY <1>6, TotalIsNat
<1> QED
  BY <1>5, <1>6, <1>7, <1>8, <1>9

\* The commit of a creation is an agreement: the next folio, free money, all of it shared.
LEMMA InsertAgrees ==
    ASSUME Inv, TypeInd, TypeInd', Snaps, VoidedAreAgreed, NEW r \in CreateReqs, Inserts(r),
           UNCHANGED <<voids, payments, undos>>, agreements' # agreements
    PROVE  Accounts!Next
<1> DEFINE b == CreateBody[r]
           s == snap[r]
           y == folioYear[r]
           a == agreements'[b.id]
           Live == {i \in Ids : /\ agreements[i] # NoAgreement /\ agreements[i].folio.year = y
                                /\ agreements[i].body.period = b.period /\ i \notin VoidedIds}
           f == [i \in Live |-> agreements[i].body.requested]
           g == [i \in Live \cup {b.id} |-> agreements'[i].body.requested]
           missed == {i \in Ids : /\ s.agreements[i] = NoAgreement
                                  /\ agreements'[i] # NoAgreement
                                  /\ agreements'[i].folio.year # y}
           W == LiveIn(agreements', voids', b.period) \ missed
           h == [i \in W |-> agreements'[i].body.requested]
<1>1. /\ pc[r] = "insert" /\ ~Clashes(r) /\ CreateOK(r) /\ b \in CreateBodies
      /\ agreements' = [agreements EXCEPT ![b.id] = AgreementRow(r)]
  BY Kinds, CreateBodiesAreValid DEF Inserts, Inv, RequestOK
<1>2. b.id \in Ids /\ b.requested \in Nat /\ b.period \in Periods /\ b.replaces \in Ids \cup {NoId}
  BY <1>1 DEF CreateBodies
<1>3. agreements[b.id] = NoAgreement /\ y \in Years /\ counter[y] = s.counter[y]
  BY <1>1 DEF Clashes, CreateOK
<1>4. a = AgreementRow(r) /\ agreements' = [agreements EXCEPT ![b.id] = a] /\ a # NoAgreement
      /\ \A i \in Ids \ {b.id} : agreements'[i] = agreements[i]
  BY <1>1, <1>2, <1>3 DEF TypeInd, TableTypes
<1>5. /\ a.body = b /\ a.folio.year = y /\ a.folio.number = counter[y] + 1
      /\ a.available = s.books[b.period].available
  BY <1>3, <1>4 DEF AgreementRow
<1>6. Accounts!IsNextFolio(a.folio)
  <2>1. Numbers(agreements, y) = 1..counter[y] /\ counter[y] \in Nat
    BY <1>3 DEF Inv, TablesOK, FoliosAreGapless
  <2>2. {agreements[i].folio.number : i \in Accounts!OfYear(y)} = Numbers(agreements, y)
    BY DEF Accounts!OfYear, Accounts!Agreed, Numbers, InYear
  <2> QED BY <1>5, <2>1, <2>2 DEF Accounts!IsNextFolio
<1>7. a.body.replaces # NoId => Accounts!MayReplace(a.body.replaces)
  <2> HAVE a.body.replaces # NoId
  <2> DEFINE old == b.replaces
  <2>1. old \in Ids /\ Replaceable(s, old, b.id) /\ b.replaces # NoId
    BY <1>1, <1>2, <1>5 DEF CreateOK
  <2>2. agreements[old] # NoAgreement /\ Voided(voids, old)
    BY <1>1, <2>1 DEF CreateOK, Replaceable, Voided
  <2>3. \A j \in Ids : agreements[j] # NoAgreement => agreements[j].body.replaces # old
    BY <1>1, <2>1 DEF Clashes
  <2> QED BY <1>5, <2>1, <2>2, <2>3 DEF Accounts!MayReplace, Accounts!Agreed, VoidedIds
<1>8. SumFunction(a.shares) = a.body.requested
  BY <1>1, <1>4, RowIsHandedOut DEF HandedOut, TotalOf
<1>9. SumFunction(f) + b.requested <= a.available
  <2>1. SumFunction(h) <= a.available
    BY <1>5, InsertFits DEF Fits, Distributed
  <2>2. Live \cup {b.id} \subseteq W
    <3>1. \A i \in Live : i # b.id /\ agreements'[i] = agreements[i]
      BY <1>3, <1>4
    <3>2. Live \subseteq W
      BY <3>1 DEF LiveIn, VoidedIds, Voided
    <3>3. ~Voided(voids', b.id)
      BY <1>2, <1>3 DEF VoidedAreAgreed, Voided
    <3>4. b.id \in W
      BY <1>2, <1>4, <1>5, <3>3 DEF LiveIn
    <3> QED BY <3>2, <3>4
  <2>3. W \subseteq Ids /\ IsFiniteSet(W) /\ IsFiniteSet(Live) /\ Live \subseteq Ids /\ b.id \notin Live
    <3>1. W \subseteq Ids /\ Live \subseteq Ids /\ b.id \notin Live
      BY <1>3 DEF LiveIn
    <3> QED BY <3>1, IdsAreOrdered, FS_Subset
  <2>4. \A i \in W : agreements'[i].body.requested \in Nat
    BY DEF LiveIn, TypeInd, TableTypes, IsAgreement, CreateBodies
  <2>5. \A i \in Live : agreements'[i] = agreements[i]
    BY <1>3, <1>4
  <2>6. /\ DOMAIN f = Live /\ DOMAIN g = Live \cup {b.id} /\ DOMAIN h = W /\ g[b.id] = b.requested
        /\ \A i \in Live : g[i] = f[i]
        /\ \A i \in Live \cup {b.id} : g[i] = h[i]
        /\ \A i \in W : h[i] \in Nat
    BY <1>5, <2>2, <2>4, <2>5
  <2> HIDE DEF f, g, h, Live, W
  <2>7. \A i \in DOMAIN g : g[i] \in Int
    BY <2>2, <2>6
  <2>8. SumFunction(g) = SumFunction(f) + b.requested /\ SumFunction(f) \in Int
    BY <2>3, <2>6, <2>7, SumGrows
  <2>9. SumFunction(g) <= SumFunction(h) /\ SumFunction(h) \in Int
    <3>1. SumFunction(g) <= SumFunction(h)
      BY <2>2, <2>3, <2>6, SumSmaller
    <3>2. \A i \in DOMAIN h : h[i] \in Int
      BY <2>6
    <3> QED BY <2>3, <2>6, <3>1, <3>2, SumIsInt
  <2>10. a.available \in Int
    <3>1. s.books[b.period] \in Ledgers
      BY <1>1, <1>2 DEF CreateOK
    <3> QED BY <1>5, <3>1, LedgersAreValid
  <2> QED BY <1>2, <2>1, <2>8, <2>9, <2>10
<1>10. Accounts!Distributed(b.period, y) = SumFunction(f)
  <2>1. {i \in Accounts!OfYear(y) : agreements[i].body.period = b.period /\ i \notin VoidedIds} = Live
    BY DEF Accounts!OfYear, Accounts!Agreed
  <2>2. Accounts!Distributed(b.period, y) = Accounts!SumFunction(f)
    BY <2>1, Zenon DEF Accounts!Distributed, VoidedIds
  <2> QED BY <2>2, AccountSums
<1>11. Accounts!SumFunction(a.shares) = SumFunction(a.shares)
  BY AccountSums
<1>12. UNCHANGED VoidedIds /\ UNCHANGED PaidTo
  BY PaidsStay, VoidedStay
<1> HIDE DEF a, b, f, y
<1>13. Accounts!Agree(b.id, a)
  BY <1>3, <1>4, <1>5, <1>6, <1>7, <1>8, <1>9, <1>10, <1>11, <1>12 DEF Accounts!Agree, VoidedIds, PaidTo
<1> QED
  BY <1>2, <1>13 DEF Accounts!Next, a

LEMMA VoidVoids ==
    ASSUME TypeInd, VoidTargets, NEW r \in VoidReqs, VoidsIt(r), voids' # voids
    PROVE  Accounts!Next
<1> DEFINE i == VoidBody[r].target
           id == VoidBody[r].id
<1>1. i \in Ids /\ id \in Ids
  BY VoidTargetIsId
<1>2. /\ pc[r] = "void" /\ voids[id] = NoVoid /\ ~Voided(voids, i) /\ UNCHANGED <<agreements, payments, undos>>
      /\ \E e : e.target = i /\ voids' = [voids EXCEPT ![id] = e]
  BY DEF VoidsIt, payVars, payTables
<1>3. PICK e : e.target = i /\ voids' = [voids EXCEPT ![id] = e]
  BY <1>2
<1>4. e # NoVoid
  BY <1>2, <1>3 DEF TypeInd, TableTypes
<1>5. DOMAIN voids = Ids
  BY DEF TypeInd, TableTypes
<1> HIDE DEF i, id
<1>6. \A j : Voided(voids, j)' <=> Voided(voids, j) \/ j = i
  BY <1>1, <1>2, <1>3, <1>4, <1>5 DEF Voided
<1>7. VoidedIds' = VoidedIds \cup {i}
  BY <1>1, <1>6 DEF VoidedIds
<1>8. agreements[i] # NoAgreement /\ i \notin VoidedIds
  BY <1>2 DEF VoidTargets, VoidedIds, i
<1>9. UNCHANGED PaidTo
  BY <1>2, PaidsStay
<1>10. Accounts!Void(i)
  BY <1>1, <1>2, <1>7, <1>8, <1>9 DEF Accounts!Void, Accounts!Agreed, VoidedIds, PaidTo
<1> QED
  BY <1>1, <1>10 DEF Accounts!Next

\* The accounts after member m of agreement i has received n.
LEMMA PaidToChanges ==
    ASSUME NEW i \in Ids, NEW m \in Members, NEW n,
           \A j \in Ids, k \in Members : (j # i \/ k # m) => Paid(j, k)' = Paid(j, k),
           Paid(i, m)' = n
    PROVE  PaidTo' = [PaidTo EXCEPT ![i][m] = n]
<1>1. ASSUME NEW j \in Ids, NEW k \in Members
      PROVE  PaidTo'[j][k] = [PaidTo EXCEPT ![i][m] = n][j][k]
  BY <1>1 DEF PaidTo
<1> QED
  BY <1>1 DEF PaidTo

LEMMA PaymentPays ==
    ASSUME Inv, TypeInd, TypeInd', Money, NEW r \in PayReqs, PaysIt(r), InsertPayment(r), payments' # payments
    PROVE  Accounts!Next
<1> DEFINE b == PayBody[r]
           row == [body |-> b, fingerprint |-> PayFingerprint(r)]
           i == b.agreement
           m == b.member
           share == agreements[i].shares[m]
<1>1. /\ pc[r] = "pay" /\ payments[b.id] = NoPayment
      /\ ~(paidSoFar[r] + b.amount > share)
      /\ payments' = [payments EXCEPT ![b.id] = row] /\ undos' = undos
  BY DEF InsertPayment, PayReject, payTables
<1>2. b \in PayBodies /\ i \in Ids /\ m \in Members /\ b.amount \in Nat \ {0} /\ b.id \in PayIds
  BY PayBodiesAreValid DEF PayBodies
<1>3. /\ agreements[i] # NoAgreement /\ m \in DOMAIN agreements[i].shares
      /\ paidSoFar[r] = Paid(i, m)
  BY <1>1 DEF Money, Knowing, PayKnows
<1>4. ~Voided(voids, i)
  BY <1>1, Kinds DEF Inv, RequestOK, PayOK
<1>5. row.body = b /\ row # NoPayment
  BY <1>1, <1>2 DEF TypeInd, PayTypes
<1>6. UNCHANGED <<agreements, voids>>
  BY DEF PaysIt, agreementVars, agreementTables
<1> HIDE DEF row
<1>7. Paid(i, m)' = Paid(i, m) + b.amount
  BY <1>1, <1>2, <1>5, PaidMore DEF Money
<1>8. \A j \in Ids, k \in Members : (j # i \/ k # m) => Paid(j, k)' = Paid(j, k)
  BY <1>1, <1>2, <1>5, PaidAfterPay DEF Money
<1>9. Paid(i, m) \in Nat /\ share \in Nat
  BY <1>2, <1>3, PaidIsNat DEF TypeInd, TableTypes, IsAgreement
<1>10. b.amount \in 1..(share - Paid(i, m))
  BY <1>1, <1>2, <1>3, <1>9
<1>11. PaidTo' = [PaidTo EXCEPT ![i][m] = @ + b.amount] /\ PaidTo[i][m] = Paid(i, m)
  <2> HIDE DEF i, m, b
  <2>1. PaidTo[i][m] = Paid(i, m)
    BY <1>2 DEF PaidTo
  <2>2. PaidTo' = [PaidTo EXCEPT ![i][m] = Paid(i, m) + b.amount]
    BY <1>2, <1>7, <1>8, PaidToChanges
  <2>3. PaidTo' = [PaidTo EXCEPT ![i][m] = PaidTo[i][m] + b.amount]
    BY <2>1, <2>2
  <2> QED BY <2>1, <2>3
<1>12. UNCHANGED VoidedIds /\ i \notin VoidedIds
  BY <1>4, <1>6, VoidedStay DEF VoidedIds
<1> HIDE DEF i, m, share
<1>13. Accounts!Pay(i, m)
  BY <1>2, <1>3, <1>6, <1>10, <1>11, <1>12 DEF Accounts!Pay, Accounts!Agreed, VoidedIds, PaidTo, share
<1> QED
  BY <1>2, <1>13 DEF Accounts!Next, i, m

LEMMA ReversalUndoes ==
    ASSUME Inv, TypeInd, TypeInd', Money, NEW r \in UndoReqs, UndoesIt(r), InsertUndo(r), undos' # undos
    PROVE  Accounts!Next
<1> DEFINE b == UndoBody[r]
           p == b.payment
<1>1. PICK row, i, m, n :
          /\ row = [payment |-> p, fingerprint |-> UndoFingerprint(r)]
          /\ i = payments[p].body.agreement /\ m = payments[p].body.member /\ n = payments[p].body.amount
  OBVIOUS
<1>2. /\ pc[r] = "undo" /\ undos[b.id] = NoUndo /\ ~Undone(p) /\ row.payment = p
      /\ undos' = [undos EXCEPT ![b.id] = row] /\ payments' = payments
  BY <1>1 DEF InsertUndo, PayReject, payTables
<1>3. b.id \in UndoIds /\ p \in PayIds
  BY PayTargets
<1>4. payments[p] # NoPayment
  BY <1>2 DEF Money, Knowing, UndoKnows
<1>5. row # NoUndo
  BY <1>2, <1>3 DEF TypeInd, PayTypes
<1>6. i \in Ids /\ m \in Members /\ n \in Nat \ {0} /\ agreements[i] # NoAgreement
  <2>1. payments[p].body \in PayBodies
    BY <1>3, <1>4 DEF TypeInd, PayTypes, PaymentRows
  <2> QED BY <1>1, <1>3, <1>4, <2>1 DEF PayBodies, Money, Ties
<1>7. UNCHANGED <<agreements, voids>>
  BY DEF UndoesIt, agreementVars, agreementTables
<1> HIDE DEF b, p
<1>8. Paid(i, m)' = Paid(i, m) - n /\ n <= Paid(i, m) /\ Paid(i, m) \in Nat
  <2>1. Paid(i, m) \in Nat
    BY PaidIsNat DEF TypeInd
  <2> QED BY <1>1, <1>2, <1>3, <1>4, <1>5, <2>1, PaidLess
<1>9. ASSUME NEW j, NEW k PROVE (j # i \/ k # m) => Paid(j, k)' = Paid(j, k)
  <2>1. (payments[row.payment].body.agreement # j \/ payments[row.payment].body.member # k)
              => Paid(j, k)' = Paid(j, k)
    BY <1>2, <1>3, PaidAfterUndo
  <2> QED BY <1>1, <1>2, <2>1
<1>10. n \in 1..Paid(i, m)
  BY <1>6, <1>8
<1>11. PaidTo' = [PaidTo EXCEPT ![i][m] = @ - n] /\ PaidTo[i][m] = Paid(i, m)
  <2>1. PaidTo[i][m] = Paid(i, m)
    BY <1>6 DEF PaidTo
  <2>2. PaidTo' = [PaidTo EXCEPT ![i][m] = Paid(i, m) - n]
    BY <1>6, <1>8, <1>9, PaidToChanges
  <2>3. PaidTo' = [PaidTo EXCEPT ![i][m] = PaidTo[i][m] - n]
    BY <2>1, <2>2
  <2> QED BY <2>1, <2>3
<1>12. UNCHANGED VoidedIds
  BY <1>7, VoidedStay
<1>13. Accounts!Undo(i, m)
  BY <1>6, <1>7, <1>10, <1>11, <1>12 DEF Accounts!Undo, Accounts!Agreed, VoidedIds, PaidTo
<1> QED
  BY <1>6, <1>13 DEF Accounts!Next

\* Every step of the services is an operation on the accounts or not seen.
LEMMA AccountsStep ==
    ASSUME Inv, TypeInd, TypeInd', Money, Snaps, VoidTargets, VoidedAreAgreed, [Next]_vars
    PROVE  [Accounts!Next]_Accounts!vars
<1>1. Steps
  BY AllSteps
<1>2. CASE UNCHANGED <<agreements, voids, payments, undos>>
  BY <1>2, UnseenStep
<1>3. ASSUME NEW r \in CreateReqs, Creates(r), ~UNCHANGED <<agreements, voids, payments, undos>>
      PROVE  Accounts!Next
  <2>1. UNCHANGED <<voids, payments, undos>> /\ agreements' # agreements
    BY <1>3 DEF Creates, payVars, payTables
  <2>2. Inserts(r)
    BY <1>3, <2>1 DEF Creates, Enqueues, Begins, Advances
  <2> QED BY <2>1, <2>2, InsertAgrees
<1>4. ASSUME NEW r \in VoidReqs, VoidsIt(r), ~UNCHANGED <<agreements, voids, payments, undos>>
      PROVE  Accounts!Next
  <2>1. voids' # voids
    BY <1>4 DEF VoidsIt, payVars, payTables
  <2> QED BY <1>4, <2>1, VoidVoids
<1>5. ASSUME NEW r \in PayReqs, PaysIt(r), ~UNCHANGED <<agreements, voids, payments, undos>>
      PROVE  Accounts!Next
  <2>1. UNCHANGED <<agreements, voids>> /\ ~UNCHANGED payTables
    BY <1>5 DEF PaysIt, agreementVars, agreementTables, payTables
  <2>2. InsertPayment(r)
    BY <1>5, <2>1 DEF PaysIt, payVars, ReadBalance, PayReject
  <2>3. payments' # payments
    BY <2>1, <2>2 DEF InsertPayment, PayReject, payTables
  <2> QED BY <1>5, <2>2, <2>3, PaymentPays
<1>6. ASSUME NEW r \in UndoReqs, UndoesIt(r), ~UNCHANGED <<agreements, voids, payments, undos>>
      PROVE  Accounts!Next
  <2>1. UNCHANGED <<agreements, voids>> /\ ~UNCHANGED payTables
    BY <1>6 DEF UndoesIt, agreementVars, agreementTables, payTables
  <2>2. InsertUndo(r)
    BY <1>6, <2>1 DEF UndoesIt, payVars
  <2>3. undos' # undos
    BY <2>1, <2>2 DEF InsertUndo, PayReject, payTables
  <2> QED BY <1>6, <2>2, <2>3, ReversalUndoes
<1>7. ASSUME NEW r \in Requests, Repeat(r) PROVE UNCHANGED <<agreements, voids, payments, undos>>
  BY <1>7 DEF Repeat, agreementVars, agreementTables, payVars, payTables
<1>8. ASSUME NEW i \in Instances, Stop(i) PROVE UNCHANGED <<agreements, voids, payments, undos>>
  BY <1>8 DEF Stop, Crash, agreementTables, payTables
<1>9. ASSUME Around PROVE UNCHANGED <<agreements, voids, payments, undos>>
  BY <1>9 DEF Around, agreementTables, payVars, payTables
<1> QED
  BY <1>1, <1>2, <1>3, <1>4, <1>5, <1>6, <1>7, <1>8, <1>9 DEF Steps

(* Whatever their processes, snapshots, locks and retries do to each other,*)
(* the agreements and their payments implement the accounts: every commit  *)
(* is one whole operation there, and nothing else is seen.                 *)
THEOREM FinanceImplementsTheAccounts == Spec => ImplementsTheAccounts
<1> DEFINE I == Inv /\ TypeInd /\ Money /\ Snaps /\ AllHandedOut /\ VoidTargets /\ VoidedAreAgreed
<1>1. Init => I
  BY AtFirst, TypesAtFirst, MoneyAtFirst, SnapsAtFirst, HandedOutAtFirst, VoidsAtFirst
<1>2. I /\ [Next]_vars => I'
  BY EveryStep, TypesKept, MoneyKept, SnapsKept, HandedOutKept, VoidTargetsKept, VoidedAreAgreedKept
<1>3. Init => Accounts!Init
  BY AccountsAtFirst
<1>4. I /\ I' /\ [Next]_vars => [Accounts!Next]_Accounts!vars
  BY AccountsStep
<1> HIDE DEF I
<1> QED
  BY <1>1, <1>2, <1>3, <1>4, PTL DEF Spec, ImplementsTheAccounts, Accounts!Spec
=============================================================================
