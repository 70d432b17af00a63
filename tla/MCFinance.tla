----------------------------- MODULE MCFinance -----------------------------
(***************************************************************************)
(* Small businesses for TLC.  Each configuration picks which requests      *)
(* arrive, and at which process.                                           *)
(***************************************************************************)
EXTENDS Finance, TLC

CONSTANTS ana, left, right, week, month,
          c1, c2, c2again, c2other, c3, c4, c5, cForeign, cMuch, cWork,
          v1, v1again, v2, vEarly, vSelf, vCross, vForeign,
          p1, p1again, p1other, p2, p3, pNobody, pNothing, pEarly, pForeign,
          u1, u1again, u2, uEarly, uForeign,
          Scenario

\* Socio 1 and helper 2; the work is all the helper's.
Ledger(money) == [available |-> money, work |-> (2 :> 2), socios |-> {1}]
NoWork(money) == [available |-> money, work |-> (2 :> 0), socios |-> {1, 3}]
MCLedgers == {Ledger(4), Ledger(-1), NoWork(3)}
MCOpening == [p \in Periods |-> IF p = month THEN Ledger(4) ELSE NoWork(3)]

Create(id, n) == [id |-> id, period |-> month, requested |-> n, bps |-> 5000,
                  replaces |-> NoId, seen |-> Ledger(4)]

\* c1 is filed before: of its 3 units, 1 goes to the socio and 2 to the helper,
\* and 1 is left for others until it is voided.
AllCreations ==
    c1       :> Create(1, 3) @@
    c2       :> Create(2, 1) @@
    c2again  :> Create(2, 1) @@
    c2other  :> [Create(2, 1) EXCEPT !.bps = 0] @@
    c3       :> [Create(3, 3) EXCEPT !.replaces = 1] @@
    c4       :> [Create(4, 2) EXCEPT !.replaces = 1] @@
    c5       :> Create(5, 1) @@
    cForeign :> Create(9, 1) @@
    cMuch    :> [Create(4, 5) EXCEPT !.seen = Ledger(4)] @@
    cWork    :> [Create(2, 2) EXCEPT !.period = week, !.bps = 10000, !.seen = NoWork(3)]
MCCreateBody == [r \in CreateReqs |-> AllCreations[r]]

Void_(id, target) == [id |-> id, target |-> target, timely |-> TRUE]
AllVoids ==
    v1       :> Void_(5, 1) @@
    v1again  :> Void_(5, 1) @@
    v2       :> Void_(6, 1) @@
    vEarly   :> [Void_(6, 1) EXCEPT !.timely = FALSE] @@
    vSelf    :> Void_(1, 1) @@
    vCross   :> Void_(1, 5) @@
    vForeign :> Void_(9, 1)
MCVoidBody == [r \in VoidReqs |-> AllVoids[r]]

Pay(id, m, n) == [id |-> id, agreement |-> 1, member |-> m, amount |-> n, timely |-> TRUE]
AllPays ==
    p1       :> Pay(11, 2, 2) @@
    p1again  :> Pay(11, 2, 2) @@
    p1other  :> Pay(11, 1, 1) @@
    p2       :> Pay(12, 2, 1) @@
    p3       :> Pay(13, 1, 1) @@
    pNobody  :> Pay(12, 3, 1) @@
    pEarly   :> [Pay(12, 2, 1) EXCEPT !.timely = FALSE] @@
    pForeign :> Pay(19, 2, 1) @@
    pNothing :> [Pay(12, 2, 1) EXCEPT !.agreement = 2]
MCPayBody == [r \in PayReqs |-> AllPays[r]]

Undo_(id, p) == [id |-> id, payment |-> p, timely |-> TRUE]
AllUndos ==
    u1       :> Undo_(21, 11) @@
    u1again  :> Undo_(21, 11) @@
    u2       :> Undo_(22, 11) @@
    uEarly   :> [Undo_(22, 11) EXCEPT !.timely = FALSE] @@
    uForeign :> Undo_(29, 11)
MCUndoBody == [r \in UndoReqs |-> AllUndos[r]]

MCActorOf == [r \in Requests |-> ana]

MCRequests == CreateReqs \cup VoidReqs \cup PayReqs \cup UndoReqs

At(l, r) == [q \in Requests |-> IF q \in l THEN left ELSE IF q \in r THEN right ELSE Nowhere]

FiledRow(r, n) ==
    LET b == AllCreations[r]
    IN  [body |-> b, fingerprint |-> <<ana, b>>, folio |-> [year |-> 1, number |-> n],
         shares |-> Shares(b.seen, b.requested, b.bps), available |-> b.seen.available]

MCFiled == [i \in Ids |->
    CASE i = 1 -> FiledRow(c1, 1)
      [] i = 2 /\ Scenario = "payments" -> FiledRow(cWork, 2)
      [] OTHER -> NoAgreement]

MCHomes ==
    CASE Scenario = "agreements" ->
            { At({c2, c5}, {}), At({c2}, {c5}), At({c2}, {c2again}), At({c2}, {c2other}),
              At({v1, c3}, {c4}), At({c2, c4}, {v1}), At({cForeign}, {c2}), At({cMuch}, {cWork, c1}),
              At({c2, c5}, {c2again}), At({p1, v1}, {u1}) }
      [] Scenario = "stale" -> { At({c2}, {c2again}) }
      [] Scenario = "payments" ->
            { At({p1}, {p2, p3}), At({p1, u1}, {p1again}), At({p1}, {p1other, pNobody}),
              At({p1, u1, u2}, {p2}), At({p1, p2, v1}, {}), At({p1, u1, v1}, {}),
              At({p1, u1, u1again}, {}), At({pNothing, pEarly}, {pForeign}),
              At({p1, uEarly}, {uForeign}), At({v1, v2}, {v1again}), At({vCross, v1}, {}),
              At({vSelf, vEarly, vForeign}, {}),
              At({c3, v1}, {c5}), At({c5, p1}, {v1}) }
=============================================================================
