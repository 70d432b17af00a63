------------------------------ MODULE MCRecords ------------------------------
(***************************************************************************)
(* A socio (1) and a collaborator (2), some records on file, and requests  *)
(* that arrive together at two processes.                                  *)
(***************************************************************************)
EXTENDS Records, TLC

CONSTANTS left, right,
          s3, s4, k4, k4other, e1, eTwo, kTwo, kForeign, r2, rForeign,
          xs, xsCross, xsPlain, xk, xkAgain, xkOther, xkSelf, xkNone, xr

Record(kind, id, subject, day) == [kind |-> kind, id |-> id, subject |-> subject, day |-> day]

AllBodies ==
    s3       :> Record("shift", 3, 2, 1) @@
    s4       :> Record("shift", 4, 2, 1) @@
    k4       :> Record("contribution", 4, 1, 1) @@
    k4other  :> Record("contribution", 4, 1, 2) @@
    e1       :> Record("expense", 1, 2, 1) @@
    eTwo     :> Record("expense", 2, 1, 1) @@
    kTwo     :> Record("contribution", 5, 2, 1) @@
    kForeign :> Record("contribution", 9, 1, 1) @@
    r2       :> Record("reserve", 2, 1, 1) @@
    rForeign :> Record("reserve", 9, 1, 1)
MCBody == [r \in Creations |-> AllBodies[r]]

Fix_(kind, id, target, b) == [kind |-> kind, id |-> id, target |-> target, replacement |-> b]
AllFixes ==
    xs      :> Fix_("shift", 4, 1, Record("shift", 5, 2, 2)) @@
    xsCross :> Fix_("shift", 5, 2, Record("shift", 4, 2, 1)) @@
    xsPlain :> Fix_("shift", 5, 2, NoRow) @@
    xk      :> Fix_("contribution", 5, 1, Record("contribution", 4, 1, 2)) @@
    xkAgain :> Fix_("contribution", 5, 1, Record("contribution", 4, 1, 2)) @@
    xkOther :> Fix_("contribution", 3, 1, NoRow) @@
    xkSelf  :> Fix_("contribution", 1, 1, NoRow) @@
    xkNone  :> Fix_("contribution", 5, 4, NoRow) @@
    xr      :> Fix_("reserve", 5, 1, NoRow)
MCFix == [r \in Corrections |-> AllFixes[r]]

MCRequests == Creations \cup Corrections
MCActorOf == [r \in Requests |-> 1]

File(b) == [body |-> b, of |-> 0, by |-> 1, others |-> 0]
MCFiled ==
    [key \in Kinds \X {1, 2, 3, 4, 5, 9} |->
        CASE key \in {"contribution"} \X {1, 2, 3} -> File(Record(key[1], key[2], 1, 1))
          [] key = <<"shift", 1>>                  -> File(Record("shift", 1, 2, 1))
          [] key = <<"shift", 2>>                  -> File(Record("shift", 2, 2, 2))
          [] key = <<"reserve", 1>>                -> File(Record("reserve", 1, 1, 1))
          [] OTHER                                 -> NoRow]

At(l, r) == [q \in Requests |-> IF q \in l THEN left ELSE IF q \in r THEN right ELSE Nowhere]
MCWithReader == { At({k4}, {xkOther}), At({xk, xkOther}, {}) }
MCHomes == MCWithReader \cup
    { At({s3}, {s4}), At({s3}, {xs}), At({xs}, {xsCross}), At({xsPlain, s4}, {}), At({xs}, {xsPlain}),
      At({k4}, {k4other}), At({k4}, {xk}), At({xk}, {xkAgain}),
      At({xkNone, xkSelf}, {kForeign}), At({e1, eTwo}, {kTwo}), At({xr}, {r2, rForeign}) }
=============================================================================
