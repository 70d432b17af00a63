------------------------------ MODULE MCRules ------------------------------
(***************************************************************************)
(* A small business for TLC, at three moments: with nothing yet, and with a *)
(* version in force and a proposal that waits for answers, with a draft    *)
(* that may replace it and without.                                        *)
(***************************************************************************)
EXTENDS FinanceRules

CONSTANTS ana, beto

Config(p, c, w) == [partner |-> p, capital |-> c, work |-> w]
MCConfigs == {Config(10000, 0, 0), Config(5000, 2500, 2500), Config(5000, 5000, 1)}

Row(status, by, base, t) == [status |-> status, by |-> by, basedOn |-> base, terms |-> t]
Mailed(i, m) == [set |-> i, member |-> m, nth |-> 1, kind |-> "envio", used |-> FALSE,
                 retired |-> FALSE, mailed |-> TRUE, sent |-> TRUE, age |-> 1]
Approved(i, m, t) == [set |-> i, member |-> m, terms |-> t]

Half == Config(5000, 2500, 2500)
All == Config(10000, 0, 0)

Nothing == [sets |-> << >>, links |-> {}, approvals |-> {}, active |-> {ana, beto}, correo |-> {ana}, calls |-> 0, events |-> 1]
Waiting ==
    [sets |-> <<Row("vigente", ana, 0, All), Row("pendiente", ana, 0, Half), Row("borrador", beto, 2, Half)>>,
     links |-> {Mailed(2, ana), Mailed(2, beto)} \cup {[Mailed(1, m) EXCEPT !.used = TRUE] : m \in {ana, beto}},
     approvals |-> {Approved(1, ana, All), Approved(1, beto, All)},
     active |-> {ana, beto}, correo |-> {ana, beto}, calls |-> 1, events |-> 1]
Asked == [Waiting EXCEPT !.sets = SubSeq(@, 1, 2), !.events = 0]

MCOpenings == {Nothing, Waiting, Asked}
=============================================================================
