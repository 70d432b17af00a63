------------------------- MODULE DistributionAccounts -------------------------
(***************************************************************************)
(* What agreements and payments promise, with no processes, transactions,  *)
(* snapshots, locks or retries: a book of agreements, those that have been *)
(* voided, and what each member has received of each.  Every operation is  *)
(* done at once or not at all.                                             *)
(***************************************************************************)
EXTENDS Integers, Functions

CONSTANTS
    Ids,       \* ids of agreements
    Members,   \* whom they are paid to
    NoId,      \* an agreement that replaces none
    Nothing,   \* no agreement with that id
    Filed      \* the agreements at the start

VARIABLES
    filed,     \* the agreements, by id
    voided,    \* the ids of those that have been voided
    paid       \* what each member has received of each

vars == <<filed, voided, paid>>

Agreed == {i \in Ids : filed[i] # Nothing}
OfYear(y) == {i \in Agreed : filed[i].folio.year = y}

\* The folio is the first number that its year has not given yet.
IsNextFolio(folio) ==
    LET given == {filed[i].folio.number : i \in OfYear(folio.year)}
    IN  1..(folio.number - 1) \subseteq given /\ folio.number \notin given

\* What the live agreements of a period and a year of folios distribute.
Distributed(period, y) ==
    LET live == {i \in OfYear(y) : filed[i].body.period = period /\ i \notin voided}
    IN  SumFunction([i \in live |-> filed[i].body.requested])

MayReplace(i) == i \in Agreed \cap voided /\ \A j \in Agreed : filed[j].body.replaces # i

Init ==
    /\ filed = Filed
    /\ voided = {}
    /\ paid = [i \in Ids |-> [m \in Members |-> 0]]

-----------------------------------------------------------------------------
\* Agreement a: its money was free, and it gives each a share of all of it.
Agree(i, a) ==
    /\ filed[i] = Nothing /\ a # Nothing
    /\ IsNextFolio(a.folio)
    /\ a.body.replaces # NoId => MayReplace(a.body.replaces)
    /\ Distributed(a.body.period, a.folio.year) + a.body.requested <= a.available
    /\ SumFunction(a.shares) = a.body.requested
    /\ filed' = [filed EXCEPT ![i] = a]
    /\ UNCHANGED <<voided, paid>>

Void(i) ==
    /\ i \in Agreed \ voided
    /\ voided' = voided \cup {i}
    /\ UNCHANGED <<filed, paid>>

\* A participant receives more of its share.
Pay(i, m) ==
    /\ i \in Agreed \ voided /\ m \in DOMAIN filed[i].shares
    /\ \E n \in 1..(filed[i].shares[m] - paid[i][m]) :
           paid' = [paid EXCEPT ![i][m] = @ + n]
    /\ UNCHANGED <<filed, voided>>

\* Something that a member received is taken back, of a voided agreement too.
Undo(i, m) ==
    /\ i \in Agreed
    /\ \E n \in 1..paid[i][m] : paid' = [paid EXCEPT ![i][m] = @ - n]
    /\ UNCHANGED <<filed, voided>>

Next == \E i \in Ids : \/ Agree(i, filed'[i])
                       \/ Void(i)
                       \/ \E m \in Members : Pay(i, m) \/ Undo(i, m)

Spec == Init /\ [][Next]_vars
=============================================================================
