---------------------------- MODULE ProductRows ----------------------------
(***************************************************************************)
(* The rows of the table "Product" as the transactions of the services see *)
(* them: PostgreSQL at READ COMMITTED, one uncommitted version per row and *)
(* one exclusive lock per row (SELECT ... FOR UPDATE, or the UPDATE        *)
(* itself), held until the transaction ends.                               *)
(***************************************************************************)
EXTENDS Integers

CONSTANTS
    Products,   \* product ids a request can name
    Tx,         \* transactions of every service that touches a product
    NoTx,       \* the owner of a row nobody has locked
    MaxMinor    \* the largest amount or stock: 2^31 - 1 in the code

ASSUME NoTxIsNotATx == NoTx \notin Tx
ASSUME MaxMinorIsPositive == MaxMinor \in Nat \ {0}

VARIABLES
    row,        \* the committed version of each row
    draft,      \* the version its lock holder works on (= row when unlocked)
    owner       \* who holds the row lock

rowVars == <<row, draft, owner>>

\* SQL NULL in a nullable integer column: every stored amount is >= 0.
Null == -1

\* "absent": no such product in this business.
Row == [state : {"absent", "active", "inactive"},
        stock : Int, price : Nat, cost : Nat \cup {Null}]

\* An amount outside the Int range raises a RangeError, which no service
\* catches.
TooMuchMoney(amount) == amount > MaxMinor

RowsTypeOK ==
    /\ row \in [Products -> Row]
    /\ draft \in [Products -> Row]
    /\ owner \in [Products -> Tx \cup {NoTx}]

\* A statement of t sees t's own uncommitted changes and otherwise what is
\* committed when the statement starts.
View(t, p) == IF owner[p] = t THEN draft[p] ELSE row[p]

LockFree(t, p) == owner[p] \in {NoTx, t}

\* t holds (or already held) the lock of p and has written `new` to it.
WriteRow(t, p, new) ==
    /\ owner' = [owner EXCEPT ![p] = t]
    /\ draft' = [draft EXCEPT ![p] = new]
    /\ UNCHANGED row

Release(t) == owner' = [p \in Products |-> IF owner[p] = t THEN NoTx ELSE owner[p]]

CommitRows(t) ==
    /\ row' = [p \in Products |-> View(t, p)]
    /\ Release(t)
    /\ UNCHANGED draft

RollbackRows(t) ==
    /\ draft' = [p \in Products |-> IF owner[p] = t THEN row[p] ELSE draft[p]]
    /\ Release(t)
    /\ UNCHANGED row
=============================================================================
