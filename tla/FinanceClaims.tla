--------------------------- MODULE FinanceClaims ---------------------------
(***************************************************************************)
(* A statement of the code about creating agreements that it does not keep *)
(* when two processes serve the same business.                             *)
(***************************************************************************)
EXTENDS MCFinance

(* "Replay comes first: it must not depend on current data" (createInTx).  *)
(* The identity is locked after the snapshot is taken, so a creation that  *)
(* waited for its twin in another process does not see the twin's row, and *)
(* may be refused although the agreement is there.                         *)
ReplayComesFirst ==
    [][\A r \in CreateReqs : Refuses(r) => ~Recorded(r)]_vars
=============================================================================
