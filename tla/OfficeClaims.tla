---------------------------- MODULE OfficeClaims ----------------------------
(***************************************************************************)
(* What the comments of the registration say and the code does not do.     *)
(***************************************************************************)
EXTENDS MCOffice

(***************************************************************************)
(* The comment of reject says that a rejection marks the request rejected  *)
(* "and creates nothing operative", and its page that nothing was created: *)
(* a rejected request has no business.                                     *)
(***************************************************************************)
RejectedCreatedNothing ==
    \A q \in Ids : requests[q] # None /\ requests[q].status = "rechazado" => requests[q].business = None
=============================================================================
