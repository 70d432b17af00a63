-------------------------- MODULE FinanceTx_proofs --------------------------
(***************************************************************************)
(* What the locks of the finance handlers guarantee, whatever they protect:*)
(* no two transactions ever hold locks that conflict.                      *)
(***************************************************************************)
EXTENDS FinanceTx, TLAPS

LocksOK ==
    /\ DOMAIN pc = Requests /\ DOMAIN held = Requests /\ DOMAIN reply = Requests
    /\ \A r, q \in Requests : \A k \in held[r], l \in held[q] : r = q \/ ~Conflict(k, l)

-----------------------------------------------------------------------------
LEMMA GotoStep ==
    ASSUME LocksOK, NEW r \in Requests, NEW where, Goto(r, where)
    PROVE  /\ LocksOK' /\ pc'[r] = where /\ held'[r] = held[r] /\ reply'[r] = reply[r]
           /\ \A q \in Requests \ {r} : pc'[q] = pc[q] /\ held'[q] = held[q] /\ reply'[q] = reply[q]
  BY DEF LocksOK, Goto

LEMMA AcquireStep ==
    ASSUME LocksOK, NEW r \in Requests, NEW where, NEW l, Acquire(r, l, where)
    PROVE  /\ LocksOK' /\ pc'[r] = where /\ held'[r] = held[r] \cup {l} /\ reply'[r] = reply[r]
           /\ \A q \in Requests \ {r} : pc'[q] = pc[q] /\ held'[q] = held[q] /\ reply'[q] = reply[q]
  <1>1. \A q \in Requests : held'[q] = IF q = r THEN held[q] \cup {l} ELSE held[q]
    BY DEF LocksOK, Acquire
  <1>2. \A q \in Requests \ {r} : \A k \in held[q] : ~Conflict(l, k) /\ ~Conflict(k, l)
    BY DEF Acquire, Free, Conflict
  <1>3. ASSUME NEW p \in Requests, NEW q \in Requests, NEW k \in held'[p], NEW m \in held'[q], p # q
        PROVE  ~Conflict(k, m)
    <2>1. CASE p = r
      BY <1>1, <1>2, <1>3, <2>1 DEF LocksOK
    <2>2. CASE q = r
      <3>1. k \in held[p] /\ p \in Requests \ {r} /\ (m \in held[r] \/ m = l)
        BY <1>1, <1>3, <2>2
      <3> QED BY <1>2, <1>3, <2>2, <3>1 DEF LocksOK
    <2>3. CASE p # r /\ q # r
      BY <1>1, <1>3, <2>3 DEF LocksOK
    <2> QED BY <2>1, <2>2, <2>3
  <1>4. DOMAIN pc' = Requests /\ DOMAIN held' = Requests /\ reply' = reply /\ DOMAIN reply = Requests
    BY DEF LocksOK, Acquire
  <1>5. LocksOK'
    <2> HIDE DEF Conflict
    <2> QED BY <1>3, <1>4 DEF LocksOK
  <1>6. pc'[r] = where /\ \A q \in Requests \ {r} : pc'[q] = pc[q]
    BY DEF LocksOK, Acquire
  <1> QED BY <1>1, <1>4, <1>5, <1>6

LEMMA EndStep ==
    ASSUME LocksOK, NEW r \in Requests, NEW where, NEW code,
           Leave(r, where) \/ (Finish(r, code) /\ where = "done")
    PROVE  /\ LocksOK' /\ pc'[r] = where /\ held'[r] = {}
           /\ reply'[r] = reply[r] \/ (Finish(r, code) /\ reply'[r] = code)
           /\ \A q \in Requests \ {r} : pc'[q] = pc[q] /\ held'[q] = held[q] /\ reply'[q] = reply[q]
  <1>1. \A q \in Requests : held'[q] = IF q = r THEN {} ELSE held[q]
    BY DEF LocksOK, Leave, Finish
  <1>2. ASSUME NEW p \in Requests, NEW q \in Requests, NEW k \in held'[p], NEW m \in held'[q], p # q
        PROVE  ~Conflict(k, m)
    BY <1>1, <1>2 DEF LocksOK
  <1> QED BY <1>1, <1>2 DEF LocksOK, Leave, Finish

LEMMA AuthorizeStep ==
    ASSUME LocksOK, NEW r \in Requests, NEW where, Authorize(r, where)
    PROVE  \/ Finish(r, "403")
           \/ Acquire(r, ActorLock(r), where) /\ MayActAsSocio(ActorOf[r])
  BY DEF Authorize

LEMMA DropStep ==
    ASSUME LocksOK, NEW i, DropHome(i)
    PROVE  LocksOK'
  <1>1. \A r \in Requests : held'[r] \in {{}, held[r]}
    BY DEF DropHome
  <1>2. ASSUME NEW p \in Requests, NEW q \in Requests, NEW k \in held'[p], NEW m \in held'[q], p # q
        PROVE  ~Conflict(k, m)
    BY <1>1, <1>2 DEF LocksOK
  <1> QED BY <1>2 DEF LocksOK, DropHome
=============================================================================
