----------------------------- MODULE FinanceTx -----------------------------
(***************************************************************************)
(* What every finance handler is made of: one database transaction per     *)
(* request, the locks it holds until it ends, and its answer.  Unlike the  *)
(* rest of the API these transactions lock the account, member and device  *)
(* of their actor FOR SHARE (FinanceAgreementsService.authorize).          *)
(***************************************************************************)
EXTENDS Actors, Naturals

CONSTANTS
    Requests,    \* submissions
    ActorOf,     \* the selection that makes each of them
    Instances,   \* API processes
    Nowhere,     \* the home of a submission that never arrives
    MaxSends     \* bound: how often a client submits the same request again

ASSUME ActorOfIsActor == ActorOf \in [Requests -> Actors]
ASSUME MaxSendsIsNat == MaxSends \in Nat
ASSUME NowhereIsNoInstance == Nowhere \notin Instances

VARIABLES
    home,     \* the process that serves each request
    pc,       \* where the handler of each request is
    held,     \* the locks its transaction holds
    reply,    \* the last answer
    sends     \* resubmissions so far

txVars == <<home, pc, held, reply, sends>>

-----------------------------------------------------------------------------
(* A lock is a mode and the row or advisory key it is on.  Transactions    *)
(* keep their locks until they end.                                        *)
Share(thing) == <<"share", thing>>
Exclusive(thing) == <<"exclusive", thing>>

Conflict(l, k) == l[2] = k[2] /\ "exclusive" \in {l[1], k[1]}

\* No other transaction is in the way.
Free(r, l) == \A q \in Requests \ {r} : \A k \in held[q] : ~Conflict(l, k)

ActorLock(r) == Share(<<"actor", ActorOf[r]>>)

-----------------------------------------------------------------------------
Goto(r, where) ==
    /\ pc' = [pc EXCEPT ![r] = where]
    /\ UNCHANGED <<home, held, reply, sends>>

Acquire(r, l, where) ==
    /\ Free(r, l)
    /\ held' = [held EXCEPT ![r] = @ \cup {l}]
    /\ pc' = [pc EXCEPT ![r] = where]
    /\ UNCHANGED <<home, reply, sends>>

\* The transaction ends and its locks with it.
Leave(r, where) ==
    /\ held' = [held EXCEPT ![r] = {}]
    /\ pc' = [pc EXCEPT ![r] = where]
    /\ UNCHANGED <<home, reply, sends>>

Finish(r, code) ==
    /\ held' = [held EXCEPT ![r] = {}]
    /\ pc' = [pc EXCEPT ![r] = "done"]
    /\ reply' = [reply EXCEPT ![r] = code]
    /\ UNCHANGED <<home, sends>>

\* Mutant: the account, member and device are read without FOR SHARE.
AuthorizeMutant(r, where) ==
    \/ /\ ~MayActAsSocio(ActorOf[r])
       /\ Finish(r, "403")
    \/ /\ MayActAsSocio(ActorOf[r])
       /\ Goto(r, where)

\* The live re-check of the origin, under shared locks.
Authorize(r, where) ==
    \/ /\ ~MayActAsSocio(ActorOf[r])
       /\ Finish(r, "403")
    \/ /\ MayActAsSocio(ActorOf[r])
       /\ Acquire(r, ActorLock(r), where)

\* The client repeats the request that was answered, or whose answer was lost.
Resend(r) ==
    /\ pc[r] = "done"
    /\ sends[r] < MaxSends
    /\ pc' = [pc EXCEPT ![r] = "idle"]
    /\ sends' = [sends EXCEPT ![r] = @ + 1]
    /\ UNCHANGED <<home, held, reply>>

Running(r) == pc[r] \notin {"away", "idle", "done"}

\* A process stops: its transactions are rolled back, nobody is answered.
DropHome(i) ==
    LET dead == {r \in Requests : home[r] = i /\ Running(r)}
    IN  /\ pc' = [r \in Requests |-> IF r \in dead THEN "done" ELSE pc[r]]
        /\ reply' = [r \in Requests |-> IF r \in dead THEN "lost" ELSE reply[r]]
        /\ held' = [r \in Requests |-> IF r \in dead THEN {} ELSE held[r]]
        /\ UNCHANGED <<home, sends>>

\* The rows of an actor change once no transaction shares them.
Unshared(a) == \A r \in Requests : Share(<<"actor", a>>) \notin held[r]

TxInit(homes) ==
    /\ home = homes
    /\ pc = [r \in Requests |-> IF homes[r] = Nowhere THEN "away" ELSE "idle"]
    /\ held = [r \in Requests |-> {}]
    /\ reply = [r \in Requests |-> "none"]
    /\ sends = [r \in Requests |-> 0]
=============================================================================
