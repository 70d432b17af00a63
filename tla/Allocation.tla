----------------------------- MODULE Allocation -----------------------------
(***************************************************************************)
(* How an amount of minor units is divided: the two pools, the equal split *)
(* among socios and the split by work (finance-distribution.allocation.ts).*)
(* Members are natural numbers, ordered as their ids are.                  *)
(***************************************************************************)
EXTENDS Naturals, FiniteSets, Functions

BpsTotal == 10000

TotalOf(f) == SumFunction(f)

\* An odd minor unit falls to the work pool.
PartnerPool(requested, partnerBps) == (requested * partnerBps) \div BpsTotal
WorkPool(requested, partnerBps) == requested - PartnerPool(requested, partnerBps)

\* Mutant: the remainder is dropped.
AllocateEqualMutant(pool, ids) == [m \in ids |-> pool \div Cardinality(ids)]

\* The first ids take one unit of the remainder each.
AllocateEqual(pool, ids) ==
    [m \in ids |->
        pool \div Cardinality(ids)
        + (IF Cardinality({k \in ids : k < m}) < pool % Cardinality(ids) THEN 1 ELSE 0)]

\* Mutant: ties, and everything else, go by id.
BeforeMutant(pool, weight, k, m) == weight[k] > 0 /\ k < m

\* Who is served before m when the units left over are handed out.
Before(pool, weight, k, m) ==
    LET rest(x) == (pool * weight[x]) % TotalOf(weight)
    IN  weight[k] > 0 /\ (rest(k) > rest(m) \/ (rest(k) = rest(m) /\ k < m))

\* Largest remainder: the floors first, then one unit each in that order.
AllocateByWeight(pool, weight) ==
    LET total == TotalOf(weight)
        floor == [m \in DOMAIN weight |-> (pool * weight[m]) \div total]
        leftover == pool - TotalOf(floor)
        rank(m) == Cardinality({k \in DOMAIN weight : Before(pool, weight, k, m)})
    IN  IF total = 0 THEN [m \in DOMAIN weight |-> 0]
        ELSE [m \in DOMAIN weight |->
                floor[m] + (IF weight[m] > 0 /\ rank(m) < leftover THEN 1 ELSE 0)]

(* The work pool is divided as the largest remainder method (Hamilton)     *)
(* says: of all the divisions that give everyone their quota rounded down  *)
(* or up, and nothing to those who did not work, it is the only one that   *)
(* rounds up those with the largest remainders, ties to the smaller id.    *)
Hamilton(pool, weight) ==
    LET total == TotalOf(weight)
        quota(m) == pool * weight[m]
        up(f) == {m \in DOMAIN weight : f[m] * total > quota(m)}
        down(f) == {m \in DOMAIN weight : weight[m] > 0} \ up(f)
        within(f) == \A m \in DOMAIN weight :
            /\ f[m] * total < quota(m) + total /\ quota(m) < (f[m] + 1) * total
            /\ weight[m] = 0 => f[m] = 0
        ordered(f) == \A m \in up(f), k \in down(f) :
            \/ quota(m) % total > quota(k) % total
            \/ quota(m) % total = quota(k) % total /\ m < k
    IN  {f \in [DOMAIN weight -> 0..pool] : TotalOf(f) = pool /\ within(f) /\ ordered(f)}

-----------------------------------------------------------------------------
(* The simulation of a distribution: who takes part, and how much each one *)
(* receives.  books is what the period has: the money available, the units *)
(* of work of everyone with a shift in it, and the active socios.          *)

Participants(books) == books.socios \cup DOMAIN books.work

Simulable(books, requested, partnerBps) ==
    /\ requested <= books.available
    /\ partnerBps > 0 => books.socios # {}
    /\ partnerBps < BpsTotal => TotalOf(books.work) > 0

Shares(books, requested, partnerBps) ==
    LET partner == AllocateEqual(PartnerPool(requested, partnerBps), books.socios)
        work == AllocateByWeight(WorkPool(requested, partnerBps), books.work)
    IN  [m \in Participants(books) |->
            (IF m \in books.socios THEN partner[m] ELSE 0)
            + (IF m \in DOMAIN books.work THEN work[m] ELSE 0)]
=============================================================================
