-------------------------- MODULE Allocation_proofs --------------------------
(***************************************************************************)
(* Sums over finite sets, orders of finite sets, and what the divisions of *)
(* Allocation give: all of the amount, to the last unit, and in the way of *)
(* the largest remainders.                                                 *)
(*                                                                         *)
(* Folds defines a sum by recursion, that is by a CHOOSE; induction here   *)
(* is by a smallest counterexample, which is a set and not a predicate:    *)
(* the subsets of a finite set are well-founded.                           *)
(***************************************************************************)
EXTENDS Allocation, Integers, FiniteSetTheorems, TLAPS


(* Any property of finite sets that smaller ones hand up holds of all of   *)
(* them: a set of counterexamples has a smallest one.                      *)
LEMMA SmallestSubset ==
    ASSUME NEW S, IsFiniteSet(S), NEW C \in SUBSET SUBSET S, C # {}
    PROVE  \E T \in C : \A U \in C : U \subseteq T => U = T
<1>1. IsWellFoundedOn(StrictSubsetOrdering(S), SUBSET S)
  BY FS_StrictSubsetOrderingWellFounded, FS_FiniteSubsetsOfFinite
<1>2. PICK T \in C : \A U \in C : <<U, T>> \notin StrictSubsetOrdering(S)
  BY <1>1, WFMin
<1> QED
  BY <1>2 DEF StrictSubsetOrdering

-----------------------------------------------------------------------------
(* The recursion a sum is defined by. *)
Choice(s) == CHOOSE x \in s : TRUE
Adds(g, f, S) ==
    g = [s \in SUBSET S |-> IF s = {} THEN 0 ELSE f[Choice(s)] + g[s \ {Choice(s)}]]

LEMMA ChoiceIsIn == \A s : s # {} => Choice(s) \in s
BY DEF Choice

LEMMA SumIsChosen ==
    ASSUME NEW f, NEW S
    PROVE  SumFunctionOnSet(f, S) = (CHOOSE g : Adds(g, f, S))[S]
BY Zenon DEF SumFunctionOnSet, FoldFunctionOnSet, MapThenFoldSet, Adds, Choice

(* What it says of one set. *)
LEMMA AddsAt ==
    ASSUME NEW f, NEW S, NEW g, Adds(g, f, S), NEW U \in SUBSET S
    PROVE  g[U] = IF U = {} THEN 0 ELSE f[Choice(U)] + g[U \ {Choice(U)}]
BY DEF Adds

(* Two functions that add up the same values agree. *)
LEMMA AddsAgree ==
    ASSUME NEW f, NEW S, NEW T, NEW V, IsFiniteSet(V), V \subseteq S, V \subseteq T,
           NEW g, Adds(g, f, S), NEW h, Adds(h, f, T)
    PROVE  g[V] = h[V]
<1> DEFINE C == {U \in SUBSET V : g[U] # h[U]}
<1>1. SUFFICES ASSUME C # {} PROVE FALSE
  OBVIOUS
<1>2. PICK U \in C : \A W \in C : W \subseteq U => W = U
  <2>1. C \in SUBSET SUBSET V
    OBVIOUS
  <2> HIDE DEF C
  <2> QED BY <1>1, <2>1, SmallestSubset
<1>3. U \in SUBSET S /\ U \in SUBSET T
  OBVIOUS
<1>4. g[U] = IF U = {} THEN 0 ELSE f[Choice(U)] + g[U \ {Choice(U)}]
  BY <1>3, AddsAt
<1>5. h[U] = IF U = {} THEN 0 ELSE f[Choice(U)] + h[U \ {Choice(U)}]
  BY <1>3, AddsAt
<1>6. U # {} => g[U \ {Choice(U)}] = h[U \ {Choice(U)}]
  BY <1>2, ChoiceIsIn
<1> QED
  BY <1>4, <1>5, <1>6

(* There is such a function. *)
LEMMA AddsExists ==
    ASSUME NEW f, NEW S, IsFiniteSet(S)
    PROVE  \E g : Adds(g, f, S)
<1> DEFINE C == {T \in SUBSET S : ~ \E g : Adds(g, f, T)}
<1>1. SUFFICES ASSUME C # {} PROVE FALSE
  OBVIOUS
<1>2. PICK T \in C : \A U \in C : U \subseteq T => U = T
  <2>1. C \in SUBSET SUBSET S
    OBVIOUS
  <2> HIDE DEF C
  <2> QED BY <1>1, <2>1, SmallestSubset
<1> DEFINE G(U) == CHOOSE g : Adds(g, f, U)
           h == [U \in SUBSET T |-> IF U = {} THEN 0
                                   ELSE f[Choice(U)] + G(U \ {Choice(U)})[U \ {Choice(U)}]]
<1>3. \A U : U \subseteq T /\ U # T => Adds(G(U), f, U) /\ IsFiniteSet(U)
  BY <1>2, FS_Subset
<1>4. ASSUME NEW U, U \subseteq T, U # T
      PROVE  G(U)[U] = h[U]
  <2> DEFINE W == U \ {Choice(U)}
  <2>1. Adds(G(U), f, U)
    BY <1>3, <1>4
  <2>2. h[U] = IF U = {} THEN 0 ELSE f[Choice(U)] + G(W)[W]
    BY <1>4
  <2> HIDE DEF G, h
  <2>3. G(U)[U] = IF U = {} THEN 0 ELSE f[Choice(U)] + G(U)[W]
    BY <2>1, AddsAt
  <2>4. CASE U # {}
    <3>1. W \subseteq T /\ W # T /\ W \subseteq U
      BY <1>4
    <3>2. Adds(G(W), f, W) /\ IsFiniteSet(W)
      BY <1>3, <3>1
    <3>3. G(U)[W] = G(W)[W]
      BY <2>1, <3>1, <3>2, AddsAgree
    <3> QED
      BY <2>2, <2>3, <2>4, <3>3
  <2> QED BY <2>2, <2>3, <2>4
<1>5. ASSUME NEW U \in SUBSET T
      PROVE  h[U] = IF U = {} THEN 0 ELSE f[Choice(U)] + h[U \ {Choice(U)}]
  <2>1. U # {} => U \ {Choice(U)} \subseteq T /\ U \ {Choice(U)} # T
    BY <1>5, ChoiceIsIn
  <2>2. h[U] = IF U = {} THEN 0 ELSE f[Choice(U)] + G(U \ {Choice(U)})[U \ {Choice(U)}]
    OBVIOUS
  <2> HIDE DEF G, h
  <2> QED BY <2>1, <2>2, <1>4
<1>6. Adds(h, f, T)
  <2>1. h = [U \in SUBSET T |-> h[U]]
    OBVIOUS
  <2> HIDE DEF h
  <2> QED BY <1>5, <2>1 DEF Adds
<1> QED
  BY <1>2, <1>6

-----------------------------------------------------------------------------
(* A sum over no elements. *)
LEMMA SumEmpty ==
    ASSUME NEW f
    PROVE  SumFunctionOnSet(f, {}) = 0
<1>1. PICK g : Adds(g, f, {})
  BY AddsExists, FS_EmptySet
<1>2. Adds(CHOOSE h : Adds(h, f, {}), f, {})
  BY <1>1
<1> QED
  BY <1>2, SumIsChosen, AddsAt

(* The recursion, at last: a sum is one value and the sum of the others. *)
LEMMA SumChoice ==
    ASSUME NEW f, NEW S, IsFiniteSet(S), S # {}
    PROVE  SumFunctionOnSet(f, S) = f[Choice(S)] + SumFunctionOnSet(f, S \ {Choice(S)})
<1> DEFINE T == S \ {Choice(S)}
           g(U) == CHOOSE h : Adds(h, f, U)
<1>1. IsFiniteSet(T) /\ T \subseteq S
  BY FS_Subset
<1>2. Adds(g(S), f, S) /\ Adds(g(T), f, T)
  BY <1>1, AddsExists
<1>3. SumFunctionOnSet(f, S) = g(S)[S] /\ SumFunctionOnSet(f, T) = g(T)[T]
  BY SumIsChosen
<1> HIDE DEF g
<1>4. g(S)[S] = f[Choice(S)] + g(S)[T]
  BY <1>2, AddsAt
<1> HIDE DEF T
<1>5. g(S)[T] = g(T)[T]
  BY <1>1, <1>2, AddsAgree
<1> QED
  BY <1>3, <1>4, <1>5 DEF T

(* A sum of integers is an integer. *)
LEMMA SumInt ==
    ASSUME NEW f, NEW S, IsFiniteSet(S), \A x \in S : f[x] \in Int
    PROVE  SumFunctionOnSet(f, S) \in Int
<1> DEFINE C == {T \in SUBSET S : SumFunctionOnSet(f, T) \notin Int}
<1>1. SUFFICES ASSUME C # {} PROVE FALSE
  OBVIOUS
<1>2. PICK T \in C : \A U \in C : U \subseteq T => U = T
  <2>1. C \in SUBSET SUBSET S
    OBVIOUS
  <2> HIDE DEF C
  <2> QED BY <1>1, <2>1, SmallestSubset
<1>3. T # {} /\ IsFiniteSet(T)
  <2>1. SumFunctionOnSet(f, {}) \in Int
    BY SumEmpty
  <2> QED BY <2>1, FS_Subset
<1>4. SumFunctionOnSet(f, T) = f[Choice(T)] + SumFunctionOnSet(f, T \ {Choice(T)})
  BY <1>3, SumChoice
<1>5. SumFunctionOnSet(f, T \ {Choice(T)}) \in Int /\ f[Choice(T)] \in Int
  BY <1>2, <1>3, ChoiceIsIn
<1> QED
  BY <1>4, <1>5

(* Any element may be taken out first. *)
LEMMA SumTakeOut ==
    ASSUME NEW f, NEW S, IsFiniteSet(S), \A y \in S : f[y] \in Int, NEW x \in S
    PROVE  SumFunctionOnSet(f, S) = f[x] + SumFunctionOnSet(f, S \ {x})
<1> DEFINE C == {T \in SUBSET S : \E y \in T :
                    SumFunctionOnSet(f, T) # f[y] + SumFunctionOnSet(f, T \ {y})}
<1>1. SUFFICES ASSUME C # {} PROVE FALSE
  OBVIOUS
<1>2. PICK T \in C : \A U \in C : U \subseteq T => U = T
  <2>1. C \in SUBSET SUBSET S
    OBVIOUS
  <2> HIDE DEF C
  <2> QED BY <1>1, <2>1, SmallestSubset
<1>3. PICK y \in T : SumFunctionOnSet(f, T) # f[y] + SumFunctionOnSet(f, T \ {y})
  BY <1>2
<1> DEFINE c == Choice(T)
           Rest == (T \ {c}) \ {y}
<1>4. T # {} /\ c \in T /\ IsFiniteSet(T) /\ IsFiniteSet(T \ {y}) /\ IsFiniteSet(Rest)
  BY FS_Subset, ChoiceIsIn
<1>5. SumFunctionOnSet(f, T) = f[c] + SumFunctionOnSet(f, T \ {c})
  BY <1>4, SumChoice
<1>6. y # c
  BY <1>3, <1>5
<1>7. SumFunctionOnSet(f, T \ {c}) = f[y] + SumFunctionOnSet(f, Rest)
  <2>1. T \ {c} \notin C /\ T \ {c} \in SUBSET S /\ y \in T \ {c}
    BY <1>2, <1>4, <1>6
  <2> QED BY <2>1
<1>8. SumFunctionOnSet(f, T \ {y}) = f[c] + SumFunctionOnSet(f, Rest)
  <2>1. T \ {y} \notin C /\ T \ {y} \in SUBSET S /\ c \in T \ {y}
    BY <1>2, <1>4, <1>6
  <2>2. (T \ {y}) \ {c} = Rest
    OBVIOUS
  <2>3. SumFunctionOnSet(f, T \ {y}) = f[c] + SumFunctionOnSet(f, (T \ {y}) \ {c})
    BY <2>1
  <2> QED BY <2>2, <2>3
<1>9. f[c] \in Int /\ f[y] \in Int /\ SumFunctionOnSet(f, Rest) \in Int
  BY <1>4, SumInt
<1> QED
  BY <1>3, <1>5, <1>7, <1>8, <1>9

(* An element more. *)
LEMMA SumPutIn ==
    ASSUME NEW f, NEW S, IsFiniteSet(S), NEW x, x \notin S, \A y \in S \cup {x} : f[y] \in Int
    PROVE  SumFunctionOnSet(f, S \cup {x}) = f[x] + SumFunctionOnSet(f, S)
<1>1. IsFiniteSet(S \cup {x}) /\ (S \cup {x}) \ {x} = S
  BY FS_AddElement
<1> QED
  BY <1>1, SumTakeOut

(* Only the values on the set count. *)
LEMMA SumSame ==
    ASSUME NEW f, NEW g, NEW S, IsFiniteSet(S), \A x \in S : f[x] = g[x]
    PROVE  SumFunctionOnSet(f, S) = SumFunctionOnSet(g, S)
<1> DEFINE C == {T \in SUBSET S : SumFunctionOnSet(f, T) # SumFunctionOnSet(g, T)}
<1>1. SUFFICES ASSUME C # {} PROVE FALSE
  OBVIOUS
<1>2. PICK T \in C : \A U \in C : U \subseteq T => U = T
  <2>1. C \in SUBSET SUBSET S
    OBVIOUS
  <2> HIDE DEF C
  <2> QED BY <1>1, <2>1, SmallestSubset
<1>3. T # {} /\ IsFiniteSet(T) /\ Choice(T) \in T
  BY SumEmpty, FS_Subset, ChoiceIsIn
<1>4. /\ SumFunctionOnSet(f, T) = f[Choice(T)] + SumFunctionOnSet(f, T \ {Choice(T)})
      /\ SumFunctionOnSet(g, T) = g[Choice(T)] + SumFunctionOnSet(g, T \ {Choice(T)})
  BY <1>3, SumChoice
<1>5. SumFunctionOnSet(f, T \ {Choice(T)}) = SumFunctionOnSet(g, T \ {Choice(T)})
  BY <1>2, <1>3
<1> QED
  BY <1>3, <1>4, <1>5

(* One value changes. *)
LEMMA SumChange ==
    ASSUME NEW f, NEW g, NEW S, IsFiniteSet(S), NEW x \in S,
           \A y \in S : f[y] \in Int /\ g[y] \in Int,
           \A y \in S \ {x} : f[y] = g[y]
    PROVE  SumFunctionOnSet(g, S) = SumFunctionOnSet(f, S) - f[x] + g[x]
<1>1. IsFiniteSet(S \ {x})
  BY FS_Subset
<1>2. /\ SumFunctionOnSet(f, S) = f[x] + SumFunctionOnSet(f, S \ {x})
      /\ SumFunctionOnSet(g, S) = g[x] + SumFunctionOnSet(g, S \ {x})
  BY SumTakeOut
<1>3. SumFunctionOnSet(f, S \ {x}) = SumFunctionOnSet(g, S \ {x})
  BY <1>1, SumSame
<1>4. SumFunctionOnSet(f, S \ {x}) \in Int
  BY <1>1, SumInt
<1> QED
  BY <1>2, <1>3, <1>4

(* A sum is monotonic. *)
LEMMA SumLeq ==
    ASSUME NEW f, NEW g, NEW S, IsFiniteSet(S),
           \A x \in S : f[x] \in Int /\ g[x] \in Int /\ f[x] <= g[x]
    PROVE  SumFunctionOnSet(f, S) <= SumFunctionOnSet(g, S)
<1> DEFINE C == {T \in SUBSET S : ~ SumFunctionOnSet(f, T) <= SumFunctionOnSet(g, T)}
<1>1. SUFFICES ASSUME C # {} PROVE FALSE
  OBVIOUS
<1>2. PICK T \in C : \A U \in C : U \subseteq T => U = T
  <2>1. C \in SUBSET SUBSET S
    OBVIOUS
  <2> HIDE DEF C
  <2> QED BY <1>1, <2>1, SmallestSubset
<1>3. T # {} /\ IsFiniteSet(T) /\ Choice(T) \in T /\ IsFiniteSet(T \ {Choice(T)})
  <2>1. SumFunctionOnSet(f, {}) <= SumFunctionOnSet(g, {})
    BY SumEmpty
  <2> QED BY <2>1, FS_Subset, ChoiceIsIn
<1>4. /\ SumFunctionOnSet(f, T) = f[Choice(T)] + SumFunctionOnSet(f, T \ {Choice(T)})
      /\ SumFunctionOnSet(g, T) = g[Choice(T)] + SumFunctionOnSet(g, T \ {Choice(T)})
  BY <1>3, SumChoice
<1>5. SumFunctionOnSet(f, T \ {Choice(T)}) <= SumFunctionOnSet(g, T \ {Choice(T)})
  BY <1>2, <1>3
<1>6. /\ SumFunctionOnSet(f, T \ {Choice(T)}) \in Int
      /\ SumFunctionOnSet(g, T \ {Choice(T)}) \in Int
  BY <1>3, SumInt
<1> QED
  BY <1>3, <1>4, <1>5, <1>6

-----------------------------------------------------------------------------
(* The same of a function on all of its domain. *)

(* A function with one element more. *)
LEMMA SumGrows ==
    ASSUME NEW f, NEW g, NEW x, IsFiniteSet(DOMAIN f), x \notin DOMAIN f,
           DOMAIN g = DOMAIN f \cup {x}, \A y \in DOMAIN f : g[y] = f[y],
           \A y \in DOMAIN g : g[y] \in Int
    PROVE  SumFunction(g) = SumFunction(f) + g[x] /\ SumFunction(f) \in Int
<1>1. SumFunctionOnSet(g, DOMAIN f \cup {x}) = g[x] + SumFunctionOnSet(g, DOMAIN f)
  BY SumPutIn
<1>2. SumFunctionOnSet(g, DOMAIN f) = SumFunctionOnSet(f, DOMAIN f)
  BY SumSame
<1>3. SumFunctionOnSet(f, DOMAIN f) \in Int
  BY SumInt
<1> QED
  BY <1>1, <1>2, <1>3 DEF SumFunction

(* No elements. *)
LEMMA SumOfNone ==
    ASSUME NEW f, DOMAIN f = {}
    PROVE  SumFunction(f) = 0
BY SumEmpty DEF SumFunction

(* Integers. *)
LEMMA SumIsInt ==
    ASSUME NEW f, IsFiniteSet(DOMAIN f), \A x \in DOMAIN f : f[x] \in Int
    PROVE  SumFunction(f) \in Int
BY SumInt DEF SumFunction

(* Zeros. *)
LEMMA SumOfZeros ==
    ASSUME NEW f, IsFiniteSet(DOMAIN f), \A x \in DOMAIN f : f[x] = 0
    PROVE  SumFunction(f) = 0
<1> DEFINE S == DOMAIN f
           C == {T \in SUBSET S : SumFunctionOnSet(f, T) # 0}
<1>1. SUFFICES ASSUME C # {} PROVE FALSE
  BY DEF SumFunction
<1>2. PICK T \in C : \A U \in C : U \subseteq T => U = T
  <2>1. C \in SUBSET SUBSET S
    OBVIOUS
  <2> HIDE DEF C
  <2> QED BY <1>1, <2>1, SmallestSubset
<1>3. T # {} /\ IsFiniteSet(T)
  BY SumEmpty, FS_Subset
<1>4. SumFunctionOnSet(f, T) = f[Choice(T)] + SumFunctionOnSet(f, T \ {Choice(T)})
  BY <1>3, SumChoice
<1>5. SumFunctionOnSet(f, T \ {Choice(T)}) = 0 /\ f[Choice(T)] = 0
  BY <1>2, <1>3, ChoiceIsIn
<1> QED
  BY <1>4, <1>5

(* Fewer of the same natural numbers. *)
LEMMA SumSmaller ==
    ASSUME NEW f, NEW g, IsFiniteSet(DOMAIN f), DOMAIN g \subseteq DOMAIN f,
           \A x \in DOMAIN g : g[x] = f[x], \A x \in DOMAIN f : f[x] \in Nat
    PROVE  SumFunction(g) <= SumFunction(f)
<1> DEFINE S == DOMAIN f
           T == DOMAIN g
           C == {U \in SUBSET S : ~(SumFunctionOnSet(f, U \cap T) <= SumFunctionOnSet(f, U))}
<1>1. C = {}
  <2> SUFFICES ASSUME C # {} PROVE FALSE
    OBVIOUS
  <2>1. PICK U \in C : \A V \in C : V \subseteq U => V = U
    <3>1. C \in SUBSET SUBSET S
      OBVIOUS
    <3> HIDE DEF C
    <3> QED BY <3>1, SmallestSubset
  <2>2. U # {}
    <3>1. {} \cap T = {} /\ 0 <= 0
      OBVIOUS
    <3>2. SumFunctionOnSet(f, {} \cap T) <= SumFunctionOnSet(f, {})
      BY <3>1, SumEmpty
    <3> QED BY <2>1, <3>2
  <2> DEFINE c == Choice(U)
             V == U \ {c}
  <2>3. U \subseteq S /\ IsFiniteSet(U) /\ IsFiniteSet(U \cap T) /\ IsFiniteSet(V \cap T) /\ c \in U /\ f[c] \in Nat
    BY <2>2, FS_Subset, ChoiceIsIn
  <2>4. SumFunctionOnSet(f, U) = f[c] + SumFunctionOnSet(f, V)
    BY <2>2, <2>3, SumChoice
  <2>5. SumFunctionOnSet(f, V \cap T) <= SumFunctionOnSet(f, V)
    <3>1. V \subseteq S /\ V # U /\ V \subseteq U
      BY <2>3
    <3> QED BY <2>1, <3>1
  <2>6. /\ SumFunctionOnSet(f, V) \in Int /\ SumFunctionOnSet(f, V \cap T) \in Int
        /\ SumFunctionOnSet(f, U \cap T) \in Int
    <3>1. IsFiniteSet(V)
      BY <2>3, FS_Subset
    <3> QED BY <2>3, <3>1, SumInt
  <2>7. CASE c \in T
    <3>1. (U \cap T) \ {c} = V \cap T /\ c \in U \cap T
      BY <2>3, <2>7
    <3>2. SumFunctionOnSet(f, U \cap T) = f[c] + SumFunctionOnSet(f, V \cap T)
      <4>1. \A y \in U \cap T : f[y] \in Int
        BY <2>3
      <4> QED BY <2>3, <3>1, <4>1, SumTakeOut
    <3> QED BY <2>1, <2>3, <2>4, <2>5, <2>6, <3>2
  <2>8. CASE c \notin T
    <3>1. U \cap T = V \cap T
      BY <2>8
    <3> QED BY <2>1, <2>3, <2>4, <2>5, <2>6, <3>1
  <2> QED BY <2>7, <2>8
<1>2. SumFunctionOnSet(f, S \cap T) <= SumFunctionOnSet(f, S)
  BY <1>1
<1>3. S \cap T = T /\ SumFunctionOnSet(f, T) = SumFunctionOnSet(g, T)
  <2>1. S \cap T = T /\ IsFiniteSet(T) /\ \A x \in T : f[x] = g[x]
    BY FS_Subset
  <2> QED BY <2>1, SumSame
<1> QED
  BY <1>2, <1>3 DEF SumFunction

-----------------------------------------------------------------------------
(* What holds of no elements, and of one element more, holds of them all.  *)
LEMMA OneByOne ==
    ASSUME NEW S, IsFiniteSet(S), NEW G, {} \in G,
           \A T \in SUBSET S : \A x \in S \ T : T \in G => T \cup {x} \in G
    PROVE  S \in G
<1> DEFINE C == {T \in SUBSET S : T \notin G}
<1>1. SUFFICES ASSUME C # {} PROVE FALSE
  OBVIOUS
<1>2. PICK T \in C : \A U \in C : U \subseteq T => U = T
  <2>1. C \in SUBSET SUBSET S
    OBVIOUS
  <2> HIDE DEF C
  <2> QED BY <1>1, <2>1, SmallestSubset
<1>3. PICK x \in T : TRUE
  BY <1>2
<1>4. T \ {x} \in SUBSET S /\ T \ {x} \notin C /\ x \in S \ (T \ {x})
  BY <1>2, <1>3
<1>5. (T \ {x}) \cup {x} = T
  BY <1>3
<1> QED
  BY <1>2, <1>4, <1>5

(* Two sums are added term by term. *)
LEMMA SumOfTwo ==
    ASSUME NEW S, IsFiniteSet(S), NEW f, NEW g, NEW h,
           \A x \in S : f[x] \in Int /\ g[x] \in Int /\ h[x] = f[x] + g[x]
    PROVE  SumFunctionOnSet(h, S) = SumFunctionOnSet(f, S) + SumFunctionOnSet(g, S)
<1> DEFINE G == {T \in SUBSET S :
                    SumFunctionOnSet(h, T) = SumFunctionOnSet(f, T) + SumFunctionOnSet(g, T)}
<1>1. {} \in G
  BY SumEmpty
<1>2. ASSUME NEW T \in SUBSET S, NEW x \in S \ T, T \in G
      PROVE  T \cup {x} \in G
  <2>1. IsFiniteSet(T) /\ \A y \in T \cup {x} : f[y] \in Int /\ g[y] \in Int /\ h[y] \in Int
    BY FS_Subset
  <2>2. /\ SumFunctionOnSet(f, T \cup {x}) = f[x] + SumFunctionOnSet(f, T)
        /\ SumFunctionOnSet(g, T \cup {x}) = g[x] + SumFunctionOnSet(g, T)
        /\ SumFunctionOnSet(h, T \cup {x}) = h[x] + SumFunctionOnSet(h, T)
    BY <2>1, SumPutIn
  <2>3. SumFunctionOnSet(f, T) \in Int /\ SumFunctionOnSet(g, T) \in Int
    BY <2>1, SumInt
  <2>4. SumFunctionOnSet(h, T) = SumFunctionOnSet(f, T) + SumFunctionOnSet(g, T)
    BY <1>2
  <2> QED BY <2>2, <2>3, <2>4
<1> HIDE DEF G
<1>3. S \in G
  BY <1>1, <1>2, OneByOne
<1> QED
  BY <1>3 DEF G

(* A common factor. *)
LEMMA Distributive == ASSUME NEW a \in Int, NEW b \in Int, NEW c \in Int PROVE a * (b + c) = a * b + a * c /\ a * b \in Int
OBVIOUS

LEMMA SumTimes ==
    ASSUME NEW S, IsFiniteSet(S), NEW f, NEW h, NEW c \in Int,
           \A x \in S : f[x] \in Int /\ h[x] = c * f[x]
    PROVE  SumFunctionOnSet(h, S) = c * SumFunctionOnSet(f, S)
<1> DEFINE G == {T \in SUBSET S : SumFunctionOnSet(h, T) = c * SumFunctionOnSet(f, T)}
<1>1. {} \in G
  BY SumEmpty
<1>2. ASSUME NEW T \in SUBSET S, NEW x \in S \ T, T \in G
      PROVE  T \cup {x} \in G
  <2>1. IsFiniteSet(T) /\ \A y \in T \cup {x} : f[y] \in Int /\ h[y] \in Int
    BY FS_Subset, Distributive
  <2>2. /\ SumFunctionOnSet(f, T \cup {x}) = f[x] + SumFunctionOnSet(f, T)
        /\ SumFunctionOnSet(h, T \cup {x}) = h[x] + SumFunctionOnSet(h, T)
    BY <2>1, SumPutIn
  <2>3. SumFunctionOnSet(f, T) \in Int /\ f[x] \in Int
    BY <2>1, SumInt
  <2>4. SumFunctionOnSet(h, T) = c * SumFunctionOnSet(f, T) /\ h[x] = c * f[x]
    BY <1>2
  <2> QED BY <2>2, <2>3, <2>4, Distributive
<1> HIDE DEF G
<1>3. S \in G
  BY <1>1, <1>2, OneByOne
<1> QED
  BY <1>3 DEF G

(* As many ones as there are elements. *)
LEMMA SumOfOnes ==
    ASSUME NEW S, IsFiniteSet(S), NEW f, \A x \in S : f[x] = 1
    PROVE  SumFunctionOnSet(f, S) = Cardinality(S)
<1> DEFINE G == {T \in SUBSET S : SumFunctionOnSet(f, T) = Cardinality(T)}
<1>1. {} \in G
  BY SumEmpty, FS_EmptySet
<1>2. ASSUME NEW T \in SUBSET S, NEW x \in S \ T, T \in G
      PROVE  T \cup {x} \in G
  <2>1. IsFiniteSet(T) /\ \A y \in T \cup {x} : f[y] \in Int
    BY FS_Subset
  <2>2. SumFunctionOnSet(f, T \cup {x}) = f[x] + SumFunctionOnSet(f, T)
    BY <2>1, SumPutIn
  <2>3. Cardinality(T \cup {x}) = Cardinality(T) + 1 /\ Cardinality(T) \in Nat
    BY <2>1, FS_AddElement, FS_CardinalityType
  <2> QED BY <1>2, <2>2, <2>3
<1> HIDE DEF G
<1>3. S \in G
  BY <1>1, <1>2, OneByOne
<1> QED
  BY <1>3 DEF G

(* Where there are zeros, nothing is added. *)
LEMMA SumWiden ==
    ASSUME NEW S, IsFiniteSet(S), NEW T \in SUBSET S, NEW f,
           \A x \in S : f[x] \in Int, \A x \in S \ T : f[x] = 0
    PROVE  SumFunctionOnSet(f, S) = SumFunctionOnSet(f, T)
<1> DEFINE G == {U \in SUBSET (S \ T) : SumFunctionOnSet(f, T \cup U) = SumFunctionOnSet(f, T)}
<1>1. {} \in G /\ IsFiniteSet(S \ T)
  BY FS_Subset
<1>2. ASSUME NEW U \in SUBSET (S \ T), NEW x \in (S \ T) \ U, U \in G
      PROVE  U \cup {x} \in G
  <2>1. /\ IsFiniteSet(T \cup U) /\ x \notin T \cup U
        /\ \A y \in (T \cup U) \cup {x} : f[y] \in Int
    <3>1. T \cup U \subseteq S
      BY <1>2
    <3> QED BY <3>1, FS_Subset
  <2>2. SumFunctionOnSet(f, (T \cup U) \cup {x}) = f[x] + SumFunctionOnSet(f, T \cup U)
    BY <2>1, SumPutIn
  <2>3. (T \cup U) \cup {x} = T \cup (U \cup {x})
    OBVIOUS
  <2>4. SumFunctionOnSet(f, T \cup U) \in Int
    BY <2>1, SumInt
  <2>5. f[x] = 0 /\ U \cup {x} \in SUBSET (S \ T)
    BY <1>2
  <2>6. SumFunctionOnSet(f, T \cup U) = SumFunctionOnSet(f, T)
    BY <1>2
  <2>7. SumFunctionOnSet(f, (T \cup U) \cup {x}) = SumFunctionOnSet(f, T)
    BY <2>2, <2>4, <2>5, <2>6
  <2> QED BY <2>3, <2>5, <2>7
<1> HIDE DEF G
<1>3. S \ T \in G
  BY <1>1, <1>2, OneByOne
<1>4. T \cup (S \ T) = S
  OBVIOUS
<1> QED
  BY <1>3, <1>4 DEF G

(* Ones for the members of a set, zeros for the others. *)
LEMMA SumOfMarks ==
    ASSUME NEW S, IsFiniteSet(S), NEW U \in SUBSET S, NEW f,
           \A x \in S : f[x] = IF x \in U THEN 1 ELSE 0
    PROVE  SumFunctionOnSet(f, S) = Cardinality(U)
<1>1. SumFunctionOnSet(f, S) = SumFunctionOnSet(f, U)
  BY SumWiden
<1>2. IsFiniteSet(U)
  BY FS_Subset
<1> QED
  BY <1>1, <1>2, SumOfOnes

(* Natural numbers. *)
LEMMA SumNat ==
    ASSUME NEW S, IsFiniteSet(S), NEW f, \A x \in S : f[x] \in Nat
    PROVE  SumFunctionOnSet(f, S) \in Nat
<1> DEFINE z == [x \in S |-> 0]
<1>1. SumFunctionOnSet(f, S) \in Int /\ SumFunction(z) = 0
  BY SumInt, SumOfZeros
<1>2. SumFunctionOnSet(z, S) <= SumFunctionOnSet(f, S)
  BY SumLeq
<1>3. SumFunction(z) = SumFunctionOnSet(z, S)
  BY DEF SumFunction
<1> QED
  BY <1>1, <1>2, <1>3

-----------------------------------------------------------------------------
(* Orders of finite sets: who comes before whom, and how many do. *)

StrictOrder(R, S) ==
    /\ \A i \in S : <<i, i>> \notin R
    /\ \A i, j, k \in S : <<i, j>> \in R /\ <<j, k>> \in R => <<i, k>> \in R
    /\ \A i, j \in S : <<i, j>> \in R \/ <<j, i>> \in R \/ i = j

InFront(R, S, m) == {k \in S : <<k, m>> \in R}

\* Those that come first: all of them before all of the others.
FirstOf(R, S, U) == U \subseteq S /\ \A i \in U, j \in S \ U : <<i, j>> \in R

(* A non-empty finite set has a last element. *)
LEMMA HasLast ==
    ASSUME NEW S, IsFiniteSet(S), S # {}, NEW R, StrictOrder(R, S)
    PROVE  \E i \in S : \A j \in S \ {i} : <<j, i>> \in R
<1> DEFINE G == {T \in SUBSET S : T = {} \/ \E i \in T : \A j \in T \ {i} : <<j, i>> \in R}
<1>1. {} \in G
  OBVIOUS
<1>2. ASSUME NEW T \in SUBSET S, NEW x \in S \ T, T \in G
      PROVE  T \cup {x} \in G
  <2>1. CASE T = {}
    <3>1. x \in T \cup {x} /\ \A j \in (T \cup {x}) \ {x} : <<j, x>> \in R
      BY <2>1
    <3> QED BY <3>1
  <2>2. CASE T # {}
    <3>1. PICK i \in T : \A j \in T \ {i} : <<j, i>> \in R
      BY <1>2, <2>2
    <3>2. CASE <<x, i>> \in R
      <4>1. i \in T \cup {x} /\ \A j \in (T \cup {x}) \ {i} : <<j, i>> \in R
        BY <3>1, <3>2
      <4> QED BY <4>1
    <3>3. CASE <<i, x>> \in R
      <4>1. \A j \in (T \cup {x}) \ {x} : <<j, x>> \in R
        BY <3>1, <3>3 DEF StrictOrder
      <4> QED BY <4>1
    <3> QED BY <3>1, <3>2, <3>3 DEF StrictOrder
  <2> QED BY <2>1, <2>2
<1> HIDE DEF G
<1>3. S \in G
  BY <1>1, <1>2, OneByOne
<1> QED
  BY <1>3 DEF G

(* As many as one likes come first. *)
LEMMA FirstOnes ==
    ASSUME NEW S, IsFiniteSet(S), NEW R, StrictOrder(R, S), NEW n \in 0..Cardinality(S)
    PROVE  \E U : FirstOf(R, S, U) /\ Cardinality(U) = n
<1> DEFINE C == {U \in SUBSET S : FirstOf(R, S, U) /\ Cardinality(U) >= n}
<1>1. S \in C /\ C \in SUBSET SUBSET S
  <2>1. Cardinality(S) \in Nat
    BY FS_CardinalityType
  <2> QED BY <2>1 DEF FirstOf
<1>2. PICK U \in C : \A V \in C : V \subseteq U => V = U
  <2> HIDE DEF C
  <2> QED BY <1>1, SmallestSubset
<1>3. IsFiniteSet(U) /\ Cardinality(U) \in Nat /\ n \in Nat /\ Cardinality(S) \in Nat
  BY FS_Subset, FS_CardinalityType
<1>4. ASSUME Cardinality(U) # n PROVE FALSE
  <2>1. Cardinality(U) > n
    BY <1>2, <1>3, <1>4
  <2>2. U # {}
    BY <1>3, <2>1, FS_EmptySet
  <2>3. StrictOrder(R, U)
    BY <1>2 DEF StrictOrder
  <2>4. PICK i \in U : \A j \in U \ {i} : <<j, i>> \in R
    BY <1>3, <2>2, <2>3, HasLast
  <2>5. Cardinality(U \ {i}) = Cardinality(U) - 1
    BY <1>3, FS_RemoveElement
  <2>6. FirstOf(R, S, U \ {i})
    BY <1>2, <2>4 DEF FirstOf
  <2>7. U \ {i} \in C
    BY <1>2, <1>3, <2>1, <2>5, <2>6
  <2> QED BY <1>2, <2>7
<1> QED
  BY <1>2, <1>4

(* Those who come first are those before whom few come. *)
LEMMA FirstAreFew ==
    ASSUME NEW S, IsFiniteSet(S), NEW R, StrictOrder(R, S), NEW U, FirstOf(R, S, U)
    PROVE  /\ \A m \in U : Cardinality(InFront(R, S, m)) < Cardinality(U)
           /\ \A m \in S \ U : Cardinality(InFront(R, S, m)) >= Cardinality(U)
<1>1. IsFiniteSet(U) /\ Cardinality(U) \in Nat
  BY FS_Subset, FS_CardinalityType DEF FirstOf
<1>2. ASSUME NEW m \in S
      PROVE  IsFiniteSet(InFront(R, S, m)) /\ Cardinality(InFront(R, S, m)) \in Nat
  <2>1. InFront(R, S, m) \subseteq S
    BY DEF InFront
  <2> QED BY <2>1, FS_Subset, FS_CardinalityType
<1>3. ASSUME NEW m \in U
      PROVE  Cardinality(InFront(R, S, m)) < Cardinality(U)
  <2>1. m \in S /\ InFront(R, S, m) \subseteq U \ {m}
    BY DEF FirstOf, StrictOrder, InFront
  <2>2. Cardinality(U \ {m}) = Cardinality(U) - 1 /\ IsFiniteSet(U \ {m})
    BY <1>1, FS_RemoveElement
  <2>3. Cardinality(InFront(R, S, m)) <= Cardinality(U \ {m})
    BY <2>1, <2>2, FS_Subset
  <2> QED BY <1>1, <1>2, <2>1, <2>2, <2>3
<1>4. ASSUME NEW m \in S \ U
      PROVE  Cardinality(InFront(R, S, m)) >= Cardinality(U)
  <2>1. U \subseteq InFront(R, S, m)
    BY DEF FirstOf, InFront
  <2>2. Cardinality(U) <= Cardinality(InFront(R, S, m))
    BY <1>2, <2>1, FS_Subset
  <2> QED BY <1>1, <1>2, <2>2
<1> QED
  BY <1>3, <1>4

(* Before exactly n there are fewer than n. *)
LEMMA FewBefore ==
    ASSUME NEW S, IsFiniteSet(S), NEW R, StrictOrder(R, S), NEW n \in 0..Cardinality(S)
    PROVE  LET U == {m \in S : Cardinality(InFront(R, S, m)) < n}
           IN  FirstOf(R, S, U) /\ Cardinality(U) = n
<1> DEFINE U == {m \in S : Cardinality(InFront(R, S, m)) < n}
<1>1. PICK V : FirstOf(R, S, V) /\ Cardinality(V) = n
  BY FirstOnes
<1>2. /\ \A m \in V : Cardinality(InFront(R, S, m)) < n
      /\ \A m \in S \ V : Cardinality(InFront(R, S, m)) >= n
  BY <1>1, FirstAreFew
<1>3. \A m \in S : Cardinality(InFront(R, S, m)) \in Nat
  <2>1. \A m \in S : InFront(R, S, m) \subseteq S
    BY DEF InFront
  <2> QED BY <2>1, FS_Subset, FS_CardinalityType
<1>4. n \in Nat
  BY FS_CardinalityType
<1>5. U = V
  <2>1. V \subseteq S
    BY <1>1 DEF FirstOf
  <2>2. \A m \in S : m \in V <=> Cardinality(InFront(R, S, m)) < n
    BY <1>2, <1>3, <1>4
  <2> QED BY <2>1, <2>2
<1> HIDE DEF U
<1> QED
  BY <1>1, <1>5 DEF U

(* Of as many as one likes, only one set comes first. *)
LEMMA FirstIsUnique ==
    ASSUME NEW S, IsFiniteSet(S), NEW R, StrictOrder(R, S), NEW U, FirstOf(R, S, U),
           NEW V, FirstOf(R, S, V), Cardinality(U) = Cardinality(V)
    PROVE  U = V
<1>1. U \subseteq S /\ V \subseteq S
  BY DEF FirstOf
<1>2. \A m \in S : Cardinality(InFront(R, S, m)) \in Nat
  <2>1. \A m \in S : InFront(R, S, m) \subseteq S
    BY DEF InFront
  <2> QED BY <2>1, FS_Subset, FS_CardinalityType
<1>3. Cardinality(V) \in Nat
  BY <1>1, FS_Subset, FS_CardinalityType
<1>4. /\ \A m \in U : Cardinality(InFront(R, S, m)) < Cardinality(V)
      /\ \A m \in S \ U : Cardinality(InFront(R, S, m)) >= Cardinality(V)
  BY FirstAreFew
<1>5. /\ \A m \in V : Cardinality(InFront(R, S, m)) < Cardinality(V)
      /\ \A m \in S \ V : Cardinality(InFront(R, S, m)) >= Cardinality(V)
  BY FirstAreFew
<1>6. \A m \in S : m \in U <=> m \in V
  BY <1>2, <1>3, <1>4, <1>5
<1> QED
  BY <1>1, <1>6

-----------------------------------------------------------------------------
(* The pools, and the split by heads. *)

LEMMA DivRest ==
    ASSUME NEW a \in Nat, NEW b \in Nat \ {0}
    PROVE  a = b * (a \div b) + (a % b) /\ a % b \in 0..(b - 1) /\ a \div b \in Nat
<1>1. a = b * (a \div b) + (a % b)
  OBVIOUS
<1>2. a % b \in 0..(b - 1)
  OBVIOUS
<1>3. a \div b \in Nat
  OBVIOUS
<1> QED
  BY <1>1, <1>2, <1>3

LEMMA Product == ASSUME NEW a \in Nat, NEW b \in Nat PROVE a * b \in Nat
OBVIOUS

LEMMA Portion ==
    ASSUME NEW n \in Nat, NEW b \in Nat, b <= 10000
    PROVE  (n * b) \div 10000 \in 0..n
<1> DEFINE x == n * b
<1>1. x \in Nat /\ x <= n * 10000
  OBVIOUS
<1> HIDE DEF x
<1>2. x \div 10000 \in 0..n
  BY <1>1
<1> QED
  BY <1>2 DEF x

\* Both pools are what was requested, and nobody's pool is empty.
LEMMA PoolsAddUp ==
    ASSUME NEW n \in Nat, NEW bps \in 0..BpsTotal
    PROVE  /\ PartnerPool(n, bps) \in 0..n /\ WorkPool(n, bps) \in 0..n
           /\ PartnerPool(n, bps) + WorkPool(n, bps) = n
           /\ bps = 0 => PartnerPool(n, bps) = 0
           /\ bps = BpsTotal => WorkPool(n, bps) = 0
<1> DEFINE x == (n * bps) \div 10000
<1>1. bps \in Nat /\ bps <= 10000
  BY DEF BpsTotal
<1>2. x \in 0..n
  BY <1>1, Portion
<1>3. bps = 0 => x = 0
  OBVIOUS
<1>4. bps = 10000 => x = n
  OBVIOUS
<1>5. PartnerPool(n, bps) = x /\ WorkPool(n, bps) = n - x
  BY DEF PartnerPool, WorkPool, BpsTotal
<1> HIDE DEF x
<1>6. BpsTotal = 10000
  BY DEF BpsTotal
<1> QED
  BY <1>2, <1>3, <1>4, <1>5, <1>6

\* Everybody gets a natural number, and together they get the pool.
LEMMA EqualSplit ==
    ASSUME NEW ids, IsFiniteSet(ids), ids \subseteq Nat, NEW pool \in Nat, ids = {} => pool = 0
    PROVE  LET e == AllocateEqual(pool, ids)
           IN  DOMAIN e = ids /\ (\A m \in ids : e[m] \in Nat) /\ TotalOf(e) = pool
<1> DEFINE e == AllocateEqual(pool, ids)
           n == Cardinality(ids)
           R == {p \in ids \X ids : p[1] < p[2]}
           U == {m \in ids : Cardinality(InFront(R, ids, m)) < pool % n}
           each == [m \in ids |-> pool \div n]
           one == [m \in ids |-> IF m \in U THEN 1 ELSE 0]
           all == [m \in ids |-> 1]
<1>1. DOMAIN e = ids
  BY DEF AllocateEqual
<1>2. CASE ids = {}
  <2>1. TotalOf(e) = 0
    BY <1>1, <1>2, SumOfNone DEF TotalOf
  <2> QED BY <1>1, <1>2, <2>1
<1>3. CASE ids # {}
  <2>1. n \in Nat \ {0}
    BY <1>3, FS_CardinalityType, FS_EmptySet
  <2>2. pool = n * (pool \div n) + (pool % n) /\ pool % n \in 0..(n - 1) /\ pool \div n \in Nat
    <3> HIDE DEF n
    <3> QED BY <2>1, DivRest
  <2>3. StrictOrder(R, ids)
    BY DEF StrictOrder
  <2>4. Cardinality(U) = pool % n
    <3> HIDE DEF R
    <3>1. pool % n \in 0..Cardinality(ids)
      BY <2>1, <2>2
    <3> QED BY <2>3, <3>1, FewBefore
  <2>5. ASSUME NEW m \in ids
        PROVE  e[m] = each[m] + one[m] /\ each[m] \in Nat /\ one[m] \in Nat /\ all[m] = 1
               /\ each[m] = (pool \div n) * all[m] /\ one[m] = IF m \in U THEN 1 ELSE 0
    <3>1. {k \in ids : k < m} = InFront(R, ids, m)
      BY DEF InFront
    <3>2. e[m] = (pool \div n) + (IF Cardinality({k \in ids : k < m}) < pool % n THEN 1 ELSE 0)
      BY DEF AllocateEqual
    <3>3. one[m] = (IF m \in U THEN 1 ELSE 0) /\ each[m] = pool \div n /\ all[m] = 1
      OBVIOUS
    <3>4. m \in U <=> Cardinality(InFront(R, ids, m)) < pool % n
      OBVIOUS
    <3> DEFINE d == pool \div n
               r == pool % n
    <3>5. d \in Nat
      BY <2>2
    <3> HIDE DEF U, R, e, each, one, all, d, r
    <3>6. e[m] = d + (IF m \in U THEN 1 ELSE 0) /\ each[m] = d
      BY <3>1, <3>2, <3>3, <3>4 DEF d, r
    <3>7. d = d * 1
      BY <3>5
    <3> QED BY <3>3, <3>5, <3>6, <3>7 DEF d
  <2>6. U \subseteq ids
    OBVIOUS
  <2> HIDE DEF U, R, e, each, one, all
  <2>7. SumFunctionOnSet(e, ids) = SumFunctionOnSet(each, ids) + SumFunctionOnSet(one, ids)
    <3>1. \A m \in ids : each[m] \in Int /\ one[m] \in Int /\ e[m] = each[m] + one[m]
      BY <2>5
    <3> QED BY <3>1, SumOfTwo
  <2>8. SumFunctionOnSet(one, ids) = Cardinality(U)
    BY <2>5, <2>6, SumOfMarks
  <2>9. SumFunctionOnSet(each, ids) = (pool \div n) * n
    <3>1. SumFunctionOnSet(all, ids) = n
      BY <2>5, SumOfOnes
    <3>2. \A m \in ids : all[m] \in Int /\ each[m] = (pool \div n) * all[m]
      BY <2>5
    <3>3. pool \div n \in Int
      BY <2>2
    <3> HIDE DEF n
    <3>4. SumFunctionOnSet(each, ids) = (pool \div n) * SumFunctionOnSet(all, ids)
      BY <3>2, <3>3, SumTimes
    <3> QED BY <3>1, <3>4
  <2>10. TotalOf(e) = SumFunctionOnSet(e, ids)
    BY <1>1 DEF TotalOf, SumFunction
  <2>11. \A m \in ids : e[m] \in Nat
    BY <2>5
  <2>12. TotalOf(e) = pool
    <3> HIDE DEF n
    <3>1. (pool \div n) * n = n * (pool \div n)
      BY <2>1, <2>2
    <3> QED BY <2>2, <2>4, <2>7, <2>8, <2>9, <2>10, <3>1
  <2> QED BY <1>1, <2>11, <2>12 DEF e
<1> QED
  BY <1>2, <1>3

-----------------------------------------------------------------------------
(* The split by work: quotas, what is left over, and who gets it. *)

WeightOK(weight) ==
    /\ IsFiniteSet(DOMAIN weight) /\ DOMAIN weight \subseteq Nat
    /\ \A m \in DOMAIN weight : weight[m] \in Nat

Floor(pool, weight, m) == (pool * weight[m]) \div TotalOf(weight)
Rest(pool, weight, m) == (pool * weight[m]) % TotalOf(weight)
LeftOver(pool, weight) == pool - TotalOf([m \in DOMAIN weight |-> Floor(pool, weight, m)])

Worked(weight) == {m \in DOMAIN weight : weight[m] > 0}
Unfinished(pool, weight) == {m \in DOMAIN weight : Rest(pool, weight, m) > 0}

\* The line in which the units left over are handed out, and who gets one.
Queue(pool, weight) ==
    {p \in Worked(weight) \X Worked(weight) : Before(pool, weight, p[1], p[2])}
Lucky(pool, weight) ==
    {m \in Worked(weight) :
        Cardinality(InFront(Queue(pool, weight), Worked(weight), m)) < LeftOver(pool, weight)}

LEMMA TotalIsNat ==
    ASSUME NEW f, IsFiniteSet(DOMAIN f), \A m \in DOMAIN f : f[m] \in Nat
    PROVE  TotalOf(f) \in Nat /\ SumFunction(f) \in Nat
BY SumNat DEF SumFunction, TotalOf

LEMMA Quotas ==
    ASSUME NEW pool \in Nat, NEW weight, WeightOK(weight), TotalOf(weight) # 0, NEW m \in DOMAIN weight
    PROVE  /\ TotalOf(weight) \in Nat \ {0}
           /\ pool * weight[m] \in Nat
           /\ pool * weight[m] = TotalOf(weight) * Floor(pool, weight, m) + Rest(pool, weight, m)
           /\ Floor(pool, weight, m) \in Nat
           /\ Rest(pool, weight, m) \in 0..(TotalOf(weight) - 1)
           /\ weight[m] = 0 => Floor(pool, weight, m) = 0 /\ Rest(pool, weight, m) = 0
<1> DEFINE t == TotalOf(weight)
           x == pool * weight[m]
<1>1. t \in Nat \ {0}
  BY TotalIsNat DEF WeightOK
<1>2. x \in Nat
  BY Product DEF WeightOK
<1>3. weight[m] = 0 => x = 0
  OBVIOUS
<1>4. Floor(pool, weight, m) = x \div t /\ Rest(pool, weight, m) = x % t
  BY DEF Floor, Rest
<1> HIDE DEF t, x
<1>5. x = t * (x \div t) + (x % t) /\ x % t \in 0..(t - 1) /\ x \div t \in Nat
  BY <1>1, <1>2, DivRest
<1>6. 0 \div t = 0 /\ 0 % t = 0
  BY <1>1
<1> QED
  BY <1>1, <1>2, <1>3, <1>4, <1>5, <1>6 DEF t, x

LEMMA QueueIsOrder ==
    ASSUME NEW pool \in Nat, NEW weight, WeightOK(weight), TotalOf(weight) # 0
    PROVE  StrictOrder(Queue(pool, weight), Worked(weight)) /\ IsFiniteSet(Worked(weight))
<1> DEFINE Q == Queue(pool, weight)
           rest(m) == Rest(pool, weight, m)
<1>1. \A m \in Worked(weight) : rest(m) \in Nat /\ m \in Nat
  <2> SUFFICES ASSUME NEW m \in Worked(weight) PROVE rest(m) \in Nat /\ m \in Nat
    OBVIOUS
  <2>1. m \in DOMAIN weight
    BY DEF Worked
  <2>2. TotalOf(weight) \in Nat \ {0} /\ rest(m) \in 0..(TotalOf(weight) - 1)
    BY <2>1, Quotas
  <2> QED BY <2>1, <2>2 DEF WeightOK
<1>2. \A k, m \in Worked(weight) :
        <<k, m>> \in Q <=> (rest(k) > rest(m) \/ (rest(k) = rest(m) /\ k < m))
  BY DEF Queue, Before, Rest, Worked
<1> HIDE DEF Q, rest
<1>3. StrictOrder(Q, Worked(weight))
  <2>1. \A i \in Worked(weight) : <<i, i>> \notin Q
    BY <1>1, <1>2
  <2>2. \A i, j, k \in Worked(weight) : <<i, j>> \in Q /\ <<j, k>> \in Q => <<i, k>> \in Q
    <3> SUFFICES ASSUME NEW i \in Worked(weight), NEW j \in Worked(weight), NEW k \in Worked(weight),
                        <<i, j>> \in Q, <<j, k>> \in Q
                 PROVE  <<i, k>> \in Q
      OBVIOUS
    <3>1. /\ rest(i) > rest(j) \/ (rest(i) = rest(j) /\ i < j)
          /\ rest(j) > rest(k) \/ (rest(j) = rest(k) /\ j < k)
      BY <1>2
    <3>2. rest(i) \in Nat /\ rest(j) \in Nat /\ rest(k) \in Nat /\ i \in Nat /\ j \in Nat /\ k \in Nat
      BY <1>1
    <3>3. rest(i) > rest(k) \/ (rest(i) = rest(k) /\ i < k)
      BY <3>1, <3>2
    <3> QED BY <1>2, <3>3
  <2>3. \A i, j \in Worked(weight) : <<i, j>> \in Q \/ <<j, i>> \in Q \/ i = j
    <3> SUFFICES ASSUME NEW i \in Worked(weight), NEW j \in Worked(weight)
                 PROVE  <<i, j>> \in Q \/ <<j, i>> \in Q \/ i = j
      OBVIOUS
    <3>1. rest(i) \in Nat /\ rest(j) \in Nat /\ i \in Nat /\ j \in Nat
      BY <1>1
    <3>2. rest(i) > rest(j) \/ rest(j) > rest(i) \/ (rest(i) = rest(j) /\ (i < j \/ j < i \/ i = j))
      BY <3>1
    <3> QED BY <1>2, <3>2
  <2> QED BY <2>1, <2>2, <2>3 DEF StrictOrder
<1>4. IsFiniteSet(Worked(weight))
  BY FS_Subset DEF Worked, WeightOK
<1> QED
  BY <1>3, <1>4 DEF Q

\* t times what is left is at most t - 1 times the number of rests.
LEMMA FewLeftOver ==
    ASSUME NEW t \in Nat \ {0}, NEW left \in Int, NEW n \in Nat, NEW rests \in Nat,
           t * left = rests, rests <= (t - 1) * n
    PROVE  left \in Nat /\ left <= n
<1>1. left >= 0
  OBVIOUS
<1>2. ASSUME left > n PROVE FALSE
  <2>1. left >= n + 1
    BY <1>2
  <2>2. t * left >= t * (n + 1)
    BY <2>1
  <2>3. t * (n + 1) = (t - 1) * n + n + t
    OBVIOUS
  <2>4. (t - 1) * n \in Int
    OBVIOUS
  <2> DEFINE y == (t - 1) * n
  <2> HIDE DEF y
  <2>5. t * left >= y + n + t /\ t * left <= y /\ y \in Int
    BY <2>2, <2>3, <2>4 DEF y
  <2> QED BY <2>5
<1> QED
  BY <1>1, <1>2

LEMMA LeftOverIsSmall ==
    ASSUME NEW pool \in Nat, NEW weight, WeightOK(weight), TotalOf(weight) # 0
    PROVE  /\ IsFiniteSet(Unfinished(pool, weight)) /\ Unfinished(pool, weight) \subseteq Worked(weight)
           /\ LeftOver(pool, weight) \in Nat
           /\ LeftOver(pool, weight) <= Cardinality(Unfinished(pool, weight))
<1> DEFINE S == DOMAIN weight
           t == TotalOf(weight)
           floor == [m \in S |-> Floor(pool, weight, m)]
           rest == [m \in S |-> Rest(pool, weight, m)]
           scaled == [m \in S |-> t * Floor(pool, weight, m)]
           quota == [m \in S |-> pool * weight[m]]
           U == Unfinished(pool, weight)
           mark == [m \in S |-> IF m \in U THEN 1 ELSE 0]
           most == [m \in S |-> (t - 1) * mark[m]]
<1>1. IsFiniteSet(S) /\ IsFiniteSet(U) /\ U \subseteq S
  BY FS_Subset DEF WeightOK, Unfinished
<1>2. t \in Nat \ {0}
  BY TotalIsNat DEF WeightOK
<1>3. \A m \in S : /\ weight[m] \in Nat
                   /\ quota[m] = scaled[m] + rest[m] /\ quota[m] \in Nat
                   /\ floor[m] \in Nat /\ rest[m] \in 0..(t - 1)
                   /\ weight[m] = 0 => rest[m] = 0
  BY Quotas DEF WeightOK
<1>4. \A m \in S : scaled[m] = t * floor[m] /\ quota[m] = pool * weight[m]
                   /\ mark[m] = (IF m \in U THEN 1 ELSE 0) /\ most[m] = (t - 1) * mark[m]
                   /\ (m \in U <=> rest[m] > 0)
  BY DEF Unfinished
<1>5. U \subseteq Worked(weight)
  <2> SUFFICES ASSUME NEW m \in U PROVE m \in Worked(weight)
    OBVIOUS
  <2>1. m \in S /\ rest[m] > 0
    BY <1>1, <1>4
  <2>2. weight[m] \in Nat /\ weight[m] # 0
    BY <1>3, <2>1
  <2> QED BY <2>1, <2>2 DEF Worked
<1>6. LeftOver(pool, weight) = pool - SumFunctionOnSet(floor, S) /\ t = SumFunctionOnSet(weight, S)
  BY DEF LeftOver, TotalOf, SumFunction
<1> HIDE DEF S, t, floor, rest, scaled, quota, U, mark, most
<1>7. \A m \in S : scaled[m] \in Int /\ rest[m] \in Nat /\ mark[m] \in Nat /\ most[m] \in Int /\ rest[m] <= most[m]
  <2> SUFFICES ASSUME NEW m \in S
               PROVE  scaled[m] \in Int /\ rest[m] \in Nat /\ mark[m] \in Nat /\ most[m] \in Int /\ rest[m] <= most[m]
    OBVIOUS
  <2>1. scaled[m] \in Int
    BY <1>2, <1>3, <1>4, Product
  <2>2. rest[m] \in Nat /\ rest[m] <= t - 1
    BY <1>2, <1>3
  <2>3. mark[m] \in Nat /\ (m \in U => mark[m] = 1) /\ (m \notin U => mark[m] = 0)
    BY <1>4
  <2>4. CASE m \in U
    <3>1. most[m] = (t - 1) * 1
      BY <1>4, <2>3, <2>4
    <3> QED BY <1>2, <2>1, <2>2, <2>3, <3>1
  <2>5. CASE m \notin U
    <3>1. most[m] = (t - 1) * 0
      BY <1>4, <2>3, <2>5
    <3>2. rest[m] = 0
      BY <1>4, <2>2, <2>5
    <3>3. most[m] = 0
      BY <1>2, <3>1
    <3> QED BY <2>1, <2>3, <3>2, <3>3
  <2> QED BY <2>4, <2>5
<1> DEFINE F == SumFunctionOnSet(floor, S)
           rests == SumFunctionOnSet(rest, S)
           n == Cardinality(U)
<1>8. F \in Nat /\ rests \in Nat /\ n \in Nat
  BY <1>1, <1>3, <1>7, SumNat, FS_CardinalityType
<1>9. SumFunctionOnSet(quota, S) = pool * t
  <2>1. \A m \in S : weight[m] \in Int /\ quota[m] = pool * weight[m]
    BY <1>3, <1>4
  <2> QED BY <1>1, <1>6, <2>1, SumTimes
<1>10. SumFunctionOnSet(scaled, S) = t * F
  <2>1. \A m \in S : floor[m] \in Int /\ scaled[m] = t * floor[m]
    BY <1>3, <1>4
  <2>2. t \in Int
    BY <1>2
  <2> QED BY <1>1, <2>1, <2>2, SumTimes
<1>11. SumFunctionOnSet(quota, S) = SumFunctionOnSet(scaled, S) + rests
  <2>1. \A m \in S : scaled[m] \in Int /\ rest[m] \in Int /\ quota[m] = scaled[m] + rest[m]
    BY <1>3, <1>7
  <2> QED BY <1>1, <2>1, SumOfTwo
<1>12. rests <= (t - 1) * n
  <2>1. SumFunctionOnSet(mark, S) = n
    BY <1>1, <1>4, SumOfMarks
  <2>2. SumFunctionOnSet(most, S) = (t - 1) * SumFunctionOnSet(mark, S)
    <3>1. \A m \in S : mark[m] \in Int /\ most[m] = (t - 1) * mark[m]
      BY <1>4, <1>7
    <3>2. t - 1 \in Int
      BY <1>2
    <3> QED BY <1>1, <3>1, <3>2, SumTimes
  <2>3. rests <= SumFunctionOnSet(most, S)
    <3>1. \A m \in S : rest[m] \in Int /\ most[m] \in Int /\ rest[m] <= most[m]
      BY <1>7
    <3> QED BY <1>1, <3>1, SumLeq
  <2> QED BY <2>1, <2>2, <2>3
<1> HIDE DEF F, rests, n
<1>13. t * (pool - F) = rests
  <2>1. pool * t = t * F + rests
    BY <1>9, <1>10, <1>11
  <2>2. t * (pool - F) = pool * t - t * F
    BY <1>2, <1>8
  <2>3. t * F \in Nat /\ pool * t \in Nat
    BY <1>2, <1>8, Product
  <2> QED BY <1>8, <2>1, <2>2, <2>3
<1>14. pool - F \in Nat /\ pool - F <= n
  <2>1. pool - F \in Int
    BY <1>8
  <2> QED BY <1>2, <1>8, <1>12, <1>13, <2>1, FewLeftOver
<1> QED
  BY <1>1, <1>5, <1>6, <1>14 DEF U, F, n

\* Those whose quota is not whole come before those whose quota is.
LEMMA UnfinishedComeFirst ==
    ASSUME NEW pool \in Nat, NEW weight, WeightOK(weight), TotalOf(weight) # 0
    PROVE  FirstOf(Queue(pool, weight), Worked(weight), Unfinished(pool, weight))
<1>1. Unfinished(pool, weight) \subseteq Worked(weight)
  BY LeftOverIsSmall
<1>2. ASSUME NEW i \in Unfinished(pool, weight), NEW j \in Worked(weight) \ Unfinished(pool, weight)
      PROVE  <<i, j>> \in Queue(pool, weight)
  <2>1. i \in Worked(weight) /\ i \in DOMAIN weight /\ j \in Worked(weight) /\ j \in DOMAIN weight /\ weight[i] > 0
    BY <1>1 DEF Worked
  <2>2. Rest(pool, weight, i) > 0 /\ ~(Rest(pool, weight, j) > 0)
    BY <2>1 DEF Unfinished
  <2>3. /\ TotalOf(weight) \in Nat /\ Rest(pool, weight, i) \in 0..(TotalOf(weight) - 1)
        /\ Rest(pool, weight, j) \in 0..(TotalOf(weight) - 1)
    BY <2>1, Quotas
  <2>4. Rest(pool, weight, i) > Rest(pool, weight, j)
    BY <2>2, <2>3
  <2>5. Before(pool, weight, i, j)
    BY <2>1, <2>4 DEF Before, Rest
  <2> QED BY <2>1, <2>5 DEF Queue
<1> QED
  BY <1>1, <1>2 DEF FirstOf

\* As many are lucky as there are units left over; they come first, and the
\* quota of none of them is whole.
LEMMA LuckyOnes ==
    ASSUME NEW pool \in Nat, NEW weight, WeightOK(weight), TotalOf(weight) # 0
    PROVE  /\ FirstOf(Queue(pool, weight), Worked(weight), Lucky(pool, weight))
           /\ Cardinality(Lucky(pool, weight)) = LeftOver(pool, weight)
           /\ Lucky(pool, weight) \subseteq Unfinished(pool, weight)
<1> DEFINE Q == Queue(pool, weight)
           W == Worked(weight)
           U == Unfinished(pool, weight)
           n == LeftOver(pool, weight)
           L == Lucky(pool, weight)
<1>1. StrictOrder(Q, W) /\ IsFiniteSet(W)
  BY QueueIsOrder
<1>2. IsFiniteSet(U) /\ U \subseteq W /\ n \in Nat /\ n <= Cardinality(U) /\ FirstOf(Q, W, U)
  BY LeftOverIsSmall, UnfinishedComeFirst
<1>3. L = {m \in W : Cardinality(InFront(Q, W, m)) < n}
  BY DEF Lucky
<1> HIDE DEF Q, W, U, n, L
<1>4. Cardinality(U) \in Nat /\ Cardinality(W) \in Nat /\ Cardinality(U) <= Cardinality(W)
  BY <1>1, <1>2, FS_CardinalityType, FS_Subset
<1>5. FirstOf(Q, W, L) /\ Cardinality(L) = n
  <2>1. n \in 0..Cardinality(W)
    BY <1>2, <1>4
  <2> QED BY <1>1, <1>3, <2>1, FewBefore
<1>6. L \subseteq U
  <2> SUFFICES ASSUME NEW m \in L, m \notin U PROVE FALSE
    OBVIOUS
  <2>1. m \in W /\ Cardinality(InFront(Q, W, m)) < n
    BY <1>3
  <2>2. Cardinality(InFront(Q, W, m)) >= Cardinality(U)
    BY <1>1, <1>2, <2>1, FirstAreFew
  <2>3. Cardinality(InFront(Q, W, m)) \in Nat
    <3>1. InFront(Q, W, m) \subseteq W
      BY DEF InFront
    <3> QED BY <1>1, <3>1, FS_Subset, FS_CardinalityType
  <2> QED BY <1>2, <1>4, <2>1, <2>2, <2>3
<1> QED
  BY <1>5, <1>6 DEF Q, W, U, n, L

\* Everybody has the quota rounded down, and the lucky ones a unit more.
LEMMA WorkSplit ==
    ASSUME NEW pool \in Nat, NEW weight, WeightOK(weight), TotalOf(weight) # 0
    PROVE  LET w == AllocateByWeight(pool, weight)
           IN  /\ w = [m \in DOMAIN weight |->
                         Floor(pool, weight, m) + (IF m \in Lucky(pool, weight) THEN 1 ELSE 0)]
               /\ \A m \in DOMAIN weight : w[m] \in Nat
               /\ TotalOf(w) = pool
<1> DEFINE S == DOMAIN weight
           L == Lucky(pool, weight)
           w == AllocateByWeight(pool, weight)
           floor == [m \in S |-> Floor(pool, weight, m)]
           mark == [m \in S |-> IF m \in L THEN 1 ELSE 0]
           n == LeftOver(pool, weight)
<1>1. w = [m \in S |-> floor[m] + (IF weight[m] > 0
                 /\ Cardinality({k \in S : Before(pool, weight, k, m)}) < n THEN 1 ELSE 0)]
  BY DEF AllocateByWeight, LeftOver, Floor
<1>2. ASSUME NEW m \in S
      PROVE  m \in L <=> (weight[m] > 0 /\ Cardinality({k \in S : Before(pool, weight, k, m)}) < n)
  <2>1. CASE weight[m] > 0
    <3>1. m \in Worked(weight)
      BY <2>1 DEF Worked
    <3>2. InFront(Queue(pool, weight), Worked(weight), m) = {k \in S : Before(pool, weight, k, m)}
      BY <3>1 DEF InFront, Queue, Worked, Before
    <3> QED BY <2>1, <3>1, <3>2 DEF Lucky
  <2>2. CASE ~(weight[m] > 0)
    BY <2>2 DEF Lucky, Worked
  <2> QED BY <2>1, <2>2
<1>3. \A m \in S : w[m] = floor[m] + mark[m] /\ mark[m] \in Nat /\ mark[m] = (IF m \in L THEN 1 ELSE 0)
                   /\ floor[m] = Floor(pool, weight, m)
  <2> HIDE DEF w, floor, L, n
  <2>1. \A m \in S : w[m] = floor[m] + (IF m \in L THEN 1 ELSE 0)
    BY <1>1, <1>2
  <2> QED BY <2>1 DEF floor
<1>4. \A m \in S : floor[m] \in Nat
  BY Quotas
<1>5. IsFiniteSet(S) /\ L \subseteq S
  BY DEF WeightOK, Lucky, Worked
<1>6. Cardinality(L) = n /\ n = pool - SumFunctionOnSet(floor, S)
  BY LuckyOnes DEF LeftOver, TotalOf, SumFunction
<1>7. w = [m \in S |-> w[m]] /\ DOMAIN w = S
  BY <1>1
<1> HIDE DEF w, floor, mark, L, n, S
<1>8. SumFunctionOnSet(w, S) = SumFunctionOnSet(floor, S) + SumFunctionOnSet(mark, S)
  <2>1. \A m \in S : floor[m] \in Int /\ mark[m] \in Int /\ w[m] = floor[m] + mark[m]
    BY <1>3, <1>4
  <2> QED BY <1>5, <2>1, SumOfTwo
<1>9. SumFunctionOnSet(mark, S) = Cardinality(L)
  BY <1>3, <1>5, SumOfMarks
<1>10. SumFunctionOnSet(floor, S) \in Nat
  BY <1>4, <1>5, SumNat
<1>11. TotalOf(w) = pool
  <2>1. TotalOf(w) = SumFunctionOnSet(w, S)
    BY <1>7 DEF TotalOf, SumFunction
  <2> QED BY <1>6, <1>8, <1>9, <1>10, <2>1
<1>12. \A m \in S : w[m] \in Nat
  BY <1>3, <1>4
<1>13. w = [m \in S |-> Floor(pool, weight, m) + (IF m \in L THEN 1 ELSE 0)]
  BY <1>3, <1>7
<1> QED
  BY <1>11, <1>12, <1>13 DEF w, L, S

-----------------------------------------------------------------------------
(* The largest remainder method. *)

\* Rounding a quota, down or up.
LEMMA RoundedQuota ==
    ASSUME NEW t \in Nat \ {0}, NEW f \in Nat, NEW r \in 0..(t - 1), NEW q \in Nat, q = t * f + r,
           NEW g \in Nat, g * t < q + t, q < (g + 1) * t
    PROVE  g = f + (IF g * t > q THEN 1 ELSE 0)
<1>1. /\ t * f \in Nat /\ g * t \in Nat
      /\ (g + 1) * t = g * t + t /\ g * t = t * g
  OBVIOUS
<1>2. ASSUME g >= f + 2 PROVE FALSE
  <2>1. t * g >= t * (f + 2) /\ t * (f + 2) = t * f + t + t
    BY <1>2
  <2> QED BY <1>1, <2>1
<1>3. ASSUME g + 1 <= f PROVE FALSE
  <2>1. t * (g + 1) <= t * f /\ t * (g + 1) = t * g + t
    BY <1>3
  <2> QED BY <1>1, <2>1
<1>4. g = f \/ g = f + 1
  BY <1>2, <1>3
<1>5. CASE g = f
  BY <1>1, <1>5
<1>6. CASE g = f + 1
  <2>1. g * t = t * f + t
    BY <1>6
  <2> QED BY <1>1, <1>6, <2>1
<1> QED
  BY <1>4, <1>5, <1>6

LEMMA QuotaRounded ==
    ASSUME NEW t \in Nat \ {0}, NEW f \in Nat, NEW r \in 0..(t - 1), NEW q \in Nat, q = t * f + r,
           NEW g \in Nat, NEW lucky \in BOOLEAN, g = f + (IF lucky THEN 1 ELSE 0), lucky => r > 0
    PROVE  g * t < q + t /\ q < (g + 1) * t /\ (g * t > q <=> lucky)
<1>1. t * f \in Nat /\ f * t = t * f /\ (f + 1) * t = t * f + t /\ (f + 1 + 1) * t = t * f + t + t
  OBVIOUS
<1>2. CASE lucky
  <2>1. g = f + 1 /\ r > 0
    BY <1>2
  <2>2. g * t = t * f + t /\ (g + 1) * t = t * f + t + t
    BY <1>1, <2>1
  <2> HIDE <1>1
  <2> QED BY <1>1, <1>2, <2>1, <2>2
<1>3. CASE ~lucky
  <2>1. g = f
    BY <1>3
  <2>2. g * t = t * f /\ (g + 1) * t = t * f + t
    BY <1>1, <2>1
  <2> QED BY <1>1, <1>3, <2>1, <2>2
<1> QED
  BY <1>2, <1>3

\* No part is larger than the whole.
LEMMA PartOfTotal ==
    ASSUME NEW f, IsFiniteSet(DOMAIN f), \A m \in DOMAIN f : f[m] \in Nat, NEW x \in DOMAIN f
    PROVE  f[x] <= TotalOf(f)
<1> DEFINE S == DOMAIN f
<1>1. IsFiniteSet(S \ {x}) /\ \A m \in S \ {x} : f[m] \in Nat
  BY FS_Subset
<1>2. SumFunctionOnSet(f, S \ {x}) \in Nat
  BY <1>1, SumNat
<1>3. SumFunctionOnSet(f, S) = f[x] + SumFunctionOnSet(f, S \ {x})
  BY SumTakeOut
<1> QED
  BY <1>2, <1>3 DEF TotalOf, SumFunction

\* What a division in Hamilton's way is, in the terms above.
LEMMA HamiltonMeans ==
    ASSUME NEW pool \in Nat, NEW weight, NEW f
    PROVE  LET S == DOMAIN weight
               t == TotalOf(weight)
               up == {m \in S : f[m] * t > pool * weight[m]}
           IN  f \in Hamilton(pool, weight) <=>
                 /\ f \in [S -> 0..pool] /\ TotalOf(f) = pool
                 /\ \A m \in S : /\ f[m] * t < pool * weight[m] + t
                                 /\ pool * weight[m] < (f[m] + 1) * t
                                 /\ weight[m] = 0 => f[m] = 0
                 /\ \A m \in up, k \in Worked(weight) \ up :
                       \/ Rest(pool, weight, m) > Rest(pool, weight, k)
                       \/ Rest(pool, weight, m) = Rest(pool, weight, k) /\ m < k
BY Zenon DEF Hamilton, Worked, Rest

(* The split by work is that division. *)
LEMMA SplitIsHamiltons ==
    ASSUME NEW pool \in Nat, NEW weight, WeightOK(weight), TotalOf(weight) # 0
    PROVE  AllocateByWeight(pool, weight) \in Hamilton(pool, weight)
<1> DEFINE S == DOMAIN weight
           t == TotalOf(weight)
           w == AllocateByWeight(pool, weight)
           L == Lucky(pool, weight)
           W == Worked(weight)
           up == {m \in S : w[m] * t > pool * weight[m]}
<1>1. /\ w = [m \in S |-> Floor(pool, weight, m) + (IF m \in L THEN 1 ELSE 0)]
      /\ (\A m \in S : w[m] \in Nat) /\ TotalOf(w) = pool
  BY WorkSplit
<1>2. FirstOf(Queue(pool, weight), W, L) /\ L \subseteq Unfinished(pool, weight) /\ L \subseteq W /\ W \subseteq S
  BY LuckyOnes DEF FirstOf, Worked
<1> HIDE DEF w, L
<1>3. DOMAIN w = S /\ w \in [S -> 0..pool]
  <2>1. DOMAIN w = S /\ w = [m \in S |-> w[m]]
    BY <1>1
  <2>2. \A m \in S : w[m] <= pool
    BY <1>1, <2>1, PartOfTotal DEF WeightOK
  <2> HIDE DEF S
  <2>3. \A m \in S : w[m] \in 0..pool
    BY <1>1, <2>2
  <2> QED BY <2>1, <2>3
<1>4. ASSUME NEW m \in S
      PROVE  /\ w[m] * t < pool * weight[m] + t /\ pool * weight[m] < (w[m] + 1) * t
             /\ weight[m] = 0 => w[m] = 0
             /\ m \in up <=> m \in L
  <2> DEFINE q == pool * weight[m]
             f == Floor(pool, weight, m)
             r == Rest(pool, weight, m)
  <2>1. t \in Nat \ {0} /\ q \in Nat /\ q = t * f + r /\ f \in Nat /\ r \in 0..(t - 1)
    BY Quotas
  <2>2. w[m] \in Nat /\ w[m] = f + (IF m \in L THEN 1 ELSE 0)
    BY <1>1
  <2>3. m \in L => r > 0
    BY <1>2 DEF Unfinished
  <2>4. weight[m] = 0 => f = 0 /\ r = 0
    BY Quotas
  <2>5. m \in up <=> w[m] * t > q
    OBVIOUS
  <2> HIDE DEF q, f, r, t, up
  <2>6. w[m] * t < q + t /\ q < (w[m] + 1) * t /\ (w[m] * t > q <=> m \in L)
    <3> DEFINE lucky == m \in L
    <3>1. lucky \in BOOLEAN /\ w[m] = f + (IF lucky THEN 1 ELSE 0) /\ (lucky => r > 0)
      BY <2>2, <2>3
    <3> HIDE DEF lucky
    <3>2. w[m] * t < q + t /\ q < (w[m] + 1) * t /\ (w[m] * t > q <=> lucky)
      BY <2>1, <2>2, <3>1, QuotaRounded
    <3> QED BY <3>2 DEF lucky
  <2>7. weight[m] = 0 => w[m] = 0
    <3>1. weight[m] = 0 => m \notin L
      BY <2>3, <2>4
    <3> QED BY <2>2, <2>4, <3>1
  <2> QED BY <2>5, <2>6, <2>7 DEF q
<1>5. up = L
  <2>1. L \subseteq S /\ up \subseteq S
    BY <1>2
  <2> HIDE DEF up
  <2> QED BY <1>4, <2>1
<1>6. ASSUME NEW m \in up, NEW k \in W \ up
      PROVE  \/ Rest(pool, weight, m) > Rest(pool, weight, k)
             \/ Rest(pool, weight, m) = Rest(pool, weight, k) /\ m < k
  <2>1. <<m, k>> \in Queue(pool, weight)
    BY <1>2, <1>5 DEF FirstOf
  <2> QED BY <2>1 DEF Queue, Before, Rest
<1> QED
  <2> HIDE DEF t, W
  <2>1. \A m \in S : /\ w[m] * t < pool * weight[m] + t
                     /\ pool * weight[m] < (w[m] + 1) * t
                     /\ weight[m] = 0 => w[m] = 0
    BY <1>4
  <2>2. \A m \in up, k \in W \ up :
           \/ Rest(pool, weight, m) > Rest(pool, weight, k)
           \/ Rest(pool, weight, m) = Rest(pool, weight, k) /\ m < k
    BY <1>6
  <2>3. w \in [S -> 0..pool] /\ TotalOf(w) = pool
    BY <1>1, <1>3
  <2>4. w \in Hamilton(pool, weight)
    BY <2>1, <2>2, <2>3, HamiltonMeans DEF t, W
  <2> QED BY <2>4 DEF w

(* There is no other. *)
LEMMA HamiltonsIsTheSplit ==
    ASSUME NEW pool \in Nat, NEW weight, WeightOK(weight), TotalOf(weight) # 0,
           NEW f \in Hamilton(pool, weight)
    PROVE  f = AllocateByWeight(pool, weight)
<1> DEFINE S == DOMAIN weight
           t == TotalOf(weight)
           w == AllocateByWeight(pool, weight)
           L == Lucky(pool, weight)
           W == Worked(weight)
           Q == Queue(pool, weight)
           up == {m \in S : f[m] * t > pool * weight[m]}
           floor == [m \in S |-> Floor(pool, weight, m)]
           mark == [m \in S |-> IF m \in up THEN 1 ELSE 0]
<1>1. /\ f \in [S -> 0..pool] /\ TotalOf(f) = pool
      /\ \A m \in S : /\ f[m] * t < pool * weight[m] + t
                      /\ pool * weight[m] < (f[m] + 1) * t
                      /\ weight[m] = 0 => f[m] = 0
      /\ \A m \in up, k \in W \ up :
            \/ Rest(pool, weight, m) > Rest(pool, weight, k)
            \/ Rest(pool, weight, m) = Rest(pool, weight, k) /\ m < k
  BY HamiltonMeans
<1>2. w = [m \in S |-> Floor(pool, weight, m) + (IF m \in L THEN 1 ELSE 0)]
  BY WorkSplit
<1>3. FirstOf(Q, W, L) /\ Cardinality(L) = LeftOver(pool, weight) /\ StrictOrder(Q, W) /\ IsFiniteSet(W)
  BY LuckyOnes, QueueIsOrder
<1>4. ASSUME NEW m \in S
      PROVE  /\ f[m] = Floor(pool, weight, m) + (IF m \in up THEN 1 ELSE 0)
             /\ Floor(pool, weight, m) \in Nat
             /\ m \in up => m \in W
  <2> DEFINE q == pool * weight[m]
             v == Floor(pool, weight, m)
             r == Rest(pool, weight, m)
  <2>1. t \in Nat \ {0} /\ q \in Nat /\ q = t * v + r /\ v \in Nat /\ r \in 0..(t - 1) /\ weight[m] \in Nat
    BY Quotas DEF WeightOK
  <2>2. f[m] \in Nat /\ f[m] * t < q + t /\ q < (f[m] + 1) * t /\ (weight[m] = 0 => f[m] = 0)
    BY <1>1
  <2>3. m \in up <=> f[m] * t > q
    OBVIOUS
  <2>4. m \in W <=> weight[m] > 0
    BY DEF Worked
  <2> HIDE DEF q, v, r, t, up, W
  <2>5. f[m] = v + (IF f[m] * t > q THEN 1 ELSE 0)
    BY <2>1, <2>2, RoundedQuota
  <2>6. weight[m] = 0 => ~(f[m] * t > q)
    <3>1. weight[m] = 0 => f[m] * t = 0
      BY <2>1, <2>2
    <3> QED BY <2>1, <3>1
  <2> QED BY <2>1, <2>3, <2>4, <2>5, <2>6 DEF v
<1>5. up \subseteq W /\ up \subseteq S
  BY <1>4
<1>6. FirstOf(Q, W, up)
  <2> SUFFICES ASSUME NEW m \in up, NEW k \in W \ up PROVE <<m, k>> \in Q
    BY <1>5 DEF FirstOf
  <2>1. \/ Rest(pool, weight, m) > Rest(pool, weight, k)
        \/ Rest(pool, weight, m) = Rest(pool, weight, k) /\ m < k
    BY <1>1
  <2>2. m \in W /\ k \in W /\ weight[m] > 0
    BY <1>5 DEF Worked
  <2> QED BY <2>1, <2>2 DEF Queue, Before, Rest
<1>7. IsFiniteSet(S)
  BY DEF WeightOK
<1>8. DOMAIN f = S /\ f = [m \in S |-> f[m]]
  BY <1>1
<1>9. \A m \in S : mark[m] = (IF m \in up THEN 1 ELSE 0) /\ floor[m] = Floor(pool, weight, m)
  OBVIOUS
<1>10. LeftOver(pool, weight) = pool - SumFunctionOnSet(floor, S)
  BY DEF LeftOver, TotalOf, SumFunction
<1> HIDE DEF S, t, w, L, W, Q, up, floor, mark
<1>11. Cardinality(up) = LeftOver(pool, weight)
  <2>1. \A m \in S : floor[m] \in Int /\ mark[m] \in Int /\ f[m] = floor[m] + mark[m] /\ floor[m] \in Nat
    BY <1>4, <1>9
  <2>2. SumFunctionOnSet(f, S) = SumFunctionOnSet(floor, S) + SumFunctionOnSet(mark, S)
    BY <1>7, <2>1, SumOfTwo
  <2>3. SumFunctionOnSet(mark, S) = Cardinality(up)
    BY <1>5, <1>7, <1>9, SumOfMarks
  <2>4. SumFunctionOnSet(f, S) = pool
    BY <1>1, <1>8 DEF TotalOf, SumFunction
  <2>5. SumFunctionOnSet(floor, S) \in Nat /\ Cardinality(up) \in Nat
    <3>1. SumFunctionOnSet(floor, S) \in Nat
      BY <1>7, <2>1, SumNat
    <3>2. Cardinality(up) \in Nat
      BY <1>5, <1>7, FS_Subset, FS_CardinalityType
    <3> QED BY <3>1, <3>2
  <2> QED BY <1>10, <2>2, <2>3, <2>4, <2>5
<1>12. up = L
  BY <1>3, <1>6, <1>11, FirstIsUnique
<1>13. \A m \in S : f[m] = Floor(pool, weight, m) + (IF m \in L THEN 1 ELSE 0)
  BY <1>4, <1>12
<1>14. f = w
  BY <1>2, <1>8, <1>13
<1> QED
  BY <1>14 DEF w

LEMMA LargestRemainder ==
    ASSUME NEW pool \in Nat, NEW weight, WeightOK(weight), TotalOf(weight) # 0
    PROVE  Hamilton(pool, weight) = {AllocateByWeight(pool, weight)}
BY SplitIsHamiltons, HamiltonsIsTheSplit

-----------------------------------------------------------------------------
(* What the participants receive. *)

BooksOK(l) ==
    /\ IsFiniteSet(l.socios) /\ l.socios \subseteq Nat
    /\ WeightOK(l.work)

\* A function on a larger set, zero elsewhere.
LEMMA SumElsewhereZero ==
    ASSUME NEW S, IsFiniteSet(S), NEW f, NEW g, DOMAIN f \subseteq S,
           \A m \in S : g[m] = IF m \in DOMAIN f THEN f[m] ELSE 0,
           \A m \in DOMAIN f : f[m] \in Nat
    PROVE  SumFunctionOnSet(g, S) = TotalOf(f)
<1>1. IsFiniteSet(DOMAIN f) /\ \A m \in DOMAIN f : g[m] = f[m]
  BY FS_Subset
<1>2. SumFunctionOnSet(g, S) = SumFunctionOnSet(g, DOMAIN f)
  BY SumWiden
<1>3. SumFunctionOnSet(g, DOMAIN f) = SumFunctionOnSet(f, DOMAIN f)
  BY <1>1, SumSame
<1> QED
  BY <1>2, <1>3 DEF TotalOf, SumFunction

\* Everybody's share is a natural number.
LEMMA SharesAreNat ==
    ASSUME NEW l, BooksOK(l), NEW n \in Nat, NEW bps \in 0..BpsTotal
    PROVE  LET s == Shares(l, n, bps)
           IN  DOMAIN s = Participants(l) /\ \A m \in DOMAIN s : s[m] \in Nat
<1> DEFINE pp == PartnerPool(n, bps)
           wp == WorkPool(n, bps)
           e == AllocateEqual(pp, l.socios)
           w == AllocateByWeight(wp, l.work)
<1>1. pp \in Nat /\ wp \in Nat
  BY PoolsAddUp
<1>2. \A m \in l.socios : e[m] \in Nat
  <2>1. CASE l.socios = {}
    BY <2>1
  <2>2. CASE l.socios # {}
    <3> HIDE DEF pp
    <3> QED BY <1>1, <2>2, EqualSplit DEF BooksOK
  <2> QED BY <2>1, <2>2
<1>3. \A m \in DOMAIN l.work : w[m] \in Nat
  <2>1. CASE TotalOf(l.work) = 0
    BY <2>1 DEF AllocateByWeight
  <2>2. CASE TotalOf(l.work) # 0
    <3> HIDE DEF wp
    <3> QED BY <1>1, <2>2, WorkSplit DEF BooksOK
  <2> QED BY <2>1, <2>2
<1>4. /\ DOMAIN Shares(l, n, bps) = Participants(l)
      /\ \A m \in Participants(l) :
            Shares(l, n, bps)[m] = (IF m \in l.socios THEN e[m] ELSE 0)
                                    + (IF m \in DOMAIN l.work THEN w[m] ELSE 0)
  BY DEF Shares
<1> HIDE DEF e, w, pp, wp
<1> QED
  BY <1>2, <1>3, <1>4

(* All that is requested is handed out, and nothing else. *)
LEMMA SharesAddUp ==
    ASSUME NEW l, BooksOK(l), NEW n \in Nat, NEW bps \in 0..BpsTotal, Simulable(l, n, bps)
    PROVE  TotalOf(Shares(l, n, bps)) = n
<1> DEFINE pp == PartnerPool(n, bps)
           wp == WorkPool(n, bps)
           e == AllocateEqual(pp, l.socios)
           w == AllocateByWeight(wp, l.work)
           P == Participants(l)
           toSocios == [m \in P |-> IF m \in l.socios THEN e[m] ELSE 0]
           toWorkers == [m \in P |-> IF m \in DOMAIN l.work THEN w[m] ELSE 0]
           s == Shares(l, n, bps)
<1>1. pp \in Nat /\ wp \in Nat /\ pp + wp = n /\ (bps = 0 => pp = 0) /\ (bps = BpsTotal => wp = 0)
  BY PoolsAddUp
<1>2. bps \in Nat /\ bps <= BpsTotal /\ BpsTotal \in Nat
  BY DEF BpsTotal
<1>3. IsFiniteSet(P) /\ l.socios \subseteq P /\ DOMAIN l.work \subseteq P
  BY FS_Union DEF BooksOK, WeightOK, Participants
<1>4. DOMAIN e = l.socios /\ (\A m \in l.socios : e[m] \in Nat) /\ TotalOf(e) = pp
  <2>1. l.socios = {} => pp = 0
    <3>1. l.socios = {} => ~(bps > 0)
      BY DEF Simulable
    <3> QED BY <1>1, <1>2, <3>1
  <2> HIDE DEF pp
  <2> QED BY <1>1, <2>1, EqualSplit DEF BooksOK
<1>5. DOMAIN w = DOMAIN l.work /\ (\A m \in DOMAIN l.work : w[m] \in Nat) /\ TotalOf(w) = wp
  <2>1. CASE TotalOf(l.work) = 0
    <3>1. w = [m \in DOMAIN l.work |-> 0]
      BY <2>1 DEF AllocateByWeight
    <3>2. wp = 0
      <4>1. ~(TotalOf(l.work) > 0)
        BY <2>1
      <4>2. ~(bps < BpsTotal)
        BY <4>1 DEF Simulable
      <4> QED BY <1>1, <1>2, <4>2
    <3> HIDE DEF w, wp
    <3>3. TotalOf(w) = 0
      BY <3>1, SumOfZeros DEF TotalOf, BooksOK, WeightOK
    <3> QED BY <3>1, <3>2, <3>3
  <2>2. CASE TotalOf(l.work) # 0
    <3> HIDE DEF wp
    <3>1. /\ w = [m \in DOMAIN l.work |->
                    Floor(wp, l.work, m) + (IF m \in Lucky(wp, l.work) THEN 1 ELSE 0)]
          /\ (\A m \in DOMAIN l.work : w[m] \in Nat) /\ TotalOf(w) = wp
      BY <1>1, <2>2, WorkSplit DEF BooksOK
    <3> QED BY <3>1
  <2> QED BY <2>1, <2>2
<1>6. /\ DOMAIN s = P
      /\ \A m \in P : /\ s[m] = toSocios[m] + toWorkers[m]
                      /\ toSocios[m] = (IF m \in l.socios THEN e[m] ELSE 0)
                      /\ toWorkers[m] = (IF m \in DOMAIN l.work THEN w[m] ELSE 0)
  BY DEF Shares
<1> HIDE DEF e, w, pp, wp, P, toSocios, toWorkers, s
<1>7. SumFunctionOnSet(toSocios, P) = pp
  BY <1>3, <1>4, <1>6, SumElsewhereZero
<1>8. SumFunctionOnSet(toWorkers, P) = wp
  BY <1>3, <1>5, <1>6, SumElsewhereZero
<1>9. \A m \in P : toSocios[m] \in Int /\ toWorkers[m] \in Int /\ s[m] = toSocios[m] + toWorkers[m]
  BY <1>4, <1>5, <1>6
<1>10. SumFunctionOnSet(s, P) = pp + wp
  BY <1>3, <1>7, <1>8, <1>9, SumOfTwo
<1> QED
  BY <1>1, <1>6, <1>10 DEF TotalOf, SumFunction, s
=============================================================================
