----------------------------- MODULE FiniteFacts -----------------------------
(***************************************************************************)
(* Facts about finite sets and numbers that the proofs about the modules   *)
(* share.  Induction comes first, said of a set instead of a formula: what *)
(* holds of the empty set and of T \cup {x} if of T is a set of sets, and  *)
(* every finite set is in it.                                              *)
(***************************************************************************)
EXTENDS FiniteSetTheorems, TLAPS

(* Of the finite sets of a family one has no other of the family in it.    *)
LEMMA SmallestMember ==
    ASSUME NEW S, NEW F, F # {}, F \subseteq FiniteSubsetsOf(S)
    PROVE  \E T \in F : \A U \in F : ~(U \subseteq T /\ U # T)
<1>1. IsWellFoundedOn(StrictSubsetOrdering(S), FiniteSubsetsOf(S))
  BY FS_StrictSubsetOrderingWellFounded
<1>2. \E T \in F : \A U \in F : <<U, T>> \notin StrictSubsetOrdering(S)
  BY <1>1, WFMin
<1>3. \A U, T \in F : U \subseteq T /\ U # T => <<U, T>> \in StrictSubsetOrdering(S)
  BY DEF StrictSubsetOrdering, FiniteSubsetsOf
<1> QED
  BY <1>2, <1>3

(* Induction over the subsets of a finite set.                             *)
LEMMA SetInduction ==
    ASSUME NEW S, IsFiniteSet(S), NEW G, {} \in G,
           \A T \in SUBSET S, x \in S : T \in G => T \cup {x} \in G
    PROVE  \A T \in SUBSET S : T \in G
<1> SUFFICES ASSUME NEW W \in SUBSET S, W \notin G PROVE FALSE
  OBVIOUS
<1> DEFINE F == {T \in SUBSET S : T \notin G}
<1>1. F # {} /\ F \subseteq FiniteSubsetsOf(S)
  BY FS_Subset DEF FiniteSubsetsOf
<1>2. PICK T \in F : \A U \in F : ~(U \subseteq T /\ U # T)
  <2> HIDE DEF F
  <2> QED BY <1>1, SmallestMember
<1>3. PICK x \in T : TRUE
  BY <1>2
<1>4. T \ {x} \in SUBSET S /\ T \ {x} \subseteq T /\ T \ {x} # T /\ (T \ {x}) \cup {x} = T
  BY <1>2, <1>3
<1>5. T \ {x} \in G
  BY <1>2, <1>4
<1> QED
  BY <1>2, <1>4, <1>5

(* Every set of numbers has a least one.                                   *)
LEMMA LeastNumber ==
    ASSUME NEW S \in SUBSET Nat, S # {}
    PROVE  \E n \in S : \A m \in S : n <= m
<1> DEFINE F == {1..n : n \in S}
<1>1. F # {} /\ F \subseteq FiniteSubsetsOf(Nat)
  <2>1. \A n \in S : IsFiniteSet(1..n)
    BY FS_Interval
  <2>2. \A n \in S : 1..n \in SUBSET Nat
    OBVIOUS
  <2> QED BY <2>1, <2>2 DEF FiniteSubsetsOf
<1>2. PICK T \in F : \A U \in F : ~(U \subseteq T /\ U # T)
  <2> HIDE DEF F
  <2> QED BY <1>1, SmallestMember
<1>3. PICK n \in S : T = 1..n
  BY <1>2
<1>4. ASSUME NEW m \in S, m < n PROVE FALSE
  <2>1. 1..m \in F /\ 1..m \subseteq T /\ n \in T /\ n \notin 1..m
    BY <1>3, <1>4
  <2> QED BY <2>1, <1>2
<1> QED
  BY <1>3, <1>4

(* Induction over the natural numbers.                                     *)
LEMMA NumberInduction ==
    ASSUME NEW G, 0 \in G, \A n \in Nat : n \in G => n + 1 \in G
    PROVE  Nat \subseteq G
<1> SUFFICES ASSUME Nat \ G # {} PROVE FALSE
  OBVIOUS
<1>1. PICK n \in Nat \ G : \A m \in Nat \ G : n <= m
  BY LeastNumber
<1>2. n # 0 /\ n - 1 \in Nat /\ n - 1 \in G
  BY <1>1
<1> QED
  BY <1>1, <1>2

-------------------------------------------------------------------------------
(***************************************************************************)
(* Folds.  The community modules fold over a set by a recursive function   *)
(* on its subsets; here is what such a function, g being the operation and *)
(* pick the choice of the next element, does in the end.                   *)
(***************************************************************************)
IsFold(f, S, base, g, pick) ==
    f = [T \in SUBSET S |-> IF T = {} THEN base ELSE g[<<pick[T], f[T \ {pick[T]}]>>]]

Picks(S) == {pick \in [(SUBSET S) \ {{}} -> S] : \A T \in DOMAIN pick : pick[T] \in T}

(* There is such a function, with values of the kind that the operation    *)
(* keeps: it is put together from the smaller sets to the larger ones.     *)
LEMMA FoldExists ==
    ASSUME NEW S, IsFiniteSet(S), NEW V, NEW base \in V, NEW g \in [S \X V -> V],
           NEW pick \in Picks(S)
    PROVE  \E f \in [SUBSET S -> V] : IsFold(f, S, base, g, pick)
<1> DEFINE UpTo(n) == {T \in SUBSET S : Cardinality(T) <= n}
           Step(f, T) == IF T = {} THEN base ELSE g[<<pick[T], f[T \ {pick[T]}]>>]
           G == {n \in Nat : \E f \in [UpTo(n) -> V] : \A T \in UpTo(n) : f[T] = Step(f, T)}
<1>1. \A T \in SUBSET S : IsFiniteSet(T) /\ Cardinality(T) \in Nat /\ Cardinality(T) <= Cardinality(S)
  BY FS_Subset, FS_CardinalityType
<1>2. \A T \in SUBSET S : T # {} =>
         /\ pick[T] \in T /\ pick[T] \in S /\ T \ {pick[T]} \in SUBSET S
         /\ Cardinality(T \ {pick[T]}) = Cardinality(T) - 1
  <2> SUFFICES ASSUME NEW T \in SUBSET S, T # {}
               PROVE  /\ pick[T] \in T /\ pick[T] \in S /\ T \ {pick[T]} \in SUBSET S
                      /\ Cardinality(T \ {pick[T]}) = Cardinality(T) - 1
    OBVIOUS
  <2>1. pick[T] \in T /\ pick[T] \in S /\ T \ {pick[T]} \in SUBSET S
    BY DEF Picks
  <2> QED BY <2>1, <1>1, FS_RemoveElement
<1>3. 0 \in G
  <2>1. UpTo(0) = {{}}
    BY <1>1, FS_EmptySet
  <2>2. \A T \in UpTo(0) : [U \in UpTo(0) |-> base][T] = Step([U \in UpTo(0) |-> base], T)
    BY <2>1
  <2> QED BY <2>2
<1>4. ASSUME NEW n \in Nat, n \in G PROVE n + 1 \in G
  <2>1. PICK f \in [UpTo(n) -> V] : \A T \in UpTo(n) : f[T] = Step(f, T)
    BY <1>4
  <2> DEFINE h == [T \in UpTo(n + 1) |-> IF T \in UpTo(n) THEN f[T] ELSE Step(f, T)]
  <2>2. \A T \in UpTo(n + 1) : T # {} => T \ {pick[T]} \in UpTo(n) /\ T \ {pick[T]} \in UpTo(n + 1)
    BY <1>1, <1>2
  <2>3. {} \in UpTo(n)
    BY FS_EmptySet
  <2>4. \A T \in UpTo(n + 1) : h[T] \in V
    BY <2>2, <2>3, <1>2
  <2>5. \A T \in UpTo(n + 1) : h[T] = Step(h, T)
    BY <2>1, <2>2, <2>3
  <2>6. h \in [UpTo(n + 1) -> V]
    BY <2>4
  <2>7. \E k \in [UpTo(n + 1) -> V] : \A T \in UpTo(n + 1) : k[T] = Step(k, T)
    <3> HIDE DEF h, UpTo
    <3> QED BY <2>5, <2>6
  <2> HIDE DEF UpTo, Step
  <2> QED BY <2>7
<1>5. Cardinality(S) \in G
  <2> HIDE DEF G
  <2>1. Nat \subseteq G
    BY <1>3, <1>4, NumberInduction
  <2> QED BY <1>1, <2>1
<1>6. UpTo(Cardinality(S)) = SUBSET S
  BY <1>1
<1>7. PICK f \in [SUBSET S -> V] : \A T \in SUBSET S : f[T] = Step(f, T)
  BY <1>5, <1>6
<1> QED
  BY <1>7 DEF IsFold

(* Functions on the subsets of a finite set agree if they do on the empty  *)
(* set, and on a set whenever they do on what is left of it after a pick.  *)
FollowsFrom(f, h, S, pick) ==
    \A T \in (SUBSET S) \ {{}} : f[T \ {pick[T]}] = h[T \ {pick[T]}] => f[T] = h[T]

(* Two functions on the subsets that start alike and go on alike are       *)
(* equal.                                                                  *)
LEMMA FoldsAgree ==
    ASSUME NEW S, IsFiniteSet(S), NEW pick \in Picks(S), NEW f, NEW h, f[{}] = h[{}],
           FollowsFrom(f, h, S, pick)
    PROVE  \A T \in SUBSET S : f[T] = h[T]
<1> SUFFICES ASSUME NEW W \in SUBSET S, h[W] # f[W] PROVE FALSE
  OBVIOUS
<1> DEFINE F == {T \in SUBSET S : h[T] # f[T]}
<1>1. F # {} /\ F \subseteq FiniteSubsetsOf(S)
  BY FS_Subset DEF FiniteSubsetsOf
<1>2. PICK T \in F : \A X \in F : ~(X \subseteq T /\ X # T)
  <2> HIDE DEF F
  <2> QED BY <1>1, SmallestMember
<1>3. T # {} => T \ {pick[T]} \subseteq T /\ T \ {pick[T]} # T /\ T \ {pick[T]} \in SUBSET S
  BY <1>2 DEF Picks
<1>4. T # {} => h[T \ {pick[T]}] = f[T \ {pick[T]}]
  BY <1>2, <1>3
<1> QED
  BY <1>2, <1>4 DEF FollowsFrom

-------------------------------------------------------------------------------
(***************************************************************************)
(* Sums.                                                                   *)
(***************************************************************************)
Pick(T) == CHOOSE x \in T : TRUE

IsSum(f, fun, S) ==
    f = [T \in SUBSET S |-> IF T = {} THEN 0 ELSE fun[Pick(T)] + f[T \ {Pick(T)}]]

(* The choice that the library's sums make. *)
LEMMA PickPicks ==
    ASSUME NEW S
    PROVE  [T \in (SUBSET S) \ {{}} |-> Pick(T)] \in Picks(S)
<1>1. \A T \in (SUBSET S) \ {{}} : Pick(T) \in T
  BY DEF Pick
<1> QED
  BY <1>1 DEF Picks

Summable(fun, S) == \A x \in S : fun[x] \in Nat

(* A function that sums up is there, ...                                   *)
LEMMA SumExists ==
    ASSUME NEW S, IsFiniteSet(S), NEW fun, Summable(fun, S)
    PROVE  \E f \in [SUBSET S -> Nat] : IsSum(f, fun, S)
<1> DEFINE pick == [T \in (SUBSET S) \ {{}} |-> Pick(T)]
           g == [p \in S \X Nat |-> fun[p[1]] + p[2]]
<1>1. pick \in Picks(S) /\ g \in [S \X Nat -> Nat]
  <2>1. pick \in Picks(S)
    BY PickPicks
  <2>2. g \in [S \X Nat -> Nat]
    BY DEF Summable
  <2> QED BY <2>1, <2>2
<1>2. PICK f \in [SUBSET S -> Nat] : IsFold(f, S, 0, g, pick)
  <2> HIDE DEF pick, g
  <2> QED BY <1>1, FoldExists
<1>3. \A T \in (SUBSET S) \ {{}} : pick[T] = Pick(T) /\ Pick(T) \in S /\ f[T \ {Pick(T)}] \in Nat
  BY <1>1 DEF Picks
<1>4. \A T \in (SUBSET S) \ {{}} :
         g[<<pick[T], f[T \ {pick[T]}]>>] = fun[Pick(T)] + f[T \ {Pick(T)}]
  BY <1>3
<1>5. \A T \in SUBSET S : f[T] = IF T = {} THEN 0 ELSE g[<<pick[T], f[T \ {pick[T]}]>>]
  <2> HIDE DEF g, pick
  <2> QED BY <1>2 DEF IsFold
<1>6. \A T \in SUBSET S : f[T] = IF T = {} THEN 0 ELSE fun[Pick(T)] + f[T \ {Pick(T)}]
  <2> HIDE DEF g, pick
  <2> QED BY <1>4, <1>5
<1> QED
  BY <1>6 DEF IsSum

SumsUp(f, fun, S) == \A U \in SUBSET S : SumFunctionOnSet(fun, U) = f[U]

(* ... and it gives the sum of every subset.                               *)
LEMMA SumIsThere ==
    ASSUME NEW S, IsFiniteSet(S), NEW fun, Summable(fun, S)
    PROVE  \E f \in [SUBSET S -> Nat] : IsSum(f, fun, S) /\ SumsUp(f, fun, S)
<1>1. PICK f \in [SUBSET S -> Nat] : IsSum(f, fun, S)
  BY SumExists
<1>2. ASSUME NEW U \in SUBSET S PROVE SumFunctionOnSet(fun, U) = f[U]
  <2> DEFINE h == CHOOSE h : IsSum(h, fun, U)
             pick == [T \in (SUBSET U) \ {{}} |-> Pick(T)]
  <2>1. IsFiniteSet(U) /\ Summable(fun, U)
    BY FS_Subset DEF Summable
  <2>2. IsSum(h, fun, U)
    BY <2>1, SumExists
  <2>3. SumFunctionOnSet(fun, U) = h[U]
    BY Zenon DEF SumFunctionOnSet, FoldFunctionOnSet, MapThenFoldSet, IsSum, Pick
  <2>4. \A T \in SUBSET U :
           /\ h[T] = IF T = {} THEN 0 ELSE fun[Pick(T)] + h[T \ {Pick(T)}]
           /\ f[T] = IF T = {} THEN 0 ELSE fun[Pick(T)] + f[T \ {Pick(T)}]
    <3> HIDE DEF h
    <3> QED BY <1>1, <2>2 DEF IsSum
  <2>5. pick \in Picks(U) /\ \A T \in SUBSET U : T # {} => pick[T] = Pick(T)
    BY PickPicks
  <2>6. \A T \in SUBSET U : h[T] = f[T]
    <3> HIDE DEF h, pick
    <3>1. h[{}] = f[{}]
      BY <2>4
    <3>2. FollowsFrom(h, f, U, pick)
      BY <2>4, <2>5 DEF FollowsFrom
    <3> QED BY <2>1, <2>5, <3>1, <3>2, FoldsAgree
  <2> QED BY <2>3, <2>6
<1> QED
  BY <1>1, <1>2 DEF SumsUp

(* The sum over a set is any one summand and the sum over the rest.        *)
LEMMA SumRemove ==
    ASSUME NEW S, IsFiniteSet(S), NEW fun, Summable(fun, S)
    PROVE  /\ SumFunctionOnSet(fun, S) \in Nat
           /\ SumFunctionOnSet(fun, {}) = 0
           /\ \A x \in S : SumFunctionOnSet(fun, S) = fun[x] + SumFunctionOnSet(fun, S \ {x})
<1>1. PICK f \in [SUBSET S -> Nat] : IsSum(f, fun, S) /\ SumsUp(f, fun, S)
  BY SumIsThere
<1>2. \A T \in SUBSET S : f[T] = IF T = {} THEN 0 ELSE fun[Pick(T)] + f[T \ {Pick(T)}]
  BY <1>1 DEF IsSum
<1> DEFINE Good(T) == \A x \in T : f[T] = fun[x] + f[T \ {x}]
           G == {n \in Nat : \A T \in SUBSET S : Cardinality(T) = n => Good(T)}
<1>3. \A T \in SUBSET S : IsFiniteSet(T) /\ Cardinality(T) \in Nat
  BY FS_Subset, FS_CardinalityType
<1>4. 0 \in G
  BY <1>3, FS_EmptySet
<1>5. ASSUME NEW n \in Nat, n \in G PROVE n + 1 \in G
  <2> SUFFICES ASSUME NEW T \in SUBSET S, Cardinality(T) = n + 1, NEW x \in T
               PROVE  f[T] = fun[x] + f[T \ {x}]
    OBVIOUS
  <2> DEFINE p == Pick(T)
  <2>1. p \in T /\ f[T] = fun[p] + f[T \ {p}]
    BY <1>2 DEF Pick
  <2>2. CASE p = x
    BY <2>1, <2>2
  <2>3. CASE p # x
    <3> HIDE DEF p
    <3>1. Cardinality(T \ {p}) = n /\ Cardinality(T \ {x}) = n
      <4>1. IsFiniteSet(T) /\ Cardinality(T \ {p}) = Cardinality(T) - 1
        BY <2>1, <1>3, FS_RemoveElement
      <4>2. Cardinality(T \ {x}) = Cardinality(T) - 1
        BY <1>3, FS_RemoveElement
      <4> QED BY <4>1, <4>2
    <3>2. f[T \ {p}] = fun[x] + f[(T \ {p}) \ {x}] /\ f[T \ {x}] = fun[p] + f[(T \ {x}) \ {p}]
      BY <1>5, <2>1, <2>3, <3>1
    <3>3. (T \ {p}) \ {x} = (T \ {x}) \ {p}
      OBVIOUS
    <3>4. fun[x] \in Nat /\ fun[p] \in Nat /\ f[(T \ {x}) \ {p}] \in Nat
      BY <2>1 DEF Summable
    <3>5. f[T] = fun[p] + (fun[x] + f[(T \ {x}) \ {p}])
      BY <2>1, <3>2, <3>3
    <3>6. f[T \ {x}] = fun[p] + f[(T \ {x}) \ {p}]
      BY <3>2
    <3> QED BY <3>4, <3>5, <3>6
  <2> QED BY <2>2, <2>3
<1>6. Cardinality(S) \in G
  <2> HIDE DEF G
  <2>1. Nat \subseteq G
    BY <1>4, <1>5, NumberInduction
  <2> QED BY <1>3, <2>1
<1>7. SumFunctionOnSet(fun, {}) = 0 /\ SumFunctionOnSet(fun, S) = f[S]
  BY <1>1, <1>2 DEF SumsUp
<1>8. \A x \in S : f[S] = fun[x] + f[S \ {x}] /\ f[S \ {x}] = SumFunctionOnSet(fun, S \ {x})
  BY <1>1, <1>6 DEF SumsUp
<1> QED
  BY <1>7, <1>8

(* Equal summands, equal sums.                                             *)
LEMMA SumEqual ==
    ASSUME NEW S, IsFiniteSet(S), NEW fun, NEW new,
           Summable(fun, S), \A x \in S : new[x] = fun[x]
    PROVE  SumFunctionOnSet(new, S) = SumFunctionOnSet(fun, S)
<1> DEFINE G == {T \in SUBSET S : SumFunctionOnSet(new, T) = SumFunctionOnSet(fun, T)}
<1>1. {} \in G
  BY SumRemove, FS_EmptySet DEF Summable
<1>2. ASSUME NEW T \in SUBSET S, NEW x \in S, T \in G PROVE T \cup {x} \in G
  <2>1. CASE x \in T
    <3>1. T \cup {x} = T
      BY <2>1
    <3> QED BY <1>2, <3>1
  <2>2. CASE x \notin T
    <3>1. /\ T \cup {x} \in SUBSET S /\ IsFiniteSet(T \cup {x})
          /\ (T \cup {x}) \ {x} = T /\ x \in T \cup {x}
          /\ Summable(fun, T \cup {x}) /\ Summable(new, T \cup {x})
      BY <2>2, FS_Subset DEF Summable
    <3>2. /\ SumFunctionOnSet(new, T \cup {x}) = new[x] + SumFunctionOnSet(new, T)
          /\ SumFunctionOnSet(fun, T \cup {x}) = fun[x] + SumFunctionOnSet(fun, T)
      BY <3>1, SumRemove
    <3> QED BY <1>2, <3>1, <3>2
  <2> QED BY <2>1, <2>2
<1>3. \A T \in SUBSET S : T \in G
  <2> HIDE DEF G
  <2> QED BY <1>1, <1>2, SetInduction
<1> QED
  BY <1>3

(* One summand grows by one.                                               *)
GrowsAt(fun, new, c, S) == \A x \in S : new[x] = fun[x] + IF x = c THEN 1 ELSE 0

(* Where one summand grows by one, the sum does if it is in the set.       *)
LEMMA SumIncrement ==
    ASSUME NEW S, IsFiniteSet(S), NEW fun, NEW new, NEW c,
           Summable(fun, S), GrowsAt(fun, new, c, S)
    PROVE  SumFunctionOnSet(new, S) = SumFunctionOnSet(fun, S) + IF c \in S THEN 1 ELSE 0
<1>1. /\ Summable(fun, S \ {c}) /\ Summable(new, S)
      /\ \A x \in S \ {c} : new[x] = fun[x]
      /\ c \in S => new[c] = fun[c] + 1 /\ fun[c] \in Nat
  BY DEF Summable, GrowsAt
<1>2. IsFiniteSet(S \ {c})
  BY FS_RemoveElement
<1>3. SumFunctionOnSet(new, S \ {c}) = SumFunctionOnSet(fun, S \ {c})
  BY <1>1, <1>2, SumEqual
<1>4. SumFunctionOnSet(fun, S \ {c}) \in Nat /\ SumFunctionOnSet(fun, S) \in Nat
  BY <1>1, <1>2, SumRemove
<1>5. CASE c \in S
  <2>1. SumFunctionOnSet(new, S) = new[c] + SumFunctionOnSet(new, S \ {c})
    BY <1>1, <1>5, SumRemove
  <2>2. SumFunctionOnSet(fun, S) = fun[c] + SumFunctionOnSet(fun, S \ {c})
    BY <1>1, <1>5, SumRemove
  <2> QED BY <1>1, <1>3, <1>4, <1>5, <2>1, <2>2
<1>6. CASE c \notin S
  <2>1. S \ {c} = S
    BY <1>6
  <2> QED BY <1>3, <1>4, <1>6, <2>1
<1> QED
  BY <1>5, <1>6

-------------------------------------------------------------------------------
(***************************************************************************)
(* The first of an ordered set.  The order is a set of pairs.              *)
(***************************************************************************)
StrictOrder(R, S) ==
    /\ \A x \in S : <<x, x>> \notin R
    /\ \A x, y, z \in S : <<x, y>> \in R /\ <<y, z>> \in R => <<x, z>> \in R
    /\ \A x, y \in S : x = y \/ <<x, y>> \in R \/ <<y, x>> \in R

Before(x, R, S) == {y \in S : <<y, x>> \in R}
Firsts(k, R, S) == {x \in S : Cardinality(Before(x, R, S)) < k}

(* How many come before an element is a number that grows along the order. *)
LEMMA RankGrows ==
    ASSUME NEW S, IsFiniteSet(S), NEW R, StrictOrder(R, S)
    PROVE  /\ \A x \in S : IsFiniteSet(Before(x, R, S)) /\ Cardinality(Before(x, R, S)) \in Nat
           /\ \A x, y \in S : <<x, y>> \in R =>
                 Cardinality(Before(x, R, S)) < Cardinality(Before(y, R, S))
<1>1. \A x \in S : IsFiniteSet(Before(x, R, S)) /\ Cardinality(Before(x, R, S)) \in Nat
  BY FS_Subset, FS_CardinalityType DEF Before
<1>2. ASSUME NEW x \in S, NEW y \in S, <<x, y>> \in R
      PROVE  Cardinality(Before(x, R, S)) < Cardinality(Before(y, R, S))
  <2>1. /\ Before(x, R, S) \subseteq Before(y, R, S)
        /\ x \in Before(y, R, S) /\ x \notin Before(x, R, S)
    BY <1>2 DEF StrictOrder, Before
  <2>2. /\ Cardinality(Before(x, R, S)) <= Cardinality(Before(y, R, S))
        /\ Cardinality(Before(x, R, S)) # Cardinality(Before(y, R, S))
    BY <1>1, <2>1, FS_Subset
  <2> QED BY <1>1, <2>2
<1> QED
  BY <1>1, <1>2

(* There are no more than k firsts: the last of them has fewer than k      *)
(* before it.                                                              *)
LEMMA FirstsAreFew ==
    ASSUME NEW S, IsFiniteSet(S), NEW R, StrictOrder(R, S), NEW k \in Nat
    PROVE  /\ IsFiniteSet(Firsts(k, R, S))
           /\ Cardinality(Firsts(k, R, S)) \in Nat
           /\ Cardinality(Firsts(k, R, S)) <= k
<1> DEFINE T == Firsts(k, R, S)
           rank(x) == Cardinality(Before(x, R, S))
<1>1. T \subseteq S /\ IsFiniteSet(T) /\ Cardinality(T) \in Nat
  BY FS_Subset, FS_CardinalityType DEF Firsts
<1>2. /\ \A x \in S : IsFiniteSet(Before(x, R, S)) /\ rank(x) \in Nat
      /\ \A x, y \in S : <<x, y>> \in R => rank(x) < rank(y)
      /\ \A x \in T : rank(x) < k
  BY RankGrows DEF Firsts
<1>3. CASE T = {}
  BY <1>1, <1>3, FS_EmptySet
<1>4. CASE T # {}
  <2> DEFINE N == {k - rank(x) : x \in T}
  <2>1. N # {} /\ N \in SUBSET Nat
    BY <1>1, <1>2, <1>4
  <2>2. PICK n \in N : \A m \in N : n <= m
    <3> HIDE DEF N
    <3> QED BY <2>1, LeastNumber
  <2>3. PICK y \in T : \A x \in T : k - rank(y) <= k - rank(x)
    BY <2>2
  <2>4. \A x \in T : ~(<<y, x>> \in R)
    <3> SUFFICES ASSUME NEW x \in T, <<y, x>> \in R PROVE FALSE
      OBVIOUS
    <3>1. rank(y) < rank(x) /\ rank(x) \in Nat /\ rank(y) \in Nat
      BY <1>1, <1>2
    <3>2. k - rank(y) <= k - rank(x)
      BY <2>3
    <3> HIDE DEF rank
    <3> QED BY <3>1, <3>2
  <2>5. T \subseteq Before(y, R, S) \cup {y}
    BY <1>1, <2>4 DEF StrictOrder, Before
  <2>6. /\ IsFiniteSet(Before(y, R, S) \cup {y})
        /\ Cardinality(Before(y, R, S) \cup {y}) <= rank(y) + 1
        /\ Cardinality(Before(y, R, S) \cup {y}) \in Nat
    <3>1. IsFiniteSet(Before(y, R, S)) /\ rank(y) \in Nat
      BY <1>1, <1>2
    <3>2. /\ IsFiniteSet(Before(y, R, S) \cup {y})
          /\ Cardinality(Before(y, R, S) \cup {y})
                = IF y \in Before(y, R, S) THEN rank(y) ELSE rank(y) + 1
      BY <3>1, FS_AddElement
    <3> HIDE DEF rank
    <3> QED BY <3>1, <3>2
  <2>7. Cardinality(T) <= Cardinality(Before(y, R, S) \cup {y})
    BY <2>5, <2>6, FS_Subset
  <2>8. rank(y) < k /\ rank(y) \in Nat
    BY <1>1, <1>2
  <2> HIDE DEF T, rank
  <2> QED BY <1>1, <2>6, <2>7, <2>8 DEF T
<1> QED
  BY <1>3, <1>4, <1>1

(* If that leaves one out there are k of them, and all come before it.     *)
LEMMA FirstsAreFirst ==
    ASSUME NEW S, IsFiniteSet(S), NEW R, StrictOrder(R, S), NEW k \in Nat,
           NEW x \in S, x \notin Firsts(k, R, S)
    PROVE  /\ Cardinality(Firsts(k, R, S)) = k
           /\ \A y \in Firsts(k, R, S) : <<y, x>> \in R
<1> DEFINE T == Firsts(k, R, S)
           rank(y) == Cardinality(Before(y, R, S))
           N == {rank(y) : y \in S \ T}
<1>1. /\ \A y \in S : IsFiniteSet(Before(y, R, S)) /\ rank(y) \in Nat
      /\ \A y, z \in S : <<y, z>> \in R => rank(y) < rank(z)
      /\ \A y \in S : y \in T <=> rank(y) < k
  BY RankGrows DEF Firsts
<1>2. IsFiniteSet(T) /\ Cardinality(T) \in Nat /\ Cardinality(T) <= k /\ T \subseteq S
  BY FirstsAreFew DEF Firsts
<1>3. PICK n \in N : \A m \in N : n <= m
  <2>1. N # {} /\ N \in SUBSET Nat
    BY <1>1
  <2> HIDE DEF N
  <2> QED BY <2>1, LeastNumber
<1>4. PICK z \in S \ T : \A y \in S \ T : rank(z) <= rank(y)
  BY <1>3
<1>5. Before(z, R, S) \subseteq T
  <2> SUFFICES ASSUME NEW y \in S, <<y, z>> \in R, y \notin T PROVE FALSE
    BY DEF Before
  <2>1. rank(y) < rank(z) /\ rank(z) <= rank(y) /\ rank(y) \in Nat /\ rank(z) \in Nat
    BY <1>1, <1>4
  <2> HIDE DEF rank
  <2> QED BY <2>1
<1>6. rank(z) <= Cardinality(T) /\ rank(z) \in Nat /\ ~(rank(z) < k)
  BY <1>1, <1>2, <1>4, <1>5, FS_Subset
<1>7. Cardinality(T) = k
  <2> HIDE DEF T, rank
  <2> QED BY <1>2, <1>6
<1>8. ASSUME NEW y \in T PROVE <<y, x>> \in R
  <2>1. rank(y) < k /\ ~(rank(x) < k) /\ rank(x) \in Nat /\ rank(y) \in Nat /\ y \in S /\ y # x
    BY <1>1, <1>2
  <2>2. ~(rank(x) < rank(y))
    <3> HIDE DEF rank
    <3> QED BY <2>1
  <2>3. ~(<<x, y>> \in R)
    BY <1>1, <2>1, <2>2
  <2> QED BY <2>1, <2>3 DEF StrictOrder
<1> QED
  BY <1>7, <1>8
===============================================================================
