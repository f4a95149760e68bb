---------------------------- MODULE PageText_proofs ----------------------------
(***************************************************************************)
(* What the text algorithms of PageText compute, for every text.           *)
(***************************************************************************)
EXTENDS PageText, FiniteFacts, SequenceTheorems

(* The least and the greatest of some numbers.                             *)
LEMMA MinIsLeast ==
    ASSUME NEW S \in SUBSET Nat, S # {}
    PROVE  Min(S) \in S /\ \A x \in S : Min(S) <= x
  BY LeastNumber DEF Min

(* The same of the greatest, which the library's folds begin with.         *)
LEMMA MaxIsGreatest ==
    ASSUME NEW n \in Nat, NEW S \in SUBSET (1..n), S # {}
    PROVE  Max(S) \in S /\ \A x \in S : x <= Max(S)
<1> DEFINE D == {n - x : x \in S}
<1>1. D \in SUBSET Nat /\ D # {}
  <2>1. \A x \in S : n - x \in Nat
    OBVIOUS
  <2> QED BY <2>1
<1>2. PICK d \in D : \A e \in D : d <= e
  <2> HIDE DEF D
  <2> QED BY <1>1, LeastNumber
<1>3. PICK y \in S : \A x \in S : n - y <= n - x
  BY <1>2
<1>4. \A x \in S : y >= x
  BY <1>3
<1> QED
  BY <1>4 DEF Max

-------------------------------------------------------------------------------
(***************************************************************************)
(* A fold over a sequence from the left: the value after each element.     *)
(***************************************************************************)
Steps(h, n, base, g) == h[0] = base /\ \A k \in 1..n : h[k] = g[<<k, h[k - 1]>>]

(* Such values exist for every operation, step by step.                    *)
LEMMA StepsExist ==
    ASSUME NEW n \in Nat, NEW V, NEW base \in V, NEW g \in [(1..n) \X V -> V]
    PROVE  \E h \in [0..n -> V] : Steps(h, n, base, g)
<1> DEFINE Upto(m) == [0..m -> V]
           G == {m \in Nat : m <= n => \E h \in Upto(m) : Steps(h, m, base, g)}
<1>1. 0 \in G
  <2>1. [k \in 0..0 |-> base] \in Upto(0) /\ Steps([k \in 0..0 |-> base], 0, base, g)
    BY DEF Steps
  <2> QED BY <2>1
<1>2. ASSUME NEW m \in Nat, m \in G PROVE m + 1 \in G
  <2> SUFFICES ASSUME m + 1 <= n PROVE \E h \in Upto(m + 1) : Steps(h, m + 1, base, g)
    OBVIOUS
  <2>1. PICK h \in Upto(m) : Steps(h, m, base, g)
    BY <1>2
  <2> DEFINE new == [k \in 0..m + 1 |-> IF k <= m THEN h[k] ELSE g[<<k, h[m]>>]]
  <2>2. new \in Upto(m + 1)
    <3>1. m + 1 \in 1..n /\ h[m] \in V
      OBVIOUS
    <3>2. g[<<m + 1, h[m]>>] \in V
      BY <3>1
    <3>3. \A k \in 0..m + 1 : new[k] \in V
      BY <3>2
    <3> QED BY <3>3
  <2>3. Steps(new, m + 1, base, g)
    <3>1. new[0] = base
      BY <2>1 DEF Steps
    <3>2. ASSUME NEW k \in 1..m + 1 PROVE new[k] = g[<<k, new[k - 1]>>]
      <4>1. CASE k <= m
        BY <2>1, <4>1 DEF Steps
      <4>2. CASE k = m + 1
        BY <4>2
      <4> QED BY <4>1, <4>2
    <3> HIDE DEF new
    <3> QED BY <3>1, <3>2 DEF Steps
  <2> QED BY <2>2, <2>3
<1>3. Nat \subseteq G
  <2> HIDE DEF G
  <2> QED BY <1>1, <1>2, NumberInduction
<1> QED
  BY <1>3

(* The library's way to the same value: from the whole domain down to the  *)
(* empty set, always without the greatest index.                           *)
TakesGreatest(f, n, base, g) ==
    f = [T \in SUBSET (1..n) |-> IF T = {} THEN base ELSE g[<<Max(T), f[T \ {Max(T)}]>>]]

(* The greatest index is a choice the facts about folds allow.             *)
LEMMA GreatestPicks ==
    ASSUME NEW n \in Nat
    PROVE  [T \in (SUBSET (1..n)) \ {{}} |-> Max(T)] \in Picks(1..n)
<1>1. \A T \in (SUBSET (1..n)) \ {{}} : Max(T) \in T
  BY MaxIsGreatest
<1> QED
  BY <1>1 DEF Picks

(* A function of that kind exists.                                         *)
LEMMA GreatestExists ==
    ASSUME NEW n \in Nat, NEW V, NEW base \in V, NEW g \in [(1..n) \X V -> V]
    PROVE  \E f \in [SUBSET (1..n) -> V] : TakesGreatest(f, n, base, g)
<1> DEFINE pick == [T \in (SUBSET (1..n)) \ {{}} |-> Max(T)]
<1>1. PICK f \in [SUBSET (1..n) -> V] : IsFold(f, 1..n, base, g, pick)
  <2>1. pick \in Picks(1..n)
    BY GreatestPicks
  <2>2. IsFiniteSet(1..n)
    BY FS_Interval
  <2> HIDE DEF pick
  <2> QED BY <2>1, <2>2, FoldExists
<1> QED
  BY <1>1 DEF IsFold, TakesGreatest

(* Both ways lead to the same value.                                       *)
LEMMA GreatestSteps ==
    ASSUME NEW n \in Nat, NEW base, NEW g, NEW f, NEW h,
           TakesGreatest(f, n, base, g), Steps(h, n, base, g)
    PROVE  f[1..n] = h[n]
<1> DEFINE G == {m \in Nat : m <= n => f[1..m] = h[m]}
<1>1. \A T \in SUBSET (1..n) : f[T] = IF T = {} THEN base ELSE g[<<Max(T), f[T \ {Max(T)}]>>]
  BY DEF TakesGreatest
<1>2. 0 \in G
  <2>1. 1..0 = {} /\ {} \in SUBSET (1..n)
    OBVIOUS
  <2>2. f[{}] = base /\ h[0] = base
    BY <1>1, <2>1 DEF Steps
  <2> QED BY <2>1, <2>2
<1>3. ASSUME NEW m \in Nat, m \in G PROVE m + 1 \in G
  <2> SUFFICES ASSUME m + 1 <= n PROVE f[1..m + 1] = h[m + 1]
    OBVIOUS
  <2>1. (1..m + 1) # {} /\ 1..m + 1 \in SUBSET (1..n)
    OBVIOUS
  <2>2. Max(1..m + 1) = m + 1
    <3>1. Max(1..m + 1) \in 1..m + 1 /\ \A x \in 1..m + 1 : x <= Max(1..m + 1)
      BY <2>1, MaxIsGreatest
    <3>2. m + 1 \in 1..m + 1
      OBVIOUS
    <3> QED BY <3>1, <3>2
  <2>3. (1..m + 1) \ {m + 1} = 1..m
    OBVIOUS
  <2>4. f[1..m + 1] = g[<<m + 1, f[1..m]>>]
    BY <1>1, <2>1, <2>2, <2>3
  <2>5. f[1..m] = h[m]
    BY <1>3
  <2>6. m + 1 \in 1..n /\ (m + 1) - 1 = m
    OBVIOUS
  <2> QED BY <2>4, <2>5, <2>6 DEF Steps
<1>4. Nat \subseteq G
  <2> HIDE DEF G
  <2> QED BY <1>2, <1>3, NumberInduction
<1> QED
  BY <1>4

-------------------------------------------------------------------------------
(***************************************************************************)
(* Join: the text after each line.                                         *)
(***************************************************************************)
JoinSteps(h, first, rest) ==
    /\ h \in [0..Len(rest) -> Text]
    /\ h[0] = first
    /\ \A k \in 1..Len(rest) : h[k] = h[k - 1] \o <<LF>> \o rest[k]

JoinOn(first, rest) == FoldLeft(LAMBDA text, line : text \o <<LF>> \o line, first, rest)

JoinFold(f, first, rest) ==
    f = [T \in SUBSET DOMAIN rest |->
            IF T = {} THEN first ELSE f[T \ {Max(T)}] \o <<LF>> \o rest[Max(T)]]

(* What the library's fold makes of Join, definition by definition.        *)
LEMMA JoinUnfolds ==
    ASSUME NEW first, NEW rest
    PROVE  JoinOn(first, rest) = (CHOOSE f : JoinFold(f, first, rest))[DOMAIN rest]
  BY Zenon DEF JoinOn, JoinFold, FoldLeft, MapThenFoldSet

(* The texts after each line exist.                                        *)
LEMMA JoinStepsExist ==
    ASSUME NEW first \in Text, NEW rest \in Seq(Text)
    PROVE  \E h : JoinSteps(h, first, rest)
<1> DEFINE n == Len(rest)
           g == [p \in (1..n) \X Text |-> p[2] \o <<LF>> \o rest[p[1]]]
<1>1. g \in [(1..n) \X Text -> Text]
  <2>1. <<LF>> \in Text /\ \A k \in 1..n : rest[k] \in Text
    BY DEF Text, Char, Syntax
  <2>2. \A p \in (1..n) \X Text : p[2] \o <<LF>> \o rest[p[1]] \in Text
    BY <2>1 DEF Text
  <2> QED BY <2>2
<1>2. \A k \in 1..n : \A t \in Text : g[<<k, t>>] = t \o <<LF>> \o rest[k]
  OBVIOUS
<1>3. n \in Nat
  OBVIOUS
<1> HIDE DEF g
<1>4. PICK h \in [0..n -> Text] : Steps(h, n, first, g)
  BY <1>1, <1>3, StepsExist
<1>5. \A k \in 1..n : k - 1 \in 0..n
  BY <1>3
<1> QED
  BY <1>2, <1>4, <1>5 DEF Steps, JoinSteps

(* Join is the last of them.                                               *)
LEMMA JoinIsSteps ==
    ASSUME NEW first \in Text, NEW rest \in Seq(Text), NEW h, JoinSteps(h, first, rest)
    PROVE  JoinOn(first, rest) = h[Len(rest)]
<1> DEFINE n == Len(rest)
           g == [p \in (1..n) \X Text |-> p[2] \o <<LF>> \o rest[p[1]]]
           pick == [T \in (SUBSET (1..n)) \ {{}} |-> Max(T)]
<1>1. n \in Nat /\ DOMAIN rest = 1..n
  OBVIOUS
<1>2. \A k \in 1..n : \A t \in Text : g[<<k, t>>] = t \o <<LF>> \o rest[k]
  OBVIOUS
<1>3. g \in [(1..n) \X Text -> Text]
  <2>1. <<LF>> \in Text /\ \A k \in 1..n : rest[k] \in Text
    BY DEF Text, Char, Syntax
  <2>2. \A p \in (1..n) \X Text : p[2] \o <<LF>> \o rest[p[1]] \in Text
    BY <2>1 DEF Text
  <2> QED BY <2>2
<1> HIDE DEF g
<1>4. Steps(h, n, first, g)
  <2>1. h \in [0..n -> Text] /\ \A k \in 1..n : k - 1 \in 0..n
    BY <1>1 DEF JoinSteps
  <2>2. \A k \in 1..n : h[k - 1] \in Text
    BY <2>1
  <2> QED BY <1>2, <2>2 DEF Steps, JoinSteps
<1>5. PICK f \in [SUBSET (1..n) -> Text] : TakesGreatest(f, n, first, g)
  BY <1>1, <1>3, GreatestExists
<1>6. f[1..n] = h[n]
  BY <1>1, <1>4, <1>5, GreatestSteps
<1>7. pick \in Picks(1..n) /\ \A T \in (SUBSET (1..n)) \ {{}} : pick[T] = Max(T) /\ pick[T] \in T
  <2>1. pick \in Picks(1..n)
    BY <1>1, GreatestPicks
  <2>2. \A T \in (SUBSET (1..n)) \ {{}} : pick[T] = Max(T)
    OBVIOUS
  <2> HIDE DEF pick
  <2> QED BY <2>1, <2>2 DEF Picks
<1> HIDE DEF pick
<1>8. JoinFold(f, first, rest)
  <2>1. ASSUME NEW T \in SUBSET (1..n)
        PROVE  f[T] = IF T = {} THEN first ELSE f[T \ {Max(T)}] \o <<LF>> \o rest[Max(T)]
    <3>1. f[T] = IF T = {} THEN first ELSE g[<<Max(T), f[T \ {Max(T)}]>>]
      BY <1>5 DEF TakesGreatest
    <3>2. CASE T = {}
      BY <3>1, <3>2
    <3>3. CASE T # {}
      <4>1. Max(T) \in 1..n /\ f[T \ {Max(T)}] \in Text
        BY <1>7, <3>3
      <4> QED BY <1>2, <3>1, <3>3, <4>1
    <3> QED BY <3>2, <3>3
  <2>2. f = [T \in SUBSET (1..n) |-> f[T]]
    OBVIOUS
  <2> QED BY <1>1, <2>1, <2>2 DEF JoinFold
<1>9. PICK i : i = (CHOOSE fold : JoinFold(fold, first, rest)) /\ JoinFold(i, first, rest)
  BY <1>8
<1>10. \A T \in SUBSET (1..n) : f[T] = i[T]
  <2>0. ASSUME NEW e, JoinFold(e, first, rest), NEW T \in SUBSET (1..n)
        PROVE  e[T] = IF T = {} THEN first ELSE e[T \ {Max(T)}] \o <<LF>> \o rest[Max(T)]
    <3>1. e = [U \in SUBSET (1..n) |->
                 IF U = {} THEN first ELSE e[U \ {Max(U)}] \o <<LF>> \o rest[Max(U)]]
      BY <1>1, <2>0 DEF JoinFold
    <3> QED BY <3>1, Zenon
  <2>1. f[{}] = first /\ i[{}] = first
    BY <1>8, <1>9, <2>0
  <2>2. FollowsFrom(f, i, 1..n, pick)
    <3>1. ASSUME NEW T \in (SUBSET (1..n)) \ {{}}, f[T \ {pick[T]}] = i[T \ {pick[T]}]
          PROVE  f[T] = i[T]
      <4>1. f[T] = f[T \ {Max(T)}] \o <<LF>> \o rest[Max(T)]
        BY <1>8, <2>0
      <4>2. i[T] = i[T \ {Max(T)}] \o <<LF>> \o rest[Max(T)]
        BY <1>9, <2>0
      <4> QED BY <1>7, <3>1, <4>1, <4>2
    <3> QED BY <3>1 DEF FollowsFrom
  <2>3. IsFiniteSet(1..n)
    BY <1>1, FS_Interval
  <2> DEFINE I == 1..n
  <2>4. IsFiniteSet(I) /\ pick \in Picks(I) /\ FollowsFrom(f, i, I, pick)
    BY <1>7, <2>2, <2>3
  <2>5. \A T \in SUBSET I : f[T] = i[T]
    <3> HIDE DEF I
    <3> QED BY <2>1, <2>4, FoldsAgree
  <2> QED BY <2>5
<1>11. JoinOn(first, rest) = i[1..n]
  BY <1>1, <1>9, JoinUnfolds
<1> QED
  BY <1>6, <1>10, <1>11

(* Join puts the other lines on the first.                                 *)
LEMMA JoinIsOn ==
    ASSUME NEW lines
    PROVE  Join(lines) = IF lines = << >> THEN << >> ELSE JoinOn(Head(lines), Tail(lines))
  BY Zenon DEF Join, JoinOn

(* Join of one line, and of one line more.                                 *)
LEMMA JoinIsText ==
    ASSUME NEW lines \in Seq(Text)
    PROVE  Join(lines) \in Text
<1>1. CASE lines = << >>
  <2>1. Join(lines) = << >>
    BY <1>1, JoinIsOn
  <2> QED BY <2>1 DEF Text
<1>2. CASE lines # << >>
  <2>1. Head(lines) \in Text /\ Tail(lines) \in Seq(Text)
    BY <1>2
  <2>2. PICK h : JoinSteps(h, Head(lines), Tail(lines))
    BY <2>1, JoinStepsExist
  <2>3. Join(lines) = JoinOn(Head(lines), Tail(lines))
    BY <1>2, JoinIsOn
  <2>4. Len(Tail(lines)) \in 0..Len(Tail(lines))
    BY <2>1
  <2> QED BY <2>1, <2>2, <2>3, <2>4, JoinIsSteps DEF JoinSteps
<1> QED
  BY <1>1, <1>2

(* The join of one line is that line.                                      *)
LEMMA JoinOne ==
    ASSUME NEW line \in Text
    PROVE  Join(<<line>>) = line
<1>1. Head(<<line>>) = line /\ Tail(<<line>>) = << >> /\ <<line>> # << >>
  OBVIOUS
<1>2. << >> \in Seq(Text) /\ Len(<< >>) = 0
  OBVIOUS
<1>3. PICK h : JoinSteps(h, line, << >>)
  BY <1>2, JoinStepsExist
<1>4. JoinOn(line, << >>) = line
  BY <1>2, <1>3, JoinIsSteps DEF JoinSteps
<1> QED
  BY <1>1, <1>4, JoinIsOn

(* A line more in the list is a line feed and that line more in the text.  *)
LEMMA JoinMore ==
    ASSUME NEW lines \in Seq(Text), lines # << >>, NEW line \in Text
    PROVE  Join(Append(lines, line)) = Join(lines) \o <<LF>> \o line
<1> DEFINE first == Head(lines)
           rest == Tail(lines)
           n == Len(rest)
           more == Append(rest, line)
<1>1. /\ first \in Text /\ rest \in Seq(Text) /\ n \in Nat
      /\ more \in Seq(Text) /\ Len(more) = n + 1
      /\ \A k \in 1..n : more[k] = rest[k]
      /\ more[n + 1] = line
  OBVIOUS
<1>2. /\ Append(lines, line) # << >> /\ Head(Append(lines, line)) = first
      /\ Tail(Append(lines, line)) = more
  BY HeadTailAppend
<1> HIDE DEF first, rest, more
<1>3. PICK h : JoinSteps(h, first, more)
  BY <1>1, JoinStepsExist
<1>4. JoinOn(first, more) = h[n] \o <<LF>> \o line
  <2>1. JoinOn(first, more) = h[n + 1]
    BY <1>1, <1>3, JoinIsSteps
  <2>2. n + 1 \in 1..n + 1 /\ (n + 1) - 1 = n
    BY <1>1
  <2>3. h[n + 1] = h[n] \o <<LF>> \o more[n + 1]
    BY <1>1, <1>3, <2>2 DEF JoinSteps
  <2> QED BY <1>1, <2>1, <2>3
<1>5. JoinOn(first, rest) = h[n]
  <2> DEFINE less == [k \in 0..n |-> h[k]]
  <2>1. JoinSteps(less, first, rest)
    <3>1. less \in [0..n -> Text] /\ less[0] = first
      BY <1>1, <1>3 DEF JoinSteps
    <3>2. ASSUME NEW k \in 1..n PROVE less[k] = less[k - 1] \o <<LF>> \o rest[k]
      <4>1. k \in 1..n + 1 /\ k \in 0..n /\ k - 1 \in 0..n
        BY <1>1
      <4>2. h[k] = h[k - 1] \o <<LF>> \o more[k]
        BY <1>1, <1>3, <4>1 DEF JoinSteps
      <4> QED BY <1>1, <4>1, <4>2
    <3> HIDE DEF less
    <3> QED BY <3>1, <3>2 DEF JoinSteps
  <2>2. less[n] = h[n]
    BY <1>1
  <2> HIDE DEF less
  <2> QED BY <1>1, <2>1, <2>2, JoinIsSteps
<1> QED
  BY <1>2, <1>4, <1>5, JoinIsOn DEF first, rest

-------------------------------------------------------------------------------
(***************************************************************************)
(* CutAt: the stops by their rank.                                         *)
(***************************************************************************)
UpTo(S, p) == {q \in S : q <= p}
Ranked(S, k) == CHOOSE p \in S : Cardinality(UpTo(S, p)) = k

(* Every number from one to how many there are is the rank of one of them. *)
LEMMA RankTypes ==
    ASSUME NEW S \in SUBSET Nat, IsFiniteSet(S)
    PROVE  /\ Cardinality(S) \in Nat
           /\ \A p \in S : /\ IsFiniteSet(UpTo(S, p))
                          /\ Cardinality(UpTo(S, p)) \in 1..Cardinality(S)
           /\ \A p, q \in S : p < q => Cardinality(UpTo(S, p)) < Cardinality(UpTo(S, q))
<1>1. Cardinality(S) \in Nat
  BY FS_CardinalityType
<1>2. ASSUME NEW p \in S
      PROVE  IsFiniteSet(UpTo(S, p)) /\ Cardinality(UpTo(S, p)) \in 1..Cardinality(S)
  <2>1. UpTo(S, p) \subseteq S /\ p \in UpTo(S, p)
    BY DEF UpTo
  <2>2. IsFiniteSet(UpTo(S, p)) /\ Cardinality(UpTo(S, p)) <= Cardinality(S)
    BY <2>1, FS_Subset
  <2>3. Cardinality(UpTo(S, p)) \in Nat /\ Cardinality(UpTo(S, p)) # 0
    BY <2>1, <2>2, FS_CardinalityType, FS_EmptySet
  <2> QED BY <1>1, <2>2, <2>3
<1>3. ASSUME NEW p \in S, NEW q \in S, p < q
      PROVE  Cardinality(UpTo(S, p)) < Cardinality(UpTo(S, q))
  <2>1. p \in Nat /\ q \in Nat /\ \A x \in S : x \in Nat /\ (x <= p => x <= q)
    BY <1>3
  <2>2. UpTo(S, p) \subseteq UpTo(S, q)
    BY <2>1 DEF UpTo
  <2>3. q \in UpTo(S, q) /\ q \notin UpTo(S, p)
    BY <1>3, <2>1 DEF UpTo
  <2> QED BY <1>2, <2>2, <2>3, FS_Subset
<1> QED
  BY <1>1, <1>2, <1>3

(* The stop of each rank is there, and has that rank.                      *)
LEMMA RankedIsThere ==
    ASSUME NEW S \in SUBSET Nat, IsFiniteSet(S)
    PROVE  /\ \A k \in 1..Cardinality(S) :
                  Ranked(S, k) \in S /\ Cardinality(UpTo(S, Ranked(S, k))) = k
           /\ \A p \in S : Ranked(S, Cardinality(UpTo(S, p))) = p
<1> DEFINE rank == [p \in S |-> Cardinality(UpTo(S, p))]
           I == 1..Cardinality(S)
<1>1. /\ Cardinality(S) \in Nat
      /\ \A p \in S : rank[p] \in I
      /\ \A p, q \in S : p < q => rank[p] < rank[q]
  BY RankTypes
<1>2. IsFiniteSet(I) /\ Cardinality(I) = Cardinality(S)
  BY <1>1, FS_Interval
<1>3. \A p, q \in S : rank[p] = rank[q] => p = q
  <2> HIDE DEF rank
  <2>1. \A p \in S : rank[p] \in Nat
    BY <1>1
  <2> QED BY <1>1, <2>1
<1>4. rank \in Injection(S, I)
  <2>1. rank \in [S -> I]
    BY <1>1
  <2> HIDE DEF rank, I
  <2> QED BY <1>3, <2>1 DEF Injection, IsInjective
<1>5. rank \in Surjection(S, I)
  <2> HIDE DEF rank, I
  <2> QED BY <1>2, <1>4, FS_Injection
<1>6. \A k \in I : \E p \in S : Cardinality(UpTo(S, p)) = k
  BY <1>5 DEF Surjection
<1>7. \A p, q \in S : Cardinality(UpTo(S, p)) = Cardinality(UpTo(S, q)) => p = q
  BY <1>3
<1>8. \A p \in S : Ranked(S, Cardinality(UpTo(S, p))) = p
  BY <1>7 DEF Ranked
<1> QED
  BY <1>6, <1>8 DEF Ranked

(* The pieces between the stops.                                           *)
StopsOf(s, positions) == positions \cup {Len(s) + 1}
StartOf(stops, k) == IF k = 1 THEN 1 ELSE Ranked(stops, k - 1) + 1
Piece(s, stops, k) == SubSeq(s, StartOf(stops, k), Ranked(stops, k) - 1)

(* CutAt gives the pieces between the stops, in order.                     *)
LEMMA CutIsPieces ==
    ASSUME NEW s, NEW positions
    PROVE  CutAt(s, positions) =
              [k \in 1..Cardinality(StopsOf(s, positions)) |->
                  Piece(s, StopsOf(s, positions), k)]
  BY Zenon DEF CutAt, StopsOf, Piece, StartOf, Ranked, UpTo

(* The stops of a text are some of its positions and the one behind it.    *)
LEMMA StopsAreFinite ==
    ASSUME NEW C, NEW s \in Seq(C), NEW positions \in SUBSET DOMAIN s
    PROVE  /\ StopsOf(s, positions) \in SUBSET (1..Len(s) + 1)
           /\ StopsOf(s, positions) \in SUBSET Nat
           /\ IsFiniteSet(StopsOf(s, positions))
           /\ Cardinality(StopsOf(s, positions)) \in Nat
           /\ Cardinality(StopsOf(s, positions)) >= 1
<1> DEFINE S == StopsOf(s, positions)
<1>1. Len(s) \in Nat /\ DOMAIN s = 1..Len(s)
  OBVIOUS
<1>2. S \in SUBSET (1..Len(s) + 1) /\ S \in SUBSET Nat /\ Len(s) + 1 \in S
  BY <1>1 DEF StopsOf
<1>3. IsFiniteSet(1..Len(s) + 1)
  BY <1>1, FS_Interval
<1> HIDE DEF S
<1>4. IsFiniteSet(S) /\ Cardinality(S) \in Nat
  BY <1>2, <1>3, FS_Subset, FS_CardinalityType
<1>5. Cardinality(S) # 0
  BY <1>2, <1>4, FS_EmptySet
<1> QED
  BY <1>2, <1>4, <1>5 DEF S

(* The pieces of a text over an alphabet are texts over it.               *)
LEMMA CutType ==
    ASSUME NEW C, NEW s \in Seq(C), NEW positions \in SUBSET DOMAIN s
    PROVE  /\ CutAt(s, positions) \in Seq(Seq(C))
           /\ CutAt(s, positions) # << >>
<1> DEFINE S == StopsOf(s, positions)
           K == Cardinality(S)
<1>1. S \in SUBSET (1..Len(s) + 1) /\ S \in SUBSET Nat /\ IsFiniteSet(S) /\ K \in Nat /\ K >= 1
  BY StopsAreFinite
<1>2. CutAt(s, positions) = [k \in 1..K |-> Piece(s, S, k)]
  BY CutIsPieces
<1> HIDE DEF S, K
<1>3. \A k \in 1..K : Ranked(S, k) \in 1..Len(s) + 1
  BY <1>1, RankedIsThere DEF K
<1>4. ASSUME NEW k \in 1..K PROVE Piece(s, S, k) \in Seq(C)
  <2>1. Len(s) \in Nat /\ \A i \in 1..Len(s) : s[i] \in C
    OBVIOUS
  <2>2. StartOf(S, k) \in Nat /\ StartOf(S, k) >= 1
    BY <1>1, <1>3, <2>1 DEF StartOf
  <2>3. Ranked(S, k) - 1 \in Nat /\ Ranked(S, k) - 1 <= Len(s)
    BY <1>3, <2>1
  <2>4. \A i \in StartOf(S, k)..Ranked(S, k) - 1 : s[i] \in C
    BY <2>1, <2>2, <2>3
  <2>5. SubSeq(s, StartOf(S, k), Ranked(S, k) - 1) \in Seq(C)
    BY <2>2, <2>3, <2>4, SubSeqProperties
  <2> QED BY <2>5 DEF Piece
<1>5. [k \in 1..K |-> Piece(s, S, k)] \in Seq(Seq(C))
  BY <1>1, <1>4
<1> DEFINE pieces == [k \in 1..K |-> Piece(s, S, k)]
<1>6. DOMAIN pieces # DOMAIN << >>
  BY <1>1
<1>7. pieces # << >>
  BY <1>6
<1> QED
  BY <1>2, <1>5, <1>7

-------------------------------------------------------------------------------
(***************************************************************************)
(* Split takes apart what Join puts together: a text is lines without line *)
(* feeds in exactly one way.                                               *)
(***************************************************************************)
LineText == {line \in Text : \A i \in DOMAIN line : line[i] # LF}
LineSeqs == Seq(LineText) \ {<< >>}

LineFeeds(s) == {i \in DOMAIN s : s[i] = LF}

(* Split gives texts, at least one.                                        *)
LEMMA SplitType ==
    ASSUME NEW s \in Text
    PROVE  Split(s) \in Seq(Text) /\ Split(s) # << >>
  BY CutType DEF Split, Text

(* A text without a line feed is one line.                                 *)
LEMMA SplitOne ==
    ASSUME NEW line \in LineText
    PROVE  Split(line) = <<line>>
<1> DEFINE n == Len(line)
           S == StopsOf(line, LineFeeds(line))
<1>1. line \in Text /\ n \in Nat /\ LineFeeds(line) = {}
  BY DEF LineText, Text, LineFeeds
<1>2. S = {n + 1}
  BY <1>1 DEF StopsOf
<1>3. Cardinality(S) = 1 /\ IsFiniteSet(S)
  BY <1>2, FS_Singleton
<1>4. Ranked(S, 1) = n + 1
  <2>1. Ranked(S, 1) \in S
    <3>1. S \in SUBSET Nat /\ 1 \in 1..Cardinality(S)
      BY <1>1, <1>2, <1>3
    <3> HIDE DEF S
    <3> QED BY <1>3, <3>1, RankedIsThere
  <2> QED BY <1>2, <2>1
<1>5. Piece(line, S, 1) = line
  <2>1. StartOf(S, 1) = 1 /\ Ranked(S, 1) - 1 = n
    BY <1>1, <1>4 DEF StartOf
  <2>2. SubSeq(line, 1, n) = line
    BY <1>1 DEF Text
  <2> QED BY <2>1, <2>2 DEF Piece
<1>6. Split(line) = [k \in 1..1 |-> Piece(line, S, k)]
  BY <1>3, CutIsPieces DEF Split, LineFeeds
<1> HIDE DEF S
<1>7. Split(line) = [k \in 1..1 |-> line]
  BY <1>5, <1>6
<1> QED
  BY <1>7

(* A line more in the text is a line more in the list.                     *)
LEMMA SplitMore ==
    ASSUME NEW s \in Text, NEW line \in LineText
    PROVE  Split(s \o <<LF>> \o line) = Append(Split(s), line)
<1> DEFINE n == Len(s)
           t == s \o <<LF>> \o line
           m == Len(t)
           S == StopsOf(s, LineFeeds(s))
           T == StopsOf(t, LineFeeds(t))
           K == Cardinality(S)
<1>1. /\ n \in Nat /\ t \in Text /\ m = n + 1 + Len(line) /\ m \in Nat
      /\ DOMAIN s = 1..n /\ DOMAIN t = 1..m /\ line \in Text
      /\ \A i \in 1..n : t[i] = s[i]
      /\ t[n + 1] = LF
      /\ \A i \in n + 2..m : t[i] = line[i - (n + 1)]
  <2>1. s \in Seq(Char) /\ line \in Seq(Char) /\ <<LF>> \in Seq(Char)
    BY DEF LineText, Text, Char, Syntax
  <2> QED BY <2>1 DEF Text
<1>2. \A i \in n + 2..m : t[i] # LF
  <2>1. \A i \in n + 2..m : i - (n + 1) \in DOMAIN line
    BY <1>1 DEF Text
  <2> QED BY <1>1, <2>1 DEF LineText
<1> HIDE DEF t
<1>3. LineFeeds(t) = LineFeeds(s) \cup {n + 1}
  <2>1. \A i \in 1..m : i \in 1..n \/ i = n + 1 \/ i \in n + 2..m
    BY <1>1
  <2>2. n + 1 \in 1..m /\ \A i \in 1..n : i \in 1..m
    BY <1>1 DEF Text
  <2> QED BY <1>1, <1>2, <2>1, <2>2 DEF LineFeeds
<1>4. T = S \cup {m + 1}
  BY <1>3 DEF StopsOf
<1>5. /\ S \in SUBSET (1..n + 1) /\ S \in SUBSET Nat /\ IsFiniteSet(S) /\ K \in Nat /\ K >= 1
      /\ T \in SUBSET Nat /\ IsFiniteSet(T) /\ n + 1 \in S
  <2>1. LineFeeds(s) \in SUBSET DOMAIN s /\ LineFeeds(t) \in SUBSET DOMAIN t
    BY DEF LineFeeds
  <2>2. n + 1 \in S
    BY DEF StopsOf
  <2>3. s \in Seq(Char) /\ t \in Seq(Char)
    BY <1>1 DEF Text
  <2>4. S \in SUBSET (1..n + 1) /\ S \in SUBSET Nat /\ IsFiniteSet(S) /\ K \in Nat /\ K >= 1
    BY <2>1, <2>3, StopsAreFinite
  <2>5. T \in SUBSET Nat /\ IsFiniteSet(T)
    BY <2>1, <2>3, StopsAreFinite
  <2> QED BY <2>2, <2>4, <2>5
<1> HIDE DEF S, T
<1>6. m + 1 \notin S /\ \A p \in S : p < m + 1
  BY <1>1, <1>5 DEF Text
<1>7. Cardinality(T) = K + 1
  BY <1>4, <1>5, <1>6, FS_AddElement
<1> HIDE DEF K
<1>8. ASSUME NEW k \in 1..K
      PROVE  Ranked(T, k) = Ranked(S, k) /\ Ranked(S, k) \in 1..n + 1
  <2> DEFINE p == Ranked(S, k)
  <2>1. p \in S /\ Cardinality(UpTo(S, p)) = k
    BY <1>5, RankedIsThere DEF K
  <2> HIDE DEF p
  <2>2. UpTo(T, p) = UpTo(S, p)
    <3>1. p \in Nat /\ m + 1 \in Nat /\ p < m + 1
      BY <1>1, <1>5, <1>6, <2>1
    <3>2. ~(m + 1 <= p)
      BY <3>1
    <3> QED BY <1>4, <3>2 DEF UpTo
  <2>3. Ranked(T, Cardinality(UpTo(T, p))) = p
    BY <1>4, <1>5, <2>1, RankedIsThere
  <2>4. p \in 1..n + 1
    BY <1>5, <2>1
  <2> QED BY <2>1, <2>2, <2>3, <2>4 DEF p
<1>9. Ranked(S, K) = n + 1 /\ Ranked(T, K + 1) = m + 1
  <2>1. UpTo(S, n + 1) = S
    <3>1. \A p \in S : p <= n + 1
      BY <1>5
    <3> QED BY <3>1 DEF UpTo
  <2>2. UpTo(T, m + 1) = T
    <3>1. \A p \in T : p \in Nat /\ (p < m + 1 \/ p = m + 1)
      BY <1>4, <1>5, <1>6
    <3>2. \A p \in T : p <= m + 1
      BY <1>1, <3>1
    <3> QED BY <3>2 DEF UpTo
  <2>3. Ranked(S, Cardinality(UpTo(S, n + 1))) = n + 1
    BY <1>5, RankedIsThere
  <2>4. m + 1 \in T
    BY <1>4
  <2>5. Ranked(T, Cardinality(UpTo(T, m + 1))) = m + 1
    BY <1>5, <2>4, RankedIsThere
  <2> QED BY <1>7, <2>1, <2>2, <2>3, <2>5 DEF K
<1>10. ASSUME NEW k \in 1..K PROVE Piece(t, T, k) = Piece(s, S, k)
  <2>1. StartOf(T, k) = StartOf(S, k) /\ StartOf(S, k) \in Nat /\ StartOf(S, k) >= 1
    <3>1. CASE k = 1
      BY <3>1 DEF StartOf
    <3>2. CASE k # 1
      <4>1. k - 1 \in 1..K
        BY <1>5, <3>2
      <4>2. Ranked(T, k - 1) = Ranked(S, k - 1) /\ Ranked(S, k - 1) \in 1..n + 1
        BY <1>8, <4>1
      <4> QED BY <3>2, <4>2 DEF StartOf
    <3> QED BY <3>1, <3>2
  <2> DEFINE a == StartOf(S, k)
             b == Ranked(S, k) - 1
  <2>2. b \in Nat /\ b <= n
    BY <1>1, <1>8
  <2>3. Piece(t, T, k) = SubSeq(t, a, b) /\ Piece(s, S, k) = SubSeq(s, a, b)
    BY <1>8, <2>1 DEF Piece
  <2>4. a \in Nat /\ a >= 1
    BY <2>1
  <2> HIDE DEF a, b
  <2>5. \A i \in a..b : t[i] = s[i]
    BY <1>1, <2>2, <2>4
  <2>6. SubSeq(t, a, b) = [i \in 1..b - a + 1 |-> t[a + i - 1]]
        /\ SubSeq(s, a, b) = [i \in 1..b - a + 1 |-> s[a + i - 1]]
    BY <2>2, <2>4
  <2>7. \A i \in 1..b - a + 1 : t[a + i - 1] = s[a + i - 1]
    <3> SUFFICES ASSUME NEW i \in 1..b - a + 1 PROVE t[a + i - 1] = s[a + i - 1]
      OBVIOUS
    <3>1. a + i - 1 \in a..b
      BY <2>2, <2>4
    <3> QED BY <2>5, <3>1
  <2> QED BY <2>3, <2>6, <2>7
<1>11. Piece(t, T, K + 1) = line
  <2>1. Piece(t, T, K + 1) = SubSeq(t, n + 2, m)
    <3>1. Ranked(T, (K + 1) - 1) = n + 1
      BY <1>5, <1>8, <1>9
    <3>2. StartOf(T, K + 1) = n + 2
      BY <1>1, <1>5, <3>1 DEF StartOf
    <3>3. Ranked(T, K + 1) - 1 = m
      BY <1>1, <1>9
    <3> QED BY <3>2, <3>3 DEF Piece
  <2>2. SubSeq(t, n + 2, m) = [i \in 1..m - (n + 2) + 1 |-> t[(n + 2) + i - 1]]
    BY <1>1
  <2>3. m - (n + 2) + 1 = Len(line) /\ Len(line) \in Nat
    BY <1>1 DEF Text
  <2>4. \A i \in 1..Len(line) : t[(n + 2) + i - 1] = line[i]
    <3> SUFFICES ASSUME NEW i \in 1..Len(line) PROVE t[(n + 2) + i - 1] = line[i]
      OBVIOUS
    <3>1. (n + 2) + i - 1 \in n + 2..m /\ ((n + 2) + i - 1) - (n + 1) = i
      BY <1>1, <2>3
    <3> QED BY <1>1, <3>1
  <2>5. line = [i \in 1..Len(line) |-> line[i]]
    BY <1>1 DEF Text
  <2> QED BY <2>1, <2>2, <2>3, <2>4, <2>5
<1>12. Split(s) = [k \in 1..K |-> Piece(s, S, k)]
  BY CutIsPieces DEF Split, LineFeeds, K, S
<1>13. Split(t) = [k \in 1..K + 1 |-> Piece(t, T, k)]
  <2>1. Split(t) = [k \in 1..Cardinality(T) |-> Piece(t, T, k)]
    BY CutIsPieces DEF Split, LineFeeds, T
  <2> QED BY <1>7, <2>1
<1>14. Split(t) = Append(Split(s), line)
  <2>1. Split(s) \in Seq(Text) /\ Len(Split(s)) = K /\ \A k \in 1..K : Split(s)[k] = Piece(s, S, k)
    BY <1>5, <1>12, SplitType
  <2>2. /\ DOMAIN Split(t) = 1..K + 1
        /\ \A k \in 1..K : Split(t)[k] = Piece(s, S, k)
        /\ Split(t)[K + 1] = line
    BY <1>5, <1>10, <1>11, <1>13
  <2>3. Split(t) \in Seq(Text)
    BY <1>1, SplitType
  <2>4. /\ Append(Split(s), line) \in Seq(Text) /\ Len(Append(Split(s), line)) = K + 1
        /\ \A k \in 1..K : Append(Split(s), line)[k] = Piece(s, S, k)
        /\ Append(Split(s), line)[K + 1] = line
    BY <1>1, <1>5, <2>1
  <2>5. Len(Split(t)) = K + 1
    BY <1>5, <2>2, <2>3
  <2>6. \A k \in 1..K + 1 : Split(t)[k] = Append(Split(s), line)[k]
    <3>1. \A k \in 1..K + 1 : k \in 1..K \/ k = K + 1
      BY <1>5
    <3> QED BY <2>2, <2>4, <3>1
  <2> QED BY <2>3, <2>4, <2>5, <2>6, SeqEqual
<1> QED
  BY <1>14 DEF t

(* What Split makes of a join.                                             *)
LEMMA SplitOfJoin ==
    ASSUME NEW lines \in LineSeqs
    PROVE  Split(Join(lines)) = lines
<1> DEFINE Good(n) == \A ls \in Seq(LineText) : Len(ls) = n + 1 => Split(Join(ls)) = ls
           G == {n \in Nat : Good(n)}
<1>0. \A ls \in Seq(LineText) : ls \in Seq(Text)
  BY SeqMonotonic DEF LineText
<1>1. 0 \in G
  <2> SUFFICES ASSUME NEW ls \in Seq(LineText), Len(ls) = 0 + 1 PROVE Split(Join(ls)) = ls
    OBVIOUS
  <2>1. ls[1] \in LineText /\ ls[1] \in Text /\ ls = <<ls[1]>>
    BY DEF LineText
  <2>2. Join(<<ls[1]>>) = ls[1]
    BY <2>1, JoinOne
  <2>3. Split(ls[1]) = <<ls[1]>>
    BY <2>1, SplitOne
  <2> QED BY <2>1, <2>2, <2>3
<1>2. ASSUME NEW n \in Nat, n \in G PROVE n + 1 \in G
  <2> SUFFICES ASSUME NEW ls \in Seq(LineText), Len(ls) = (n + 1) + 1
               PROVE  Split(Join(ls)) = ls
    OBVIOUS
  <2>1. ls # << >>
    OBVIOUS
  <2>2. PICK front \in Seq(LineText), line \in LineText : ls = Append(front, line)
    BY <2>1, SequenceEmptyOrAppend
  <2>3. Len(front) = n + 1 /\ front # << >> /\ front \in Seq(Text) /\ line \in Text
    BY <1>0, <2>2 DEF LineText
  <2>4. Split(Join(front)) = front
    BY <1>2, <2>3
  <2>5. Join(ls) = Join(front) \o <<LF>> \o line
    BY <2>2, <2>3, JoinMore
  <2>6. Join(front) \in Text
    BY <2>3, JoinIsText
  <2>7. Split(Join(front) \o <<LF>> \o line) = Append(Split(Join(front)), line)
    BY <2>2, <2>6, SplitMore
  <2> QED BY <2>2, <2>4, <2>5, <2>7
<1>3. Nat \subseteq G
  <2> HIDE DEF G
  <2> QED BY <1>1, <1>2, NumberInduction
<1>4. lines \in Seq(LineText) /\ Len(lines) - 1 \in Nat /\ Len(lines) = (Len(lines) - 1) + 1
  BY DEF LineSeqs
<1>5. Good(Len(lines) - 1)
  BY <1>3, <1>4
<1> QED
  BY <1>4, <1>5

(* The last line grows with the text.                                      *)
LEMMA JoinLonger ==
    ASSUME NEW lines \in LineSeqs, NEW c \in Char, c # LF
    PROVE  \E longer \in LineSeqs : Join(longer) = Append(Join(lines), c)
<1>1. PICK front \in Seq(LineText), line \in LineText : lines = Append(front, line)
  BY SequenceEmptyOrAppend DEF LineSeqs
<1>2. Append(line, c) \in LineText
  <2>1. line \in Seq(Char) /\ \A i \in 1..Len(line) : line[i] # LF
    BY DEF LineText, Text
  <2>2. /\ Append(line, c) \in Seq(Char) /\ DOMAIN Append(line, c) = 1..Len(line) + 1
        /\ \A i \in 1..Len(line) + 1 :
              Append(line, c)[i] = IF i = Len(line) + 1 THEN c ELSE line[i]
    BY <2>1
  <2>3. \A i \in 1..Len(line) + 1 : i = Len(line) + 1 \/ i \in 1..Len(line)
    BY <2>1
  <2>4. \A i \in DOMAIN Append(line, c) : Append(line, c)[i] # LF
    BY <2>1, <2>2, <2>3
  <2> QED BY <2>2, <2>4 DEF LineText, Text
<1>3. Append(front, Append(line, c)) \in LineSeqs
  <2>1. Append(front, Append(line, c)) \in Seq(LineText)
    BY <1>2, AppendProperties
  <2>2. Append(front, Append(line, c)) # << >>
    BY <1>2, AppendProperties
  <2> QED BY <2>1, <2>2 DEF LineSeqs
<1>4. front \in Seq(Text) /\ line \in Text /\ Append(line, c) \in Text
  BY <1>2, SeqMonotonic DEF LineText
<1>5. Join(Append(front, Append(line, c))) = Append(Join(Append(front, line)), c)
  <2>1. CASE front = << >>
    <3>1. Append(front, Append(line, c)) = <<Append(line, c)>> /\ Append(front, line) = <<line>>
      BY <2>1
    <3> QED BY <1>4, <3>1, JoinOne
  <2>2. CASE front # << >>
    <3>1. /\ Join(Append(front, Append(line, c))) = Join(front) \o <<LF>> \o Append(line, c)
          /\ Join(Append(front, line)) = Join(front) \o <<LF>> \o line
      BY <1>4, <2>2, JoinMore
    <3>2. Join(front) \in Text /\ <<LF>> \in Text
      BY <1>4, JoinIsText DEF Text, Char, Syntax
    <3> DEFINE j == Join(front) \o <<LF>>
    <3>3. j \in Text
      BY <3>2 DEF Text
    <3> HIDE DEF j
    <3>4. j \o Append(line, c) = Append(j \o line, c)
      BY <1>4, <3>3 DEF Text
    <3> QED BY <3>1, <3>4 DEF j
  <2> QED BY <2>1, <2>2
<1> QED
  BY <1>1, <1>3, <1>5

(* A line feed at the end begins an empty line.                            *)
LEMMA JoinLF ==
    ASSUME NEW lines \in LineSeqs
    PROVE  \E longer \in LineSeqs : Join(longer) = Append(Join(lines), LF)
<1>1. << >> \in LineText /\ << >> \in Text
  BY DEF LineText, Text
<1>2. lines \in Seq(Text) /\ lines # << >>
  BY SeqMonotonic DEF LineSeqs, LineText
<1>3. Join(Append(lines, << >>)) = Join(lines) \o <<LF>> \o << >>
  BY <1>1, <1>2, JoinMore
<1>4. Join(lines) \in Text
  BY <1>2, JoinIsText
<1>5. Join(lines) \o <<LF>> \o << >> = Append(Join(lines), LF)
  BY <1>4 DEF Text, Char, Syntax
<1>6. Append(lines, << >>) \in LineSeqs
  BY <1>1 DEF LineSeqs
<1> QED
  BY <1>3, <1>5, <1>6

(* Every text is a join of lines, and so what Split makes of it is.        *)
LEMMA EveryTextIsJoined ==
    ASSUME NEW s \in Text
    PROVE  \E lines \in LineSeqs : s = Join(lines)
<1> DEFINE Good(n) == \A t \in Text : Len(t) = n => \E lines \in LineSeqs : t = Join(lines)
           G == {n \in Nat : Good(n)}
<1>1. 0 \in G
  <2>1. << >> \in LineText /\ << >> \in Text
    BY DEF LineText, Text
  <2>2. <<<< >>>> \in LineSeqs /\ Join(<<<< >>>>) = << >>
    BY <2>1, JoinOne DEF LineSeqs
  <2>3. \A t \in Text : Len(t) = 0 => t = << >>
    BY DEF Text
  <2> QED BY <2>2, <2>3
<1>2. ASSUME NEW n \in Nat, n \in G PROVE n + 1 \in G
  <2> SUFFICES ASSUME NEW t \in Text, Len(t) = n + 1
               PROVE  \E lines \in LineSeqs : t = Join(lines)
    OBVIOUS
  <2>1. PICK u \in Text, c \in Char : t = Append(u, c)
    <3>1. t \in Seq(Char) /\ t # << >>
      BY DEF Text
    <3>2. \E u \in Seq(Char), c \in Char : t = Append(u, c)
      BY <3>1, SequenceEmptyOrAppend
    <3> QED BY <3>2 DEF Text
  <2>2. Len(u) = n
    BY <2>1 DEF Text
  <2>3. PICK lines \in LineSeqs : u = Join(lines)
    BY <1>2, <2>2
  <2>4. CASE c = LF
    BY <2>1, <2>3, <2>4, JoinLF
  <2>5. CASE c # LF
    BY <2>1, <2>3, <2>5, JoinLonger
  <2> QED BY <2>4, <2>5
<1>3. Nat \subseteq G
  <2> HIDE DEF G
  <2> QED BY <1>1, <1>2, NumberInduction
<1>4. Len(s) \in Nat
  BY DEF Text
<1>5. Good(Len(s))
  BY <1>3, <1>4
<1> QED
  BY <1>5

(* What Split has taken apart, Join puts together again.                   *)
LEMMA JoinOfSplit ==
    ASSUME NEW s \in Text
    PROVE  Split(s) \in LineSeqs /\ Join(Split(s)) = s
<1>1. PICK lines \in LineSeqs : s = Join(lines)
  BY EveryTextIsJoined
<1> QED
  BY <1>1, SplitOfJoin

-------------------------------------------------------------------------------
(***************************************************************************)
(* The types of what the algorithms compute.                               *)
(***************************************************************************)
(* The length of a text in bytes. *)
LEMMA ByteLenType ==
    ASSUME NEW s \in Text
    PROVE  /\ ByteLen(s) \in Nat /\ Len(s) \in Nat /\ ByteLen(s) >= Len(s)
           /\ (\A i \in DOMAIN s : s[i] \notin Wide) => ByteLen(s) = Len(s)
<1> DEFINE W == {i \in DOMAIN s : s[i] \in Wide}
<1>1. Len(s) \in Nat /\ DOMAIN s = 1..Len(s)
  BY DEF Text
<1>2. W \in SUBSET (1..Len(s)) /\ IsFiniteSet(1..Len(s))
  BY <1>1, FS_Interval
<1>3. (\A i \in DOMAIN s : s[i] \notin Wide) => W = {}
  OBVIOUS
<1> HIDE DEF W
<1>4. Cardinality(W) \in Nat /\ Cardinality({}) = 0
  BY <1>2, FS_Subset, FS_CardinalityType, FS_EmptySet
<1>5. ByteLen(s) = Len(s) + Cardinality(W)
  BY DEF ByteLen, W
<1>6. (\A i \in DOMAIN s : s[i] \notin Wide) => ByteLen(s) = Len(s)
  <2> SUFFICES ASSUME \A i \in DOMAIN s : s[i] \notin Wide PROVE ByteLen(s) = Len(s)
    OBVIOUS
  <2>1. W = {}
    BY <1>3
  <2> QED BY <1>1, <1>4, <1>5, <2>1
<1>7. ByteLen(s) \in Nat /\ ByteLen(s) >= Len(s)
  BY <1>1, <1>4, <1>5
<1> QED
  BY <1>1, <1>6, <1>7

(* Where the lines of a text start, as the code counts and in characters.  *)
ByteSizes(lines) == [i \in DOMAIN lines |-> ByteLen(lines[i]) + 1]
Sizes(lines) == [i \in DOMAIN lines |-> Len(lines[i]) + 1]

(* Both counts are numbers.                                                *)
LEMMA SizesSumUp ==
    ASSUME NEW lines \in Seq(Text), NEW n \in 0..Len(lines)
    PROVE  /\ SumFunctionOnSet(ByteSizes(lines), 1..n) \in Nat
           /\ SumFunctionOnSet(Sizes(lines), 1..n) \in Nat
<1>1. Len(lines) \in Nat /\ DOMAIN lines = 1..Len(lines) /\ 1..n \in SUBSET DOMAIN lines
  OBVIOUS
<1>2. \A i \in DOMAIN lines : ByteLen(lines[i]) \in Nat /\ Len(lines[i]) \in Nat
  BY <1>1, ByteLenType
<1>3. \A i \in 1..n : i \in DOMAIN lines
  BY <1>1
<1>5. \A i \in DOMAIN lines : /\ ByteSizes(lines)[i] = ByteLen(lines[i]) + 1
                             /\ Sizes(lines)[i] = Len(lines[i]) + 1
  BY DEF ByteSizes, Sizes
<1>6. ASSUME NEW i \in 1..n PROVE ByteSizes(lines)[i] \in Nat /\ Sizes(lines)[i] \in Nat
  <2>1. i \in DOMAIN lines
    BY <1>3
  <2>2. ByteLen(lines[i]) \in Nat /\ Len(lines[i]) \in Nat
    BY <1>2, <2>1
  <2>3. ByteLen(lines[i]) + 1 \in Nat /\ Len(lines[i]) + 1 \in Nat
    BY <2>2
  <2> QED BY <1>5, <2>1, <2>3
<1>7. Summable(ByteSizes(lines), 1..n) /\ Summable(Sizes(lines), 1..n)
  BY <1>1, <1>6 DEF Summable, ByteSizes, Sizes
<1>4. IsFiniteSet(1..n)
  BY FS_Interval
<1> QED
  BY <1>4, <1>7, SumRemove

(* Python's slice of a text. *)
LEMMA SliceType ==
    ASSUME NEW s \in Text, NEW from \in Nat, NEW to \in Nat
    PROVE  /\ Slice(s, from, to) \in Text
           /\ to <= Len(s) => Slice(s, from, to) = SubSeq(s, from + 1, to)
           /\ to >= Len(s) => Slice(s, from, to) = SubSeq(s, from + 1, Len(s))
<1> DEFINE end == Min({to, Len(s)})
<1>1. Len(s) \in Nat /\ \A i \in 1..Len(s) : s[i] \in Char
  BY DEF Text
<1>2. end \in {to, Len(s)} /\ end <= to /\ end <= Len(s)
  <2>1. {to, Len(s)} \in SUBSET Nat /\ {to, Len(s)} # {}
    BY <1>1
  <2> QED BY <2>1, MinIsLeast
<1>3. SubSeq(s, from + 1, end) \in Seq(Char)
  <2>1. \A i \in from + 1..end : s[i] \in Char
    BY <1>1, <1>2
  <2> HIDE DEF end
  <2> QED BY <1>1, <1>2, <2>1, SubSeqProperties
<1>4. (to <= Len(s) => end = to) /\ (to >= Len(s) => end = Len(s))
  BY <1>1, <1>2
<1>5. Slice(s, from, to) = SubSeq(s, from + 1, end)
  BY DEF Slice
<1> HIDE DEF end
<1> QED
  BY <1>3, <1>4, <1>5 DEF Text

(* A part of a sequence. *)
LEMMA PartType ==
    ASSUME NEW S, NEW s \in Seq(S), NEW a \in Nat, NEW b \in Int, a >= 1, b <= Len(s)
    PROVE  SubSeq(s, a, b) \in Seq(S)
<1>1. \A i \in a..b : s[i] \in S
  OBVIOUS
<1> QED
  BY <1>1, SubSeqProperties

(* Lines without a last empty one are lines.                               *)
LEMMA WithoutLastEmptyType ==
    ASSUME NEW lines \in Seq(Text)
    PROVE  WithoutLastEmpty(lines) \in Seq(Text)
<1>1. Len(lines) - 1 \in Int /\ Len(lines) - 1 <= Len(lines)
  OBVIOUS
<1>2. SubSeq(lines, 1, Len(lines) - 1) \in Seq(Text)
  BY <1>1, PartType
<1> QED
  BY <1>2 DEF WithoutLastEmpty, Front

(* The lines that patch_page_lines and check_task number are texts.        *)
LEMMA SplitBodyLinesType ==
    ASSUME NEW body \in Text
    PROVE  SplitBodyLines(body) \in Seq(Text)
  BY SplitType, WithoutLastEmptyType DEF SplitBodyLines

(* str.splitlines gives lines that are texts. *)
LEMMA SplitLinesType ==
    ASSUME NEW body \in Text
    PROVE  SplitLines(body) \in Seq(Text)
<1> DEFINE BeforeLF(i) == i < Len(body) /\ body[i + 1] = LF
           breaks == {i \in DOMAIN body : body[i] \in {LF, FF} \/ (body[i] = CR /\ ~BeforeLF(i))}
           pieces == CutAt(body, breaks)
           Line(piece) == IF piece # << >> /\ Last(piece) = CR THEN Front(piece) ELSE piece
           lines == [k \in DOMAIN pieces |-> Line(pieces[k])]
<1>1. breaks \in SUBSET DOMAIN body
  OBVIOUS
<1>2. SplitLines(body) = WithoutLastEmpty(lines)
  BY DEF SplitLines
<1> HIDE DEF breaks
<1>3. pieces \in Seq(Text)
  BY <1>1, CutType DEF Text
<1> HIDE DEF pieces
<1>4. ASSUME NEW piece \in Text PROVE Line(piece) \in Text
  <2>1. piece \in Seq(Char) /\ Len(piece) - 1 \in Int /\ Len(piece) - 1 <= Len(piece)
    BY DEF Text
  <2>2. SubSeq(piece, 1, Len(piece) - 1) \in Seq(Char)
    BY <2>1, PartType
  <2> QED BY <2>2 DEF Front, Text
<1>5. \A k \in DOMAIN pieces : Line(pieces[k]) \in Text
  <2>1. \A k \in DOMAIN pieces : pieces[k] \in Text
    BY <1>3
  <2> QED BY <1>4, <2>1
<1> HIDE DEF Line
<1>6. lines \in Seq(Text)
  BY <1>3, <1>5
<1> QED
  BY <1>2, <1>6, WithoutLastEmptyType

(* The closing fence is a line after the first. *)
LEMMA ClosingFenceType ==
    ASSUME NEW lines \in Seq(Text)
    PROVE  \/ /\ ClosingFence(lines) = 0
              /\ \A i \in 2..Len(lines) : lines[i] # Fence
           \/ /\ ClosingFence(lines) \in 2..Len(lines)
              /\ lines[ClosingFence(lines)] = Fence
              /\ \A i \in 2..ClosingFence(lines) - 1 : lines[i] # Fence
<1> DEFINE closing == {i \in 2..Len(lines) : lines[i] = Fence}
<1>1. ClosingFence(lines) = IF closing = {} THEN 0 ELSE Min(closing)
  BY DEF ClosingFence
<1>2. closing \in SUBSET Nat
  OBVIOUS
<1>3. CASE closing = {}
  BY <1>1, <1>3
<1>4. CASE closing # {}
  <2>1. Min(closing) \in closing /\ \A i \in closing : Min(closing) <= i
    <3> HIDE DEF closing
    <3> QED BY <1>2, <1>4, MinIsLeast
  <2>2. ASSUME NEW i \in 2..Min(closing) - 1 PROVE lines[i] # Fence
    <3>1. i \in 2..Len(lines) /\ ~(Min(closing) <= i)
      BY <2>1
    <3> QED BY <2>1, <3>1
  <2> QED BY <1>1, <1>4, <2>1, <2>2
<1> QED
  BY <1>3, <1>4

(* Both halves that prepend_to_page puts together again are texts. *)
LEMMA SplitFrontmatterType ==
    ASSUME NEW body \in Text
    PROVE  /\ SplitFrontmatterBlock(body).frontmatter \in Text
           /\ SplitFrontmatterBlock(body).rest \in Text
<1> DEFINE lines == SplitLines(body)
           close == IF IsPrefix(Fence, body) THEN ClosingFence(lines) ELSE 0
           block == Join(SubSeq(lines, 1, close))
           rest  == Join(SubSeq(lines, close + 1, Len(lines)))
           front == IF Slice(body, Len(block), Len(block) + 1) = <<LF>>
                    THEN Append(block, LF) ELSE block
           back == IF EndsWithLF(body) /\ rest # << >> /\ ~EndsWithLF(rest)
                   THEN Append(rest, LF) ELSE rest
<1>1. lines \in Seq(Text)
  BY SplitLinesType
<1> HIDE DEF lines
<1>2. close \in 0..Len(lines) /\ Len(lines) \in Nat
  BY <1>1, ClosingFenceType
<1> HIDE DEF close
<1>3. SubSeq(lines, 1, close) \in Seq(Text) /\ SubSeq(lines, close + 1, Len(lines)) \in Seq(Text)
  BY <1>1, <1>2, PartType
<1>4. block \in Text /\ rest \in Text
  BY <1>3, JoinIsText
<1> HIDE DEF block, rest
<1>5. front \in Text /\ back \in Text
  BY <1>4 DEF Text, Char, Syntax
<1>6. SplitFrontmatterBlock(body) = IF close = 0 THEN [frontmatter |-> << >>, rest |-> body]
                                    ELSE [frontmatter |-> front, rest |-> back]
  BY Zenon DEF SplitFrontmatterBlock, lines, close, block, rest
<1>7. << >> \in Text
  BY DEF Text
<1> HIDE DEF front, back
<1> QED
  BY <1>5, <1>6, <1>7

(* Everything but the last character of a text. *)
LEMMA FrontText ==
    ASSUME NEW s \in Text, s # << >>
    PROVE  Front(s) \in Text /\ Len(Front(s)) = Len(s) - 1
<1>1. Len(s) \in Nat /\ Len(s) >= 1 /\ s \in Seq(Char)
  BY DEF Text
<1>2. SubSeq(s, 1, Len(s) - 1) \in Seq(Char)
  BY <1>1, PartType
<1>3. Len(SubSeq(s, 1, Len(s) - 1)) = Len(s) - 1
  <2> DEFINE n == Len(s) - 1
  <2>1. n \in Int /\ 1 \in Int /\ n \in Nat /\ n <= Len(s)
    BY <1>1
  <2> HIDE DEF n
  <2>2. Len(SubSeq(s, 1, n)) = IF 1 <= n THEN n - 1 + 1 ELSE 0
    BY <1>1, <2>1, SubSeqProperties
  <2>3. Len(SubSeq(s, 1, n)) = n
    BY <2>1, <2>2
  <2> QED BY <2>3 DEF n
<1> QED
  BY <1>2, <1>3 DEF Front, Text

-------------------------------------------------------------------------------
(***************************************************************************)
(* Task bullets.                                                           *)
(***************************************************************************)
(* SkipBlanks stops at the first character that is not blank, or behind    *)
(* the text.                                                               *)
LEMMA SkipBlanksType ==
    ASSUME NEW s \in Text, NEW i \in Nat
    PROVE  /\ SkipBlanks(s, i) \in Nat
           /\ \/ SkipBlanks(s, i) = Len(s) + 1 /\ \A k \in i..Len(s) : s[k] \in Blank
              \/ /\ SkipBlanks(s, i) \in i..Len(s)
                 /\ s[SkipBlanks(s, i)] \notin Blank
                 /\ \A j \in i..SkipBlanks(s, i) - 1 : s[j] \in Blank
<1>1. Len(s) \in Nat
  BY DEF Text
<1>2. CASE \A k \in i..Len(s) : s[k] \in Blank
  BY <1>1, <1>2 DEF SkipBlanks
<1>3. CASE ~\A k \in i..Len(s) : s[k] \in Blank
  <2> DEFINE stops == {k \in i..Len(s) : s[k] \notin Blank}
             First(k) == s[k] \notin Blank /\ \A j \in i..k - 1 : s[j] \in Blank
  <2>1. stops \in SUBSET Nat /\ stops # {}
    BY <1>1, <1>3
  <2>2. Min(stops) \in stops /\ \A k \in stops : Min(stops) <= k
    <3> HIDE DEF stops
    <3> QED BY <2>1, MinIsLeast
  <2>3. ASSUME NEW j \in i..Min(stops) - 1 PROVE s[j] \in Blank
    <3>1. j \in i..Len(s) /\ ~(Min(stops) <= j)
      BY <1>1, <2>2
    <3> QED BY <2>2, <3>1
  <2>4. Min(stops) \in i..Len(s) /\ First(Min(stops))
    BY <2>2, <2>3
  <2>5. SkipBlanks(s, i) = CHOOSE k \in i..Len(s) : First(k)
    BY <1>3 DEF SkipBlanks
  <2> HIDE DEF First, stops
  <2>6. SkipBlanks(s, i) \in i..Len(s) /\ First(SkipBlanks(s, i))
    BY <2>4, <2>5
  <2> QED BY <1>1, <2>6 DEF First
<1> QED
  BY <1>2, <1>3

(* What the parser takes out of a task line, and what such a line contains.*)
LEMMA BulletType ==
    ASSUME NEW s \in Text, IsBullet(s)
    PROVE  /\ Bullet(s).leading \in Text
           /\ Bullet(s).state \in Marks
           /\ Bullet(s).text \in Text
           /\ Len(s) > 3
           /\ \E i \in DOMAIN s : s[i] = Dash
           /\ \E i \in DOMAIN s : s[i] = Open
<1> DEFINE dash == SkipBlanks(s, 1)
           box  == SkipBlanks(s, dash + 1)
           from == SkipBlanks(s, box + 3)
           rest == SubSeq(s, from, Len(s))
           text == IF EndsWithLF(rest) THEN Front(rest) ELSE rest
           shape == /\ box + 3 <= Len(s)
                    /\ s[dash] = Dash /\ box > dash + 1
                    /\ s[box] = Open /\ s[box + 1] \in Marks /\ s[box + 2] = Close
                    /\ from > box + 3
                    /\ ~Contains(text, LF)
<1>1. Bullet(s) = IF shape THEN [leading |-> SubSeq(s, 1, dash - 1), state |-> s[box + 1],
                                 text |-> text]
                  ELSE NoBullet
  BY Zenon DEF Bullet
<1>2. shape /\ Bullet(s) = [leading |-> SubSeq(s, 1, dash - 1), state |-> s[box + 1], text |-> text]
  <2> HIDE DEF shape, dash, box, text
  <2> QED BY <1>1 DEF IsBullet
<1>3. Len(s) \in Nat /\ DOMAIN s = 1..Len(s) /\ s \in Seq(Char)
  BY DEF Text
<1>4. /\ dash \in Nat
      /\ dash = Len(s) + 1 \/ dash \in 1..Len(s)
  <2>1. 1 \in Nat
    OBVIOUS
  <2> QED BY <2>1, SkipBlanksType
<1> HIDE DEF dash
<1>5. /\ box \in Nat
      /\ box = Len(s) + 1 \/ box \in dash + 1..Len(s)
  <2>1. dash + 1 \in Nat
    BY <1>4
  <2> QED BY <2>1, SkipBlanksType
<1> HIDE DEF box
<1>6. /\ from \in Nat
      /\ from = Len(s) + 1 \/ from \in box + 3..Len(s)
  <2>1. box + 3 \in Nat
    BY <1>5
  <2> QED BY <2>1, SkipBlanksType
<1> HIDE DEF from
<1>7. dash \in 1..Len(s) /\ box \in 2..Len(s) /\ box + 3 <= Len(s) /\ from \in 1..Len(s) + 1
  BY <1>2, <1>3, <1>4, <1>5, <1>6
<1>8. SubSeq(s, 1, dash - 1) \in Text
  BY <1>3, <1>7, PartType DEF Text
<1>9. rest \in Text
  BY <1>3, <1>7, PartType DEF Text
<1> HIDE DEF rest
<1>10. text \in Text
  BY <1>9, FrontText DEF EndsWithLF
<1>11. Len(s) > 3 /\ s[dash] = Dash /\ s[box] = Open /\ s[box + 1] \in Marks
  BY <1>2, <1>3, <1>7
<1> HIDE DEF text, shape
<1>12. /\ Bullet(s).leading = SubSeq(s, 1, dash - 1)
       /\ Bullet(s).state = s[box + 1] /\ Bullet(s).text = text
  <2> DEFINE leading == SubSeq(s, 1, dash - 1)
             mark == s[box + 1]
  <2>1. Bullet(s) = [leading |-> leading, state |-> mark, text |-> text]
    BY <1>2
  <2> HIDE DEF leading, mark
  <2>2. Bullet(s).leading = leading /\ Bullet(s).state = mark /\ Bullet(s).text = text
    BY <2>1
  <2> QED BY <2>2 DEF leading, mark
<1>13. dash \in DOMAIN s /\ box \in DOMAIN s
  BY <1>3, <1>7
<1> QED
  BY <1>8, <1>10, <1>11, <1>12, <1>13

(* A bullet that is found is a task line of the page, the first with the   *)
(* reference, and its offsets are numbers.                                 *)
LEMMA FindTaskBulletType ==
    ASSUME NEW body \in Text, NEW ref
    PROVE  \/ /\ FindTaskBullet(body, ref) = NoMatch
              /\ \A i \in DOMAIN SplitBodyLines(body) :
                    ~(IsBullet(SplitBodyLines(body)[i]) /\ RefOf(SplitBodyLines(body)[i]) = ref)
           \/ /\ FindTaskBullet(body, ref) # NoMatch
              /\ FindTaskBullet(body, ref).line \in DOMAIN SplitBodyLines(body)
              /\ IsBullet(SplitBodyLines(body)[FindTaskBullet(body, ref).line])
              /\ RefOf(SplitBodyLines(body)[FindTaskBullet(body, ref).line]) = ref
              /\ FindTaskBullet(body, ref).start \in Nat
              /\ FindTaskBullet(body, ref).end \in Nat
<1> DEFINE lines == SplitBodyLines(body)
           hits  == {i \in DOMAIN lines : IsBullet(lines[i]) /\ RefOf(lines[i]) = ref}
           line  == Min(hits)
           start == SumFunctionOnSet(ByteSizes(lines), 1..line - 1)
<1>1. lines \in Seq(Text)
  BY SplitBodyLinesType
<1>2. FindTaskBullet(body, ref) =
        IF hits = {} THEN NoMatch
        ELSE [line |-> line, start |-> start, end |-> start + ByteLen(lines[line])]
  BY Zenon DEF FindTaskBullet, ByteSizes
<1> HIDE DEF lines
<1>3. CASE hits = {}
  BY <1>2, <1>3 DEF lines
<1>4. CASE hits # {}
  <2>1. hits \in SUBSET Nat
    BY <1>1
  <2>2. line \in hits
    <3> HIDE DEF hits
    <3> QED BY <1>4, <2>1, MinIsLeast
  <2> HIDE DEF line
  <2>3. line \in DOMAIN lines /\ IsBullet(lines[line]) /\ RefOf(lines[line]) = ref
    BY <2>2
  <2>4. line \in 1..Len(lines) /\ Len(lines) \in Nat /\ lines[line] \in Text
    BY <1>1, <2>3
  <2>5. line - 1 \in 0..Len(lines)
    BY <2>4
  <2>6. start \in Nat
    BY <1>1, <2>5, SizesSumUp
  <2> HIDE DEF start
  <2>7. start + ByteLen(lines[line]) \in Nat
    BY <2>4, <2>6, ByteLenType
  <2>8. FindTaskBullet(body, ref) = [line |-> line, start |-> start, end |-> start + ByteLen(lines[line])]
    BY <1>2, <1>4
  <2>9. line # 0
    BY <2>4
  <2> HIDE DEF hits
  <2>10. FindTaskBullet(body, ref) # NoMatch
    BY <2>8, <2>9 DEF NoMatch
  <2> QED BY <2>3, <2>6, <2>7, <2>8, <2>10 DEF lines
<1> QED
  BY <1>3, <1>4

-------------------------------------------------------------------------------
(***************************************************************************)
(* Every edit makes a text out of a text.                                  *)
(***************************************************************************)
LEMMA TextConcat ==
    ASSUME NEW a \in Text, NEW b \in Text
    PROVE  a \o b \in Text
BY ConcatProperties DEF Text

(* The mark of a state is a mark.                                          *)
LEMMA MarkOfType ==
    ASSUME NEW state \in States
    PROVE  MarkOf(state) \in Marks
<1>1. state = "todo" \/ state = "done" \/ state = "cancelled"
  BY DEF States
<1>2. "todo" # "done" /\ "todo" # "cancelled" /\ "done" # "cancelled"
  OBVIOUS
<1>3. MarkOf("todo") = " " /\ MarkOf("done") = "x" /\ MarkOf("cancelled") = "X"
  BY <1>2, Zenon DEF MarkOf
<1> QED
  BY <1>1, <1>3, Zenon DEF Marks

(* A flip gives a text, or none where it runs into its assertion.          *)
LEMMA FlippedType ==
    ASSUME NEW body \in Text, NEW ref, NEW state \in States,
           FindTaskBullet(body, ref) # NoMatch
    PROVE  Flipped(body, ref, state) \in Text
<1> DEFINE found  == FindTaskBullet(body, ref)
           line == Slice(body, found.start, found.end)
           bullet == Bullet(line)
           before == Slice(body, 0, found.start)
           after == Slice(body, found.end, Len(body))
           box == <<Dash, Space, Open, MarkOf(state), Close, Space>>
<1>1. found.start \in Nat /\ found.end \in Nat /\ Len(body) \in Nat /\ 0 \in Nat
  BY FindTaskBulletType DEF Text
<1>2. line \in Text /\ before \in Text /\ after \in Text
  BY <1>1, SliceType
<1>3. Flipped(body, ref, state) =
        IF bullet = NoBullet THEN << >>
        ELSE before \o bullet.leading \o box \o bullet.text \o after
  BY Zenon DEF Flipped
<1>4. box \in Text
  <2> DEFINE mark == MarkOf(state)
  <2>1. mark \in Marks
    BY MarkOfType
  <2> HIDE DEF mark
  <2>2. mark \in Char /\ Dash \in Char /\ Space \in Char /\ Open \in Char /\ Close \in Char
    <3>1. \A m \in Marks : m \in Syntax
      BY Zenon DEF Marks, Syntax, Space
    <3> QED BY <2>1, <3>1 DEF Char, Syntax
  <2>3. <<Dash, Space, Open, mark, Close, Space>> \in Seq(Char)
    BY <2>2
  <2> QED BY <2>3 DEF Text, mark
<1> HIDE DEF line, before, after, box
<1>5. CASE bullet = NoBullet
  BY <1>3, <1>5 DEF Text
<1>6. CASE bullet # NoBullet
  <2>1. bullet.leading \in Text /\ bullet.text \in Text
    BY <1>2, <1>6, BulletType DEF IsBullet
  <2> DEFINE leading == bullet.leading
             text == bullet.text
  <2> HIDE DEF leading, text
  <2>2. leading \in Text /\ text \in Text
    BY <2>1 DEF leading, text
  <2>3. before \o leading \in Text
    BY <1>2, <2>2, TextConcat
  <2>4. before \o leading \o box \in Text
    BY <1>4, <2>3, TextConcat
  <2>5. before \o leading \o box \o text \in Text
    BY <2>2, <2>4, TextConcat
  <2>6. before \o leading \o box \o text \o after \in Text
    BY <1>2, <2>5, TextConcat
  <2> QED BY <1>3, <1>6, <2>6 DEF leading, text
<1> QED
  BY <1>5, <1>6

(* append_to_page makes a text of two.                                     *)
LEMMA AppendedType ==
    ASSUME NEW body \in Text, NEW text \in Text
    PROVE  Appended(body, text) \in Text
<1>1. <<LF>> \in Text
  BY DEF Text, Char, Syntax
<1>2. body \o <<LF>> \in Text
  BY <1>1, TextConcat
<1>3. body \o <<LF>> \o text \in Text /\ body \o text \in Text
  BY <1>2, TextConcat
<1> QED
  BY <1>3 DEF Appended

(* So does prepend_to_page, on top or behind the frontmatter.              *)
LEMMA PrependedType ==
    ASSUME NEW body \in Text, NEW text \in Text, NEW top \in BOOLEAN
    PROVE  Prepended(body, text, top) \in Text
<1> DEFINE front == SplitFrontmatterBlock(body).frontmatter
           rest == SplitFrontmatterBlock(body).rest
<1>1. front \in Text /\ rest \in Text
  BY SplitFrontmatterType
<1>2. Prepended(body, text, top) = IF top THEN text \o body ELSE front \o text \o rest
  BY DEF Prepended
<1> HIDE DEF front, rest
<1>3. front \o text \in Text
  BY <1>1, TextConcat
<1>4. front \o text \o rest \in Text /\ text \o body \in Text
  BY <1>1, <1>3, TextConcat
<1> QED
  BY <1>2, <1>4

(* So does patch_page_lines, for every range that fits.                    *)
LEMMA LinesPatchedType ==
    ASSUME NEW body \in Text, NEW text \in Text, NEW first \in Nat, NEW last \in Nat,
           1 <= first, first <= last, last <= Len(SplitBodyLines(body))
    PROVE  LinesPatched(body, first, last, text) \in Text
<1> DEFINE lines == SplitBodyLines(body)
           before == SubSeq(lines, 1, first - 1)
           new == SplitBodyLines(text)
           after == SubSeq(lines, last + 1, Len(lines))
           patched == Join(before \o new \o after)
<1>1. lines \in Seq(Text) /\ new \in Seq(Text) /\ Len(lines) \in Nat
  BY SplitBodyLinesType
<1>2. LinesPatched(body, first, last, text) =
         IF EndsWithLF(body) /\ patched # << >> THEN Append(patched, LF) ELSE patched
  BY Zenon DEF LinesPatched
<1>3. first - 1 <= Len(lines) /\ last + 1 >= 1
  BY <1>1
<1> HIDE DEF lines, new
<1>4. before \in Seq(Text) /\ after \in Seq(Text)
  BY <1>1, <1>3, PartType
<1> HIDE DEF before, after
<1>5. before \o new \o after \in Seq(Text)
  BY <1>1, <1>4, ConcatProperties
<1>6. patched \in Text
  BY <1>5, JoinIsText
<1> HIDE DEF patched
<1>7. Append(patched, LF) \in Text
  BY <1>6 DEF Text, Char, Syntax
<1> QED
  BY <1>2, <1>6, <1>7

-------------------------------------------------------------------------------
(***************************************************************************)
(* The lines of a page, with and without the empty one behind its last     *)
(* line feed.                                                              *)
(***************************************************************************)
LEMMA LineSeqTexts ==
    ASSUME NEW lines \in Seq(LineText)
    PROVE  lines \in Seq(Text)
BY SeqMonotonic DEF LineText

(* The front and the last of a sequence that was appended to.              *)
LEMMA FrontOfAppend ==
    ASSUME NEW S, NEW front \in Seq(S), NEW x \in S
    PROVE  Front(Append(front, x)) = front
<1> DEFINE s == Append(front, x)
           n == Len(front)
           part == SubSeq(s, 1, n)
<1>1. n \in Nat /\ n \in Int /\ 1 \in Int /\ Len(s) - 1 = n
  BY AppendProperties
<1>2. \A i \in 1..n : s[i] = front[i] /\ s[i] \in S
  BY AppendProperties
<1> HIDE DEF s, n
<1>3. /\ part \in Seq(S)
      /\ Len(part) = IF 1 <= n THEN n - 1 + 1 ELSE 0
      /\ \A i \in 1..n - 1 + 1 : part[i] = s[1 + i - 1]
  BY <1>1, <1>2, SubSeqProperties
<1> HIDE DEF part
<1>4. Len(part) = n
  BY <1>1, <1>3
<1>5. \A i \in 1..n : part[i] = s[i]
  <2>1. \A i \in 1..n : i \in 1..n - 1 + 1 /\ 1 + i - 1 = i
    BY <1>1
  <2> QED BY <1>3, <2>1
<1>6. part = front
  BY <1>2, <1>3, <1>4, <1>5, SeqEqual DEF n
<1> QED
  BY <1>1, <1>6 DEF Front, part, s

(* An empty line at the end goes, another stays.                           *)
LEMMA WithoutLastEmptyOfAppend ==
    ASSUME NEW front \in Seq(Text), NEW line \in Text
    PROVE  WithoutLastEmpty(Append(front, line)) =
              IF line = << >> THEN front ELSE Append(front, line)
<1> DEFINE lines == Append(front, line)
<1>1. lines # << >> /\ Last(lines) = line
  BY AppendProperties DEF Last
<1>2. Front(lines) = front
  BY FrontOfAppend
<1> QED
  BY <1>1, <1>2 DEF WithoutLastEmpty

(* The last element of two sequences is that of the second.                *)
LEMMA LastOfConcat ==
    ASSUME NEW a \in Text, NEW b \in Text, b # << >>
    PROVE  a \o b # << >> /\ Last(a \o b) = Last(b)
<1>1. a \in Seq(Char) /\ b \in Seq(Char) /\ Len(b) \in Nat /\ Len(b) >= 1 /\ Len(a) \in Nat
  BY DEF Text
<1>2. Len(a \o b) = Len(a) + Len(b) /\ (a \o b)[Len(a) + Len(b)] = b[Len(b)]
  BY <1>1
<1> QED
  BY <1>1, <1>2 DEF Last

(* A page with these lines, the last one ended like the others.            *)
EndedBy(body, front) ==
    /\ front \in LineSeqs
    /\ EndsWithLF(body) /\ body = Append(Join(front), LF)
    /\ Split(body) = Append(front, << >>) /\ SplitBodyLines(body) = front

(* A page is empty, or its last line is ended, or it is not.               *)
LEMMA PageEnds ==
    ASSUME NEW body \in Text
    PROVE  \/ body = << >> /\ Split(body) = <<<< >>>> /\ SplitBodyLines(body) = << >>
           \/ \E front \in LineSeqs : EndedBy(body, front)
           \/ /\ body # << >> /\ ~EndsWithLF(body)
              /\ SplitBodyLines(body) = Split(body) /\ Last(Split(body)) # << >>
<1>1. PICK front \in Seq(LineText), line \in LineText : Split(body) = Append(front, line)
  BY JoinOfSplit, SequenceEmptyOrAppend DEF LineSeqs
<1>2. front \in Seq(Text) /\ line \in Text
  BY LineSeqTexts DEF LineText
<1>3. SplitBodyLines(body) = IF line = << >> THEN front ELSE Append(front, line)
  BY <1>1, <1>2, WithoutLastEmptyOfAppend DEF SplitBodyLines
<1>4. body = Join(Append(front, line))
  BY <1>1, JoinOfSplit
<1>5. Last(Split(body)) = line
  BY <1>1, <1>2, AppendProperties DEF Last
<1>6. line # << >> => Last(line) # LF
  <2> SUFFICES ASSUME line # << >> PROVE Last(line) # LF
    OBVIOUS
  <2>1. line \in Seq(Char) /\ \A i \in DOMAIN line : line[i] # LF
    BY DEF LineText, Text
  <2>2. Len(line) \in DOMAIN line
    BY <2>1
  <2> QED BY <2>1, <2>2 DEF Last
<1>7. CASE front = << >>
  <2>1. Append(front, line) = <<line>> /\ body = line
    BY <1>2, <1>4, <1>7, JoinOne
  <2> QED BY <1>1, <1>3, <1>5, <1>6, <1>7, <2>1 DEF EndsWithLF
<1>8. CASE front # << >>
  <2>1. body = Join(front) \o <<LF>> \o line
    BY <1>2, <1>4, <1>8, JoinMore
  <2>2. Join(front) \in Text /\ <<LF>> \in Text /\ Join(front) \o <<LF>> \in Text
    BY <1>2, JoinIsText, TextConcat DEF Text, Char, Syntax
  <2>3. CASE line = << >>
    <3>1. body = Append(Join(front), LF)
      BY <2>1, <2>2, <2>3 DEF Text
    <3>2. EndsWithLF(body)
      BY <2>2, <3>1 DEF EndsWithLF, Last, Text
    <3> QED BY <1>1, <1>3, <1>8, <2>3, <3>1, <3>2 DEF EndedBy, LineSeqs
  <2>4. CASE line # << >>
    <3>1. body # << >> /\ Last(body) = Last(line)
      BY <1>2, <2>1, <2>2, <2>4, LastOfConcat
    <3> QED BY <1>1, <1>3, <1>5, <1>6, <2>4, <3>1 DEF EndsWithLF
  <2> QED BY <2>3, <2>4
<1> QED
  BY <1>7, <1>8

(* A line of the page that is not empty is the same line, at the same      *)
(* number, in either list.                                                 *)
LEMMA BodyLine ==
    ASSUME NEW body \in Text
    PROVE  /\ SplitBodyLines(body) \in Seq(LineText)
           /\ \A i \in DOMAIN SplitBodyLines(body) :
                 i \in DOMAIN Split(body) /\ SplitBodyLines(body)[i] = Split(body)[i]
           /\ \A i \in DOMAIN Split(body) :
                 Split(body)[i] # << >> => i \in DOMAIN SplitBodyLines(body)
<1>1. Split(body) \in Seq(LineText)
  BY JoinOfSplit DEF LineSeqs
<1>2. CASE body = << >> /\ Split(body) = <<<< >>>> /\ SplitBodyLines(body) = << >>
  <2>0. DOMAIN << >> = {} /\ << >> \in Seq(LineText)
    OBVIOUS
  <2>1. DOMAIN SplitBodyLines(body) = {} /\ SplitBodyLines(body) \in Seq(LineText)
    BY <1>2, <2>0, Zenon
  <2>2. \A i \in DOMAIN Split(body) : Split(body)[i] = << >>
    BY <1>2
  <2> QED BY <2>1, <2>2
<1>3. CASE \E front \in LineSeqs : EndedBy(body, front)
  <2>1. PICK front \in Seq(LineText) :
           Split(body) = Append(front, << >>) /\ SplitBodyLines(body) = front
    BY <1>3 DEF EndedBy, LineSeqs
  <2>2. << >> \in LineText
    BY DEF LineText, Text
  <2>3. /\ Len(front) \in Nat /\ DOMAIN front = 1..Len(front)
        /\ DOMAIN Append(front, << >>) = 1..Len(front) + 1
        /\ \A i \in 1..Len(front) : Append(front, << >>)[i] = front[i]
        /\ Append(front, << >>)[Len(front) + 1] = << >>
    BY <2>2, AppendProperties
  <2>4. \A i \in 1..Len(front) + 1 : i \in 1..Len(front) \/ i = Len(front) + 1
    BY <2>3
  <2>5. \A i \in 1..Len(front) : i \in 1..Len(front) + 1
    BY <2>3
  <2> QED BY <2>1, <2>3, <2>4, <2>5
<1>4. CASE SplitBodyLines(body) = Split(body)
  BY <1>1, <1>4
<1> QED
  BY <1>2, <1>3, <1>4, PageEnds

(* A sequence with one member replaced, as _apply_line_patch puts it       *)
(* together, and with another behind it.                                   *)
Replaced(S, s, t, i, x) ==
    /\ s \in Seq(S) /\ t \in Seq(S) /\ x \in S
    /\ i \in DOMAIN s /\ Len(t) = Len(s)
    /\ \A k \in 1..Len(s) : t[k] = IF k = i THEN x ELSE s[k]

(* One element between the two parts of a sequence around its place.       *)
LEMMA SpliceOne ==
    ASSUME NEW S, NEW s, NEW t, NEW i, NEW x, Replaced(S, s, t, i, x)
    PROVE  SubSeq(s, 1, i - 1) \o <<x>> \o SubSeq(s, i + 1, Len(s)) = t
<1> DEFINE n == Len(s)
           a == SubSeq(s, 1, i - 1)
           b == SubSeq(s, i + 1, n)
<1>1. n \in Nat /\ i \in 1..n /\ i \in Nat /\ DOMAIN s = 1..n
  BY DEF Replaced
<1>2. /\ Len(t) = n /\ \A k \in 1..n : t[k] = IF k = i THEN x ELSE s[k]
      /\ t \in Seq(S) /\ x \in S
  BY DEF Replaced
<1>12. \A k \in 1..n : s[k] \in S
  BY DEF Replaced
<1>3. /\ a \in Seq(S)
      /\ Len(a) = IF 1 <= i - 1 THEN (i - 1) - 1 + 1 ELSE 0
      /\ \A k \in 1..(i - 1) - 1 + 1 : a[k] = s[1 + k - 1]
  <2> DEFINE m == i - 1
  <2>1. 1 \in Int /\ m \in Int /\ \A k \in 1..m : s[k] \in S
    BY <1>1, <1>12
  <2> HIDE DEF m, n
  <2>2. /\ SubSeq(s, 1, m) \in Seq(S)
        /\ Len(SubSeq(s, 1, m)) = IF 1 <= m THEN m - 1 + 1 ELSE 0
        /\ \A k \in 1..m - 1 + 1 : SubSeq(s, 1, m)[k] = s[1 + k - 1]
    BY <2>1, SubSeqProperties
  <2> QED BY <2>2 DEF m
<1>4. /\ b \in Seq(S)
      /\ Len(b) = IF i + 1 <= n THEN n - (i + 1) + 1 ELSE 0
      /\ \A k \in 1..n - (i + 1) + 1 : b[k] = s[(i + 1) + k - 1]
  <2> DEFINE m == i + 1
  <2>1. n \in Int /\ m \in Int /\ \A k \in m..n : s[k] \in S
    BY <1>1, <1>12
  <2> HIDE DEF m, n
  <2>2. /\ SubSeq(s, m, n) \in Seq(S)
        /\ Len(SubSeq(s, m, n)) = IF m <= n THEN n - m + 1 ELSE 0
        /\ \A k \in 1..n - m + 1 : SubSeq(s, m, n)[k] = s[m + k - 1]
    BY <2>1, SubSeqProperties
  <2> QED BY <2>2 DEF m
<1> HIDE DEF n, a, b
<1>5. Len(a) = i - 1 /\ Len(b) = n - i
  <2>1. Len(a) = IF 1 <= i - 1 THEN (i - 1) - 1 + 1 ELSE 0
    BY <1>3
  <2>2. Len(b) = IF i + 1 <= n THEN n - (i + 1) + 1 ELSE 0
    BY <1>4
  <2>3. i \in Nat /\ n \in Nat /\ 1 <= i /\ i <= n
    BY <1>1
  <2>4. Len(a) = i - 1
    BY <2>1, <2>3
  <2>5. Len(b) = n - i
    BY <2>2, <2>3
  <2> QED BY <2>4, <2>5
<1>6. \A k \in 1..i - 1 : a[k] = s[k]
  <2>1. \A k \in 1..i - 1 : k \in 1..(i - 1) - 1 + 1 /\ 1 + k - 1 = k
    BY <1>1
  <2> QED BY <1>3, <2>1
<1>7. \A k \in i + 1..n : k - i \in 1..n - i /\ b[k - i] = s[k]
  <2>1. \A k \in i + 1..n : /\ k - i \in 1..n - i /\ k - i \in 1..n - (i + 1) + 1
                            /\ (i + 1) + (k - i) - 1 = k
    BY <1>1
  <2> QED BY <1>4, <2>1
<1> DEFINE ax == a \o <<x>>
           c == ax \o b
<1>8. /\ ax \in Seq(S) /\ Len(ax) = i
      /\ \A k \in 1..i - 1 : ax[k] = a[k]
      /\ ax[i] = x
  BY <1>1, <1>2, <1>3, <1>5
<1> HIDE DEF ax
<1>9. /\ c \in Seq(S) /\ Len(c) = n
      /\ \A k \in 1..i : c[k] = ax[k]
      /\ \A k \in i + 1..n : c[k] = b[k - i]
  <2>1. /\ ax \in Seq(S) /\ b \in Seq(S) /\ Len(ax) = i /\ Len(b) = n - i
        /\ i \in Nat /\ n \in Nat /\ i <= n
    BY <1>1, <1>4, <1>5, <1>8
  <2>2. /\ c \in Seq(S) /\ Len(c) = Len(ax) + Len(b)
        /\ \A k \in 1..Len(ax) + Len(b) : c[k] = IF k <= Len(ax) THEN ax[k] ELSE b[k - Len(ax)]
    BY <2>1, ConcatProperties
  <2> HIDE DEF c
  <2>3. Len(ax) + Len(b) = n
    BY <2>1
  <2>4. \A k \in 1..i : k \in 1..n /\ k <= i
    BY <2>1
  <2>5. \A k \in i + 1..n : k \in 1..n /\ ~(k <= i)
    <3>1. i \in Nat /\ n \in Nat
      BY <2>1
    <3> QED BY <3>1
  <2> QED BY <2>1, <2>2, <2>3, <2>4, <2>5
<1> HIDE DEF c
<1>10. \A k \in 1..n : c[k] = t[k]
  <2>1. \A k \in 1..n : k \in 1..i - 1 \/ k = i \/ k \in i + 1..n
    BY <1>1
  <2>2. \A k \in 1..i - 1 : c[k] = t[k]
    <3>1. \A k \in 1..i - 1 : k \in 1..i /\ k \in 1..n /\ k # i
      BY <1>1
    <3> QED BY <1>2, <1>6, <1>8, <1>9, <3>1
  <2>3. c[i] = t[i]
    BY <1>1, <1>2, <1>8, <1>9
  <2>4. \A k \in i + 1..n : c[k] = t[k]
    <3>1. \A k \in i + 1..n : k \in 1..n /\ k # i
      BY <1>1
    <3> QED BY <1>2, <1>7, <1>9, <3>1
  <2> QED BY <2>1, <2>2, <2>3, <2>4
<1>11. c = t
  BY <1>2, <1>9, <1>10, SeqEqual
<1> QED
  BY <1>11 DEF c, ax, a, b, n

(* Changing an element before the last one leaves the last one alone.      *)
LEMMA ExceptOfAppend ==
    ASSUME NEW S, NEW s \in Seq(S), NEW i \in DOMAIN s, NEW x \in S, NEW y \in S
    PROVE  [Append(s, y) EXCEPT ![i] = x] = Append([s EXCEPT ![i] = x], y)
<1> DEFINE n == Len(s)
           u == [s EXCEPT ![i] = x]
           a == Append(s, y)
           b == [a EXCEPT ![i] = x]
           c == Append(u, y)
<1>1. n \in Nat /\ DOMAIN s = 1..n /\ i \in 1..n
  OBVIOUS
<1>2. u \in Seq(S) /\ Len(u) = n /\ \A k \in 1..n : u[k] = IF k = i THEN x ELSE s[k]
  BY ExceptSeq
<1>3. a \in Seq(S) /\ Len(a) = n + 1 /\ a[n + 1] = y /\ \A k \in 1..n : a[k] = s[k]
  BY AppendProperties
<1> HIDE DEF u, a, n
<1>4. i \in 1..Len(a)
  BY <1>1, <1>3
<1>5. b \in Seq(S) /\ Len(b) = n + 1 /\ \A k \in 1..n + 1 : b[k] = IF k = i THEN x ELSE a[k]
  BY <1>3, <1>4, ExceptSeq
<1>6. c \in Seq(S) /\ Len(c) = n + 1 /\ c[n + 1] = y /\ \A k \in 1..n : c[k] = u[k]
  BY <1>2, AppendProperties
<1> HIDE DEF b, c
<1>7. \A k \in 1..n + 1 : b[k] = c[k]
  <2>1. \A k \in 1..n + 1 : k \in 1..n \/ k = n + 1
    BY <1>1
  <2>2. \A k \in 1..n : k \in 1..n + 1 /\ n + 1 \in 1..n + 1 /\ n + 1 # i
    BY <1>1
  <2>3. \A k \in 1..n : b[k] = c[k]
    BY <1>2, <1>3, <1>5, <1>6, <2>2
  <2>4. b[n + 1] = c[n + 1]
    BY <1>1, <1>3, <1>5, <1>6, <2>2
  <2> QED BY <2>1, <2>3, <2>4
<1>8. b = c
  BY <1>5, <1>6, <1>7, SeqEqual
<1> QED
  BY <1>8 DEF b, c, a, u

(* patch_page_lines with one line for another: the new text is that line,  *)
(* and every other line stays what and where it was.                       *)
LEMMA LinePatched ==
    ASSUME NEW body \in Text, NEW i \in DOMAIN SplitBodyLines(body),
           NEW text \in LineText, text # << >>
    PROVE  LET patched == LinesPatched(body, i, i, text) IN
           /\ Split(patched) = [Split(body) EXCEPT ![i] = text]
           /\ SplitBodyLines(patched) = [SplitBodyLines(body) EXCEPT ![i] = text]
<1> DEFINE lines == SplitBodyLines(body)
           new == [lines EXCEPT ![i] = text]
           joined == Join(new)
           patched == LinesPatched(body, i, i, text)
<1>1. lines \in Seq(LineText) /\ lines \in Seq(Text) /\ text \in Text
  BY BodyLine, LineSeqTexts DEF LineText
<1>2. SplitBodyLines(text) = <<text>>
  <2>1. Split(text) = <<text>> /\ <<text>> # << >> /\ Last(<<text>>) = text
    BY SplitOne DEF Last
  <2> QED BY <2>1 DEF SplitBodyLines, WithoutLastEmpty
<1>12. i \in DOMAIN lines
  OBVIOUS
<1> HIDE DEF lines
<1>3. new \in Seq(LineText) /\ Len(new) = Len(lines) /\ new[i] = text /\ i \in 1..Len(lines)
  <2>1. i \in 1..Len(lines)
    BY <1>1, <1>12
  <2> QED BY <1>1, <2>1, ExceptSeq
<1>4. SubSeq(lines, 1, i - 1) \o <<text>> \o SubSeq(lines, i + 1, Len(lines)) = new
  <2>1. Replaced(LineText, lines, new, i, text)
    BY <1>1, <1>3, <1>12, ExceptSeq DEF Replaced
  <2> HIDE DEF new
  <2> QED BY <2>1, SpliceOne
<1>5. patched = IF EndsWithLF(body) /\ joined # << >> THEN Append(joined, LF) ELSE joined
  BY <1>2, <1>4, Zenon DEF LinesPatched, lines
<1> HIDE DEF new
<1>6. new \in LineSeqs /\ new \in Seq(Text) /\ new # << >>
  <2>1. Len(new) # 0
    BY <1>1, <1>3
  <2> QED BY <1>3, <2>1, LineSeqTexts DEF LineSeqs
<1>7. Split(joined) = new
  BY <1>6, SplitOfJoin
<1>8. joined # << >>
  <2> SUFFICES ASSUME joined = << >> PROVE FALSE
    OBVIOUS
  <2>1. << >> \in LineText
    BY DEF LineText, Text
  <2>2. new = <<<< >>>>
    BY <1>7, <2>1, SplitOne
  <2>3. Len(<<<< >>>>) = 1 /\ <<<< >>>>[1] = << >>
    OBVIOUS
  <2>4. i = 1
    <3>1. Len(lines) = 1
      BY <1>3, <2>2, <2>3, Zenon
    <3>2. i \in 1..Len(lines)
      BY <1>3
    <3> QED BY <3>1, <3>2
  <2> QED BY <1>3, <2>2, <2>3, <2>4
<1>9. CASE \E front \in LineSeqs : EndedBy(body, front)
  <2>1. PICK front \in LineSeqs : EndedBy(body, front)
    BY <1>9
  <2>2. front = lines /\ EndsWithLF(body) /\ Split(body) = Append(lines, << >>)
    BY <2>1 DEF EndedBy, lines
  <2>3. << >> \in LineText /\ << >> \in Text
    BY DEF LineText, Text
  <2>4. joined \in Text
    BY <1>6, JoinIsText
  <2>5. patched = Join(Append(new, << >>))
    <3>1. Join(Append(new, << >>)) = joined \o <<LF>> \o << >>
      BY <1>6, <2>3, JoinMore
    <3>2. joined \o <<LF>> \o << >> = Append(joined, LF)
      BY <2>4 DEF Text, Char, Syntax
    <3> QED BY <1>5, <1>8, <2>2, <3>1, <3>2
  <2>6. Append(new, << >>) \in LineSeqs
    BY <1>3, <2>3, AppendProperties DEF LineSeqs
  <2>7. Split(patched) = Append(new, << >>)
    BY <2>5, <2>6, SplitOfJoin
  <2>8. Append(new, << >>) = [Split(body) EXCEPT ![i] = text]
    BY <1>1, <2>2, <2>3, ExceptOfAppend DEF new, lines
  <2>9. SplitBodyLines(patched) = new
    BY <1>6, <2>3, <2>7, WithoutLastEmptyOfAppend DEF SplitBodyLines
  <2> QED BY <2>7, <2>8, <2>9 DEF new, lines
<1>10. CASE ~EndsWithLF(body) /\ SplitBodyLines(body) = Split(body) /\ Last(Split(body)) # << >>
  <2>1. patched = joined
    BY <1>5, <1>10
  <2>2. Last(new) # << >>
    BY <1>1, <1>3, <1>10, ExceptSeq DEF new, lines, Last
  <2>3. SplitBodyLines(patched) = new
    BY <1>7, <2>1, <2>2 DEF SplitBodyLines, WithoutLastEmpty
  <2> QED BY <1>7, <1>10, <2>1, <2>3 DEF new, lines
<1>11. lines # << >>
  BY <1>1, <1>3
<1> QED
  BY <1>9, <1>10, <1>11, PageEnds DEF lines

(* Joining lines brings in no characters but line feeds.                   *)
LEMMA JoinChars ==
    ASSUME NEW C \in SUBSET Char, LF \in C, NEW lines \in Seq(Seq(C))
    PROVE  Join(lines) \in Seq(C)
<1>1. CASE lines = << >>
  <2>1. Join(lines) = << >>
    BY <1>1, JoinIsOn
  <2> QED BY <2>1
<1>2. CASE lines # << >>
  <2> DEFINE first == Head(lines)
             rest == Tail(lines)
             n == Len(rest)
  <2>1. first \in Seq(C) /\ rest \in Seq(Seq(C)) /\ n \in Nat
    BY <1>2
  <2>2. \A s \in Seq(C) : s \in Text
    BY SeqMonotonic DEF Text
  <2>3. first \in Text /\ rest \in Seq(Text)
    BY <2>1, <2>2, SeqMonotonic
  <2> HIDE DEF first, rest
  <2>4. PICK h : JoinSteps(h, first, rest)
    BY <2>3, JoinStepsExist
  <2> DEFINE G == {k \in Nat : k <= n => h[k] \in Seq(C)}
  <2>5. 0 \in G
    BY <2>1, <2>4 DEF JoinSteps
  <2>6. ASSUME NEW k \in Nat, k \in G PROVE k + 1 \in G
    <3> SUFFICES ASSUME k + 1 <= n PROVE h[k + 1] \in Seq(C)
      OBVIOUS
    <3>1. k + 1 \in 1..Len(rest) /\ (k + 1) - 1 = k /\ k <= n
      BY <2>1
    <3>2. h[k + 1] = h[k] \o <<LF>> \o rest[k + 1]
      BY <2>4, <3>1 DEF JoinSteps
    <3>3. h[k] \in Seq(C) /\ rest[k + 1] \in Seq(C) /\ <<LF>> \in Seq(C)
      BY <2>1, <2>6, <3>1
    <3>4. h[k] \o <<LF>> \in Seq(C)
      BY <3>3, ConcatProperties
    <3> QED BY <3>2, <3>3, <3>4, ConcatProperties
  <2>7. Nat \subseteq G
    <3> HIDE DEF G
    <3> QED BY <2>5, <2>6, NumberInduction
  <2>8. h[n] \in Seq(C)
    BY <2>1, <2>7
  <2>9. Join(lines) = h[n]
    BY <1>2, <2>3, <2>4, JoinIsOn, JoinIsSteps DEF first, rest
  <2> QED BY <2>8, <2>9
<1> QED
  BY <1>1, <1>2

(* The characters of a page with no line boundaries but line feeds.        *)
Unbroken == Char \ {CR, FF}

(* On such a page str.splitlines gives the lines of the others.            *)
LEMMA SplitLinesPlain ==
    ASSUME NEW body \in Seq(Unbroken)
    PROVE  SplitLines(body) = SplitBodyLines(body)
<1> DEFINE BeforeLF(i) == i < Len(body) /\ body[i + 1] = LF
           breaks == {i \in DOMAIN body : body[i] \in {LF, FF} \/ (body[i] = CR /\ ~BeforeLF(i))}
           pieces == CutAt(body, breaks)
           Line(piece) == IF piece # << >> /\ Last(piece) = CR THEN Front(piece) ELSE piece
           lines == [k \in DOMAIN pieces |-> Line(pieces[k])]
<1>1. \A i \in DOMAIN body : body[i] # CR /\ body[i] # FF
  BY DEF Unbroken
<1>2. breaks = {i \in DOMAIN body : body[i] = LF}
  BY <1>1
<1>3. pieces = Split(body)
  BY <1>2 DEF Split
<1>4. SplitLines(body) = WithoutLastEmpty(lines)
  BY DEF SplitLines
<1>5. breaks \in SUBSET DOMAIN body
  OBVIOUS
<1> HIDE DEF breaks
<1>6. pieces \in Seq(Seq(Unbroken))
  BY <1>5, CutType
<1> HIDE DEF pieces
<1>7. ASSUME NEW k \in DOMAIN pieces PROVE Line(pieces[k]) = pieces[k]
  <2>1. pieces[k] \in Seq(Unbroken)
    BY <1>6
  <2>2. pieces[k] # << >> => Last(pieces[k]) \in Unbroken
    BY <2>1 DEF Last
  <2> QED BY <2>2 DEF Unbroken
<1> HIDE DEF Line
<1>8. lines = pieces
  BY <1>6, <1>7
<1> QED
  BY <1>3, <1>4, <1>8 DEF SplitBodyLines

-------------------------------------------------------------------------------
(***************************************************************************)
(* Lines before and after others.                                          *)
(***************************************************************************)
(* Three sequences one after another. *)
LEMMA ThreeParts ==
    ASSUME NEW S, NEW a \in Seq(S), NEW m \in Seq(S), NEW b \in Seq(S)
    PROVE  /\ a \o m \o b \in Seq(S)
           /\ Len(a) \in Nat /\ Len(m) \in Nat /\ Len(b) \in Nat
           /\ Len(a \o m \o b) = Len(a) + Len(m) + Len(b)
           /\ \A i \in 1..Len(a) : (a \o m \o b)[i] = a[i]
           /\ \A i \in 1..Len(m) : (a \o m \o b)[Len(a) + i] = m[i]
           /\ \A i \in 1..Len(b) : (a \o m \o b)[Len(a) + Len(m) + i] = b[i]
<1> DEFINE p == Len(a)
           q == Len(m)
           r == Len(b)
           am == a \o m
           all == am \o b
<1>1. p \in Nat /\ q \in Nat /\ r \in Nat
  OBVIOUS
<1>2. /\ am \in Seq(S) /\ Len(am) = p + q
      /\ \A i \in 1..p + q : am[i] = IF i <= p THEN a[i] ELSE m[i - p]
  BY ConcatProperties
<1> HIDE DEF am, p, q, r
<1>3. /\ all \in Seq(S) /\ Len(all) = p + q + r
      /\ \A i \in 1..p + q + r : all[i] = IF i <= p + q THEN am[i] ELSE b[i - (p + q)]
  <2>1. /\ all \in Seq(S) /\ Len(all) = Len(am) + Len(b)
        /\ \A i \in 1..Len(am) + Len(b) : all[i] = IF i <= Len(am) THEN am[i] ELSE b[i - Len(am)]
    BY <1>2, ConcatProperties
  <2> QED BY <1>2, <2>1 DEF r
<1> HIDE DEF all
<1>4. ASSUME NEW i \in 1..p PROVE all[i] = a[i]
  <2>1. i \in 1..p + q + r /\ i <= p + q /\ i \in 1..p + q /\ i <= p
    BY <1>1
  <2> QED BY <1>2, <1>3, <2>1
<1>5. ASSUME NEW i \in 1..q PROVE all[p + i] = m[i]
  <2>1. /\ p + i \in 1..p + q + r /\ p + i <= p + q /\ p + i \in 1..p + q
        /\ ~(p + i <= p) /\ (p + i) - p = i
    BY <1>1
  <2> QED BY <1>2, <1>3, <2>1
<1>6. ASSUME NEW i \in 1..r PROVE all[p + q + i] = b[i]
  <2>1. p + q + i \in 1..p + q + r /\ ~(p + q + i <= p + q) /\ (p + q + i) - (p + q) = i
    BY <1>1
  <2> QED BY <1>3, <2>1
<1> QED
  BY <1>1, <1>3, <1>4, <1>5, <1>6 DEF all, am, p, q, r

(* A line feed is a text.                                                  *)
LEMMA LineFeedText == <<LF>> \in Text
  BY DEF Text, Char, Syntax

(* Join of lines behind others. *)
LEMMA JoinConcat ==
    ASSUME NEW a \in LineSeqs, NEW b \in LineSeqs
    PROVE  /\ a \o b \in LineSeqs
           /\ Join(a) \in Text /\ Join(b) \in Text
           /\ Join(a \o b) = Join(a) \o <<LF>> \o Join(b)
<1> DEFINE Good(n) == \A c \in LineSeqs : Len(c) = n + 1 => Join(a \o c) = Join(a) \o <<LF>> \o Join(c)
           G == {n \in Nat : Good(n)}
<1>1. \A c \in LineSeqs : c \in Seq(LineText) /\ c \in Seq(Text) /\ c # << >> /\ Join(c) \in Text
  BY LineSeqTexts, JoinIsText DEF LineSeqs
<1>2. \A c \in LineSeqs : a \o c \in LineSeqs
  <2> SUFFICES ASSUME NEW c \in LineSeqs PROVE a \o c \in LineSeqs
    OBVIOUS
  <2>1. a \o c \in Seq(LineText)
    BY <1>1, ConcatProperties
  <2>2. a \o c # << >>
    BY <1>1, ConcatEqualIffEmpty
  <2> QED BY <2>1, <2>2 DEF LineSeqs
<1>3. ASSUME NEW c \in Seq(LineText), NEW line \in LineText
      PROVE  a \o Append(c, line) = Append(a \o c, line)
  <2>1. Append(c, line) = c \o <<line>> /\ a \o c \in Seq(LineText) /\ <<line>> \in Seq(LineText)
    BY <1>1, AppendIsConcat, ConcatProperties
  <2>2. Append(a \o c, line) = (a \o c) \o <<line>>
    BY <2>1, AppendIsConcat
  <2> QED BY <1>1, <2>1, <2>2, ConcatAssociative
<1>4. 0 \in G
  <2> SUFFICES ASSUME NEW c \in LineSeqs, Len(c) = 0 + 1
               PROVE  Join(a \o c) = Join(a) \o <<LF>> \o Join(c)
    OBVIOUS
  <2>1. c[1] \in LineText /\ c[1] \in Text /\ c = <<c[1]>>
    <3>1. c \in Seq(LineText)
      BY <1>1
    <3>4. 1 \in 1..Len(c)
      OBVIOUS
    <3>2. c[1] \in LineText
      BY <3>1, <3>4, ElementOfSeq
    <3>3. c = <<c[1]>>
      BY <3>1
    <3> QED BY <3>2, <3>3 DEF LineText
  <2> DEFINE line == c[1]
  <2> HIDE DEF line
  <2>2. line \in LineText /\ line \in Text /\ c = <<line>>
    BY <2>1 DEF line
  <2>3. Join(c) = line
    BY <2>2, JoinOne
  <2>4. a \o c = Append(a, line)
    BY <1>1, <2>2, AppendIsConcat
  <2> QED BY <1>1, <2>2, <2>3, <2>4, JoinMore
<1>5. ASSUME NEW n \in Nat, n \in G PROVE n + 1 \in G
  <2>0. Good(n + 1) => n + 1 \in G
    <3> HIDE DEF Good
    <3> QED OBVIOUS
  <2> SUFFICES Good(n + 1)
    BY <2>0
  <2> SUFFICES ASSUME NEW c \in LineSeqs, Len(c) = (n + 1) + 1
               PROVE  Join(a \o c) = Join(a) \o <<LF>> \o Join(c)
    OBVIOUS
  <2>1. PICK front \in Seq(LineText), line \in LineText : c = Append(front, line)
    BY <1>1, SequenceEmptyOrAppend
  <2>2. Len(front) = n + 1 /\ front \in LineSeqs /\ line \in Text
    <3>1. Len(front) = n + 1
      BY <2>1
    <3>2. front # << >>
      BY <3>1
    <3> QED BY <3>1, <3>2 DEF LineSeqs, LineText
  <2>3. Join(a \o front) = Join(a) \o <<LF>> \o Join(front)
    BY <1>5, <2>2
  <2>4. Join(c) = Join(front) \o <<LF>> \o line
    BY <1>1, <2>1, <2>2, JoinMore
  <2>5. Join(a \o c) = Join(a \o front) \o <<LF>> \o line
    BY <1>1, <1>2, <1>3, <2>1, <2>2, JoinMore
  <2> DEFINE ja == Join(a) \o <<LF>>
             jf == Join(front)
             end == <<LF>> \o line
  <2>6. ja \in Text /\ jf \in Text /\ end \in Text /\ <<LF>> \in Text /\ jf \o <<LF>> \in Text
    BY <1>1, <2>2, LineFeedText, TextConcat
  <2>7. ja \o jf \in Text
    BY <2>6, TextConcat
  <2>8. (ja \o jf) \o <<LF>> \o line = (ja \o jf) \o end
    BY <2>2, <2>6, <2>7, ConcatAssociative DEF Text
  <2>9. jf \o <<LF>> \o line = jf \o end
    BY <2>2, <2>6, ConcatAssociative DEF Text
  <2> HIDE DEF ja, jf, end
  <2>10. (ja \o jf) \o end = ja \o (jf \o end)
    BY <2>6, ConcatAssociative DEF Text
  <2> QED BY <2>3, <2>4, <2>5, <2>8, <2>9, <2>10 DEF ja, jf, end
<1>6. Nat \subseteq G
  <2> HIDE DEF G
  <2> QED BY <1>4, <1>5, NumberInduction
<1>7. Len(b) - 1 \in Nat /\ Len(b) = (Len(b) - 1) + 1
  BY <1>1
<1>8. Good(Len(b) - 1)
  BY <1>6, <1>7
<1> QED
  BY <1>1, <1>2, <1>7, <1>8

(* A text starts with its first line.                                      *)
LEMMA FirstLineFirst ==
    ASSUME NEW lines \in LineSeqs
    PROVE  lines[1] \in Text /\ \E rest \in Text : Join(lines) = lines[1] \o rest
<1> DEFINE first == lines[1]
<1>1. lines \in Seq(LineText) /\ lines # << >> /\ first \in LineText /\ first \in Text
  BY DEF LineSeqs, LineText
<1>2. lines = <<first>> \o Tail(lines) /\ Tail(lines) \in Seq(LineText)
  BY <1>1
<1>3. Join(<<first>>) = first
  BY <1>1, JoinOne
<1>4. CASE Tail(lines) = << >>
  <2>1. lines = <<first>>
    <3> HIDE DEF first
    <3>1. lines = <<first>> \o << >>
      BY <1>2, <1>4
    <3> QED BY <3>1
  <2>2. Join(lines) = first \o << >> /\ << >> \in Text
    BY <1>1, <1>3, <2>1 DEF Text
  <2> QED BY <1>1, <2>2
<1>5. CASE Tail(lines) # << >>
  <2>1. <<first>> \in LineSeqs /\ Tail(lines) \in LineSeqs
    BY <1>1, <1>2, <1>5 DEF LineSeqs
  <2> DEFINE rest == Join(Tail(lines))
  <2>2. Join(lines) = first \o <<LF>> \o rest /\ rest \in Text
    BY <1>2, <1>3, <2>1, JoinConcat
  <2> HIDE DEF rest, first
  <2>3. first \o <<LF>> \o rest = first \o (<<LF>> \o rest) /\ <<LF>> \o rest \in Text
    BY <1>1, <2>2, LineFeedText, TextConcat, ConcatAssociative DEF Text
  <2> QED BY <1>1, <2>2, <2>3 DEF first
<1> QED
  BY <1>4, <1>5

-------------------------------------------------------------------------------
(***************************************************************************)
(* Where a line stands in its text, and a task line's parts.               *)
(***************************************************************************)
(* Where lines start does not depend on the lines behind them.             *)
LEMMA SizesOfFirst ==
    ASSUME NEW a \in Seq(Text), NEW lines \in Seq(Text), NEW n \in Nat,
           n <= Len(a), n <= Len(lines), \A k \in 1..n : lines[k] = a[k]
    PROVE  SumFunctionOnSet(Sizes(lines), 1..n) = SumFunctionOnSet(Sizes(a), 1..n)
<1>1. DOMAIN a = 1..Len(a) /\ DOMAIN lines = 1..Len(lines) /\ Len(a) \in Nat /\ Len(lines) \in Nat
  OBVIOUS
<1>2. \A k \in 1..n : k \in DOMAIN a /\ k \in DOMAIN lines
  BY <1>1
<1>3. \A k \in 1..n : Sizes(a)[k] = Len(a[k]) + 1 /\ Sizes(lines)[k] = Len(lines[k]) + 1
  BY <1>2 DEF Sizes
<1>4. \A k \in 1..n : Len(a[k]) + 1 \in Nat
  <2>1. \A k \in DOMAIN a : a[k] \in Text
    OBVIOUS
  <2>2. \A s \in Text : Len(s) + 1 \in Nat
    BY DEF Text
  <2> QED BY <1>2, <2>1, <2>2
<1>5. Summable(Sizes(a), 1..n)
  BY <1>3, <1>4 DEF Summable
<1>6. \A k \in 1..n : Sizes(lines)[k] = Sizes(a)[k]
  BY <1>3
<1>7. IsFiniteSet(1..n)
  BY FS_Interval
<1> QED
  BY <1>5, <1>6, <1>7, SumEqual

(* A line more begins behind the line feed of the one before.              *)
LEMMA SizesOfAppend ==
    ASSUME NEW front \in Seq(Text), NEW line \in Text
    PROVE  /\ SumFunctionOnSet(Sizes(Append(front, line)), 1..Len(front))
                = SumFunctionOnSet(Sizes(front), 1..Len(front))
           /\ SumFunctionOnSet(Sizes(Append(front, line)), 1..Len(front) + 1)
                = SumFunctionOnSet(Sizes(front), 1..Len(front)) + Len(line) + 1
<1> DEFINE n == Len(front)
           lines == Append(front, line)
<1>1. /\ n \in Nat /\ lines \in Seq(Text) /\ Len(lines) = n + 1 /\ Len(line) \in Nat
      /\ \A k \in 1..n : lines[k] = front[k]
      /\ lines[n + 1] = line
  BY AppendProperties DEF Text
<1> HIDE DEF lines
<1>2. SumFunctionOnSet(Sizes(lines), 1..n) = SumFunctionOnSet(Sizes(front), 1..n)
  <2>1. n <= Len(front) /\ n <= Len(lines)
    BY <1>1
  <2> HIDE DEF n
  <2> QED BY <1>1, <2>1, SizesOfFirst
<1>3. /\ SumFunctionOnSet(Sizes(lines), 1..n) \in Nat
      /\ SumFunctionOnSet(Sizes(lines), 1..n + 1) \in Nat
  BY <1>1, SizesSumUp
<1>4. Summable(Sizes(lines), 1..n + 1)
  <2>1. \A k \in 1..n + 1 : k \in DOMAIN lines /\ lines[k] \in Text
    BY <1>1
  <2>2. \A s \in Text : Len(s) + 1 \in Nat
    BY DEF Text
  <2> QED BY <2>1, <2>2 DEF Summable, Sizes
<1>5. Sizes(lines)[n + 1] = Len(line) + 1
  <2>1. n + 1 \in DOMAIN lines
    BY <1>1
  <2> QED BY <1>1, <2>1 DEF Sizes
<1>6. IsFiniteSet(1..n + 1) /\ n + 1 \in 1..n + 1 /\ (1..n + 1) \ {n + 1} = 1..n
  <2> HIDE DEF n
  <2>1. n + 1 \in Int /\ 1 \in Int
    BY <1>1
  <2>2. IsFiniteSet(1..n + 1)
    BY <2>1, FS_Interval
  <2>3. n + 1 \in 1..n + 1 /\ (1..n + 1) \ {n + 1} = 1..n
    BY <1>1
  <2> QED BY <2>2, <2>3
<1>7. SumFunctionOnSet(Sizes(lines), 1..n + 1)
         = Sizes(lines)[n + 1] + SumFunctionOnSet(Sizes(lines), (1..n + 1) \ {n + 1})
  BY <1>4, <1>6, SumRemove
<1>8. SumFunctionOnSet(Sizes(lines), 1..n + 1)
         = Len(line) + 1 + SumFunctionOnSet(Sizes(lines), 1..n)
  BY <1>5, <1>6, <1>7
<1> HIDE DEF n
<1>9. SumFunctionOnSet(Sizes(lines), 1..n + 1)
         = SumFunctionOnSet(Sizes(front), 1..n) + Len(line) + 1
  BY <1>1, <1>2, <1>3, <1>8
<1> QED
  BY <1>2, <1>9 DEF n, lines

(* A text is as long as its lines with a line feed each, but for the last. *)
LEMMA JoinSize ==
    ASSUME NEW lines \in LineSeqs
    PROVE  Len(Join(lines)) + 1 = SumFunctionOnSet(Sizes(lines), 1..Len(lines))
<1> DEFINE Good(ls) == Len(Join(ls)) + 1 = SumFunctionOnSet(Sizes(ls), 1..Len(ls))
           G == {n \in Nat : \A ls \in Seq(LineText) : Len(ls) = n + 1 => Good(ls)}
<1>1. 0 \in G
  <2> SUFFICES ASSUME NEW ls \in Seq(LineText), Len(ls) = 0 + 1 PROVE Good(ls)
    OBVIOUS
  <2>1. PICK front \in Seq(LineText), line \in LineText : ls = Append(front, line)
    <3>1. ls # << >>
      OBVIOUS
    <3> QED BY <3>1, SequenceEmptyOrAppend
  <2>2. Len(front) \in Nat /\ Len(front) + 1 = Len(ls)
    BY <2>1, AppendProperties
  <2>3. Len(front) = 0
    BY <2>2
  <2>4. front = << >> /\ ls = <<line>> /\ << >> \in Seq(Text) /\ line \in Text /\ Len(line) \in Nat
    BY <2>1, <2>3 DEF LineText, Text
  <2>5. Len(Join(ls)) = Len(line)
    BY <2>4, JoinOne
  <2>6. SumFunctionOnSet(Sizes(ls), 1..0 + 1)
           = SumFunctionOnSet(Sizes(<< >>), 1..0) + Len(line) + 1
    BY <2>1, <2>3, <2>4, SizesOfAppend
  <2>7. SumFunctionOnSet(Sizes(<< >>), 1..0) = 0
    <3>1. 1..0 = {} /\ IsFiniteSet({}) /\ Summable(Sizes(<< >>), {})
      BY FS_EmptySet DEF Summable
    <3> QED BY <3>1, SumRemove, Zenon
  <2>8. Len(ls) = 1 /\ 0 + 1 = 1
    OBVIOUS
  <2> HIDE <2>1
  <2> QED BY <2>4, <2>5, <2>6, <2>7, <2>8
<1>2. ASSUME NEW n \in Nat, n \in G PROVE n + 1 \in G
  <2> SUFFICES ASSUME NEW ls \in Seq(LineText), Len(ls) = n + 1 + 1 PROVE Good(ls)
    OBVIOUS
  <2>1. PICK front \in Seq(LineText), line \in LineText : ls = Append(front, line)
    <3>1. ls # << >>
      OBVIOUS
    <3> QED BY <3>1, SequenceEmptyOrAppend
  <2>2. Len(front) \in Nat /\ Len(front) + 1 = Len(ls)
    BY <2>1, AppendProperties
  <2>3. Len(front) = n + 1 /\ front # << >>
    BY <2>2
  <2>4. front \in Seq(Text) /\ line \in Text /\ Len(line) \in Nat
    BY LineSeqTexts DEF LineText, Text
  <2>5. Len(Join(front)) + 1 = SumFunctionOnSet(Sizes(front), 1..Len(front))
    BY <1>2, <2>3
  <2>6. Join(ls) = Join(front) \o <<LF>> \o line /\ Join(front) \in Text
    BY <2>1, <2>3, <2>4, JoinMore, JoinIsText
  <2>7. Len(Join(front)) \in Nat /\ Len(Join(ls)) = Len(Join(front)) + 1 + Len(line)
    BY <2>4, <2>6, LineFeedText DEF Text
  <2>8. SumFunctionOnSet(Sizes(ls), 1..Len(front) + 1)
           = SumFunctionOnSet(Sizes(front), 1..Len(front)) + Len(line) + 1
    BY <2>1, <2>4, SizesOfAppend
  <2> HIDE <2>1
  <2> QED BY <2>2, <2>4, <2>5, <2>7, <2>8
<1>3. Nat \subseteq G
  <2> HIDE DEF G
  <2> QED BY <1>1, <1>2, NumberInduction
<1>4. lines \in Seq(LineText) /\ Len(lines) - 1 \in Nat /\ Len(lines) = Len(lines) - 1 + 1
  BY DEF LineSeqs
<1> QED
  BY <1>3, <1>4

(* A text around one of its lines: so many characters and the line, which  *)
(* are the lines up to that one, and the rest of the text.                 *)
Around(lines, i, before, after) ==
    /\ before \in Text /\ after \in Text
    /\ Join(lines) = before \o lines[i] \o after
    /\ before \o lines[i] = Join(SubSeq(lines, 1, i))
    /\ Len(before) = SumFunctionOnSet(Sizes(lines), 1..i - 1)

(* A sequence is what it has up to a place, and what it has behind it.     *)
LEMMA TwoParts ==
    ASSUME NEW S, NEW s \in Seq(S), NEW i \in DOMAIN s
    PROVE  /\ SubSeq(s, 1, i) \in Seq(S) /\ SubSeq(s, i + 1, Len(s)) \in Seq(S)
           /\ s = SubSeq(s, 1, i) \o SubSeq(s, i + 1, Len(s))
           /\ Len(SubSeq(s, 1, i)) = i /\ \A k \in 1..i : SubSeq(s, 1, i)[k] = s[k]
<1> DEFINE a == SubSeq(s, 1, i)
           b == SubSeq(s, i + 1, Len(s))
<1>1. /\ Len(s) \in Nat /\ i \in 1..Len(s) /\ i \in Int /\ i + 1 \in Int /\ Len(s) \in Int
      /\ \A k \in 1..Len(s) : s[k] \in S
  OBVIOUS
<1>2. a \o b = SubSeq(s, 1, Len(s))
  <2>1. 1 \in 1..Len(s) + 1 /\ i \in 1 - 1..Len(s) /\ Len(s) \in i..Len(s)
    BY <1>1
  <2> QED BY <2>1, ConcatAdjacentSubSeq
<1>3. /\ a \in Seq(S) /\ Len(a) = IF 1 <= i THEN i - 1 + 1 ELSE 0
      /\ \A k \in 1..i - 1 + 1 : a[k] = s[1 + k - 1]
  <2>1. \A k \in 1..i : s[k] \in S
    BY <1>1
  <2> QED BY <1>1, <2>1, SubSeqProperties
<1>4. b \in Seq(S)
  <2>1. \A k \in i + 1..Len(s) : s[k] \in S
    BY <1>1
  <2> QED BY <1>1, <2>1, SubSeqProperties
<1> HIDE DEF a, b
<1>5. Len(a) = i
  BY <1>1, <1>3
<1>6. \A k \in 1..i : a[k] = s[k]
  <2>1. \A k \in 1..i : k \in 1..i - 1 + 1 /\ 1 + k - 1 = k
    BY <1>1
  <2> QED BY <1>3, <2>1
<1>7. s = a \o b
  BY <1>2, SubSeqFull
<1> QED
  BY <1>3, <1>4, <1>5, <1>6, <1>7 DEF a, b

(* Every line of a text has such a place.                                  *)
LEMMA LinePlace ==
    ASSUME NEW lines \in LineSeqs, NEW i \in DOMAIN lines
    PROVE  \E before, after \in Text : Around(lines, i, before, after)
<1> DEFINE n == Len(lines)
           a == SubSeq(lines, 1, i)
           b == SubSeq(lines, i + 1, n)
           upTo == Join(a)
<1>1. /\ lines \in Seq(LineText) /\ lines \in Seq(Text) /\ n \in Nat /\ i \in 1..n
      /\ i \in Nat /\ lines[i] \in LineText /\ lines[i] \in Text
  BY LineSeqTexts DEF LineSeqs, LineText
<1>2. /\ a \in Seq(LineText) /\ b \in Seq(LineText) /\ lines = a \o b
      /\ Len(a) = i /\ a[i] = lines[i] /\ \A k \in 1..i : a[k] = lines[k]
  <2>1. i \in DOMAIN lines /\ i \in 1..i
    BY <1>1
  <2> QED BY <1>1, <2>1, TwoParts
<1> HIDE DEF a, b, n
<1>3. a \in LineSeqs /\ upTo \in Text
  <2>1. a # << >>
    BY <1>1, <1>2
  <2> QED BY <1>2, <2>1, LineSeqTexts, JoinIsText DEF LineSeqs
<1>4. PICK after \in Text : Join(lines) = upTo \o after
  <2>1. CASE b = << >>
    <3>1. lines = a /\ << >> \in Text /\ upTo \o << >> = upTo
      BY <1>2, <1>3, <2>1, ConcatEmptySeq DEF Text
    <3> QED BY <3>1
  <2>2. CASE b # << >>
    <3>1. b \in LineSeqs
      BY <1>2, <2>2 DEF LineSeqs
    <3>2. Join(lines) = upTo \o <<LF>> \o Join(b) /\ Join(b) \in Text
      BY <1>2, <1>3, <3>1, JoinConcat
    <3>3. upTo \o <<LF>> \o Join(b) = upTo \o (<<LF>> \o Join(b))
      BY <1>3, <3>2, LineFeedText, ConcatAssociative DEF Text
    <3>4. <<LF>> \o Join(b) \in Text
      BY <3>2, LineFeedText, TextConcat
    <3> QED BY <3>2, <3>3, <3>4
  <2> QED BY <2>1, <2>2
<1>5. PICK front \in Seq(LineText), line \in LineText : a = Append(front, line)
  BY <1>2, <1>3, SequenceEmptyOrAppend DEF LineSeqs
<1>6. /\ Len(front) \in Nat /\ Len(front) = i - 1 /\ line = lines[i]
      /\ front \in Seq(Text) /\ line \in Text
      /\ \A k \in 1..i - 1 : front[k] = lines[k]
  <2>1. Len(a) = Len(front) + 1 /\ Len(front) \in Nat
    BY <1>5, AppendProperties
  <2>2. Len(front) = i - 1
    BY <1>1, <1>2, <2>1
  <2>3. a[Len(front) + 1] = line /\ \A k \in 1..Len(front) : a[k] = front[k]
    BY <1>5, AppendProperties
  <2>4. Len(front) + 1 = i /\ \A k \in 1..i - 1 : k \in 1..i
    BY <1>1, <2>2
  <2>5. front \in Seq(Text) /\ line \in Text
    BY LineSeqTexts DEF LineText
  <2> HIDE <1>5
  <2> QED BY <1>2, <2>1, <2>2, <2>3, <2>4, <2>5
<1>7. SumFunctionOnSet(Sizes(lines), 1..i - 1) = SumFunctionOnSet(Sizes(front), 1..i - 1)
  <2>1. i - 1 \in Nat /\ i - 1 <= Len(front) /\ i - 1 <= Len(lines)
    BY <1>1, <1>6 DEF n
  <2> QED BY <1>1, <1>6, <2>1, SizesOfFirst
<1>8. \E before \in Text :
         /\ upTo = before \o lines[i]
         /\ Len(before) = SumFunctionOnSet(Sizes(lines), 1..i - 1)
  <2>1. CASE front = << >>
    <3>1. i - 1 = 0 /\ 1..0 = {} /\ Len(<< >>) = 0 /\ << >> \in Text
      BY <1>6, <2>1 DEF Text
    <3>2. SumFunctionOnSet(Sizes(lines), {}) = 0
      BY FS_EmptySet, SumRemove, Zenon DEF Summable
    <3>3. a = <<lines[i]>>
      BY <1>5, <1>6, <2>1
    <3>4. upTo = lines[i] /\ << >> \o lines[i] = lines[i]
      BY <1>1, <3>3, JoinOne, ConcatEmptySeq DEF Text
    <3> QED BY <3>1, <3>2, <3>4
  <2>2. CASE front # << >>
    <3>1. front \in LineSeqs
      BY <2>2 DEF LineSeqs
    <3>2. /\ upTo = Join(front) \o <<LF>> \o lines[i] /\ Join(front) \in Text
      BY <1>5, <1>6, <2>2, JoinMore, JoinIsText
    <3>3. Len(Join(front)) + 1 = SumFunctionOnSet(Sizes(front), 1..i - 1)
      BY <1>6, <3>1, JoinSize
    <3>4. Join(front) \o <<LF>> \in Text /\ Len(Join(front) \o <<LF>>) = Len(Join(front)) + 1
      BY <3>2, LineFeedText, TextConcat DEF Text
    <3> QED BY <1>7, <3>2, <3>3, <3>4
  <2> QED BY <2>1, <2>2
<1>9. PICK before \in Text : /\ upTo = before \o lines[i]
                            /\ Len(before) = SumFunctionOnSet(Sizes(lines), 1..i - 1)
  BY <1>8
<1> QED
  BY <1>4, <1>9 DEF Around, a

(* Lines of a text without some characters are without them.               *)
LEMMA LinesWithout ==
    ASSUME NEW lines \in LineSeqs, NEW C, Join(lines) \in Seq(C)
    PROVE  lines \in Seq(Seq(C))
<1> DEFINE s == Join(lines)
           breaks == {i \in DOMAIN s : s[i] = LF}
<1>1. Split(s) = CutAt(s, breaks)
  BY Zenon DEF Split
<1>2. breaks \in SUBSET DOMAIN s
  OBVIOUS
<1> HIDE DEF s, breaks
<1>3. CutAt(s, breaks) \in Seq(Seq(C))
  BY <1>2, CutType DEF s
<1> QED
  BY <1>1, <1>3, SplitOfJoin DEF s

(* A task line as it is usually written, with one blank behind the dash    *)
(* and one behind the box.                                                 *)
PlainBox(s, d) ==
    /\ s[d + 2] \in Blank /\ s[d + 3] \notin Blank
    /\ d + 7 <= Len(s) => s[d + 7] \notin Blank

(* Where its parts are then.                                               *)
LEMMA PlainBullet ==
    ASSUME NEW s \in LineText, IsBullet(s), RefOf(s) # NoRef
    PROVE  LET d == Len(Bullet(s).leading) IN
           /\ d \in Nat /\ d + 6 <= Len(s)
           /\ PlainBox(s, d) =>
                 /\ d + 7 <= Len(s)
                 /\ Bullet(s).leading = SubSeq(s, 1, d)
                 /\ Bullet(s).text = SubSeq(s, d + 7, Len(s))
                 /\ s[d + 5] = Close
<1> DEFINE d == Len(Bullet(s).leading)
           dash == SkipBlanks(s, 1)
           box  == SkipBlanks(s, dash + 1)
           from == SkipBlanks(s, box + 3)
           rest == SubSeq(s, from, Len(s))
           text == IF EndsWithLF(rest) THEN Front(rest) ELSE rest
           shape == /\ box + 3 <= Len(s)
                    /\ s[dash] = Dash /\ box > dash + 1
                    /\ s[box] = Open /\ s[box + 1] \in Marks /\ s[box + 2] = Close
                    /\ from > box + 3
                    /\ ~Contains(text, LF)
           leading == SubSeq(s, 1, dash - 1)
           mark == s[box + 1]
<1>1. Bullet(s) = IF shape THEN [leading |-> leading, state |-> mark, text |-> text]
                  ELSE NoBullet
  BY Zenon DEF Bullet
<1>2. shape /\ Bullet(s) = [leading |-> leading, state |-> mark, text |-> text]
  <2> HIDE DEF shape, leading, mark, text
  <2> QED BY <1>1 DEF IsBullet
<1>3. /\ Len(s) \in Nat /\ DOMAIN s = 1..Len(s) /\ s \in Seq(Char) /\ s \in Text
      /\ \A i \in 1..Len(s) : s[i] # LF
  BY DEF LineText, Text
<1>4. Bullet(s).leading = leading /\ Bullet(s).text = text
  <2> HIDE DEF shape, leading, mark, text
  <2> QED BY <1>2
<1>5. /\ box + 3 <= Len(s) /\ box > dash + 1 /\ s[box + 2] = Close /\ from > box + 3
  BY <1>2
<1>6. /\ dash \in Nat
      /\ dash = Len(s) + 1 \/ dash \in 1..Len(s)
  <2>1. 1 \in Nat
    OBVIOUS
  <2> QED BY <1>3, <2>1, SkipBlanksType
<1> HIDE DEF shape, dash
<1>7. /\ box \in Nat
      /\ box = Len(s) + 1 \/ box \in dash + 1..Len(s)
      /\ box # Len(s) + 1 => \A j \in dash + 1..box - 1 : s[j] \in Blank
  <2>1. dash + 1 \in Nat
    BY <1>6
  <2> QED BY <1>3, <2>1, SkipBlanksType
<1> HIDE DEF box
<1>8. /\ from \in Nat
      /\ \/ from = Len(s) + 1
         \/ from \in box + 3..Len(s) /\ s[from] \notin Blank
      /\ \A j \in box + 3..from - 1 : s[j] \in Blank
  <2>1. box + 3 \in Nat
    BY <1>7
  <2>2. /\ from \in Nat
        /\ \/ from = Len(s) + 1 /\ \A j \in box + 3..Len(s) : s[j] \in Blank
           \/ /\ from \in box + 3..Len(s) /\ s[from] \notin Blank
              /\ \A j \in box + 3..from - 1 : s[j] \in Blank
    BY <1>3, <2>1, SkipBlanksType
  <2>3. Len(s) + 1 - 1 = Len(s)
    BY <1>3
  <2> HIDE DEF from
  <2> QED BY <2>2, <2>3
<1> HIDE DEF from
<1>9. dash \in 1..Len(s) /\ box \in 1..Len(s)
  BY <1>3, <1>5, <1>6, <1>7
<1>10. leading = SubSeq(s, 1, dash - 1) /\ Len(leading) = dash - 1
  <2>1. 1 \in Int /\ dash - 1 \in Int /\ \A i \in 1..dash - 1 : s[i] \in Char
    BY <1>3, <1>9
  <2>2. Len(leading) = IF 1 <= dash - 1 THEN dash - 1 - 1 + 1 ELSE 0
    BY <2>1, SubSeqProperties
  <2> HIDE DEF leading
  <2>3. Len(leading) = dash - 1
    BY <1>9, <2>2
  <2> QED BY <2>3 DEF leading
<1> HIDE DEF leading, mark, text
<1>11. d \in Nat /\ dash = d + 1
  <2>1. d = dash - 1
    BY <1>4, <1>10
  <2> HIDE DEF d
  <2> QED BY <1>3, <1>9, <2>1
<1> HIDE DEF d
<1>22. d + 6 <= Len(s)
  BY <1>3, <1>5, <1>6, <1>7, <1>9, <1>11
<1> SUFFICES ASSUME PlainBox(s, d)
             PROVE  /\ d + 7 <= Len(s)
                    /\ leading = SubSeq(s, 1, d)
                    /\ text = SubSeq(s, d + 7, Len(s))
                    /\ s[d + 5] = Close
  BY <1>4, <1>11, <1>22 DEF d
<1>12. /\ s[d + 2] \in Blank /\ s[d + 3] \notin Blank
       /\ d + 7 <= Len(s) => s[d + 7] \notin Blank
  BY DEF PlainBox
<1>13. box = d + 3
  <2>1. s[dash + 1] \in Blank /\ dash + 1 = d + 2 /\ dash + 2 = d + 3
    BY <1>11, <1>12
  <2>2. box >= dash + 2 /\ box # Len(s) + 1
    BY <1>3, <1>5, <1>6, <1>7, <1>9
  <2>3. \A j \in dash + 1..box - 1 : s[j] \in Blank
    BY <1>7, <2>2
  <2>4. ~(box > d + 3)
    <3>1. box > d + 3 => d + 3 \in dash + 1..box - 1
      BY <1>7, <1>11
    <3> QED BY <1>12, <2>3, <3>1
  <2> QED BY <1>7, <1>11, <2>1, <2>2, <2>4
<1>14. text # << >>
  <2>1. text = << >> => FirstLink(text) = NoRef
    <3>1. {i \in DOMAIN << >> : << >>[i] \in Refs} = {}
      OBVIOUS
    <3> QED BY <3>1 DEF FirstLink
  <2>2. RefOf(s) = FirstLink(text)
    BY <1>4 DEF RefOf
  <2> QED BY <2>1, <2>2
<1>15. from <= Len(s)
  <2> SUFFICES ASSUME ~(from <= Len(s)) PROVE FALSE
    OBVIOUS
  <2>1. from \in Int /\ Len(s) \in Int /\ Len(s) < from
    BY <1>3, <1>8
  <2>2. rest = << >>
    BY <2>1, SubSeqEmpty
  <2>3. text = << >>
    BY <2>2 DEF text, EndsWithLF
  <2> QED BY <1>14, <2>3
<1>16. d + 7 <= Len(s)
  BY <1>3, <1>5, <1>8, <1>11, <1>13, <1>15
<1>17. from = d + 7
  <2>1. ~(from > d + 7)
    <3>1. from > d + 7 => d + 7 \in box + 3..from - 1
      BY <1>8, <1>11, <1>13
    <3> QED BY <1>8, <1>12, <1>16, <3>1
  <2> QED BY <1>5, <1>8, <1>11, <1>13, <2>1
<1>18. text = rest
  <2>1. rest \in Text /\ rest \in LineText
    <3>1. from \in Int /\ Len(s) \in Int /\ \A i \in from..Len(s) : s[i] \in Char \ {LF}
      BY <1>3, <1>11, <1>17
    <3>2. rest \in Seq(Char \ {LF})
      BY <3>1, SubSeqProperties
    <3> HIDE DEF rest
    <3>3. \A t \in Seq(Char \ {LF}) : t \in Seq(Char) /\ \A i \in DOMAIN t : t[i] # LF
      OBVIOUS
    <3> QED BY <3>2, <3>3 DEF LineText, Text
  <2> HIDE DEF rest
  <2>2. ~EndsWithLF(rest)
    <3>1. rest # << >> => Len(rest) \in DOMAIN rest
      BY <2>1 DEF Text
    <3> QED BY <2>1, <3>1 DEF EndsWithLF, Last, LineText
  <2> QED BY <2>2 DEF text
<1>19. leading = SubSeq(s, 1, d)
  <2>1. dash - 1 = d
    BY <1>11
  <2> QED BY <1>10, <2>1
<1>20. s[d + 5] = Close
  <2>1. box + 2 = d + 5
    BY <1>11, <1>13
  <2> QED BY <1>5, <2>1
<1>21. text = SubSeq(s, d + 7, Len(s))
  BY <1>17, <1>18
<1> QED
  BY <1>16, <1>19, <1>20, <1>21

(* A sequence with one element changed, in the middle of two others.       *)
LEMMA ExceptOfMiddle ==
    ASSUME NEW S, NEW a \in Seq(S), NEW m \in Seq(S), NEW b \in Seq(S),
           NEW j \in DOMAIN m, NEW x \in S
    PROVE  a \o [m EXCEPT ![j] = x] \o b = [a \o m \o b EXCEPT ![Len(a) + j] = x]
<1> DEFINE n == [m EXCEPT ![j] = x]
           s == a \o m \o b
           t == a \o n \o b
           u == [s EXCEPT ![Len(a) + j] = x]
<1>1. /\ n \in Seq(S) /\ Len(n) = Len(m) /\ Len(m) \in Nat /\ j \in 1..Len(m)
      /\ \A i \in 1..Len(m) : n[i] = IF i = j THEN x ELSE m[i]
  OBVIOUS
<1> HIDE DEF n
<1>0. n \in Seq(S)
  BY <1>1
<1>2. /\ s \in Seq(S) /\ Len(a) \in Nat /\ Len(b) \in Nat
      /\ Len(s) = Len(a) + Len(m) + Len(b)
      /\ \A i \in 1..Len(a) : s[i] = a[i]
      /\ \A i \in 1..Len(m) : s[Len(a) + i] = m[i]
      /\ \A i \in 1..Len(b) : s[Len(a) + Len(m) + i] = b[i]
  BY ThreeParts, SMTT(40)
<1>3. /\ t \in Seq(S)
      /\ Len(t) = Len(a) + Len(n) + Len(b)
      /\ \A i \in 1..Len(a) : t[i] = a[i]
      /\ \A i \in 1..Len(n) : t[Len(a) + i] = n[i]
      /\ \A i \in 1..Len(b) : t[Len(a) + Len(n) + i] = b[i]
  BY <1>0, ThreeParts, SMTT(40)
<1> HIDE DEF s, t
<1>4. Len(t) = Len(s) /\ Len(s) \in Nat
  BY <1>1, <1>2, <1>3
<1>8. /\ Len(a) \in Nat /\ Len(m) \in Nat /\ Len(b) \in Nat /\ j \in 1..Len(m)
      /\ Len(s) = Len(a) + Len(m) + Len(b)
  BY <1>1, <1>2
<1>5. /\ u \in Seq(S) /\ Len(u) = Len(s)
      /\ \A i \in 1..Len(s) : u[i] = IF i = Len(a) + j THEN x ELSE s[i]
  BY <1>2
<1> HIDE DEF u
<1>6. ASSUME NEW i \in 1..Len(s) PROVE t[i] = u[i]
  <2>1. u[i] = IF i = Len(a) + j THEN x ELSE s[i]
    BY <1>5
  <2>2. CASE i \in 1..Len(a)
    <3>1. i # Len(a) + j
      BY <1>8, <2>2
    <3> QED BY <1>2, <1>3, <2>1, <2>2, <3>1
  <2>3. CASE i - Len(a) \in 1..Len(m)
    <3> DEFINE k == i - Len(a)
    <3>1. i = Len(a) + k /\ (i = Len(a) + j <=> k = j)
      BY <1>8
    <3> HIDE DEF k
    <3>2. k \in 1..Len(m) /\ k \in 1..Len(n)
      BY <1>1, <2>3 DEF k
    <3>3. t[Len(a) + k] = n[k] /\ s[Len(a) + k] = m[k] /\ n[k] = IF k = j THEN x ELSE m[k]
      BY <1>1, <1>2, <1>3, <3>2
    <3> QED BY <2>1, <3>1, <3>3
  <2>4. CASE i - (Len(a) + Len(m)) \in 1..Len(b)
    <3> DEFINE k == i - (Len(a) + Len(m))
    <3>1. i = Len(a) + Len(m) + k /\ i # Len(a) + j
      <4>1. i \in Nat /\ i > Len(a) + Len(m)
        BY <1>8, <2>4
      <4>2. i # Len(a) + j
        BY <1>8, <4>1
      <4>3. i = Len(a) + Len(m) + k
        BY <1>8, <4>1
      <4> QED BY <4>2, <4>3
    <3> HIDE DEF k
    <3>2. k \in 1..Len(b)
      BY <2>4 DEF k
    <3>3. t[Len(a) + Len(n) + k] = b[k] /\ s[Len(a) + Len(m) + k] = b[k]
      BY <1>2, <1>3, <3>2
    <3> QED BY <1>1, <2>1, <3>1, <3>3
  <2>5. i \in 1..Len(a) \/ i - Len(a) \in 1..Len(m) \/ i - (Len(a) + Len(m)) \in 1..Len(b)
    BY <1>8
  <2> QED BY <2>2, <2>3, <2>4, <2>5
<1>7. t = u
  BY <1>3, <1>4, <1>5, <1>6, SeqEqual
<1> QED
  BY <1>7 DEF n, s, t, u

(* The six characters of a plain box with another mark.                    *)
BoxOf(S, box, line, d, mark) ==
    /\ box \in Seq(S) /\ Len(box) = 6
    /\ \A k \in 1..6 : box[k] = IF k = 4 THEN mark ELSE line[d + k]

Changed(s, j, x) == [s EXCEPT ![j] = x]

(* A line with one character changed, put together from the parts before   *)
(* and behind six characters, one of which it is.                          *)
LEMMA MarkedLine ==
    ASSUME NEW S, NEW line \in Seq(S), NEW d \in Nat, d + 7 <= Len(line), NEW mark \in S,
           NEW box, BoxOf(S, box, line, d, mark)
    PROVE  SubSeq(line, 1, d) \o box \o SubSeq(line, d + 7, Len(line))
              = Changed(line, d + 4, mark)
<1> DEFINE a == SubSeq(line, 1, d)
           b == SubSeq(line, d + 7, Len(line))
           n == Len(line)
           s == a \o box \o b
           t == [line EXCEPT ![d + 4] = mark]
<1>1. n \in Nat /\ DOMAIN line = 1..n /\ d + 7 <= n
  OBVIOUS
<1>2. /\ a \in Seq(S) /\ Len(a) = d /\ \A i \in 1..d : a[i] = line[i]
  <2>1. 1 \in Int /\ d \in Int /\ \A i \in 1..d : line[i] \in S
    BY <1>1
  <2>2. /\ a \in Seq(S) /\ Len(a) = IF 1 <= d THEN d - 1 + 1 ELSE 0
        /\ \A i \in 1..d - 1 + 1 : a[i] = line[1 + i - 1]
    BY <2>1, SubSeqProperties
  <2> HIDE DEF a
  <2>3. Len(a) = d
    BY <2>2
  <2>4. \A i \in 1..d : i \in 1..d - 1 + 1 /\ 1 + i - 1 = i
    OBVIOUS
  <2>5. \A i \in 1..d : a[i] = line[i]
    BY <2>2, <2>4
  <2> QED BY <2>2, <2>3, <2>5
<1>3. /\ b \in Seq(S) /\ Len(b) = n - d - 6
      /\ \A i \in 1..n - d - 6 : b[i] = line[d + 6 + i]
  <2>1. d + 7 \in Int /\ n \in Int /\ \A i \in d + 7..n : line[i] \in S
    BY <1>1
  <2>2. /\ b \in Seq(S) /\ Len(b) = IF d + 7 <= n THEN n - (d + 7) + 1 ELSE 0
        /\ \A i \in 1..n - (d + 7) + 1 : b[i] = line[d + 7 + i - 1]
    BY <2>1, SubSeqProperties
  <2> HIDE DEF b, n
  <2>3. Len(b) = n - d - 6
    BY <1>1, <2>2
  <2>4. \A i \in 1..n - d - 6 : i \in 1..n - (d + 7) + 1 /\ d + 7 + i - 1 = d + 6 + i
    BY <1>1
  <2>5. \A i \in 1..n - d - 6 : b[i] = line[d + 6 + i]
    BY <2>2, <2>4
  <2> QED BY <2>2, <2>3, <2>5
<1> HIDE DEF a, b
<1>0. box \in Seq(S) /\ Len(box) = 6 /\ a \in Seq(S) /\ b \in Seq(S)
  BY <1>2, <1>3 DEF BoxOf
<1>4. /\ t \in Seq(S) /\ Len(t) = n
      /\ \A i \in 1..n : t[i] = IF i = d + 4 THEN mark ELSE line[i]
  OBVIOUS
<1> HIDE DEF n, t
<1>10. box \in Seq(S) /\ a \in Seq(S) /\ b \in Seq(S)
  BY <1>0
<1>5. /\ s \in Seq(S) /\ Len(s) = Len(a) + Len(box) + Len(b)
      /\ \A i \in 1..Len(a) : s[i] = a[i]
      /\ \A i \in 1..Len(box) : s[Len(a) + i] = box[i]
      /\ \A i \in 1..Len(b) : s[Len(a) + Len(box) + i] = b[i]
  BY <1>10, ThreeParts, SMTT(40)
<1> HIDE DEF s
<1>8. n \in Nat /\ d + 7 <= n
  BY <1>1
<1>6. Len(s) = n
  <2>1. Len(s) = d + 6 + (n - d - 6)
    BY <1>0, <1>2, <1>3, <1>5
  <2> QED BY <1>8, <2>1
<1>7. ASSUME NEW i \in 1..n PROVE s[i] = t[i]
  <2>1. t[i] = IF i = d + 4 THEN mark ELSE line[i]
    BY <1>4
  <2>2. CASE i \in 1..d
    <3>1. i # d + 4
      BY <2>2
    <3> QED BY <1>2, <1>5, <2>1, <2>2, <3>1
  <2>3. CASE i - d \in 1..6
    <3> DEFINE k == i - d
    <3>1. i = d + k /\ (i = d + 4 <=> k = 4)
      BY <1>8
    <3> HIDE DEF k
    <3>2. k \in 1..6
      BY <2>3 DEF k
    <3>3. s[d + k] = box[k] /\ box[k] = IF k = 4 THEN mark ELSE line[d + k]
      BY <1>0, <1>2, <1>5, <3>2 DEF BoxOf
    <3> QED BY <2>1, <3>1, <3>3
  <2>4. CASE i - d - 6 \in 1..n - d - 6
    <3> DEFINE k == i - d - 6
    <3>1. i = d + 6 + k /\ i # d + 4
      BY <1>8, <2>4
    <3> HIDE DEF k
    <3>2. k \in 1..n - d - 6
      BY <2>4 DEF k
    <3>3. s[d + 6 + k] = b[k] /\ b[k] = line[d + 6 + k]
      BY <1>0, <1>2, <1>3, <1>5, <3>2
    <3> QED BY <2>1, <3>1, <3>3
  <2>5. i \in 1..d \/ i - d \in 1..6 \/ i - d - 6 \in 1..n - d - 6
    BY <1>8
  <2> QED BY <2>2, <2>3, <2>4, <2>5
<1>9. s = t
  <2>1. s \in Seq(S) /\ t \in Seq(S) /\ Len(s) = Len(t) /\ \A i \in 1..Len(s) : s[i] = t[i]
    BY <1>4, <1>5, <1>6, <1>7
  <2> QED BY <2>1, SeqEqual
<1> QED
  BY <1>9, Zenon DEF s, t, a, b, n, Changed

(* Where a sequence goes on like another it has it as a part.              *)
LEMMA PartIs ==
    ASSUME NEW S, NEW s \in Seq(S), NEW t \in Seq(S), NEW n \in Nat,
           n + Len(t) <= Len(s), \A k \in 1..Len(t) : s[n + k] = t[k]
    PROVE  SubSeq(s, n + 1, n + Len(t)) = t
<1> DEFINE u == SubSeq(s, n + 1, n + Len(t))
<1>1. Len(t) \in Nat /\ Len(s) \in Nat
  OBVIOUS
<1>2. /\ u \in Seq(S)
      /\ Len(u) = IF n + 1 <= n + Len(t) THEN n + Len(t) - (n + 1) + 1 ELSE 0
      /\ \A k \in 1..n + Len(t) - (n + 1) + 1 : u[k] = s[n + 1 + k - 1]
  <2>1. n + 1 \in Int /\ n + Len(t) \in Int /\ \A k \in n + 1..n + Len(t) : s[k] \in S
    BY <1>1
  <2> QED BY <2>1, SubSeqProperties
<1> HIDE DEF u
<1>3. Len(u) = Len(t)
  BY <1>1, <1>2
<1>4. \A k \in 1..Len(t) : k \in 1..n + Len(t) - (n + 1) + 1 /\ n + 1 + k - 1 = n + k
  BY <1>1
<1>5. \A k \in 1..Len(t) : u[k] = t[k]
  BY <1>2, <1>4
<1>6. \A k \in 1..Len(u) : u[k] = t[k]
  BY <1>3, <1>5
<1> QED
  BY <1>2, <1>3, <1>6, SeqEqual DEF u

(* The parts of a sequence that three others make.                         *)
PartsAre(s, a, m, b) ==
    /\ SubSeq(s, 1, Len(a)) = a
    /\ SubSeq(s, Len(a) + 1, Len(a) + Len(m)) = m
    /\ SubSeq(s, Len(a) + Len(m) + 1, Len(s)) = b
    /\ SubSeq(s, 1, Len(a) + Len(m)) = a \o m

(* Three sequences one after another are the parts of the whole.           *)
LEMMA PartsOfThree ==
    ASSUME NEW S, NEW a \in Seq(S), NEW m \in Seq(S), NEW b \in Seq(S)
    PROVE  PartsAre(a \o m \o b, a, m, b)
<1> DEFINE s == a \o m \o b
           c == a \o m
<1>1. /\ s \in Seq(S) /\ Len(a) \in Nat /\ Len(m) \in Nat /\ Len(b) \in Nat
      /\ Len(s) = Len(a) + Len(m) + Len(b)
      /\ \A i \in 1..Len(a) : s[i] = a[i]
      /\ \A i \in 1..Len(m) : s[Len(a) + i] = m[i]
      /\ \A i \in 1..Len(b) : s[Len(a) + Len(m) + i] = b[i]
  BY ThreeParts, SMTT(40)
<1>2. /\ c \in Seq(S) /\ Len(c) = Len(a) + Len(m)
      /\ \A i \in 1..Len(a) + Len(m) : c[i] = IF i <= Len(a) THEN a[i] ELSE m[i - Len(a)]
  BY ConcatProperties
<1>8. s \in Seq(S) /\ Len(a) \in Nat /\ Len(m) \in Nat /\ Len(b) \in Nat
  BY <1>1
<1>9. /\ 0 + Len(a) <= Len(s) /\ 0 + Len(c) <= Len(s) /\ Len(a) + Len(m) <= Len(s)
      /\ Len(a) + Len(m) + Len(b) = Len(s) /\ Len(a) + Len(m) \in Nat /\ 0 \in Nat
  <2>1. Len(s) = Len(a) + Len(m) + Len(b) /\ Len(c) = Len(a) + Len(m)
    BY <1>1, <1>2
  <2> HIDE DEF s, c
  <2> QED BY <1>8, <2>1
<1> HIDE DEF s, c
<1>3. SubSeq(s, 0 + 1, 0 + Len(a)) = a
  <2>1. \A k \in 1..Len(a) : 0 + k = k
    OBVIOUS
  <2>2. \A k \in 1..Len(a) : s[0 + k] = a[k]
    BY <1>1, <2>1
  <2> QED BY <1>8, <1>9, <2>2, PartIs
<1>4. SubSeq(s, Len(a) + 1, Len(a) + Len(m)) = m
  <2>1. \A k \in 1..Len(m) : s[Len(a) + k] = m[k]
    BY <1>1
  <2> QED BY <1>8, <1>9, <2>1, PartIs
<1>5. SubSeq(s, Len(a) + Len(m) + 1, Len(a) + Len(m) + Len(b)) = b
  <2>1. \A k \in 1..Len(b) : s[Len(a) + Len(m) + k] = b[k]
    BY <1>1
  <2>2. Len(a) + Len(m) + Len(b) <= Len(s)
    BY <1>8, <1>9
  <2> QED BY <1>8, <1>9, <2>1, <2>2, PartIs
<1>6. SubSeq(s, 0 + 1, 0 + Len(c)) = c
  <2>1. ASSUME NEW k \in 1..Len(c) PROVE s[0 + k] = c[k]
    <3>1. k \in Nat /\ 0 + k = k /\ k \in 1..Len(a) + Len(m)
      BY <1>2
    <3>2. CASE k <= Len(a)
      <4>1. k \in 1..Len(a)
        BY <1>8, <3>1, <3>2
      <4> QED BY <1>1, <1>2, <3>1, <3>2, <4>1
    <3>3. CASE ~(k <= Len(a))
      <4>1. k - Len(a) \in 1..Len(m) /\ Len(a) + (k - Len(a)) = k
        BY <1>8, <3>1, <3>3
      <4>2. s[Len(a) + (k - Len(a))] = m[k - Len(a)]
        BY <1>1, <4>1
      <4>3. c[k] = m[k - Len(a)]
        BY <1>2, <3>1, <3>3
      <4> QED BY <3>1, <4>1, <4>2, <4>3
    <3> QED BY <3>2, <3>3
  <2>2. c \in Seq(S)
    BY <1>2
  <2> QED BY <1>8, <1>9, <2>1, <2>2, PartIs
<1>7. /\ 0 + 1 = 1 /\ 0 + Len(a) = Len(a) /\ 0 + Len(c) = Len(a) + Len(m)
  BY <1>2, <1>8
<1> QED
  BY <1>3, <1>4, <1>5, <1>6, <1>7, <1>9 DEF s, c, PartsAre

(* Where MarkedLine applies to a text.                                     *)
Markable(line, d, mark, box) ==
    /\ line \in Seq(Char) /\ d \in Nat /\ d + 7 <= Len(line) /\ mark \in Char
    /\ BoxOf(Char, box, line, d, mark)

(* It does, with its assumptions in one.                                   *)
LEMMA MarkedText ==
    ASSUME NEW line, NEW d, NEW mark, NEW box, Markable(line, d, mark, box)
    PROVE  SubSeq(line, 1, d) \o box \o SubSeq(line, d + 7, Len(line))
              = Changed(line, d + 4, mark)
<1>1. /\ line \in Seq(Char) /\ d \in Nat /\ d + 7 <= Len(line) /\ mark \in Char
      /\ BoxOf(Char, box, line, d, mark)
  BY DEF Markable
<1> QED
  BY <1>1, MarkedLine

(* A text cut in three.                                                    *)
Parted(s, a, m, b) ==
    a \in Seq(Char) /\ m \in Seq(Char) /\ b \in Seq(Char) /\ s = a \o m \o b

(* Its parts.                                                              *)
LEMMA PartsOfText ==
    ASSUME NEW s, NEW a, NEW m, NEW b, Parted(s, a, m, b)
    PROVE  /\ SubSeq(s, 1, Len(a)) = a
           /\ SubSeq(s, Len(a) + 1, Len(a) + Len(m)) = m
           /\ SubSeq(s, Len(a) + Len(m) + 1, Len(s)) = b
           /\ SubSeq(s, 1, Len(a) + Len(m)) = a \o m
<1>1. a \in Seq(Char) /\ m \in Seq(Char) /\ b \in Seq(Char) /\ s = a \o m \o b
  BY DEF Parted
<1> QED
  <2>1. PartsAre(a \o m \o b, a, m, b)
    BY <1>1, PartsOfThree
  <2> QED BY <1>1, <2>1 DEF PartsAre

(* Three elements that follow each other.                                  *)
LEMMA ThreeElements ==
    ASSUME NEW S, NEW s \in Seq(S), NEW n \in Nat, n + 3 <= Len(s),
           NEW x, NEW y, NEW z, SubSeq(s, n + 1, n + 3) = <<x, y, z>>
    PROVE  s[n + 1] = x /\ s[n + 2] = y /\ s[n + 3] = z
<1> DEFINE u == SubSeq(s, n + 1, n + 3)
<1>1. n + 1 \in Int /\ n + 3 \in Int /\ \A k \in n + 1..n + 3 : s[k] \in S
  OBVIOUS
<1>2. \A k \in 1..n + 3 - (n + 1) + 1 : u[k] = s[n + 1 + k - 1]
  BY <1>1, SubSeqProperties
<1> HIDE DEF u
<1>3. /\ 1 \in 1..n + 3 - (n + 1) + 1 /\ n + 1 + 1 - 1 = n + 1
      /\ 2 \in 1..n + 3 - (n + 1) + 1 /\ n + 1 + 2 - 1 = n + 2
      /\ 3 \in 1..n + 3 - (n + 1) + 1 /\ n + 1 + 3 - 1 = n + 3
  OBVIOUS
<1>4. u[1] = s[n + 1] /\ u[2] = s[n + 2] /\ u[3] = s[n + 3]
  BY <1>2, <1>3
<1>5. u = <<x, y, z>>
  BY DEF u
<1> QED
  BY <1>4, <1>5

-------------------------------------------------------------------------------
(***************************************************************************)
(* The text of a file in the space directory: a CR LF of the page is a     *)
(* line feed there.                                                        *)
(***************************************************************************)
(* No carriage return but in front of a line feed, in the lines of a text. *)
CrAtEnds(lines) ==
    \A k \in DOMAIN lines : \A i \in DOMAIN lines[k] :
       lines[k][i] = CR => i = Len(lines[k]) /\ k < Len(lines)

EndsInCR(lines, k) == k < Len(lines) /\ lines[k] # << >> /\ Last(lines[k]) = CR
UnixOf(lines) ==
    [k \in DOMAIN lines |-> IF EndsInCR(lines, k) THEN Front(lines[k]) ELSE lines[k]]

(* One line without its carriage return.                                   *)
LEMMA UnixLine ==
    ASSUME NEW C, NEW lines \in Seq(Seq(C)), CrAtEnds(lines), NEW k \in DOMAIN lines
    PROVE  /\ UnixOf(lines)[k] \in Seq(C \ {CR})
           /\ UnixOf(lines)[k] # << >> => lines[k] # << >>
           /\ \A i \in DOMAIN UnixOf(lines)[k] :
                 i \in DOMAIN lines[k] /\ UnixOf(lines)[k][i] = lines[k][i]
<1> DEFINE s == lines[k]
           n == Len(s)
<1>1. s \in Seq(C) /\ n \in Nat /\ DOMAIN s = 1..n /\ \A i \in 1..n : s[i] \in C
  OBVIOUS
<1>2. \A i \in 1..n : s[i] = CR => i = n /\ k < Len(lines)
  BY <1>1 DEF CrAtEnds
<1>3. UnixOf(lines)[k] = IF EndsInCR(lines, k) THEN Front(s) ELSE s
  BY Zenon DEF UnixOf
<1>4. CASE EndsInCR(lines, k)
  <2>1. s # << >> /\ n >= 1
    BY <1>1, <1>4 DEF EndsInCR
  <2>2. \A i \in 1..n - 1 : i \in 1..n /\ i # n
    <3>1. n \in Nat
      OBVIOUS
    <3> HIDE DEF n
    <3> QED BY <3>1
  <2>3. \A i \in 1..n - 1 : s[i] \in C \ {CR}
    BY <1>1, <1>2, <2>2
  <2> DEFINE m == n - 1
  <2>4. 1 \in Int /\ m \in Int /\ \A i \in 1..m : s[i] \in C \ {CR}
    BY <1>1, <2>3
  <2>9. m \in Nat
    BY <1>1, <2>1
  <2>5. Front(s) = SubSeq(s, 1, m)
    BY DEF Front
  <2> HIDE DEF m, n, s
  <2>6. /\ SubSeq(s, 1, m) \in Seq(C \ {CR})
        /\ Len(SubSeq(s, 1, m)) = IF 1 <= m THEN m - 1 + 1 ELSE 0
        /\ \A i \in 1..m - 1 + 1 : SubSeq(s, 1, m)[i] = s[1 + i - 1]
    BY <2>4, SubSeqProperties
  <2> DEFINE t == SubSeq(s, 1, m)
  <2>7. DOMAIN t = 1..m /\ \A i \in 1..m : t[i] = s[i]
    <3>1. t \in Seq(C \ {CR}) /\ Len(t) = m
      BY <2>6, <2>9
    <3>2. \A i \in 1..m : i \in 1..m - 1 + 1 /\ 1 + i - 1 = i
      BY <2>9
    <3>3. \A i \in 1..m : t[i] = s[i]
      BY <2>6, <3>2
    <3> HIDE DEF t
    <3> QED BY <3>1, <3>3
  <2>8. UnixOf(lines)[k] = t
    BY <1>3, <1>4, <2>5
  <2> HIDE DEF t
  <2> QED BY <1>1, <2>1, <2>2, <2>6, <2>7, <2>8 DEF m, s, t
<1>5. CASE ~EndsInCR(lines, k)
  <2>1. UnixOf(lines)[k] = s
    BY <1>3, <1>5
  <2>2. ASSUME NEW i \in 1..n, s[i] = CR PROVE FALSE
    <3>1. i = n /\ k < Len(lines)
      BY <1>2, <2>2
    <3>2. s # << >> /\ Last(s) = CR
      BY <1>1, <2>2, <3>1 DEF Last
    <3> QED BY <1>5, <3>1, <3>2 DEF EndsInCR
  <2>3. \A i \in 1..n : s[i] \in C \ {CR}
    BY <1>1, <2>2
  <2>4. s \in Seq(C \ {CR})
    <3> HIDE DEF s
    <3> QED BY <1>1, <2>3
  <2> QED BY <1>1, <2>1, <2>4
<1> QED
  BY <1>4, <1>5

(* All of them.                                                            *)
LEMMA UnixType ==
    ASSUME NEW C, NEW lines \in Seq(Seq(C)), CrAtEnds(lines)
    PROVE  /\ UnixOf(lines) \in Seq(Seq(C \ {CR})) /\ DOMAIN UnixOf(lines) = DOMAIN lines
           /\ Len(UnixOf(lines)) = Len(lines)
<1> DEFINE u == UnixOf(lines)
<1>1. Len(lines) \in Nat /\ DOMAIN lines = 1..Len(lines)
  OBVIOUS
<1>2. \A k \in 1..Len(lines) : u[k] \in Seq(C \ {CR})
  BY <1>1, UnixLine
<1>3. u = [k \in 1..Len(lines) |-> u[k]]
  BY <1>1 DEF UnixOf
<1> HIDE DEF u
<1>4. u \in Seq(Seq(C \ {CR})) /\ Len(u) = Len(lines) /\ DOMAIN u = 1..Len(lines)
  BY <1>1, <1>2, <1>3
<1> QED
  BY <1>1, <1>4 DEF u

(* The lines of a text stay lines.                                         *)
LEMMA UnixLineSeqs ==
    ASSUME NEW lines \in LineSeqs, CrAtEnds(lines)
    PROVE  UnixOf(lines) \in LineSeqs
<1> DEFINE u == UnixOf(lines)
<1>1. lines \in Seq(LineText) /\ lines # << >> /\ lines \in Seq(Text)
  BY LineSeqTexts DEF LineSeqs
<1>2. lines \in Seq(Seq(Char)) /\ \A k \in DOMAIN lines : \A i \in DOMAIN lines[k] : lines[k][i] # LF
  BY <1>1 DEF Text, LineText
<1>3. u \in Seq(Seq(Char \ {CR})) /\ DOMAIN u = DOMAIN lines /\ Len(u) = Len(lines)
  BY <1>2, UnixType
<1>4. ASSUME NEW k \in DOMAIN u PROVE u[k] \in LineText
  <2>1. u[k] \in Seq(Char \ {CR}) /\ k \in DOMAIN lines
    BY <1>3
  <2>2. \A i \in DOMAIN u[k] : i \in DOMAIN lines[k] /\ u[k][i] = lines[k][i]
    BY <1>2, <2>1, UnixLine
  <2>3. \A i \in DOMAIN u[k] : u[k][i] # LF
    BY <1>2, <2>1, <2>2
  <2> HIDE DEF u
  <2>4. u[k] \in Seq(Char)
    BY <2>1, SeqMonotonic
  <2> QED BY <2>3, <2>4 DEF LineText, Text
<1>5. u # << >>
  BY <1>1, <1>3
<1> HIDE DEF u
<1>6. u \in Seq(LineText)
  <2>1. Len(u) \in Nat /\ u = [k \in 1..Len(u) |-> u[k]] /\ \A k \in 1..Len(u) : u[k] \in LineText
    BY <1>3, <1>4
  <2> QED BY <2>1
<1> QED
  BY <1>5, <1>6 DEF LineSeqs, u

(* So the text that is read consists of them.                              *)
LEMMA ReadTextIs ==
    ASSUME NEW C \in SUBSET Char, LF \in C, NEW body \in Seq(C), CrAtEnds(Split(body))
    PROVE  /\ ReadText(body) \in Seq(C \ {CR}) /\ ReadText(body) \in Text
           /\ Split(ReadText(body)) = UnixOf(Split(body))
           /\ ReadText(body) = Join(UnixOf(Split(body)))
<1> DEFINE u == UnixOf(Split(body))
           text == Join(u)
<1>1. body \in Text
  BY SeqMonotonic DEF Text
<1>2. Split(body) \in LineSeqs
  BY <1>1, JoinOfSplit
<1>3. Split(body) \in Seq(Seq(C))
  BY CutType DEF Split
<1>4. u \in LineSeqs /\ u \in Seq(Seq(C \ {CR}))
  BY <1>2, <1>3, UnixLineSeqs, UnixType
<1>5. UnixLines(body) = u
  BY Zenon DEF UnixLines, UnixOf, EndsInCR
<1>6. ReadText(body) = [i \in DOMAIN text |-> IF text[i] = CR THEN LF ELSE text[i]]
  BY <1>5 DEF ReadText
<1>7. text \in Seq(C \ {CR})
  <2>1. C \ {CR} \in SUBSET Char /\ LF \in C \ {CR}
    BY DEF LF, CR
  <2> HIDE DEF u
  <2> QED BY <1>4, <2>1, JoinChars
<1> HIDE DEF text
<1>8. \A i \in DOMAIN text : text[i] # CR
  BY <1>7
<1>9. ReadText(body) = text
  BY <1>6, <1>7, <1>8
<1>10. text \in Text
  BY <1>7, SeqMonotonic DEF Text
<1> QED
  BY <1>4, <1>7, <1>9, <1>10, SplitOfJoin DEF text

(* Of a page without carriage returns it is the page.                      *)
LEMMA ReadTextPlain ==
    ASSUME NEW body \in Text, \A i \in DOMAIN body : body[i] # CR
    PROVE  ReadText(body) = body
<1> DEFINE lines == Split(body)
<1>1. lines \in LineSeqs /\ Join(lines) = body
  BY JoinOfSplit
<1>2. body \in Seq(Char \ {CR})
  BY DEF Text
<1>3. lines \in Seq(Seq(Char \ {CR}))
  BY <1>1, <1>2, LinesWithout
<1> HIDE DEF lines
<1>4. \A k \in DOMAIN lines : \A i \in DOMAIN lines[k] : lines[k][i] # CR
  BY <1>3
<1>5. CrAtEnds(lines)
  BY <1>4 DEF CrAtEnds
<1>6. ASSUME NEW k \in DOMAIN lines PROVE ~EndsInCR(lines, k)
  <2>1. lines[k] \in Seq(Char \ {CR})
    BY <1>3
  <2>2. lines[k] # << >> => Last(lines[k]) \in Char \ {CR}
    BY <2>1 DEF Last
  <2> QED BY <2>2 DEF EndsInCR
<1>7. UnixOf(lines) = lines
  BY <1>3, <1>6 DEF UnixOf
<1>8. body \in Seq(Char) /\ LF \in Char
  BY DEF Text, Char, Syntax
<1> QED
  BY <1>1, <1>5, <1>7, <1>8, ReadTextIs DEF lines

(* A line that gives way to one without a carriage return does so in the   *)
(* text that is read.                                                      *)
LEMMA UnixReplaced ==
    ASSUME NEW lines \in Seq(Seq(Char)), CrAtEnds(lines), NEW i \in DOMAIN lines,
           NEW text \in Seq(Char), \A j \in DOMAIN text : text[j] # CR
    PROVE  /\ CrAtEnds([lines EXCEPT ![i] = text])
           /\ UnixOf([lines EXCEPT ![i] = text]) = [UnixOf(lines) EXCEPT ![i] = text]
<1> DEFINE new == [lines EXCEPT ![i] = text]
           u == UnixOf(lines)
           v == UnixOf(new)
<1>1. /\ new \in Seq(Seq(Char)) /\ Len(new) = Len(lines) /\ DOMAIN new = DOMAIN lines
      /\ \A k \in DOMAIN lines : new[k] = IF k = i THEN text ELSE lines[k]
  OBVIOUS
<1> HIDE DEF new
<1>2. CrAtEnds(new)
  <2> SUFFICES ASSUME NEW k \in DOMAIN new, NEW j \in DOMAIN new[k], new[k][j] = CR
               PROVE  j = Len(new[k]) /\ k < Len(new)
    BY DEF CrAtEnds
  <2>1. k # i /\ new[k] = lines[k] /\ k \in DOMAIN lines
    BY <1>1
  <2>2. j = Len(lines[k]) /\ k < Len(lines)
    BY <2>1 DEF CrAtEnds
  <2> QED BY <1>1, <2>1, <2>2
<1>3. DOMAIN u = DOMAIN lines /\ DOMAIN v = DOMAIN lines
  BY <1>1 DEF UnixOf
<1>4. ASSUME NEW k \in DOMAIN lines PROVE v[k] = IF k = i THEN text ELSE u[k]
  <2>1. /\ v[k] = IF EndsInCR(new, k) THEN Front(new[k]) ELSE new[k]
        /\ u[k] = IF EndsInCR(lines, k) THEN Front(lines[k]) ELSE lines[k]
    BY <1>1 DEF UnixOf
  <2>2. CASE k # i
    <3>1. new[k] = lines[k]
      BY <1>1, <2>2
    <3> QED BY <1>1, <2>1, <2>2, <3>1 DEF EndsInCR
  <2>3. CASE k = i
    <3>1. new[k] = text
      BY <1>1, <2>3
    <3>2. text # << >> => Len(text) \in DOMAIN text
      OBVIOUS
    <3>3. ~EndsInCR(new, k)
      BY <3>1, <3>2 DEF EndsInCR, Last
    <3> QED BY <2>1, <2>3, <3>1, <3>3
  <2> QED BY <2>2, <2>3
<1>5. v = [k \in DOMAIN lines |-> v[k]] /\ u = [k \in DOMAIN lines |-> u[k]]
  BY <1>1 DEF UnixOf
<1> HIDE DEF u, v
<1>6. v = [u EXCEPT ![i] = text]
  BY <1>3, <1>4, <1>5
<1> QED
  BY <1>2, <1>6 DEF new, u, v

-------------------------------------------------------------------------------
(***************************************************************************)
(* A task line that ends in CR LF is the same task when the CR is gone.    *)
(***************************************************************************)
(* Where the parts of a task line are.                                     *)
DashAt(s) == SkipBlanks(s, 1)
BoxAt(s)  == SkipBlanks(s, DashAt(s) + 1)
TailAt(s) == SkipBlanks(s, BoxAt(s) + 3)
TaskTail(s)  == SubSeq(s, TailAt(s), Len(s))

TaskShape(s) ==
    /\ BoxAt(s) + 3 <= Len(s)
    /\ s[DashAt(s)] = Dash /\ BoxAt(s) > DashAt(s) + 1
    /\ s[BoxAt(s)] = Open /\ s[BoxAt(s) + 1] \in Marks /\ s[BoxAt(s) + 2] = Close
    /\ TailAt(s) > BoxAt(s) + 3

(* They are there in this order, or the search has run off the line.       *)
LEMMA PlacesType ==
    ASSUME NEW s \in Text
    PROVE  /\ DashAt(s) \in Nat /\ (DashAt(s) = Len(s) + 1 \/ DashAt(s) \in 1..Len(s))
           /\ BoxAt(s) \in Nat /\ (BoxAt(s) = Len(s) + 1 \/ BoxAt(s) \in DashAt(s) + 1..Len(s))
           /\ TailAt(s) \in Nat /\ (TailAt(s) = Len(s) + 1 \/ TailAt(s) \in BoxAt(s) + 3..Len(s))
<1>1. DashAt(s) \in Nat /\ (DashAt(s) = Len(s) + 1 \/ DashAt(s) \in 1..Len(s))
  <2>1. 1 \in Nat
    OBVIOUS
  <2> QED BY <2>1, SkipBlanksType DEF DashAt
<1>2. BoxAt(s) \in Nat /\ (BoxAt(s) = Len(s) + 1 \/ BoxAt(s) \in DashAt(s) + 1..Len(s))
  <2>1. DashAt(s) + 1 \in Nat
    BY <1>1
  <2> QED BY <2>1, SkipBlanksType DEF BoxAt
<1>3. TailAt(s) \in Nat /\ (TailAt(s) = Len(s) + 1 \/ TailAt(s) \in BoxAt(s) + 3..Len(s))
  <2>1. BoxAt(s) + 3 \in Nat
    BY <1>2
  <2> QED BY <2>1, SkipBlanksType DEF TailAt
<1> QED
  BY <1>1, <1>2, <1>3

(* A line is a task if they are what they should be.                       *)
LEMMA TaskLineIs ==
    ASSUME NEW s \in LineText
    PROVE  /\ IsBullet(s) <=> TaskShape(s)
           /\ IsBullet(s) => Bullet(s).state = s[BoxAt(s) + 1] /\ Bullet(s).text = TaskTail(s)
<1> DEFINE rest == TaskTail(s)
           text == IF EndsWithLF(rest) THEN Front(rest) ELSE rest
           leading == SubSeq(s, 1, DashAt(s) - 1)
           mark == s[BoxAt(s) + 1]
           task == [leading |-> leading, state |-> mark, text |-> text]
<1>1. Bullet(s) = IF TaskShape(s) /\ ~Contains(text, LF) THEN task ELSE NoBullet
  BY Zenon DEF Bullet, TaskShape, DashAt, BoxAt, TailAt, TaskTail
<1>2. s \in Text /\ Len(s) \in Nat /\ s \in Seq(Char) /\ \A i \in 1..Len(s) : s[i] # LF
  BY DEF LineText, Text
<1>3. TaskShape(s) => TailAt(s) \in Nat /\ TailAt(s) >= 1
  BY <1>2, PlacesType DEF TaskShape
<1>4. TaskShape(s) => rest \in Seq(Char \ {LF})
  <2>1. s \in Seq(Char \ {LF})
    BY <1>2
  <2> QED BY <1>2, <1>3, <2>1, PartType DEF TaskTail
<1> HIDE DEF rest
<1>5. TaskShape(s) => text = rest /\ ~Contains(rest, LF)
  BY <1>4 DEF EndsWithLF, Last, Contains
<1> HIDE DEF text, leading, mark
<1>6. task # NoBullet /\ task.state = mark /\ task.text = text
  <2>1. DOMAIN task = {"leading", "state", "text"} /\ DOMAIN NoBullet = {"state"}
    BY DEF NoBullet
  <2> QED BY <2>1
<1> HIDE DEF task
<1> QED
  BY <1>1, <1>5, <1>6 DEF IsBullet, mark, rest

(* A line, and the line with a carriage return behind it.                  *)
CrBehind(t, s) ==
    /\ Len(s) = Len(t) + 1 /\ s[Len(s)] = CR
    /\ \A i \in 1..Len(t) : s[i] = t[i]

(* A search in both ends at the same character, or runs off both.          *)
LEMMA SameSkip ==
    ASSUME NEW s \in Text, NEW t \in Text, CrBehind(t, s), NEW i \in Nat, i >= 1
    PROVE  \/ SkipBlanks(s, i) = SkipBlanks(t, i) /\ SkipBlanks(s, i) \in i..Len(t)
           \/ SkipBlanks(s, i) = Len(s) + 1 /\ SkipBlanks(t, i) = Len(t) + 1
<1> DEFINE a == SkipBlanks(s, i)
           b == SkipBlanks(t, i)
           n == Len(t)
<1>1. n \in Nat /\ Len(s) = n + 1
  BY DEF CrBehind, Text
<1>2. /\ a \in Nat
      /\ \/ a = Len(s) + 1 /\ \A k \in i..Len(s) : s[k] \in Blank
         \/ a \in i..Len(s) /\ s[a] \notin Blank /\ \A j \in i..a - 1 : s[j] \in Blank
  BY SkipBlanksType
<1>3. /\ b \in Nat
      /\ \/ b = n + 1 /\ \A k \in i..n : t[k] \in Blank
         \/ b \in i..n /\ t[b] \notin Blank /\ \A j \in i..b - 1 : t[j] \in Blank
  BY SkipBlanksType
<1>4. (\A k \in i..n : k \in 1..n /\ s[k] = t[k]) /\ s[n + 1] = CR /\ CR \in Blank
  BY <1>1 DEF CrBehind, Blank
<1> HIDE DEF a, b, n
<1>5. CASE b = n + 1 /\ \A k \in i..n : t[k] \in Blank
  <2>1. \A k \in i..n + 1 : k \in i..n \/ k = n + 1
    BY <1>1
  <2>2. \A k \in i..n + 1 : s[k] \in Blank
    BY <1>4, <1>5, <2>1
  <2> QED BY <1>1, <1>2, <1>5, <2>2 DEF a, b, n
<1>6. CASE b \in i..n /\ t[b] \notin Blank /\ \A j \in i..b - 1 : t[j] \in Blank
  <2>1. s[b] \notin Blank /\ b \in i..n + 1
    BY <1>1, <1>4, <1>6
  <2>2. a \in i..n + 1 /\ s[a] \notin Blank /\ \A j \in i..a - 1 : s[j] \in Blank
    BY <1>1, <1>2, <2>1
  <2>3. ~(b \in i..a - 1)
    BY <2>1, <2>2
  <2>4. ~(a \in i..b - 1)
    <3>1. \A j \in i..b - 1 : j \in i..n
      BY <1>1, <1>6
    <3> QED BY <1>4, <1>6, <2>2, <3>1
  <2>5. a = b
    BY <1>1, <1>2, <1>3, <2>1, <2>2, <2>3, <2>4
  <2> QED BY <1>6, <2>5 DEF a, b, n
<1> QED
  BY <1>3, <1>5, <1>6

(* So a task with a reference is one in both, with the same state and the  *)
(* same reference.                                                         *)
RefTask(s) == IsBullet(s) /\ RefOf(s) # NoRef

(* The first link of a text is none or one of the text.                    *)
LEMMA FirstLinkIs ==
    ASSUME NEW s \in Text, NEW t \in Text, CrBehind(t, s)
    PROVE  FirstLink(s) = FirstLink(t)
<1> DEFINE a == {i \in DOMAIN s : s[i] \in Refs}
           b == {i \in DOMAIN t : t[i] \in Refs}
<1>1. Len(t) \in Nat /\ DOMAIN t = 1..Len(t) /\ DOMAIN s = 1..Len(t) + 1
  BY DEF CrBehind, Text
<1>2. s[Len(t) + 1] \notin Refs
  BY CharAssumption DEF CrBehind, Syntax
<1>3. \A i \in 1..Len(t) + 1 : i \in 1..Len(t) \/ i = Len(t) + 1
  BY <1>1
<1>4. \A i \in 1..Len(t) : s[i] = t[i] /\ i \in 1..Len(t) + 1
  BY <1>1 DEF CrBehind
<1>5. a = b
  BY <1>1, <1>2, <1>3, <1>4
<1>6. FirstLink(s) = (IF a = {} THEN NoRef ELSE s[Min(a)])
      /\ FirstLink(t) = (IF b = {} THEN NoRef ELSE t[Min(b)])
  BY Zenon DEF FirstLink
<1>7. b \in SUBSET Nat /\ b \subseteq DOMAIN t
  BY <1>1
<1> HIDE DEF a, b
<1>8. b # {} => Min(b) \in b
  BY <1>7, MinIsLeast
<1>9. CASE b = {}
  BY <1>5, <1>6, <1>9
<1>10. CASE b # {}
  <2>1. Min(b) \in 1..Len(t)
    BY <1>1, <1>7, <1>8, <1>10
  <2>2. s[Min(b)] = t[Min(b)]
    BY <1>4, <2>1
  <2> QED BY <1>5, <1>6, <1>10, <2>2
<1> QED
  BY <1>9, <1>10

LEMMA CrTaskSame ==
    ASSUME NEW s \in LineText, NEW t \in LineText, CrBehind(t, s)
    PROVE  /\ RefTask(s) <=> RefTask(t)
           /\ RefTask(s) => Bullet(s).state = Bullet(t).state /\ RefOf(s) = RefOf(t)
<1> DEFINE n == Len(t)
<1>1. s \in Text /\ t \in Text /\ n \in Nat /\ Len(s) = n + 1
  BY DEF LineText, Text, CrBehind
<1>2. \A i \in 1..n : s[i] = t[i]
  BY DEF CrBehind
<1>3. /\ IsBullet(s) <=> TaskShape(s)
      /\ IsBullet(s) => Bullet(s).state = s[BoxAt(s) + 1] /\ RefOf(s) = FirstLink(TaskTail(s))
      /\ IsBullet(t) <=> TaskShape(t)
      /\ IsBullet(t) => Bullet(t).state = t[BoxAt(t) + 1] /\ RefOf(t) = FirstLink(TaskTail(t))
  BY TaskLineIs DEF RefOf
<1>4. /\ DashAt(s) \in Nat /\ BoxAt(s) \in Nat /\ TailAt(s) \in Nat
      /\ DashAt(t) \in Nat /\ BoxAt(t) \in Nat /\ TailAt(t) \in Nat
  BY <1>1, PlacesType
<1>5. \/ DashAt(s) = DashAt(t) /\ DashAt(t) \in 1..n
      \/ DashAt(s) = n + 2 /\ DashAt(t) = n + 1
  <2>1. 1 \in Nat /\ 1 >= 1 /\ Len(s) + 1 = n + 2
    BY <1>1
  <2> QED BY <1>1, <2>1, SameSkip DEF DashAt
<1>6. CASE DashAt(s) = n + 2 /\ DashAt(t) = n + 1
  <2>1. BoxAt(s) = n + 2 /\ BoxAt(t) = n + 1
    BY <1>1, <1>4, <1>6, PlacesType
  <2>2. ~TaskShape(s) /\ ~TaskShape(t)
    BY <1>1, <2>1 DEF TaskShape
  <2> QED BY <1>3, <2>2 DEF RefTask
<1>7. CASE DashAt(s) = DashAt(t) /\ DashAt(t) \in 1..n
  <2>1. \/ BoxAt(s) = BoxAt(t) /\ BoxAt(t) \in DashAt(t) + 1..n
        \/ BoxAt(s) = n + 2 /\ BoxAt(t) = n + 1
    <3>1. DashAt(t) + 1 \in Nat /\ DashAt(t) + 1 >= 1 /\ Len(s) + 1 = n + 2
      BY <1>1, <1>4
    <3> QED BY <1>1, <1>7, <3>1, SameSkip DEF BoxAt
  <2>2. CASE BoxAt(s) = n + 2 /\ BoxAt(t) = n + 1
    <3>1. ~TaskShape(s) /\ ~TaskShape(t)
      BY <1>1, <2>2 DEF TaskShape
    <3> QED BY <1>3, <3>1 DEF RefTask
  <2>3. CASE BoxAt(s) = BoxAt(t) /\ BoxAt(t) \in DashAt(t) + 1..n
    <3>1. \/ TailAt(s) = TailAt(t) /\ TailAt(t) \in BoxAt(t) + 3..n
          \/ TailAt(s) = n + 2 /\ TailAt(t) = n + 1
      <4>1. BoxAt(t) + 3 \in Nat /\ BoxAt(t) + 3 >= 1 /\ Len(s) + 1 = n + 2
        BY <1>1, <1>4
      <4> QED BY <1>1, <2>3, <4>1, SameSkip DEF TailAt
    <3>2. CASE TailAt(s) = n + 2 /\ TailAt(t) = n + 1
      <4>1. TaskTail(s) = << >> /\ TaskTail(t) = << >>
        <5>1. TaskTail(s) = SubSeq(s, n + 2, n + 1) /\ TaskTail(t) = SubSeq(t, n + 1, n)
          BY <1>1, <3>2 DEF TaskTail
        <5> QED BY <1>1, <5>1 DEF Text
      <4>2. FirstLink(<< >>) = NoRef
        BY DEF FirstLink
      <4> QED BY <1>3, <4>1, <4>2 DEF RefTask
    <3>3. CASE TailAt(s) = TailAt(t) /\ TailAt(t) \in BoxAt(t) + 3..n
      <4> DEFINE d == DashAt(t)
                 b == BoxAt(t)
                 f == TailAt(t)
      <4>1. d \in 1..n /\ b \in 1..n /\ f \in 1..n /\ f >= b + 3
        BY <1>4, <1>7, <2>3, <3>3
      <4>2. DashAt(s) = d /\ BoxAt(s) = b /\ TailAt(s) = f
        BY <1>7, <2>3, <3>3
      <4>3. TaskTail(s) = SubSeq(s, f, n + 1) /\ TaskTail(t) = SubSeq(t, f, n)
        BY <1>1, <4>2 DEF TaskTail
      <4> HIDE DEF d, b, f, n
      <4>4. b + 1 \in 1..n /\ b + 2 \in 1..n /\ b + 3 <= n
        BY <1>1, <4>1
      <4>5. s[d] = t[d] /\ s[b] = t[b] /\ s[b + 1] = t[b + 1] /\ s[b + 2] = t[b + 2]
        BY <1>2, <4>1, <4>4
      <4>6. TaskShape(s) <=> TaskShape(t)
        <5>1. b + 3 <= n + 1
          BY <1>1, <4>1, <4>4
        <5>2. DashAt(t) = d /\ BoxAt(t) = b /\ TailAt(t) = f /\ Len(t) = n
          BY DEF d, b, f, n
        <5> QED BY <1>1, <4>2, <4>4, <4>5, <5>1, <5>2 DEF TaskShape
      <4>7. SubSeq(s, f, n + 1) \in Text /\ SubSeq(t, f, n) \in Text
        <5>1. s \in Seq(Char) /\ t \in Seq(Char) /\ f \in Nat /\ f >= 1 /\ n \in Int /\ n + 1 \in Int
              /\ n <= Len(t) /\ n + 1 <= Len(s)
          BY <1>1, <4>1 DEF Text, n
        <5> QED BY <5>1, PartType DEF Text
      <4>8. CrBehind(SubSeq(t, f, n), SubSeq(s, f, n + 1))
        <5>1. /\ \A i \in f..n + 1 : s[i] \in Char
              /\ \A i \in f..n : t[i] \in Char
              /\ f \in Int /\ n \in Int /\ n + 1 \in Int
          BY <1>1, <4>1 DEF Text, n
        <5>2. /\ Len(SubSeq(s, f, n + 1)) = n + 1 - f + 1
              /\ \A i \in 1..n + 1 - f + 1 : SubSeq(s, f, n + 1)[i] = s[f + i - 1]
          <6>1. f <= n + 1
            BY <4>1, <5>1
          <6> QED BY <5>1, <6>1, SubSeqProperties
        <5>3. /\ Len(SubSeq(t, f, n)) = n - f + 1
              /\ \A i \in 1..n - f + 1 : SubSeq(t, f, n)[i] = t[f + i - 1]
          <6>1. f <= n
            BY <4>1, <5>1
          <6> QED BY <5>1, <6>1, SubSeqProperties
        <5>4. n + 1 - f + 1 = n - f + 1 + 1 /\ f + (n + 1 - f + 1) - 1 = n + 1
              /\ n + 1 - f + 1 \in 1..n + 1 - f + 1
          BY <4>1, <5>1
        <5>5. \A i \in 1..n - f + 1 : i \in 1..n + 1 - f + 1 /\ f + i - 1 \in 1..n
          BY <4>1, <5>1
        <5>6. s[n + 1] = CR
          BY <1>1 DEF CrBehind
        <5> QED BY <1>2, <5>2, <5>3, <5>4, <5>5, <5>6 DEF CrBehind
      <4>9. FirstLink(TaskTail(s)) = FirstLink(TaskTail(t))
        BY <4>3, <4>7, <4>8, FirstLinkIs
      <4> QED BY <1>3, <4>2, <4>5, <4>6, <4>9 DEF RefTask, b
    <3> QED BY <3>1, <3>2, <3>3
  <2> QED BY <2>1, <2>2, <2>3
<1> QED
  BY <1>5, <1>6, <1>7

(* The lines of the page against those of the file.                        *)
LEMMA UnixTask ==
    ASSUME NEW lines \in LineSeqs, CrAtEnds(lines), NEW k \in DOMAIN lines
    PROVE  LET u == UnixOf(lines) IN
           /\ RefTask(u[k]) <=> RefTask(lines[k])
           /\ RefTask(u[k]) => /\ Bullet(u[k]).state = Bullet(lines[k]).state
                               /\ RefOf(u[k]) = RefOf(lines[k])
<1> DEFINE s == lines[k]
           t == UnixOf(lines)[k]
<1>1. s \in LineText /\ s \in Text /\ s \in Seq(Char)
  <2>1. lines \in Seq(LineText)
    BY DEF LineSeqs
  <2>2. s \in LineText
    BY <2>1
  <2> QED BY <2>2 DEF LineText, Text
<1>2. t \in LineText /\ t \in Text
  <2>1. UnixOf(lines) \in Seq(LineText) /\ DOMAIN UnixOf(lines) = DOMAIN lines
    BY UnixLineSeqs DEF LineSeqs, UnixOf
  <2>2. t \in LineText
    BY <2>1
  <2> QED BY <2>2 DEF LineText
<1>3. t = IF EndsInCR(lines, k) THEN Front(s) ELSE s
  BY Zenon DEF UnixOf
<1>4. CASE ~EndsInCR(lines, k)
  BY <1>3, <1>4
<1>5. CASE EndsInCR(lines, k)
  <2>1. s # << >> /\ Last(s) = CR /\ t = SubSeq(s, 1, Len(s) - 1) /\ t = Front(s)
    BY <1>3, <1>5 DEF EndsInCR, Front
  <2> HIDE DEF s, t
  <2>2. Len(s) \in Nat /\ Len(s) >= 1 /\ Len(t) = Len(s) - 1 /\ s[Len(s)] = CR
    <3>1. Len(t) = Len(s) - 1
      BY <1>1, <2>1, FrontText
    <3>2. Len(s) \in Nat /\ s \in Seq(Char) /\ s[Len(s)] = CR
      BY <1>1, <2>1 DEF Last
    <3> QED BY <2>1, <3>1, <3>2
  <2> DEFINE m == Len(s) - 1
  <2>3. 1 \in Int /\ m \in Int /\ m \in Nat /\ \A i \in 1..m : s[i] \in Char
    <3>1. \A i \in 1..Len(s) : s[i] \in Char
      BY <1>1
    <3> QED BY <2>2, <3>1
  <2>4. t = SubSeq(s, 1, m) /\ Len(t) = m
    BY <2>1, <2>2
  <2> HIDE DEF m
  <2>5. \A i \in 1..m - 1 + 1 : SubSeq(s, 1, m)[i] = s[1 + i - 1]
    BY <2>3, SubSeqProperties
  <2>6. \A i \in 1..m : i \in 1..m - 1 + 1 /\ 1 + i - 1 = i
    BY <2>3
  <2>7. \A i \in 1..m : s[i] = t[i]
    BY <2>4, <2>5, <2>6
  <2>8. CrBehind(t, s)
    <3>1. Len(s) = Len(t) + 1
      BY <2>2
    <3> QED BY <2>2, <2>4, <2>7, <3>1 DEF CrBehind
  <2>9. RefTask(s) <=> RefTask(t)
    BY <1>1, <1>2, <2>8, CrTaskSame
  <2>10. RefTask(s) => Bullet(s).state = Bullet(t).state /\ RefOf(s) = RefOf(t)
    BY <1>1, <1>2, <2>8, CrTaskSame
  <2> QED BY <2>9, <2>10 DEF s, t
<1> QED
  BY <1>4, <1>5
===============================================================================
