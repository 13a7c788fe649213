------------------------------ MODULE CellFacts ------------------------------
(***************************************************************************)
(* Facts about the operators of Cells, for sequences of any length:        *)
(* Selected keeps the cells of a set of positions in their order, Total    *)
(* and TotalOver are sums.                                                 *)
(*                                                                         *)
(* The induction that they need is over natural numbers, and is had from   *)
(* the least element of a set: what holds of 0, and of n + 1 where it      *)
(* holds of n, holds of every number, for the least exception would not be *)
(* one.  TotalOver counts units, so that its facts are facts about         *)
(* cardinalities and need no order of the elements.                        *)
(***************************************************************************)
EXTENDS Cells, FiniteSetTheorems, WellFoundedInduction, TLAPS

Less == {ss \in Nat \X Nat : ss[1] < ss[2]}

\* A set of natural numbers has a least element.
LEMMA LeastElement ==
    ASSUME NEW S \in SUBSET Nat, S # {}
    PROVE  \E n \in S : \A m \in S : n <= m
<1>1. IsWellFoundedOn(Less, Nat)
  BY NatLessThanWellFounded DEF OpToRel, Less
<1>2. PICK n \in S : \A m \in S : ~(<<m, n>> \in Less)
  BY <1>1, WFMin, Zenon
<1>3. ASSUME NEW m \in S PROVE n <= m
  <2>1. ~(<<m, n>> \in Less) BY <1>2
  <2>2. m \in Nat /\ n \in Nat BY <1>2
  <2>3. <<m, n>> \in Nat \X Nat BY <2>2
  <2>4. ~(m < n) BY <2>1, <2>3 DEF Less
  <2> QED BY <2>2, <2>4
<1> QED BY <1>3

\* Induction, as a property of sets.
LEMMA NatSet ==
    ASSUME NEW S \in SUBSET Nat, 0 \in S, \A n \in S : n + 1 \in S
    PROVE  S = Nat
<1> SUFFICES ASSUME Nat \ S # {} PROVE FALSE
  OBVIOUS
<1>1. PICK n \in Nat \ S : \A m \in Nat \ S : n <= m
  BY LeastElement
<1>2. n # 0 /\ n - 1 \in Nat
  BY <1>1
<1>3. n - 1 \in S
  BY <1>1, <1>2
<1> QED
  BY <1>1, <1>3

\* f is what a recursion from base by step comes to, up to n.
Follows(f, n, base, step) ==
    f[0] = base /\ \A k \in 1 .. n : f[k] = step[<<k, f[k - 1]>>]

\* A recursion over 0 .. n has a result.
LEMMA Recursion ==
    ASSUME NEW n \in Nat, NEW X, NEW base \in X, NEW step \in [(1 .. n) \X X -> X]
    PROVE  \E f \in [0 .. n -> X] : Follows(f, n, base, step)
<1> DEFINE Good == {m \in Nat : m <= n => \E f \in [0 .. m -> X] : Follows(f, m, base, step)}
<1>1. 0 \in Good
  <2> DEFINE f == [k \in 0 .. 0 |-> base]
  <2>1. f \in [0 .. 0 -> X] /\ Follows(f, 0, base, step)
    BY DEF Follows
  <2> QED BY <2>1
<1>2. ASSUME NEW m \in Good PROVE m + 1 \in Good
  <2> SUFFICES ASSUME m + 1 <= n
               PROVE  \E f \in [0 .. m + 1 -> X] : Follows(f, m + 1, base, step)
    OBVIOUS
  <2>1. PICK f \in [0 .. m -> X] : Follows(f, m, base, step)
    BY <1>2
  <2> DEFINE next == step[<<m + 1, f[m]>>]
             g == [k \in 0 .. m + 1 |-> IF k = m + 1 THEN next ELSE f[k]]
  <2>2. next \in X
    <3>1. m + 1 \in 1 .. n /\ f[m] \in X OBVIOUS
    <3>2. <<m + 1, f[m]>> \in (1 .. n) \X X BY <3>1
    <3> QED BY <3>2
  <2>3. g \in [0 .. m + 1 -> X]
    <3> HIDE DEF next
    <3> QED BY <2>2
  <2>4. ASSUME NEW k \in 1 .. m + 1 PROVE g[k] = step[<<k, g[k - 1]>>]
    <3>1. CASE k = m + 1
      <4>1. k - 1 = m /\ k - 1 # m + 1 /\ k - 1 \in 0 .. m + 1 BY <3>1
      <4>2. g[k] = next /\ g[k - 1] = f[m] BY <3>1, <4>1
      <4> QED BY <3>1, <4>2
    <3>2. CASE k # m + 1
      <4>1. k \in 1 .. m /\ k - 1 \in 0 .. m /\ k - 1 # m + 1 BY <3>2
      <4>2. f[k] = step[<<k, f[k - 1]>>] BY <2>1, <4>1 DEF Follows
      <4>3. g[k] = f[k] /\ g[k - 1] = f[k - 1] BY <3>2, <4>1
      <4> QED BY <4>2, <4>3
    <3> QED BY <3>1, <3>2
  <2>5. g[0] = base BY <2>1 DEF Follows
  <2>6. Follows(g, m + 1, base, step)
    <3> HIDE DEF g
    <3> QED BY <2>4, <2>5 DEF Follows
  <2> QED BY <2>3, <2>6
<1> HIDE DEF Good
<1>3. Good \in SUBSET Nat BY DEF Good
<1>4. Good = Nat BY <1>1, <1>2, <1>3, NatSet
<1> QED BY <1>4 DEF Good

-----------------------------------------------------------------------------
\* The recursion of Selected.
LEMMA SelectedSteps ==
    ASSUME NEW T, NEW cells \in Seq(T), NEW S
    PROVE  \E f \in [0 .. Len(cells) -> Seq(T)] :
              /\ f[0] = <<>>
              /\ \A k \in 1 .. Len(cells) :
                    f[k] = IF k \in S THEN Append(f[k - 1], cells[k]) ELSE f[k - 1]
              /\ Selected(cells, S) = f[Len(cells)]
<1> DEFINE n == Len(cells)
           step == [p \in (1 .. n) \X Seq(T) |->
                      IF p[1] \in S THEN Append(p[2], cells[p[1]]) ELSE p[2]]
<1>1. n \in Nat OBVIOUS
<1>2. step \in [(1 .. n) \X Seq(T) -> Seq(T)]
  <2> SUFFICES ASSUME NEW p \in (1 .. n) \X Seq(T)
               PROVE  (IF p[1] \in S THEN Append(p[2], cells[p[1]]) ELSE p[2]) \in Seq(T)
    OBVIOUS
  <2>1. cells[p[1]] \in T /\ p[2] \in Seq(T) OBVIOUS
  <2> QED BY <2>1
<1>3. <<>> \in Seq(T) OBVIOUS
<1> HIDE DEF step
<1>4. PICK f \in [0 .. n -> Seq(T)] : Follows(f, n, <<>>, step)
  BY <1>1, <1>2, <1>3, Recursion
<1>5. ASSUME NEW k \in 1 .. n, NEW g, g[k - 1] \in Seq(T)
      PROVE  step[<<k, g[k - 1]>>]
               = IF k \in S THEN Append(g[k - 1], cells[k]) ELSE g[k - 1]
  <2>1. <<k, g[k - 1]>> \in (1 .. n) \X Seq(T) BY <1>5
  <2> QED BY <2>1 DEF step
<1>6. \A k \in 1 .. n :
         /\ f[k - 1] \in Seq(T)
         /\ f[k] = IF k \in S THEN Append(f[k - 1], cells[k]) ELSE f[k - 1]
  <2> SUFFICES ASSUME NEW k \in 1 .. n
               PROVE  /\ f[k - 1] \in Seq(T)
                      /\ f[k] = IF k \in S THEN Append(f[k - 1], cells[k]) ELSE f[k - 1]
    OBVIOUS
  <2>1. f[k - 1] \in Seq(T)
    <3>1. k - 1 \in 0 .. n BY <1>1
    <3> QED BY <3>1
  <2> QED BY <1>4, <1>5, <2>1 DEF Follows
<1>7. f[0] = <<>> BY <1>4 DEF Follows
<1> DEFINE R(g) == g = [k \in 0 .. n |-> IF k = 0 THEN <<>>
                            ELSE IF k \in S THEN Append(g[k - 1], cells[k]) ELSE g[k - 1]]
           chosen == CHOOSE g : R(g)
<1>8. R(f)
  <2>1. \A k \in 0 .. n : f[k] = IF k = 0 THEN <<>>
                            ELSE IF k \in S THEN Append(f[k - 1], cells[k]) ELSE f[k - 1]
    <3> SUFFICES ASSUME NEW k \in 0 .. n
                 PROVE  f[k] = IF k = 0 THEN <<>>
                               ELSE IF k \in S THEN Append(f[k - 1], cells[k]) ELSE f[k - 1]
      OBVIOUS
    <3>1. CASE k = 0 BY <3>1, <1>7
    <3>2. CASE k # 0
      <4>1. k \in 1 .. n BY <3>2, <1>1
      <4> QED BY <4>1, <3>2, <1>6
    <3> QED BY <3>1, <3>2
  <2> QED BY <2>1
<1>9. R(chosen) BY <1>8, Zenon
<1> HIDE DEF chosen
<1>10. \A k \in 0 .. n : chosen[k] = IF k = 0 THEN <<>>
              ELSE IF k \in S THEN Append(chosen[k - 1], cells[k]) ELSE chosen[k - 1]
  BY <1>9, Zenon
<1> DEFINE Good == {k \in Nat : k <= n => chosen[k] = f[k]}
<1>11. 0 \in Good BY <1>1, <1>7, <1>10
<1>12. ASSUME NEW k \in Good PROVE k + 1 \in Good
  <2> SUFFICES ASSUME k + 1 <= n PROVE chosen[k + 1] = f[k + 1] OBVIOUS
  <2>1. k \in Nat /\ k + 1 \in 1 .. n /\ k + 1 \in 0 .. n /\ (k + 1) - 1 = k /\ k + 1 # 0
        /\ chosen[k] = f[k]
    BY <1>1
  <2>2. f[k + 1] = IF k + 1 \in S THEN Append(f[k], cells[k + 1]) ELSE f[k]
    BY <1>6, <2>1
  <2>3. chosen[k + 1] = IF k + 1 \in S THEN Append(chosen[k], cells[k + 1]) ELSE chosen[k]
    BY <1>10, <2>1
  <2> QED BY <2>1, <2>2, <2>3
<1> HIDE DEF Good
<1>13. Good = Nat
  <2>1. Good \in SUBSET Nat BY DEF Good
  <2> QED BY <1>11, <1>12, <2>1, NatSet
<1>14. chosen[n] = f[n]
  BY <1>1, <1>13 DEF Good
<1>15. Selected(cells, S) = chosen[n]
  BY DEF Selected, chosen
<1> QED BY <1>6, <1>7, <1>14, <1>15

\* A selection has as many cells as there are positions to select.
LEMMA SelectedCount ==
    ASSUME NEW T, NEW cells \in Seq(T), NEW S \in SUBSET DOMAIN cells
    PROVE  /\ Selected(cells, S) \in Seq(T)
           /\ IsFiniteSet(S)
           /\ Len(Selected(cells, S)) = Cardinality(S)
<1> DEFINE n == Len(cells)
           Upto(k) == S \cap (1 .. k)
<1>1. n \in Nat /\ DOMAIN cells = 1 .. n OBVIOUS
<1>2. PICK f \in [0 .. n -> Seq(T)] :
              /\ f[0] = <<>>
              /\ \A k \in 1 .. n :
                    f[k] = IF k \in S THEN Append(f[k - 1], cells[k]) ELSE f[k - 1]
              /\ Selected(cells, S) = f[n]
  BY SelectedSteps
<1>3. IsFiniteSet(S)
  <2>1. IsFiniteSet(1 .. n) BY <1>1, FS_Interval
  <2> QED BY <1>1, <2>1, FS_Subset
<1> DEFINE Good == {k \in Nat : k <= n => IsFiniteSet(Upto(k)) /\ Len(f[k]) = Cardinality(Upto(k))}
<1>4. 0 \in Good
  <2>1. Upto(0) = {} OBVIOUS
  <2>2. Len(f[0]) = 0 BY <1>2
  <2> QED BY <2>1, <2>2, FS_EmptySet
<1>5. ASSUME NEW k \in Good PROVE k + 1 \in Good
  <2> SUFFICES ASSUME k + 1 <= n
               PROVE  IsFiniteSet(Upto(k + 1)) /\ Len(f[k + 1]) = Cardinality(Upto(k + 1))
    OBVIOUS
  <2>1. /\ k \in Nat /\ k + 1 \in 1 .. n /\ (k + 1) - 1 = k /\ k \in 0 .. n
        /\ IsFiniteSet(Upto(k)) /\ Len(f[k]) = Cardinality(Upto(k))
    BY <1>1
  <2>2. f[k + 1] = IF k + 1 \in S THEN Append(f[k], cells[k + 1]) ELSE f[k]
    BY <1>2, <2>1
  <2>3. f[k] \in Seq(T) BY <2>1
  <2>4. CASE k + 1 \in S
    <3>1. Upto(k + 1) = Upto(k) \union {k + 1} /\ k + 1 \notin Upto(k)
      BY <2>1, <2>4
    <3>2. Len(f[k + 1]) = Len(f[k]) + 1
      <4>1. cells[k + 1] \in T BY <1>1, <2>1
      <4> QED BY <2>2, <2>3, <2>4, <4>1
    <3> HIDE DEF Upto
    <3> QED BY <2>1, <3>1, <3>2, FS_AddElement
  <2>5. CASE k + 1 \notin S
    <3>1. Upto(k + 1) = Upto(k)
      BY <2>1, <2>5
    <3> QED BY <2>1, <2>2, <2>5, <3>1
  <2> QED BY <2>4, <2>5
<1> HIDE DEF Good
<1>6. Good = Nat
  <2>1. Good \in SUBSET Nat BY DEF Good
  <2> QED BY <1>4, <1>5, <2>1, NatSet
<1>7. Len(f[n]) = Cardinality(Upto(n)) /\ Upto(n) = S
  <2>1. Upto(n) = S BY <1>1
  <2>2. n \in Good BY <1>1, <1>6
  <2> HIDE DEF Upto, n
  <2>3. Len(f[n]) = Cardinality(Upto(n)) BY <2>2, <1>1 DEF Good
  <2> QED BY <2>1, <2>3
<1>8. f[n] \in Seq(T) BY <1>1
<1> QED BY <1>2, <1>3, <1>7, <1>8

-----------------------------------------------------------------------------
\* The recursion of Total, for natural numbers and for integers.
LEMMA NumbersTotal ==
    ASSUME NEW N \in {Nat, Int}, NEW numbers \in Seq(N)
    PROVE  \E f \in [0 .. Len(numbers) -> N] :
              /\ f[0] = 0
              /\ \A k \in 1 .. Len(numbers) : f[k] = f[k - 1] + numbers[k]
              /\ Total(numbers) = f[Len(numbers)]
<1> DEFINE n == Len(numbers)
           step == [p \in (1 .. n) \X N |-> p[2] + numbers[p[1]]]
<1>1. n \in Nat OBVIOUS
<1>2. step \in [(1 .. n) \X N -> N]
  <2> SUFFICES ASSUME NEW p \in (1 .. n) \X N PROVE p[2] + numbers[p[1]] \in N
    OBVIOUS
  <2>1. numbers[p[1]] \in N /\ p[2] \in N OBVIOUS
  <2>2. CASE N = Nat BY <2>1, <2>2
  <2>3. CASE N = Int BY <2>1, <2>3
  <2> QED BY <2>2, <2>3
<1> HIDE DEF step
<1>3. PICK f \in [0 .. n -> N] : Follows(f, n, 0, step)
  BY <1>1, <1>2, Recursion
<1>4. ASSUME NEW k \in 1 .. n PROVE f[k - 1] \in N /\ f[k] = f[k - 1] + numbers[k]
  <2>1. f[k - 1] \in N
    <3>1. k - 1 \in 0 .. n BY <1>1
    <3> QED BY <3>1
  <2>2. <<k, f[k - 1]>> \in (1 .. n) \X N BY <2>1
  <2>3. step[<<k, f[k - 1]>>] = f[k - 1] + numbers[k] BY <2>2 DEF step
  <2> QED BY <1>3, <2>1, <2>3 DEF Follows
<1>5. f[0] = 0 BY <1>3 DEF Follows
<1> DEFINE R(g) == g = [k \in 0 .. n |-> IF k = 0 THEN 0 ELSE g[k - 1] + numbers[k]]
           chosen == CHOOSE g : R(g)
<1>6. R(f)
  <2>1. ASSUME NEW k \in 0 .. n
        PROVE  f[k] = IF k = 0 THEN 0 ELSE f[k - 1] + numbers[k]
    <3>1. CASE k = 0 BY <3>1, <1>5
    <3>2. CASE k # 0
      <4>1. k \in 1 .. n BY <3>2, <1>1
      <4> QED BY <4>1, <3>2, <1>4
    <3> QED BY <3>1, <3>2
  <2> QED BY <2>1
<1>7. R(chosen) BY <1>6, Zenon
<1> HIDE DEF chosen
<1>8. \A k \in 0 .. n : chosen[k] = IF k = 0 THEN 0 ELSE chosen[k - 1] + numbers[k]
  BY <1>7, Zenon
<1> DEFINE Good == {k \in Nat : k <= n => chosen[k] = f[k]}
<1>9. 0 \in Good BY <1>1, <1>5, <1>8
<1>10. ASSUME NEW k \in Good PROVE k + 1 \in Good
  <2> SUFFICES ASSUME k + 1 <= n PROVE chosen[k + 1] = f[k + 1] OBVIOUS
  <2>1. k \in Nat /\ k + 1 \in 1 .. n /\ k + 1 \in 0 .. n /\ (k + 1) - 1 = k /\ k + 1 # 0
        /\ chosen[k] = f[k]
    BY <1>1
  <2>2. f[k + 1] = f[k] + numbers[k + 1] BY <1>4, <2>1
  <2>3. chosen[k + 1] = chosen[k] + numbers[k + 1] BY <1>8, <2>1
  <2> QED BY <2>1, <2>2, <2>3
<1> HIDE DEF Good
<1>11. Good = Nat
  <2>1. Good \in SUBSET Nat BY DEF Good
  <2> QED BY <1>9, <1>10, <2>1, NatSet
<1>12. chosen[n] = f[n] BY <1>1, <1>11 DEF Good
<1>13. Total(numbers) = chosen[n] BY DEF Total, chosen
<1> QED BY <1>4, <1>5, <1>12, <1>13

LEMMA TotalSteps ==
    ASSUME NEW numbers \in Seq(Nat)
    PROVE  \E f \in [0 .. Len(numbers) -> Nat] :
              /\ f[0] = 0
              /\ \A k \in 1 .. Len(numbers) : f[k] = f[k - 1] + numbers[k]
              /\ Total(numbers) = f[Len(numbers)]
BY NumbersTotal

\* The sum of the first n of the numbers.
SumTo(numbers, n) == Total([k \in 1 .. n |-> numbers[k]])

\* Sums of beginnings, one number more at a time.
LEMMA NumbersSum ==
    ASSUME NEW N \in {Nat, Int}, NEW numbers, NEW n \in Nat,
           \A k \in 1 .. n + 1 : numbers[k] \in N
    PROVE  /\ SumTo(numbers, n) \in N
           /\ SumTo(numbers, n + 1) = SumTo(numbers, n) + numbers[n + 1]
<1> DEFINE a == [k \in 1 .. n |-> numbers[k]]
           b == [k \in 1 .. n + 1 |-> numbers[k]]
<1>1. /\ a \in Seq(N) /\ Len(a) = n /\ b \in Seq(N) /\ Len(b) = n + 1
      /\ \A k \in 1 .. n : a[k] = b[k]
      /\ b[n + 1] = numbers[n + 1]
  OBVIOUS
<1> HIDE DEF a, b
<1>2. PICK f \in [0 .. n -> N] :
          /\ f[0] = 0
          /\ \A k \in 1 .. n : f[k] = f[k - 1] + a[k]
          /\ Total(a) = f[n]
  BY <1>1, NumbersTotal
<1>3. PICK g \in [0 .. n + 1 -> N] :
          /\ g[0] = 0
          /\ \A k \in 1 .. n + 1 : g[k] = g[k - 1] + b[k]
          /\ Total(b) = g[n + 1]
  <2>1. PICK g \in [0 .. Len(b) -> N] :
          /\ g[0] = 0
          /\ \A k \in 1 .. Len(b) : g[k] = g[k - 1] + b[k]
          /\ Total(b) = g[Len(b)]
    BY <1>1, NumbersTotal
  <2> QED BY <1>1, <2>1
<1> DEFINE Good == {k \in Nat : k <= n => f[k] = g[k]}
<1>4. 0 \in Good BY <1>2, <1>3
<1>5. ASSUME NEW k \in Good PROVE k + 1 \in Good
  <2> SUFFICES ASSUME k + 1 <= n PROVE f[k + 1] = g[k + 1] OBVIOUS
  <2>1. k \in Nat /\ k + 1 \in 1 .. n /\ k + 1 \in 1 .. n + 1 /\ (k + 1) - 1 = k /\ f[k] = g[k]
    OBVIOUS
  <2>2. f[k + 1] = f[k] + a[k + 1] BY <1>2, <2>1
  <2>3. g[k + 1] = g[k] + b[k + 1] BY <1>3, <2>1
  <2> QED BY <1>1, <2>1, <2>2, <2>3
<1> HIDE DEF Good
<1>6. Good = Nat
  <2>1. Good \in SUBSET Nat BY DEF Good
  <2> QED BY <1>4, <1>5, <2>1, NatSet
<1>7. f[n] = g[n] BY <1>6 DEF Good
<1>8. g[n + 1] = g[n] + b[n + 1] /\ f[n] \in N
  <2>1. n + 1 \in 1 .. n + 1 /\ (n + 1) - 1 = n /\ n \in 0 .. n OBVIOUS
  <2> QED BY <1>2, <1>3, <2>1
<1>9. SumTo(numbers, n) = Total(a) /\ SumTo(numbers, n + 1) = Total(b) BY DEF SumTo, a, b
<1> QED BY <1>1, <1>2, <1>3, <1>7, <1>8, <1>9

LEMMA SumSteps ==
    ASSUME NEW numbers, NEW n \in Nat, \A k \in 1 .. n + 1 : numbers[k] \in Nat
    PROVE  /\ SumTo(numbers, n) \in Nat
           /\ SumTo(numbers, n + 1) = SumTo(numbers, n) + numbers[n + 1]
BY NumbersSum

\* The sum of nothing.
LEMMA SumOfNone == ASSUME NEW numbers PROVE SumTo(numbers, 0) = 0
<1> DEFINE a == [k \in 1 .. 0 |-> numbers[k]]
<1>1. a \in Seq(Nat) /\ Len(a) = 0 OBVIOUS
<1> HIDE DEF a
<1>2. Total(a) = 0 BY <1>1, TotalSteps
<1> QED BY <1>2 DEF SumTo, a

\* A sum of integers is one of beginnings.
LEMMA TotalIsSum ==
    ASSUME NEW numbers \in Seq(Int)
    PROVE  /\ Total(numbers) \in Int
           /\ Total(numbers) = SumTo(numbers, Len(numbers))
           /\ SumTo(numbers, 0) = 0
           /\ \A n \in 0 .. Len(numbers) - 1 :
                 /\ SumTo(numbers, n) \in Int
                 /\ SumTo(numbers, n + 1) = SumTo(numbers, n) + numbers[n + 1]
<1>1. Total(numbers) \in Int
  <2>1. PICK f \in [0 .. Len(numbers) -> Int] : Total(numbers) = f[Len(numbers)]
    BY NumbersTotal
  <2>2. Len(numbers) \in 0 .. Len(numbers) OBVIOUS
  <2> QED BY <2>1, <2>2
<1>2. numbers = [k \in 1 .. Len(numbers) |-> numbers[k]] OBVIOUS
<1>3. Total(numbers) = SumTo(numbers, Len(numbers)) BY <1>2, Zenon DEF SumTo
<1>4. SumTo(numbers, 0) = 0 BY SumOfNone
<1>5. ASSUME NEW n \in 0 .. Len(numbers) - 1
      PROVE  /\ SumTo(numbers, n) \in Int
             /\ SumTo(numbers, n + 1) = SumTo(numbers, n) + numbers[n + 1]
  <2>1. n \in Nat /\ \A k \in 1 .. n + 1 : numbers[k] \in Int OBVIOUS
  <2> QED BY <2>1, NumbersSum
<1> QED BY <1>1, <1>3, <1>4, <1>5

\* A sum over two sequences, one behind the other.
LEMMA TotalOfJoined ==
    ASSUME NEW s \in Seq(Int), NEW t \in Seq(Int), NEW u \in Seq(Int),
           Len(u) = Len(s) + Len(t),
           \A k \in 1 .. Len(s) : u[k] = s[k],
           \A k \in 1 .. Len(t) : u[Len(s) + k] = t[k]
    PROVE  Total(u) = Total(s) + Total(t)
<1> DEFINE m == Len(s)
           Good == {k \in Nat : k <= Len(t) => SumTo(u, m + k) = Total(s) + SumTo(t, k)}
<1>1. m \in Nat /\ Len(t) \in Nat /\ Total(s) \in Int BY TotalIsSum
<1>2. 0 \in Good
  <2>1. s = [k \in 1 .. m |-> u[k]] OBVIOUS
  <2>2. SumTo(u, m) = Total(s) BY <2>1, Zenon DEF SumTo
  <2>3. SumTo(t, 0) = 0 BY SumOfNone
  <2> QED BY <1>1, <2>2, <2>3
<1>3. ASSUME NEW k \in Good PROVE k + 1 \in Good
  <2> SUFFICES ASSUME k + 1 <= Len(t) PROVE SumTo(u, m + k + 1) = Total(s) + SumTo(t, k + 1)
    OBVIOUS
  <2>1. k \in 0 .. Len(t) - 1 /\ m + k \in 0 .. Len(u) - 1 /\ k + 1 \in 1 .. Len(t) BY <1>1
  <2>2. SumTo(t, k) \in Int /\ SumTo(t, k + 1) = SumTo(t, k) + t[k + 1] BY <2>1, TotalIsSum
  <2>3. SumTo(u, m + k) \in Int /\ SumTo(u, (m + k) + 1) = SumTo(u, m + k) + u[(m + k) + 1]
    BY <2>1, TotalIsSum
  <2>4. u[m + (k + 1)] = t[k + 1] /\ t[k + 1] \in Int BY <2>1
  <2>5. m + (k + 1) = (m + k) + 1 BY <1>1, <2>1
  <2>6. SumTo(u, m + k) = Total(s) + SumTo(t, k) BY <2>1
  <2>7. SumTo(u, m + (k + 1)) = SumTo(u, m + k) + t[k + 1] BY <2>3, <2>4, <2>5
  <2> QED BY <1>1, <2>1, <2>2, <2>4, <2>5, <2>6, <2>7
<1> HIDE DEF Good
<1>4. Good = Nat
  <2>1. Good \in SUBSET Nat BY DEF Good
  <2> QED BY <1>2, <1>3, <2>1, NatSet
<1>5. SumTo(u, m + Len(t)) = Total(s) + SumTo(t, Len(t))
  <2>1. Len(t) \in Good BY <1>1, <1>4
  <2> HIDE DEF m
  <2> QED BY <1>1, <2>1 DEF Good
<1>6. Total(u) = SumTo(u, m + Len(t)) /\ Total(t) = SumTo(t, Len(t)) BY TotalIsSum
<1> QED BY <1>5, <1>6

\* A sum of which one number changes.
LEMMA TotalOfChanged ==
    ASSUME NEW s \in Seq(Int), NEW t \in Seq(Int), Len(t) = Len(s), NEW i \in DOMAIN s,
           \A k \in DOMAIN s : k # i => t[k] = s[k]
    PROVE  Total(t) = Total(s) + t[i] - s[i]
<1> DEFINE n == Len(s)
           d(k) == IF k < i THEN 0 ELSE t[i] - s[i]
           Good == {k \in Nat : k <= n => SumTo(t, k) = SumTo(s, k) + d(k)}
<1>1. n \in Nat /\ i \in 1 .. n /\ t[i] \in Int /\ s[i] \in Int OBVIOUS
<1>2. 0 \in Good
  <2>1. SumTo(s, 0) = 0 /\ SumTo(t, 0) = 0 BY SumOfNone
  <2> QED BY <1>1, <2>1
<1>3. ASSUME NEW k \in Good PROVE k + 1 \in Good
  <2> SUFFICES ASSUME k + 1 <= n PROVE SumTo(t, k + 1) = SumTo(s, k + 1) + d(k + 1)
    OBVIOUS
  <2>1. k \in 0 .. n - 1 /\ k + 1 \in 1 .. n BY <1>1
  <2>2. SumTo(t, k) \in Int /\ SumTo(t, k + 1) = SumTo(t, k) + t[k + 1] BY <2>1, TotalIsSum
  <2>3. SumTo(s, k) \in Int /\ SumTo(s, k + 1) = SumTo(s, k) + s[k + 1] BY <2>1, TotalIsSum
  <2>4. SumTo(t, k) = SumTo(s, k) + d(k) BY <2>1
  <2>5. s[k + 1] \in Int /\ t[k + 1] \in Int BY <2>1
  <2>6. CASE k + 1 = i
    <3>1. d(k) = 0 /\ d(k + 1) = t[k + 1] - s[k + 1] BY <1>1, <2>1, <2>6
    <3> QED BY <2>2, <2>3, <2>4, <2>5, <3>1
  <2>7. CASE k + 1 # i
    <3>1. d(k + 1) = d(k) /\ d(k) \in Int BY <1>1, <2>1, <2>7
    <3>2. t[k + 1] = s[k + 1] BY <2>1, <2>7
    <3> HIDE DEF d
    <3> QED BY <2>2, <2>3, <2>4, <2>5, <3>1, <3>2
  <2> QED BY <2>6, <2>7
<1> HIDE DEF Good
<1>4. Good = Nat
  <2>1. Good \in SUBSET Nat BY DEF Good
  <2> QED BY <1>2, <1>3, <2>1, NatSet
<1>5. SumTo(t, n) = SumTo(s, n) + (t[i] - s[i])
  <2>1. d(n) = t[i] - s[i] BY <1>1
  <2> QED BY <1>1, <1>4, <2>1 DEF Good
<1>6. Total(t) = SumTo(t, n) /\ Total(s) = SumTo(s, n) /\ Total(s) \in Int BY TotalIsSum
<1> QED BY <1>1, <1>5, <1>6

\* Sums of natural numbers only grow.
LEMMA SumGrows ==
    ASSUME NEW numbers, NEW m \in Nat, NEW n \in Nat, n <= m,
           \A k \in 1 .. m : numbers[k] \in Nat
    PROVE  /\ SumTo(numbers, n) \in Nat /\ SumTo(numbers, m) \in Nat
           /\ SumTo(numbers, n) <= SumTo(numbers, m)
<1> DEFINE Good == {j \in Nat : n + j <= m =>
                      /\ SumTo(numbers, n + j) \in Nat
                      /\ SumTo(numbers, n) <= SumTo(numbers, n + j)}
<1>1. SumTo(numbers, n) \in Nat
  <2>1. CASE n = 0 BY <2>1, SumOfNone
  <2>2. CASE n # 0
    <3>1. n - 1 \in Nat /\ (n - 1) + 1 = n BY <2>2
    <3>2. \A k \in 1 .. (n - 1) + 1 : numbers[k] \in Nat BY <3>1
    <3>3. /\ SumTo(numbers, n - 1) \in Nat
          /\ SumTo(numbers, (n - 1) + 1) = SumTo(numbers, n - 1) + numbers[(n - 1) + 1]
      BY <3>1, <3>2, SumSteps
    <3>4. numbers[n] \in Nat BY <2>2
    <3> QED BY <3>1, <3>3, <3>4
  <2> QED BY <2>1, <2>2
<1>2. 0 \in Good BY <1>1
<1>3. ASSUME NEW j \in Good PROVE j + 1 \in Good
  <2> SUFFICES ASSUME n + (j + 1) <= m
               PROVE  /\ SumTo(numbers, n + (j + 1)) \in Nat
                      /\ SumTo(numbers, n) <= SumTo(numbers, n + (j + 1))
    OBVIOUS
  <2>1. /\ j \in Nat /\ n + j \in Nat /\ n + (j + 1) = (n + j) + 1
        /\ SumTo(numbers, n + j) \in Nat
        /\ SumTo(numbers, n) <= SumTo(numbers, n + j)
    OBVIOUS
  <2>2. \A k \in 1 .. (n + j) + 1 : numbers[k] \in Nat BY <2>1
  <2>3. SumTo(numbers, (n + j) + 1) = SumTo(numbers, n + j) + numbers[(n + j) + 1]
    BY <2>1, <2>2, SumSteps
  <2>4. numbers[(n + j) + 1] \in Nat BY <2>1, <2>2
  <2> QED BY <1>1, <2>1, <2>3, <2>4
<1> HIDE DEF Good
<1>4. Good = Nat
  <2>1. Good \in SUBSET Nat BY DEF Good
  <2> QED BY <1>2, <1>3, <2>1, NatSet
<1>5. m - n \in Good /\ n + (m - n) = m BY <1>4
<1> QED BY <1>1, <1>5 DEF Good

\* No number is more than the sum.
LEMMA TotalAtLeast ==
    ASSUME NEW numbers \in Seq(Nat)
    PROVE  /\ Total(numbers) \in Nat
           /\ \A k \in DOMAIN numbers : numbers[k] <= Total(numbers)
<1> DEFINE n == Len(numbers)
<1>1. /\ n \in Nat /\ DOMAIN numbers = 1 .. n
      /\ numbers = [k \in 1 .. n |-> numbers[k]]
      /\ \A k \in 1 .. n : numbers[k] \in Nat
  OBVIOUS
<1> HIDE DEF n
<1>2. Total(numbers) = SumTo(numbers, n)
  BY <1>1, Zenon DEF SumTo
<1>3. SumTo(numbers, n) \in Nat
  <2>1. n <= n
    BY <1>1
  <2> QED
    BY <1>1, <2>1, SumGrows, Zenon
<1>4. ASSUME NEW k \in 1 .. n
      PROVE  numbers[k] <= SumTo(numbers, n)
  <2>1. /\ k - 1 \in Nat /\ (k - 1) + 1 = k /\ k \in Nat /\ k <= n
        /\ \A j \in 1 .. (k - 1) + 1 : numbers[j] \in Nat
    BY <1>1
  <2>2. /\ SumTo(numbers, k - 1) \in Nat
        /\ SumTo(numbers, (k - 1) + 1) = SumTo(numbers, k - 1) + numbers[(k - 1) + 1]
    BY <2>1, SumSteps, Zenon
  <2>3. SumTo(numbers, k) <= SumTo(numbers, n)
    BY <1>1, <2>1, SumGrows, Zenon
  <2>4. SumTo(numbers, k) = SumTo(numbers, k - 1) + numbers[k]
    BY <2>1, <2>2
  <2>5. numbers[k] \in Nat
    BY <1>1
  <2> QED
    BY <1>3, <2>2, <2>3, <2>4, <2>5
<1> QED
  BY <1>1, <1>2, <1>3, <1>4

\* A selection has the selected cells and no others.
LEMMA SelectedHas ==
    ASSUME NEW T, NEW cells \in Seq(T), NEW S \in SUBSET DOMAIN cells
    PROVE  /\ \A j \in DOMAIN Selected(cells, S) :
                 \E k \in S : Selected(cells, S)[j] = cells[k]
           /\ \A k \in S : \E j \in DOMAIN Selected(cells, S) :
                 Selected(cells, S)[j] = cells[k]
<1> DEFINE n == Len(cells)
           Upto(m) == S \cap (1 .. m)
           Has(s, m) == /\ \A j \in DOMAIN s : \E k \in Upto(m) : s[j] = cells[k]
                        /\ \A k \in Upto(m) : \E j \in DOMAIN s : s[j] = cells[k]
<1>1. n \in Nat /\ DOMAIN cells = 1 .. n
  OBVIOUS
<1>2. PICK f \in [0 .. n -> Seq(T)] :
              /\ f[0] = <<>>
              /\ \A k \in 1 .. n :
                    f[k] = IF k \in S THEN Append(f[k - 1], cells[k]) ELSE f[k - 1]
              /\ Selected(cells, S) = f[n]
  BY SelectedSteps
<1> DEFINE Good == {m \in Nat : m <= n => Has(f[m], m)}
<1>3. 0 \in Good
  <2>1. Upto(0) = {} /\ DOMAIN f[0] = {}
    BY <1>2
  <2> QED
    BY <2>1
<1>4. ASSUME NEW m \in Good PROVE m + 1 \in Good
  <2> SUFFICES ASSUME m + 1 <= n PROVE Has(f[m + 1], m + 1)
    OBVIOUS
  <2>1. /\ m \in Nat /\ m + 1 \in 1 .. n /\ (m + 1) - 1 = m /\ m \in 0 .. n
        /\ Has(f[m], m)
    BY <1>1
  <2>2. f[m + 1] = IF m + 1 \in S THEN Append(f[m], cells[m + 1]) ELSE f[m]
    BY <1>2, <2>1
  <2>3. f[m] \in Seq(T) /\ cells[m + 1] \in T
    BY <1>1, <2>1
  <2>4. CASE m + 1 \in S
    <3> DEFINE l == Len(f[m])
    <3>1. Upto(m + 1) = Upto(m) \union {m + 1}
      BY <2>1, <2>4
    <3>2. /\ DOMAIN f[m] = 1 .. l /\ l \in Nat
          /\ DOMAIN f[m + 1] = 1 .. l + 1
          /\ \A j \in 1 .. l : f[m + 1][j] = f[m][j]
          /\ f[m + 1][l + 1] = cells[m + 1]
      BY <2>2, <2>3, <2>4
    <3>3. \A j \in 1 .. l + 1 : j \in 1 .. l \/ j = l + 1
      BY <3>2
    <3>4. 1 .. l \subseteq 1 .. l + 1 /\ l + 1 \in 1 .. l + 1
      BY <3>2
    <3> HIDE DEF l, Upto
    <3>5. ASSUME NEW j \in DOMAIN f[m + 1]
          PROVE  \E k \in Upto(m + 1) : f[m + 1][j] = cells[k]
      <4>1. CASE j \in 1 .. l
        <5>1. PICK k \in Upto(m) : f[m][j] = cells[k]
          BY <2>1, <3>2, <4>1
        <5>2. f[m + 1][j] = f[m][j]
          BY <3>2, <4>1
        <5> QED
          BY <3>1, <5>1, <5>2
      <4>2. CASE j = l + 1
        BY <3>1, <3>2, <4>2
      <4> QED
        BY <3>2, <3>3, <4>1, <4>2
    <3>6. ASSUME NEW k \in Upto(m + 1)
          PROVE  \E j \in DOMAIN f[m + 1] : f[m + 1][j] = cells[k]
      <4>1. CASE k \in Upto(m)
        <5>1. PICK j \in 1 .. l : f[m][j] = cells[k]
          BY <2>1, <3>2, <4>1
        <5> QED
          BY <3>2, <3>4, <5>1
      <4>2. CASE k = m + 1
        BY <3>2, <3>4, <4>2
      <4> QED
        BY <3>1, <4>1, <4>2
    <3> QED
      BY <3>5, <3>6
  <2>5. CASE m + 1 \notin S
    <3>1. Upto(m + 1) = Upto(m)
      BY <2>1, <2>5
    <3> QED
      BY <2>1, <2>2, <2>5, <3>1
  <2> QED
    BY <2>4, <2>5
<1> HIDE DEF Good
<1>5. Good = Nat
  <2>1. Good \in SUBSET Nat
    BY DEF Good
  <2> QED
    BY <1>3, <1>4, <2>1, NatSet
<1>6. Has(f[n], n)
  <2>1. n \in Good
    BY <1>1, <1>5
  <2> HIDE DEF n, Has
  <2> QED
    BY <1>1, <2>1 DEF Good
<1>7. Upto(n) = S
  BY <1>1
<1> QED
  BY <1>2, <1>6, <1>7

-----------------------------------------------------------------------------
\* The numbers that are summed over a set.
Weights(C) == [C -> Nat]

\* Sums over finite sets: the units that are counted.
Units(f) == UNION {{x} \X (1 .. f[x]) : x \in DOMAIN f}

\* What the units of a function are.
LEMMA UnitsAre ==
    ASSUME NEW f, NEW u
    PROVE  u \in Units(f) <=> \E x \in DOMAIN f : \E i \in 1 .. f[x] : u = <<x, i>>
BY DEF Units

\* The units over a finite set can be counted.
LEMMA UnitsFinite ==
    ASSUME NEW C, IsFiniteSet(C), NEW f \in Weights(C)
    PROVE  /\ IsFiniteSet(Units(f))
           /\ TotalOver(f) = Cardinality(Units(f)) /\ TotalOver(f) \in Nat
<1> USE DEF Weights
<1> DEFINE part == [x \in C |-> {x} \X (1 .. f[x])]
           S == {part[x] : x \in C}
<1>1. IsFiniteSet(S)
  <2>1. part \in Surjection(C, S)
    BY DEF Surjection
  <2> HIDE DEF part, S
  <2> QED
    BY <2>1, FS_Surjection, Zenon
<1>2. ASSUME NEW T \in S PROVE IsFiniteSet(T)
  <2>1. PICK x \in C : T = {x} \X (1 .. f[x])
    OBVIOUS
  <2>2. \A n \in Nat : IsFiniteSet(1 .. n)
    BY FS_Interval
  <2>3. IsFiniteSet(1 .. f[x]) /\ IsFiniteSet({x})
    BY <2>2, FS_Singleton
  <2> QED
    BY <2>1, <2>3, FS_Product, Zenon
<1>3. Units(f) = UNION S
  BY DEF Units
<1> HIDE DEF S
<1>4. IsFiniteSet(Units(f))
  BY <1>1, <1>2, <1>3, FS_UNION, Zenon
<1>5. TotalOver(f) = Cardinality(Units(f))
  BY Zenon DEF TotalOver, Units
<1> QED
  BY <1>4, <1>5, FS_CardinalityType, Zenon

\* Sums of sums.
LEMMA SumAdds ==
    ASSUME NEW C, IsFiniteSet(C), NEW f \in Weights(C), NEW g \in Weights(C),
           NEW h \in Weights(C), \A x \in C : h[x] = f[x] + g[x]
    PROVE  TotalOver(h) = TotalOver(f) + TotalOver(g)
<1> USE DEF Weights
<1> DEFINE shifted == [u \in Units(g) |-> <<u[1], f[u[1]] + u[2]>>]
           G == {shifted[u] : u \in Units(g)}
<1>1. /\ IsFiniteSet(Units(f)) /\ TotalOver(f) = Cardinality(Units(f)) /\ TotalOver(f) \in Nat
      /\ IsFiniteSet(Units(g)) /\ TotalOver(g) = Cardinality(Units(g)) /\ TotalOver(g) \in Nat
      /\ TotalOver(h) = Cardinality(Units(h))
  BY UnitsFinite, Zenon
<1>2. \A u \in Units(g) : u = <<u[1], u[2]>> /\ u[1] \in C /\ u[2] \in 1 .. g[u[1]]
  BY UnitsAre
<1>3. shifted \in Bijection(Units(g), G)
  <2>1. shifted \in [Units(g) -> G] /\ \A v \in G : \E u \in Units(g) : shifted[u] = v
    OBVIOUS
  <2>2. ASSUME NEW u \in Units(g), NEW v \in Units(g), shifted[u] = shifted[v]
        PROVE  u = v
    <3>1. u[1] = v[1] /\ f[u[1]] + u[2] = f[v[1]] + v[2]
      BY <2>2
    <3>2. /\ f[u[1]] \in Nat /\ u[2] \in Int /\ v[2] \in Int
      <4>1. u[1] \in C /\ u[2] \in 1 .. g[u[1]] /\ v[1] \in C /\ v[2] \in 1 .. g[v[1]]
        BY <1>2, Zenon
      <4>2. f[u[1]] \in Nat /\ g[u[1]] \in Nat /\ g[v[1]] \in Nat
        BY <4>1
      <4> QED
        BY <4>1, <4>2
    <3>3. u[2] = v[2]
      <4>1. \A a \in Nat : \A b, c \in Int : a + b = a + c => b = c
        OBVIOUS
      <4>2. f[u[1]] + u[2] = f[u[1]] + v[2]
        BY <3>1, Zenon
      <4> QED
        BY <3>2, <4>1, <4>2, Zenon
    <3> QED
      BY <1>2, <3>1, <3>3
  <2> QED
    BY <2>1, <2>2 DEF Bijection, Injection, Surjection, IsInjective
<1>4. IsFiniteSet(G) /\ Cardinality(G) = Cardinality(Units(g))
  <2>1. ExistsBijection(Units(g), G)
    BY <1>3 DEF ExistsBijection
  <2> HIDE DEF G
  <2> QED
    BY <1>1, <2>1, FS_Bijection, Zenon
<1>5. \A v \in G : v[1] \in C /\ v = <<v[1], v[2]>> /\ v[2] \in Int
                  /\ v[2] > f[v[1]] /\ v[2] <= f[v[1]] + g[v[1]]
  <2> SUFFICES ASSUME NEW u \in Units(g)
               PROVE  LET v == shifted[u]
                      IN  /\ v[1] \in C /\ v = <<v[1], v[2]>> /\ v[2] \in Int
                          /\ v[2] > f[v[1]] /\ v[2] <= f[v[1]] + g[v[1]]
    OBVIOUS
  <2>1. /\ u[1] \in C /\ u[2] \in 1 .. g[u[1]] /\ f[u[1]] \in Nat /\ g[u[1]] \in Nat
    BY <1>2
  <2>2. shifted[u] = <<u[1], f[u[1]] + u[2]>>
    OBVIOUS
  <2> HIDE DEF shifted
  <2> QED
    BY <2>1, <2>2
<1>6. Units(f) \cap G = {}
  <2> SUFFICES ASSUME NEW v \in Units(f), v \in G PROVE FALSE
    OBVIOUS
  <2>0. PICK x \in C : \E i \in 1 .. f[x] : v = <<x, i>>
    BY UnitsAre
  <2>1. PICK i \in 1 .. f[x] : v = <<x, i>>
    BY <2>0
  <2>2. v[1] = x /\ v[2] = i /\ i <= f[x]
    BY <2>1
  <2> HIDE DEF G
  <2> QED
    BY <1>5, <2>2
<1>7. Units(h) = Units(f) \cup G
  <2>1. ASSUME NEW v \in Units(h) PROVE v \in Units(f) \cup G
    <3>0. PICK x \in C : \E i \in 1 .. h[x] : v = <<x, i>>
      BY UnitsAre
    <3>1. PICK i \in 1 .. h[x] : v = <<x, i>>
      BY <3>0
    <3>2. f[x] \in Nat /\ g[x] \in Nat /\ h[x] = f[x] + g[x] /\ i \in Int
      BY <3>1
    <3>3. CASE i <= f[x]
      <4>1. i \in 1 .. f[x]
        BY <3>1, <3>2, <3>3
      <4> QED
        BY <3>1, <4>1, UnitsAre
    <3>4. CASE i > f[x]
      <4>1. i - f[x] \in 1 .. g[x] /\ f[x] + (i - f[x]) = i
        BY <3>1, <3>2, <3>4
      <4>2. <<x, i - f[x]>> \in Units(g)
        BY <4>1, UnitsAre
      <4>3. shifted[<<x, i - f[x]>>] = v
        BY <3>1, <4>1, <4>2
      <4> QED
        BY <4>2, <4>3
    <3> QED
      BY <3>2, <3>3, <3>4
  <2>2. ASSUME NEW v \in Units(f) PROVE v \in Units(h)
    <3>0. PICK x \in C : \E i \in 1 .. f[x] : v = <<x, i>>
      BY UnitsAre
    <3>1. PICK i \in 1 .. f[x] : v = <<x, i>>
      BY <3>0
    <3>2. f[x] \in Nat /\ g[x] \in Nat /\ h[x] = f[x] + g[x] /\ h[x] \in Nat
      OBVIOUS
    <3>3. i \in 1 .. h[x]
      BY <3>1, <3>2
    <3> QED
      BY <3>1, <3>3, UnitsAre
  <2>3. ASSUME NEW v \in G PROVE v \in Units(h)
    <3>1. /\ v[1] \in C /\ v = <<v[1], v[2]>> /\ v[2] \in Int
          /\ v[2] > f[v[1]] /\ v[2] <= f[v[1]] + g[v[1]]
      BY <1>5, <2>3
    <3>2. f[v[1]] \in Nat /\ g[v[1]] \in Nat /\ h[v[1]] = f[v[1]] + g[v[1]]
      BY <3>1
    <3>3. v[2] \in 1 .. h[v[1]]
      BY <3>1, <3>2
    <3> QED
      BY <3>1, <3>3, UnitsAre
  <2> HIDE DEF G
  <2> QED
    BY <2>1, <2>2, <2>3
<1> HIDE DEF G
<1>8. Cardinality(Units(f) \cap G) = 0
  BY <1>6, FS_EmptySet
<1>9. Cardinality(Units(h)) = Cardinality(Units(f)) + Cardinality(G) - Cardinality(Units(f) \cap G)
  BY <1>1, <1>4, <1>7, FS_Union, Zenon
<1> QED
  BY <1>1, <1>4, <1>8, <1>9

\* A sum of nothing, and of one number.
LEMMA SumOfZeros ==
    ASSUME NEW C, NEW f \in Weights(C), \A x \in C : f[x] = 0
    PROVE  TotalOver(f) = 0
<1> USE DEF Weights
<1>1. Units(f) = {}
  BY UnitsAre
<1> QED
  BY <1>1, FS_EmptySet, Zenon DEF TotalOver, Units

\* A sum that is zero elsewhere is its one value.
LEMMA SumOfOne ==
    ASSUME NEW C, NEW f \in Weights(C), NEW d \in C, \A x \in C : x # d => f[x] = 0
    PROVE  TotalOver(f) = f[d]
<1> USE DEF Weights
<1>1. Units(f) = {d} \X (1 .. f[d])
  <2>1. ASSUME NEW u \in Units(f) PROVE u \in {d} \X (1 .. f[d])
    BY UnitsAre
  <2>2. ASSUME NEW u \in {d} \X (1 .. f[d]) PROVE u \in Units(f)
    BY UnitsAre
  <2> QED
    BY <2>1, <2>2
<1>2. \A n \in Nat : IsFiniteSet(1 .. n) /\ Cardinality(1 .. n) = n
  BY FS_Interval
<1>3. f[d] \in Nat
  OBVIOUS
<1>4. IsFiniteSet({d}) /\ Cardinality({d}) = 1
  BY FS_Singleton
<1>5. Cardinality({d} \X (1 .. f[d])) = Cardinality({d}) * Cardinality(1 .. f[d])
  BY <1>2, <1>3, <1>4, FS_Product, Zenon
<1>6. TotalOver(f) = Cardinality(Units(f))
  BY Zenon DEF TotalOver, Units
<1> QED
  BY <1>1, <1>2, <1>3, <1>4, <1>5, <1>6

\* What is 0 need not be summed.
LEMMA SumOfPart ==
    ASSUME NEW C, NEW f \in Weights(C), NEW D \in SUBSET C, NEW g \in Weights(D),
           \A x \in D : g[x] = f[x], \A x \in C \ D : f[x] = 0
    PROVE  TotalOver(f) = TotalOver(g)
<1> USE DEF Weights
<1>1. Units(f) = Units(g)
  BY UnitsAre
<1> QED
  BY <1>1, Zenon DEF TotalOver, Units

\* Smaller numbers have a smaller sum.
LEMMA SumIsMonotone ==
    ASSUME NEW C, IsFiniteSet(C), NEW f \in Weights(C), NEW g \in Weights(C),
           \A x \in C : f[x] <= g[x]
    PROVE  TotalOver(f) <= TotalOver(g)
<1> USE DEF Weights
<1>1. Units(f) \in SUBSET Units(g)
  <2> SUFFICES ASSUME NEW u \in Units(f) PROVE u \in Units(g)
    OBVIOUS
  <2>0. PICK x \in C : \E i \in 1 .. f[x] : u = <<x, i>>
    BY UnitsAre
  <2>1. PICK i \in 1 .. f[x] : u = <<x, i>>
    BY <2>0
  <2>2. i \in 1 .. g[x]
    <3>1. f[x] \in Nat /\ g[x] \in Nat /\ f[x] <= g[x] /\ i \in 1 .. f[x]
      BY <2>1
    <3> QED
      BY <3>1
  <2> QED
    BY <2>1, <2>2, UnitsAre
<1>2. /\ TotalOver(f) = Cardinality(Units(f))
      /\ TotalOver(g) = Cardinality(Units(g)) /\ IsFiniteSet(Units(g))
  BY UnitsFinite, Zenon
<1> QED
  BY <1>1, <1>2, FS_Subset, Zenon

\* A sum is at least each of its parts.
LEMMA SumOfElement ==
    ASSUME NEW C, IsFiniteSet(C), NEW f \in Weights(C), NEW d \in C
    PROVE  f[d] <= TotalOver(f)
<1> DEFINE one == [x \in C |-> IF x = d THEN f[d] ELSE 0]
<1>1. /\ one \in Weights(C) /\ one[d] = f[d]
      /\ \A x \in C : x # d => one[x] = 0
      /\ \A x \in C : one[x] <= f[x]
  BY DEF Weights
<1> HIDE DEF one
<1>2. TotalOver(one) = f[d]
  BY <1>1, SumOfOne
<1>3. TotalOver(one) <= TotalOver(f)
  BY <1>1, SumIsMonotone
<1> QED
  BY <1>2, <1>3

\* One number more, or a number that is more.
LEMMA SumOfMore ==
    ASSUME NEW C, IsFiniteSet(C), NEW d, d \notin C, NEW D, D = C \cup {d},
           NEW f \in Weights(D), NEW g \in Weights(C), \A x \in C : g[x] = f[x]
    PROVE  TotalOver(f) = TotalOver(g) + f[d]
<1> USE DEF Weights
<1> DEFINE rest == [x \in D |-> IF x = d THEN 0 ELSE f[x]]
           one == [x \in D |-> IF x = d THEN f[d] ELSE 0]
<1>1. IsFiniteSet(D)
  BY FS_AddElement, Zenon
<1>2. /\ f \in [D -> Nat] /\ rest \in [D -> Nat] /\ one \in [D -> Nat]
      /\ C \in SUBSET D /\ d \in D /\ one[d] = f[d]
      /\ \A x \in C : g[x] = rest[x]
      /\ \A x \in D \ C : rest[x] = 0
      /\ \A x \in D : x # d => one[x] = 0
      /\ \A x \in D : f[x] = rest[x] + one[x]
  OBVIOUS
<1> HIDE DEF rest, one
<1>3. TotalOver(f) = TotalOver(rest) + TotalOver(one)
  BY <1>1, <1>2, SumAdds
<1>4. TotalOver(rest) = TotalOver(g)
  BY <1>2, SumOfPart
<1>5. TotalOver(one) = f[d]
  BY <1>2, SumOfOne
<1> QED
  BY <1>3, <1>4, <1>5

\* One value raised raises the sum by as much.
LEMMA SumOfRaised ==
    ASSUME NEW C, IsFiniteSet(C), NEW d \in C, NEW f \in Weights(C), NEW g \in Weights(C),
           NEW n \in Nat, g[d] = f[d] + n, \A x \in C : x # d => g[x] = f[x]
    PROVE  TotalOver(g) = TotalOver(f) + n
<1> USE DEF Weights
<1> DEFINE one == [x \in C |-> IF x = d THEN n ELSE 0]
<1>1. /\ one \in [C -> Nat] /\ one[d] = n
      /\ \A x \in C : x # d => one[x] = 0
      /\ \A x \in C : g[x] = f[x] + one[x]
  OBVIOUS
<1> HIDE DEF one
<1>2. TotalOver(g) = TotalOver(f) + TotalOver(one)
  BY <1>1, SumAdds
<1>3. TotalOver(one) = one[d]
  BY <1>1, SumOfOne
<1> QED
  BY <1>1, <1>2, <1>3

\* How often a sequence, or a function on positions, has a cell.
CountIn(cells, c) == Cardinality({k \in DOMAIN cells : cells[k] = c})

\* What is placed at each of the positions S up to n is in C.
Placed(at, S, n, C) == n \in Nat /\ S \in SUBSET (1 .. n) /\ at \in [S -> C]

\* Cells counted one by one are cells counted by their kind.
LEMMA SumByKind ==
    ASSUME NEW n, NEW S, NEW at, NEW C, Placed(at, S, n, C), IsFiniteSet(C),
           NEW v \in Weights(C),
           NEW g \in Weights(S), \A k \in S : g[k] = v[at[k]],
           NEW h \in Weights(C),
           \A c \in C : h[c] = CountIn(at, c) * v[c]
    PROVE  TotalOver(g) = TotalOver(h)
<1> USE DEF Weights, Placed
<1> DEFINE Upto(m) == S \cap (1 .. m)
           Kind(m, c) == {k \in Upto(m) : at[k] = c}
           F(m) == [k \in Upto(m) |-> v[at[k]]]
           G(m) == [c \in C |-> Cardinality(Kind(m, c)) * v[c]]
           Good == {m \in Nat : TotalOver(F(m)) = TotalOver(G(m))}
<1>1. ASSUME NEW m \in Nat
      PROVE  /\ IsFiniteSet(Upto(m)) /\ F(m) \in [Upto(m) -> Nat]
             /\ \A c \in C : IsFiniteSet(Kind(m, c)) /\ Cardinality(Kind(m, c)) \in Nat
             /\ G(m) \in [C -> Nat]
  <2>1. \A j \in Nat : IsFiniteSet(1 .. j)
    BY FS_Interval
  <2>2. Upto(m) \in SUBSET (1 .. m)
    OBVIOUS
  <2>3. IsFiniteSet(Upto(m))
    BY <2>1, <2>2, FS_Subset, Zenon
  <2>4. ASSUME NEW c \in C PROVE IsFiniteSet(Kind(m, c)) /\ Cardinality(Kind(m, c)) \in Nat
    <3>1. Kind(m, c) \in SUBSET Upto(m)
      OBVIOUS
    <3> HIDE DEF Kind, Upto
    <3> QED
      BY <2>3, <3>1, FS_Subset, FS_CardinalityType, Zenon
  <2>5. \A a, b \in Nat : a * b \in Nat
    OBVIOUS
  <2>6. G(m) \in [C -> Nat]
    <3>1. ASSUME NEW c \in C PROVE Cardinality(Kind(m, c)) * v[c] \in Nat
      BY <2>4, <2>5
    <3> HIDE DEF Kind
    <3> QED
      BY <3>1
  <2> QED
    BY <2>3, <2>4, <2>6
<1>2. 0 \in Good
  <2>1. Upto(0) = {}
    OBVIOUS
  <2>2. \A k \in Upto(0) : F(0)[k] = 0
    BY <2>1
  <2>3. \A c \in C : G(0)[c] = 0
    <3>1. \A c \in C : Kind(0, c) = {}
      BY <2>1
    <3>2. \A c \in C : Cardinality(Kind(0, c)) = 0
      BY <3>1, FS_EmptySet
    <3> HIDE DEF Kind
    <3> QED
      BY <3>2
  <2>4. 0 \in Nat
    OBVIOUS
  <2>5. F(0) \in [Upto(0) -> Nat] /\ G(0) \in [C -> Nat]
    BY <1>1, <2>4
  <2> HIDE DEF Upto, F, G
  <2>6. TotalOver(F(0)) = 0 /\ TotalOver(G(0)) = 0
    BY <2>2, <2>3, <2>5, SumOfZeros, Zenon
  <2> QED
    BY <2>6
<1>3. ASSUME NEW m \in Good PROVE m + 1 \in Good
  <2>1. m \in Nat /\ m + 1 \in Nat /\ TotalOver(F(m)) = TotalOver(G(m))
    OBVIOUS
  <2>2. /\ IsFiniteSet(Upto(m)) /\ F(m) \in [Upto(m) -> Nat] /\ G(m) \in [C -> Nat]
        /\ \A c \in C : IsFiniteSet(Kind(m, c)) /\ Cardinality(Kind(m, c)) \in Nat
        /\ F(m + 1) \in [Upto(m + 1) -> Nat] /\ G(m + 1) \in [C -> Nat]
    <3> HIDE DEF Upto, F, G, Kind
    <3> QED
      BY <1>1, <2>1
  <2>3. CASE m + 1 \in S
    <3> DEFINE d == at[m + 1]
    <3>1. d \in C /\ v[d] \in Nat
      BY <2>3
    <3>2. /\ Upto(m + 1) = Upto(m) \cup {m + 1} /\ m + 1 \notin Upto(m)
      BY <2>1, <2>3
    <3>3. \A k \in Upto(m) : F(m)[k] = F(m + 1)[k]
      BY <3>2
    <3>4. F(m + 1)[m + 1] = v[d]
      BY <3>2
    <3>5. TotalOver(F(m + 1)) = TotalOver(F(m)) + v[d]
      <4> DEFINE E == Upto(m)
                 D == Upto(m + 1)
                 e == m + 1
                 f == F(m + 1)
                 b == F(m)
      <4> HIDE DEF F, Upto, d
      <4>1. /\ IsFiniteSet(E) /\ e \notin E /\ D = E \cup {e} /\ f \in [D -> Nat]
            /\ b \in [E -> Nat] /\ \A k \in E : b[k] = f[k]
        BY <2>2, <3>2, <3>3
      <4>2. f[e] = v[d]
        BY <3>4
      <4>3. TotalOver(F(m + 1)) = TotalOver(f) /\ TotalOver(F(m)) = TotalOver(b)
        OBVIOUS
      <4> HIDE DEF D, E, e, f, b
      <4>4. TotalOver(f) = TotalOver(b) + f[e]
        BY <4>1, SumOfMore
      <4> QED
        BY <4>2, <4>3, <4>4
    <3>6. Kind(m + 1, d) = Kind(m, d) \cup {m + 1} /\ m + 1 \notin Kind(m, d)
      BY <3>2
    <3>7. Cardinality(Kind(m + 1, d)) = Cardinality(Kind(m, d)) + 1
      <4> HIDE DEF Kind, d
      <4> QED
        BY <2>2, <3>1, <3>6, FS_AddElement
    <3>8. \A c \in C : c # d => Kind(m + 1, c) = Kind(m, c)
      BY <3>2
    <3>9. G(m + 1)[d] = G(m)[d] + v[d]
      <4>1. /\ G(m + 1)[d] = Cardinality(Kind(m + 1, d)) * v[d]
            /\ G(m)[d] = Cardinality(Kind(m, d)) * v[d]
        BY <3>1
      <4> DEFINE a == Cardinality(Kind(m, d))
      <4>2. a \in Nat
        BY <2>2, <3>1
      <4> HIDE DEF a, d, G
      <4>3. (a + 1) * v[d] = a * v[d] + v[d]
        BY <3>1, <4>2
      <4> QED
        BY <3>7, <4>1, <4>3 DEF a
    <3>10. \A c \in C : c # d => G(m + 1)[c] = G(m)[c]
      BY <3>8
    <3>11. TotalOver(G(m + 1)) = TotalOver(G(m)) + v[d]
      <4>1. /\ G(m) \in Weights(C) /\ G(m + 1) \in Weights(C)
            /\ d \in C /\ v[d] \in Nat
        BY <2>2, <3>1
      <4> HIDE DEF G, Kind, d, Weights
      <4> QED
        BY <3>9, <3>10, <4>1, SumOfRaised
    <3> HIDE DEF F, G
    <3> QED
      BY <2>1, <3>5, <3>11
  <2>4. CASE m + 1 \notin S
    <3>1. Upto(m + 1) = Upto(m)
      BY <2>1, <2>4
    <3>2. F(m + 1) = F(m) /\ G(m + 1) = G(m)
      BY <3>1
    <3> HIDE DEF F, G
    <3> QED
      BY <2>1, <3>2
  <2> QED
    BY <2>3, <2>4
<1> HIDE DEF Good
<1>4. n \in Good
  <2>1. Good \in SUBSET Nat
    BY DEF Good
  <2>2. Good = Nat
    BY <1>2, <1>3, <2>1, NatSet
  <2> QED
    BY <2>2
<1>5. Upto(n) = S
  OBVIOUS
<1>6. F(n) = g
  BY <1>5
<1>7. G(n) = h
  <2>1. DOMAIN at = S
    OBVIOUS
  <2>2. \A c \in C : h[c] = Cardinality(Kind(n, c)) * v[c]
    BY <1>5, <2>1 DEF CountIn
  <2> HIDE DEF Kind
  <2> QED
    BY <2>2
<1> HIDE DEF F, G
<1> QED
  BY <1>4, <1>6, <1>7 DEF Good

-----------------------------------------------------------------------------
\* The sum of a longer sequence.
LEMMA TotalAppended ==
    ASSUME NEW numbers \in Seq(Nat), NEW longer \in Seq(Nat),
           Len(longer) = Len(numbers) + 1,
           \A k \in DOMAIN numbers : longer[k] = numbers[k]
    PROVE  Total(longer) = Total(numbers) + longer[Len(longer)]
<1> DEFINE n == Len(numbers)
<1>1. /\ n \in Nat /\ DOMAIN numbers = 1 .. n /\ DOMAIN longer = 1 .. n + 1
      /\ numbers = [k \in 1 .. n |-> longer[k]]
      /\ longer = [k \in 1 .. n + 1 |-> longer[k]]
      /\ \A k \in 1 .. n + 1 : longer[k] \in Nat
      /\ Len(longer) = n + 1
  OBVIOUS
<1> HIDE DEF n
<1>2. SumTo(longer, n + 1) = SumTo(longer, n) + longer[n + 1]
  BY <1>1, SumSteps, Zenon
<1>3. Total(numbers) = SumTo(longer, n) /\ Total(longer) = SumTo(longer, n + 1)
  BY <1>1, Zenon DEF SumTo
<1> QED
  BY <1>1, <1>2, <1>3

\* One position more.
LEMMA SumUpto ==
    ASSUME NEW S \in SUBSET Nat, NEW w \in Weights(S), NEW m \in Nat, m + 1 \in S
    PROVE  TotalOver([k \in S \cap (1 .. m + 1) |-> w[k]])
             = TotalOver([k \in S \cap (1 .. m) |-> w[k]]) + w[m + 1]
<1> USE DEF Weights
<1> DEFINE E == S \cap (1 .. m)
           D == S \cap (1 .. m + 1)
           e == m + 1
           a == [k \in S \cap (1 .. m + 1) |-> w[k]]
           b == [k \in S \cap (1 .. m) |-> w[k]]
<1>1. IsFiniteSet(E)
  <2>1. \A j \in Nat : IsFiniteSet(1 .. j)
    BY FS_Interval
  <2>2. E \in SUBSET (1 .. m)
    OBVIOUS
  <2> HIDE DEF E
  <2> QED
    BY <2>1, <2>2, FS_Subset, Zenon
<1>2. /\ e \notin E /\ D = E \cup {e} /\ a \in [D -> Nat]
      /\ b \in [E -> Nat] /\ \A k \in E : b[k] = a[k]
  OBVIOUS
<1>3. a[e] = w[m + 1]
  OBVIOUS
<1>4. TotalOver(a) = TotalOver(b) + a[e]
  <2>1. /\ IsFiniteSet(E) /\ e \notin E /\ D = E \cup {e} /\ a \in [D -> Nat]
        /\ b \in [E -> Nat] /\ \A k \in E : b[k] = a[k]
    BY <1>1, <1>2
  <2> HIDE DEF D, E, e, a, b
  <2> QED
    BY ONLY <2>1, SumOfMore
<1> QED
  BY <1>3, <1>4

\* The sum over a selection is the sum over the positions selected.
LEMMA SelectedTotal ==
    ASSUME NEW T, NEW cells \in Seq(T), NEW S \in SUBSET DOMAIN cells
    PROVE  \A C : \A v \in Weights(C) :
              (\A k \in S : cells[k] \in C)
                => Total([j \in DOMAIN Selected(cells, S) |-> v[Selected(cells, S)[j]]])
                     = TotalOver([k \in S |-> v[cells[k]]])
<1> USE DEF Weights
<1> DEFINE n == Len(cells)
           Upto(m) == S \cap (1 .. m)
<1>1. n \in Nat /\ DOMAIN cells = 1 .. n
  OBVIOUS
<1>2. PICK f \in [0 .. n -> Seq(T)] :
              /\ f[0] = <<>>
              /\ \A k \in 1 .. n :
                    f[k] = IF k \in S THEN Append(f[k - 1], cells[k]) ELSE f[k - 1]
              /\ Selected(cells, S) = f[n]
  BY SelectedSteps
<1> SUFFICES ASSUME NEW C, NEW v \in [C -> Nat], \A k \in S : cells[k] \in C
             PROVE  Total([j \in DOMAIN Selected(cells, S) |-> v[Selected(cells, S)[j]]])
                      = TotalOver([k \in S |-> v[cells[k]]])
  OBVIOUS
<1> DEFINE N(m) == [j \in DOMAIN f[m] |-> v[f[m][j]]]
           F(m) == [k \in Upto(m) |-> v[cells[k]]]
           Good == {m \in Nat : m <= n => /\ \A j \in DOMAIN f[m] : f[m][j] \in C
                                          /\ Total(N(m)) = TotalOver(F(m))}
<1>3. ASSUME NEW m \in Nat
      PROVE  IsFiniteSet(Upto(m)) /\ F(m) \in [Upto(m) -> Nat]
  <2>1. \A j \in Nat : IsFiniteSet(1 .. j)
    BY FS_Interval
  <2>2. Upto(m) \in SUBSET (1 .. m)
    OBVIOUS
  <2>3. IsFiniteSet(Upto(m))
    BY <2>1, <2>2, FS_Subset, Zenon
  <2>4. \A k \in S : v[cells[k]] \in Nat
    OBVIOUS
  <2> QED
    BY <2>3, <2>4
<1>4. 0 \in Good
  <2>1. Upto(0) = {} /\ DOMAIN f[0] = {} /\ 0 \in Nat
    BY <1>2
  <2>2. \A k \in Upto(0) : F(0)[k] = 0
    BY <2>1
  <2>3. F(0) \in [Upto(0) -> Nat]
    BY <1>3, <2>1
  <2>4. TotalOver(F(0)) = 0
    <3> HIDE DEF F, Upto
    <3> QED
      BY <2>2, <2>3, SumOfZeros
  <2>5. Total(N(0)) = 0
    <3>1. N(0) \in Seq(Nat) /\ Len(N(0)) = 0
      BY <1>2
    <3> HIDE DEF N
    <3> QED
      BY <3>1, TotalSteps
  <2> QED
    BY <2>1, <2>4, <2>5
<1>5. ASSUME NEW m \in Good PROVE m + 1 \in Good
  <2> SUFFICES ASSUME m + 1 <= n
               PROVE  /\ \A j \in DOMAIN f[m + 1] : f[m + 1][j] \in C
                      /\ Total(N(m + 1)) = TotalOver(F(m + 1))
    OBVIOUS
  <2>1. /\ m \in Nat /\ m + 1 \in Nat /\ m + 1 \in 1 .. n /\ (m + 1) - 1 = m /\ m \in 0 .. n
        /\ \A j \in DOMAIN f[m] : f[m][j] \in C
        /\ Total(N(m)) = TotalOver(F(m))
    BY <1>1
  <2>2. f[m + 1] = IF m + 1 \in S THEN Append(f[m], cells[m + 1]) ELSE f[m]
    BY <1>2, <2>1
  <2>3. f[m] \in Seq(T) /\ cells[m + 1] \in T
    BY <1>1, <2>1
  <2>4. CASE m + 1 \in S
    <3> DEFINE l == Len(f[m])
               x == v[cells[m + 1]]
    <3>1. cells[m + 1] \in C /\ x \in Nat
      BY <2>4
    <3>2. /\ l \in Nat /\ DOMAIN f[m] = 1 .. l
          /\ DOMAIN f[m + 1] = 1 .. l + 1
          /\ \A j \in 1 .. l : f[m + 1][j] = f[m][j]
          /\ f[m + 1][l + 1] = cells[m + 1]
      BY <2>2, <2>3, <2>4
    <3> HIDE DEF l
    <3>3. \A j \in DOMAIN f[m + 1] : f[m + 1][j] \in C
      <4>1. \A j \in 1 .. l + 1 : j \in 1 .. l \/ j = l + 1
        BY <3>2
      <4> QED
        BY <2>1, <3>1, <3>2, <4>1
    <3>4. /\ N(m) \in Seq(Nat) /\ Len(N(m)) = l /\ DOMAIN N(m) = 1 .. l
          /\ N(m + 1) \in Seq(Nat) /\ Len(N(m + 1)) = l + 1
      <4>1. \A j \in 1 .. l : v[f[m][j]] \in Nat
        BY <2>1, <3>2
      <4>2. \A j \in 1 .. l + 1 : v[f[m + 1][j]] \in Nat
        BY <3>2, <3>3
      <4>3. N(m) = [j \in 1 .. l |-> v[f[m][j]]] /\ N(m + 1) = [j \in 1 .. l + 1 |-> v[f[m + 1][j]]]
        BY <3>2
      <4>4. \A k \in Nat : \A h \in [1 .. k -> Nat] : h \in Seq(Nat) /\ Len(h) = k
        OBVIOUS
      <4>5. N(m) \in [1 .. l -> Nat] /\ N(m + 1) \in [1 .. l + 1 -> Nat] /\ l + 1 \in Nat
        BY <3>2, <4>1, <4>2, <4>3
      <4> HIDE DEF N
      <4> QED
        BY <3>2, <4>4, <4>5
    <3>5. /\ \A j \in 1 .. l : N(m + 1)[j] = N(m)[j]
          /\ N(m + 1)[l + 1] = x
      <4>1. \A j \in 1 .. l : j \in 1 .. l + 1
        BY <3>2
      <4>2. l + 1 \in 1 .. l + 1
        BY <3>2
      <4> QED
        BY <3>2, <4>1, <4>2
    <3>6. Total(N(m + 1)) = Total(N(m)) + x
      <4> HIDE DEF N, x
      <4> QED
        BY <3>2, <3>4, <3>5, TotalAppended
    <3>7. TotalOver(F(m + 1)) = TotalOver(F(m)) + x
      <4> DEFINE w == [k \in S |-> v[cells[k]]]
      <4>1. S \in SUBSET Nat /\ w \in [S -> Nat] /\ m \in Nat /\ m + 1 \in S
        BY <2>1, <2>4
      <4>2. /\ F(m + 1) = [k \in S \cap (1 .. m + 1) |-> w[k]]
            /\ F(m) = [k \in S \cap (1 .. m) |-> w[k]]
            /\ w[m + 1] = x
        BY <2>4
      <4> HIDE DEF F, x, w
      <4>3. TotalOver([k \in S \cap (1 .. m + 1) |-> w[k]])
              = TotalOver([k \in S \cap (1 .. m) |-> w[k]]) + w[m + 1]
        BY ONLY <4>1, SumUpto
      <4> QED
        BY <4>2, <4>3
    <3> HIDE DEF N, F
    <3> QED
      BY <2>1, <3>3, <3>6, <3>7
  <2>5. CASE m + 1 \notin S
    <3>1. Upto(m + 1) = Upto(m)
      BY <2>1, <2>5
    <3>2. F(m + 1) = F(m) /\ f[m + 1] = f[m]
      BY <2>2, <2>5, <3>1
    <3>3. N(m + 1) = N(m)
      BY <3>2
    <3> HIDE DEF N, F
    <3> QED
      BY <2>1, <3>2, <3>3
  <2> QED
    BY <2>4, <2>5
<1> HIDE DEF Good
<1>6. n \in Good
  <2>1. Good \in SUBSET Nat
    BY DEF Good
  <2>2. Good = Nat
    BY <1>4, <1>5, <2>1, NatSet
  <2> QED
    BY <1>1, <2>2
<1>7. Upto(n) = S /\ n <= n
  BY <1>1
<1>8. F(n) = [k \in S |-> v[cells[k]]]
  BY <1>7
<1>9. N(n) = [j \in DOMAIN Selected(cells, S) |-> v[Selected(cells, S)[j]]]
  BY <1>2
<1> HIDE DEF F, N, n
<1> QED
  BY <1>6, <1>7, <1>8, <1>9 DEF Good

-----------------------------------------------------------------------------
\* Numbers of which each is matched by one at least as large have a smaller
\* sum, where no two are matched by the same.
LEMMA SumOfMatched ==
    ASSUME NEW S, IsFiniteSet(S), NEW T, IsFiniteSet(T),
           NEW f \in Weights(S), NEW g \in Weights(T), NEW h \in [S -> T],
           \A x, y \in S : h[x] = h[y] => x = y,
           \A x \in S : f[x] <= g[h[x]]
    PROVE  TotalOver(f) <= TotalOver(g)
<1> USE DEF Weights
<1> DEFINE moved == [u \in Units(f) |-> <<h[u[1]], u[2]>>]
<1>1. /\ IsFiniteSet(Units(f)) /\ TotalOver(f) = Cardinality(Units(f))
      /\ IsFiniteSet(Units(g)) /\ TotalOver(g) = Cardinality(Units(g))
  BY UnitsFinite, Zenon
<1>2. ASSUME NEW u \in Units(f)
      PROVE  u = <<u[1], u[2]>> /\ u[1] \in S /\ u[2] \in 1 .. f[u[1]]
  BY UnitsAre
<1>3. ASSUME NEW u \in Units(f) PROVE moved[u] \in Units(g)
  <2> DEFINE x == u[1]
             n == u[2]
  <2>1. x \in S /\ n \in 1 .. f[x] /\ f[x] \in Nat /\ h[x] \in T /\ g[h[x]] \in Nat
        /\ f[x] <= g[h[x]]
    BY <1>2
  <2>2. moved[u] = <<h[x], n>>
    OBVIOUS
  <2> HIDE DEF x, n
  <2>3. n \in 1 .. g[h[x]]
    BY <2>1
  <2> QED
    BY <2>1, <2>2, <2>3, UnitsAre
<1>4. ASSUME NEW u \in Units(f), NEW v \in Units(f), moved[u] = moved[v]
      PROVE  u = v
  <2>1. h[u[1]] = h[v[1]] /\ u[2] = v[2]
    BY <1>4
  <2>2. u[1] = v[1]
    BY <1>2, <2>1
  <2> QED
    BY <1>2, <2>1, <2>2
<1>5. moved \in Injection(Units(f), Units(g))
  <2>1. moved \in [Units(f) -> Units(g)]
    BY <1>3
  <2> HIDE DEF moved
  <2> QED
    BY <1>4, <2>1 DEF Injection, IsInjective
<1>6. Cardinality(Units(f)) <= Cardinality(Units(g))
  BY <1>1, <1>5, FS_Injection, Zenon DEF ExistsInjection
<1> QED
  BY <1>1, <1>6

\* A cell is at one place of one triple.
LEMMA OneTriple ==
    ASSUME NEW a \in Nat, NEW b \in 0 .. 2, NEW c \in Nat, NEW d \in 0 .. 2,
           3 * a + 1 + b = 3 * c + 1 + d
    PROVE  a = c /\ b = d
OBVIOUS

\* Triples have no position in common, so as many of them as there are threes
\* in a group that they are in leave no position of the group over.
LEMMA TriplesFillGroup ==
    ASSUME NEW T, IsFiniteSet(T), NEW F \in SUBSET Nat, IsFiniteSet(F),
           \A f \in F, j \in 0 .. 2 : 3 * f + 1 + j \in T,
           Cardinality(T) % 3 = 0, Cardinality(F) >= Cardinality(T) \div 3
    PROVE  \A k \in T : \E f \in F, j \in 0 .. 2 : k = 3 * f + 1 + j
<1> DEFINE D == F \X (0 .. 2)
           at == [p \in D |-> 3 * p[1] + 1 + p[2]]
           U == {at[p] : p \in D}
<1>1. Cardinality(T) \in Nat /\ Cardinality(F) \in Nat
  BY FS_CardinalityType, Zenon
<1>2. U \subseteq T
  OBVIOUS
<1>3. ASSUME NEW p \in D, NEW q \in D, at[p] = at[q]
      PROVE  p = q
  <2>1. /\ p[1] \in Nat /\ q[1] \in Nat /\ p[2] \in 0 .. 2 /\ q[2] \in 0 .. 2
        /\ p = <<p[1], p[2]>> /\ q = <<q[1], q[2]>>
    <3>1. p = <<p[1], p[2]>> /\ q = <<q[1], q[2]>>
      OBVIOUS
    <3>2. p[1] \in F /\ q[1] \in F /\ p[2] \in 0 .. 2 /\ q[2] \in 0 .. 2
      OBVIOUS
    <3> QED
      BY <3>1, <3>2
  <2>2. 3 * p[1] + 1 + p[2] = 3 * q[1] + 1 + q[2]
    BY <1>3
  <2> HIDE DEF D, at
  <2>3. p[1] = q[1] /\ p[2] = q[2]
    BY <2>1, <2>2, OneTriple
  <2> QED
    BY <2>1, <2>3
<1>4. IsFiniteSet(D) /\ Cardinality(D) = 3 * Cardinality(F)
  <2>1. IsFiniteSet(0 .. 2) /\ Cardinality(0 .. 2) = 3
    <3>1. \A a, b \in Int : /\ IsFiniteSet(a .. b)
                            /\ Cardinality(a .. b) = IF a > b THEN 0 ELSE b - a + 1
      BY FS_Interval
    <3>2. 0 \in Int /\ 2 \in Int
      OBVIOUS
    <3>3. IsFiniteSet(0 .. 2) /\ Cardinality(0 .. 2) = IF 0 > 2 THEN 0 ELSE 2 - 0 + 1
      BY <3>1, <3>2, Zenon
    <3> QED
      BY <3>3
  <2>2. IsFiniteSet(D) /\ Cardinality(D) = Cardinality(F) * 3
    BY <2>1, FS_Product
  <2> HIDE DEF D
  <2> QED
    BY <1>1, <2>2
<1>5. IsFiniteSet(U) /\ Cardinality(U) = Cardinality(D)
  <2>1. at \in Bijection(D, U)
    <3>1. at \in [D -> U] /\ \A u \in U : \E p \in D : at[p] = u
      OBVIOUS
    <3>2. \A p, q \in D : at[p] = at[q] => p = q
      BY <1>3
    <3> HIDE DEF at, U, D
    <3> QED
      BY <3>1, <3>2 DEF Bijection, Injection, Surjection, IsInjective
  <2> HIDE DEF at, U, D
  <2>2. ExistsBijection(D, U)
    BY <2>1 DEF ExistsBijection
  <2> QED
    BY <1>4, <2>2, FS_Bijection
<1>6. U = T
  <2>1. Cardinality(U) <= Cardinality(T) /\ Cardinality(U) \in Nat
    BY <1>2, <1>5, FS_Subset, FS_CardinalityType
  <2>2. Cardinality(U) = Cardinality(T)
    <3> HIDE DEF U
    <3> QED
      BY <1>1, <1>4, <1>5, <2>1
  <2> HIDE DEF U
  <2> QED
    BY <1>2, <2>2, FS_Subset
<1> QED
  BY <1>6

=============================================================================
