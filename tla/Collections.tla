---------------------------- MODULE Collections -----------------------------
(***************************************************************************)
(* Facts about lists and about sums over finite sets, which the models     *)
(* write with MapThenSumSet, that several proofs rest on.  The sum is      *)
(* defined by a recursion that takes out elements in an order nobody knows;*)
(* here it is shown that the recursion has a solution, that the order does *)
(* not matter and that sums split along subsets.                           *)
(***************************************************************************)
EXTENDS Lists, FiniteSetsExt, FiniteSetTheorems, WellFoundedInduction, TLAPS

\* The sum of w[x] for x in S.
SumOver(w, S) == MapThenSumSet(LAMBDA x : w[x], S)

\* The element MapThenSumSet takes out of a set next.
PickOf(s) == CHOOSE x \in s : TRUE

\* f is the recursive function behind SumOver, on the sets of D.
RunningSum(f, w, D) ==
    f = [s \in D |-> IF s = {} THEN 0 ELSE w[PickOf(s)] + f[s \ {PickOf(s)}]]

\* v and w agree on T.
SameOn(v, w, T) == \A x \in T : v[x] = w[x]

SubsetsUpto(S, n) == {s \in SUBSET S : Cardinality(s) <= n}

-----------------------------------------------------------------------------
(* The recursion.                                                          *)

\* A nonempty set of naturals has a least element.
LEMMA LeastNatural ==
    ASSUME NEW N \in SUBSET Nat, N # {}
    PROVE  \E n \in N : \A m \in N : n <= m
<1> DEFINE R == OpToRel(<, Nat)
<1>1. IsWellFoundedOn(R, Nat)
  BY NatLessThanWellFounded
<1>2. \A i, j \in Nat : i < j => <<i, j>> \in R
  BY DEF OpToRel
<1> HIDE DEF R
<1>3. PICK n \in N : \A m \in N : <<m, n>> \notin R
  BY <1>1, WFMin
<1>4. ASSUME NEW m \in N PROVE n <= m
  <2>1. n \in Nat /\ m \in Nat /\ ~(m < n)
    BY <1>2, <1>3
  <2> QED BY <2>1
<1> QED BY <1>4

\* A nonempty set of naturals with an upper bound has a greatest element.
LEMMA GreatestNatural ==
    ASSUME NEW N \in Nat, NEW S \in SUBSET (0..N), S # {}
    PROVE  \E x \in S : \A y \in S : y <= x
<1> DEFINE T == {N - x : x \in S}
<1>0. \A x \in S : x \in Int /\ 0 <= x /\ x <= N
    <2>1. \A x \in S : x \in 0..N
        OBVIOUS
    <2> HIDE DEF T
    <2> QED
      BY <2>1
<1>1. T \in SUBSET Nat /\ T # {}
    <2>1. \A x \in S : N - x \in Nat
      BY <1>0
    <2>2. T \subseteq Nat
      BY <2>1
    <2>3. \E x \in S : N - x \in T
        OBVIOUS
    <2> HIDE DEF T
    <2> QED
      BY <2>2, <2>3
<1>2. PICK d \in T : \A y \in T : d <= y
  BY <1>1, LeastNatural
<1>3. PICK x \in S : d = N - x
  BY <1>2
<1>4. \A y \in S : d <= N - y
  BY <1>2
<1> QED
  BY <1>0, <1>3, <1>4

\* A sum is the value of the recursive function that it is defined by.
LEMMA SumUnfolded ==
    ASSUME NEW w, NEW S
    PROVE  SumOver(w, S) = (CHOOSE f : RunningSum(f, w, SUBSET S))[S]
BY DEF SumOver, RunningSum, PickOf, MapThenSumSet, MapThenFoldSet

\* What is taken out of a set was in it.
LEMMA PickedIn == \A s : s # {} => PickOf(s) \in s
BY DEF PickOf

\* The recursion has a solution below every finite set: a least size of subsets up to
\* which it had none could be reached from the size before.
LEMMA RunningSumExists ==
    ASSUME NEW S, IsFiniteSet(S), NEW w, \A x \in S : w[x] \in Int
    PROVE  \E f \in [SUBSET S -> Int] : RunningSum(f, w, SUBSET S)
<1> DEFINE Bad == {n \in Nat : ~\E f \in [SubsetsUpto(S, n) -> Int] : RunningSum(f, w, SubsetsUpto(S, n))}
<1>0. \A s \in SUBSET S : /\ IsFiniteSet(s) /\ Cardinality(s) \in Nat
                          /\ Cardinality(s) <= Cardinality(S)
                          /\ \A x \in s : Cardinality(s \ {x}) = Cardinality(s) - 1
                          /\ Cardinality(s) = 0 => s = {}
  BY FS_Subset, FS_CardinalityType, FS_RemoveElement, FS_EmptySet
<1>1. Bad = {}
  <2> SUFFICES ASSUME Bad # {} PROVE FALSE
    OBVIOUS
  <2>1. PICK n \in Bad : \A m \in Bad : n <= m
    BY LeastNatural
  <2>2. CASE n = 0
    <3>1. SubsetsUpto(S, 0) \subseteq {{}}
      BY <1>0 DEF SubsetsUpto
    <3> DEFINE f == [s \in SubsetsUpto(S, 0) |-> 0]
    <3>2. f \in [SubsetsUpto(S, 0) -> Int]
      OBVIOUS
    <3>3. RunningSum(f, w, SubsetsUpto(S, 0))
      BY <3>1 DEF RunningSum
    <3> QED BY <2>1, <2>2, <3>2, <3>3
  <2>3. CASE n # 0
    <3>1. n - 1 \in Nat /\ n - 1 \notin Bad
      BY <2>1, <2>3
    <3>2. PICK f \in [SubsetsUpto(S, n - 1) -> Int] : RunningSum(f, w, SubsetsUpto(S, n - 1))
      BY <3>1
    <3> DEFINE g == [s \in SubsetsUpto(S, n) |-> IF s = {} THEN 0 
                        ELSE w[PickOf(s)] + f[s \ {PickOf(s)}]]
    <3>3. \A s \in SubsetsUpto(S, n) : s # {} =>
               /\ PickOf(s) \in S /\ s \ {PickOf(s)} \in SubsetsUpto(S, n - 1)
               /\ s \ {PickOf(s)} \in SubsetsUpto(S, n)
      BY <1>0, <3>1, PickedIn DEF SubsetsUpto
    <3>4. \A s \in SubsetsUpto(S, n - 1) : s \in SubsetsUpto(S, n) /\ g[s] = f[s]
      <4>1. \A s \in SubsetsUpto(S, n - 1) : s \in SubsetsUpto(S, n)
        BY <1>0, <3>1 DEF SubsetsUpto
      <4>2. \A s \in SubsetsUpto(S, n - 1) : f[s] = IF s = {} THEN 0 ELSE w[PickOf(s)] + f[s \ {PickOf(s)}]
        BY <3>2 DEF RunningSum
      <4> QED BY <4>1, <4>2
    <3>5. g \in [SubsetsUpto(S, n) -> Int]
      BY <3>3
    <3>6. RunningSum(g, w, SubsetsUpto(S, n))
      BY <3>3, <3>4 DEF RunningSum
    <3> QED BY <2>1, <3>5, <3>6
  <2> QED BY <2>2, <2>3
<1>2. SubsetsUpto(S, Cardinality(S)) = SUBSET S
  BY <1>0 DEF SubsetsUpto
<1>3. Cardinality(S) \in Nat
  BY <1>0
<1>4. \E f \in [SubsetsUpto(S, Cardinality(S)) -> Int] : RunningSum(f, w, SubsetsUpto(S, Cardinality(S)))
  BY <1>1, <1>3
<1> QED BY <1>2, <1>4

\* Running sums of functions that agree on T have the same value there.
LEMMA RunningSumsAgree ==
    ASSUME NEW S, NEW T \in SUBSET S, IsFiniteSet(T),
           NEW v, NEW w, NEW f, NEW g, SameOn(v, w, T),
           RunningSum(f, v, SUBSET S), RunningSum(g, w, SUBSET T)
    PROVE  f[T] = g[T]
<1> DEFINE Bad == {n \in Nat : \E s \in SUBSET T : Cardinality(s) = n /\ f[s] # g[s]}
<1>0. \A s \in SUBSET T : /\ IsFiniteSet(s) /\ Cardinality(s) \in Nat
                          /\ \A x \in s : Cardinality(s \ {x}) = Cardinality(s) - 1
  BY FS_Subset, FS_CardinalityType, FS_RemoveElement
<1>1. ASSUME Bad # {} PROVE FALSE
  <2>1. PICK n \in Bad : \A m \in Bad : n <= m
    BY <1>1, LeastNatural
  <2>2. PICK s \in SUBSET T : Cardinality(s) = n /\ f[s] # g[s]
    BY <2>1
  <2>3. /\ f[s] = IF s = {} THEN 0 ELSE v[PickOf(s)] + f[s \ {PickOf(s)}]
        /\ g[s] = IF s = {} THEN 0 ELSE w[PickOf(s)] + g[s \ {PickOf(s)}]
    BY DEF RunningSum
  <2>4. s # {} /\ PickOf(s) \in s /\ v[PickOf(s)] = w[PickOf(s)]
    BY <2>2, <2>3, PickedIn DEF SameOn
  <2>5. s \ {PickOf(s)} \in SUBSET T /\ Cardinality(s \ {PickOf(s)}) = n - 1
    BY <1>0, <2>2, <2>4
  <2>6. n - 1 \in Nat /\ n - 1 \notin Bad
    BY <1>0, <2>1, <2>5
  <2>7. f[s \ {PickOf(s)}] = g[s \ {PickOf(s)}]
    BY <2>5, <2>6
  <2> QED BY <2>2, <2>3, <2>4, <2>7
<1> QED BY <1>0, <1>1

\* The running sum of w below S gives the sums of the subsets of S.
LEMMA SumBelow ==
    ASSUME NEW S, IsFiniteSet(S), NEW w, \A x \in S : w[x] \in Int,
           NEW v, NEW f, RunningSum(f, v, SUBSET S), NEW T \in SUBSET S,
           SameOn(v, w, T)
    PROVE  SumOver(w, T) = f[T]
<1>1. IsFiniteSet(T) /\ T \subseteq T /\ \A x \in T : w[x] \in Int
  BY FS_Subset
<1>2. PICK h : RunningSum(h, w, SUBSET T)
  BY <1>1, RunningSumExists
<1>3. ASSUME NEW g, RunningSum(g, w, SUBSET T) PROVE f[T] = g[T]
  BY <1>1, <1>3, RunningSumsAgree
<1>4. RunningSum(CHOOSE g : RunningSum(g, w, SUBSET T), w, SUBSET T)
  BY <1>2
<1> QED BY <1>3, <1>4, SumUnfolded

-----------------------------------------------------------------------------
(* Sums.                                                                   *)

\* The empty sum, the type of a sum, and one step of the recursion.
LEMMA SumPicked ==
    ASSUME NEW S, IsFiniteSet(S), NEW w, \A x \in S : w[x] \in Int
    PROVE  /\ SumOver(w, {}) = 0
           /\ SumOver(w, S) \in Int
           /\ S # {} => SumOver(w, S) = w[PickOf(S)] + SumOver(w, S \ {PickOf(S)})
<1>1. PICK f \in [SUBSET S -> Int] : RunningSum(f, w, SUBSET S)
  BY RunningSumExists
<1>2. \A T \in SUBSET S : SumOver(w, T) = f[T]
  BY <1>1, SumBelow DEF SameOn
<1>3. \A s \in SUBSET S : f[s] = IF s = {} THEN 0 ELSE w[PickOf(s)] + f[s \ {PickOf(s)}]
  BY <1>1 DEF RunningSum
<1> QED BY <1>2, <1>3

\* Any element may be taken off a sum.
LEMMA SumRemove ==
    ASSUME NEW S, IsFiniteSet(S), NEW w, \A x \in S : w[x] \in Int, NEW x \in S
    PROVE  SumOver(w, S) = w[x] + SumOver(w, S \ {x})
<1> DEFINE Off(s, z) == SumOver(w, s) = w[z] + SumOver(w, s \ {z})
           Bad == {n \in Nat : \E s \in SUBSET S : Cardinality(s) = n /\ \E z \in s : ~Off(s, z)}
<1>0. \A s \in SUBSET S : /\ IsFiniteSet(s) /\ Cardinality(s) \in Nat
                          /\ \A y \in s : Cardinality(s \ {y}) = Cardinality(s) - 1
  BY FS_Subset, FS_CardinalityType, FS_RemoveElement
<1>1. \A s \in SUBSET S : /\ SumOver(w, s) \in Int
                          /\ s # {} => SumOver(w, s) = w[PickOf(s)] + SumOver(w, s \ {PickOf(s)})
  BY <1>0, SumPicked
<1>2. ASSUME Bad # {} PROVE FALSE
  <2>1. PICK n \in Bad : \A m \in Bad : n <= m
    BY <1>2, LeastNatural
  <2>2. PICK s \in SUBSET S : Cardinality(s) = n /\ \E z \in s : ~Off(s, z)
    BY <2>1
  <2>10. PICK z \in s : ~Off(s, z)
    BY <2>2
  <2>3. PICK y \in s : SumOver(w, s) = w[y] + SumOver(w, s \ {y})
    BY <1>1, <2>10, PickedIn
  <2>4. y # z /\ y \in s \ {z} /\ z \in s \ {y}
    BY <2>10, <2>3
  <2>5. Cardinality(s \ {y}) = n - 1 /\ Cardinality(s \ {z}) = n - 1 /\ n - 1 \in Nat
    BY <1>0, <2>2
  <2>6. n - 1 \notin Bad
    BY <2>1, <2>5
  <2>7. Off(s \ {y}, z) /\ Off(s \ {z}, y)
    BY <2>4, <2>5, <2>6
  <2>8. (s \ {y}) \ {z} = (s \ {z}) \ {y}
    OBVIOUS
  <2>9. /\ w[y] \in Int /\ w[z] \in Int
        /\ SumOver(w, s) \in Int /\ SumOver(w, s \ {y}) \in Int /\ SumOver(w, s \ {z}) \in Int
        /\ SumOver(w, (s \ {y}) \ {z}) \in Int
    BY <1>1
  <2>11. /\ SumOver(w, s \ {y}) = w[z] + SumOver(w, (s \ {y}) \ {z})
         /\ SumOver(w, s \ {z}) = w[y] + SumOver(w, (s \ {y}) \ {z})
         /\ SumOver(w, s) # w[z] + SumOver(w, s \ {z})
    BY <2>7, <2>8, <2>10
  <2> QED BY <2>3, <2>9, <2>11
<1>3. Cardinality(S) \in Nat /\ S \in SUBSET S /\ Cardinality(S) \notin Bad
  BY <1>0, <1>2
<1>4. Off(S, x)
  BY <1>3
<1> QED BY <1>4

\* RunningSum split along a subset.
LEMMA SumSplit ==
    ASSUME NEW S, IsFiniteSet(S), NEW w, \A x \in S : w[x] \in Int, NEW T \in SUBSET S
    PROVE  SumOver(w, S) = SumOver(w, T) + SumOver(w, S \ T)
<1> DEFINE Bad == {n \in Nat : \E s \in SUBSET T : /\ Cardinality(s) = n
                                                  /\ SumOver(w, S) # SumOver(w, s) + SumOver(w, S \ s)}
<1>0. \A s \in SUBSET S : /\ IsFiniteSet(s) /\ Cardinality(s) \in Nat
                          /\ \A y \in s : Cardinality(s \ {y}) = Cardinality(s) - 1
  BY FS_Subset, FS_CardinalityType, FS_RemoveElement
<1>1. \A s \in SUBSET S : /\ SumOver(w, s) \in Int
                          /\ \A y \in s : SumOver(w, s) = w[y] + SumOver(w, s \ {y})
  BY <1>0, SumPicked, SumRemove
<1>2. ASSUME Bad # {} PROVE FALSE
  <2>1. PICK n \in Bad : \A m \in Bad : n <= m
    BY <1>2, LeastNatural
  <2>2. PICK s \in SUBSET T : Cardinality(s) = n /\ SumOver(w, S) # SumOver(w, s) + SumOver(w, S \ s)
    BY <2>1
  <2>3. s # {}
    <3>1. SumOver(w, {}) = 0
      BY SumPicked
    <3>2. s = {} => S \ s = S
      OBVIOUS
    <3>3. SumOver(w, S) \in Int
      BY <1>1
    <3> QED BY <2>2, <3>1, <3>2, <3>3
  <2>4. PICK y \in s : TRUE
    BY <2>3
  <2>5. Cardinality(s \ {y}) = n - 1 /\ n - 1 \in Nat
    BY <1>0, <2>2
  <2>6. n - 1 \notin Bad
    BY <2>1, <2>5
  <2>7. SumOver(w, S) = SumOver(w, s \ {y}) + SumOver(w, S \ (s \ {y}))
    BY <2>5, <2>6
  <2>8. SumOver(w, s) = w[y] + SumOver(w, s \ {y})
    BY <1>1
  <2>9. SumOver(w, S \ (s \ {y})) = w[y] + SumOver(w, S \ s)
    <3>1. (S \ (s \ {y})) \ {y} = S \ s /\ y \in S \ (s \ {y})
      OBVIOUS
    <3> QED BY <1>1, <3>1
  <2>10. /\ w[y] \in Int /\ SumOver(w, S) \in Int /\ SumOver(w, s) \in Int
         /\ SumOver(w, S \ s) \in Int /\ SumOver(w, s \ {y}) \in Int
    BY <1>1
  <2> QED BY <2>2, <2>7, <2>8, <2>9, <2>10
<1>3. Cardinality(T) \in Nat /\ Cardinality(T) \notin Bad
  BY <1>0, <1>2
<1> QED BY <1>3

\* A sum of naturals is a natural, and a sum of zeros zero.
LEMMA SumNatural ==
    ASSUME NEW S, IsFiniteSet(S), NEW w, \A x \in S : w[x] \in Nat
    PROVE  /\ SumOver(w, S) \in Nat
           /\ (\A x \in S : w[x] = 0) => SumOver(w, S) = 0
<1> DEFINE Right(s) == /\ SumOver(w, s) \in Nat
                       /\ (\A x \in S : w[x] = 0) => SumOver(w, s) = 0
           Bad == {n \in Nat : \E s \in SUBSET S : Cardinality(s) = n /\ ~Right(s)}
<1>0. \A s \in SUBSET S : /\ IsFiniteSet(s) /\ Cardinality(s) \in Nat
                          /\ \A y \in s : Cardinality(s \ {y}) = Cardinality(s) - 1
  BY FS_Subset, FS_CardinalityType, FS_RemoveElement
<1>1. \A x \in S : w[x] \in Int
  OBVIOUS
<1>2. \A s \in SUBSET S : \A y \in s : SumOver(w, s) = w[y] + SumOver(w, s \ {y})
  BY <1>0, <1>1, SumRemove
<1>3. SumOver(w, {}) = 0
  BY <1>1, SumPicked
<1>4. ASSUME Bad # {} PROVE FALSE
  <2>1. PICK n \in Bad : \A m \in Bad : n <= m
    BY <1>4, LeastNatural
  <2>2. PICK s \in SUBSET S : Cardinality(s) = n /\ ~Right(s)
    BY <2>1
  <2>3. PICK y \in s : TRUE
    BY <1>3, <2>2
  <2>4. Cardinality(s \ {y}) = n - 1 /\ n - 1 \in Nat
    BY <1>0, <2>2
  <2>5. n - 1 \notin Bad
    BY <2>1, <2>4
  <2>6. Right(s \ {y})
    BY <2>4, <2>5
  <2>7. SumOver(w, s) = w[y] + SumOver(w, s \ {y}) /\ w[y] \in Nat
    BY <1>2
  <2> QED BY <2>2, <2>6, <2>7
<1>5. Cardinality(S) \in Nat /\ Cardinality(S) \notin Bad
  BY <1>0, <1>4
<1>6. Right(S)
  BY <1>5
<1> QED BY <1>6

\* Functions that agree on a set have the same sum over it.
LEMMA SumSame ==
    ASSUME NEW S, IsFiniteSet(S), NEW w, \A x \in S : w[x] \in Int,
           NEW v, SameOn(v, w, S)
    PROVE  SumOver(v, S) = SumOver(w, S)
<1>1. \A x \in S : v[x] \in Int
  BY DEF SameOn
<1>2. PICK f \in [SUBSET S -> Int] : RunningSum(f, v, SUBSET S)
  BY <1>1, RunningSumExists
<1>3. SameOn(v, v, S)
  BY DEF SameOn
<1>4. SumOver(v, S) = f[S]
  BY <1>1, <1>2, <1>3, SumBelow
<1>5. SumOver(w, S) = f[S]
  BY <1>2, SumBelow
<1> QED BY <1>4, <1>5

\* A change of one value changes the sum by as much.
LEMMA SumChanged ==
    ASSUME NEW S, IsFiniteSet(S), NEW w, \A x \in S : w[x] \in Int,
           NEW v, NEW x \in S, v[x] \in Int, SameOn(v, w, S \ {x})
    PROVE  SumOver(v, S) = SumOver(w, S) + v[x] - w[x]
<1>1. \A y \in S : v[y] \in Int
  BY DEF SameOn
<1>2. IsFiniteSet(S \ {x}) /\ \A y \in S \ {x} : w[y] \in Int
  BY FS_RemoveElement
<1>3. SumOver(v, S \ {x}) = SumOver(w, S \ {x}) /\ SumOver(w, S \ {x}) \in Int
  BY <1>2, SumSame, SumPicked
<1>4. SumOver(w, S) = w[x] + SumOver(w, S \ {x})
  BY SumRemove
<1>5. SumOver(v, S) = v[x] + SumOver(v, S \ {x})
  BY <1>1, SumRemove
<1> QED BY <1>3, <1>4, <1>5

-----------------------------------------------------------------------------
(* Finite sets.                                                            *)

\* The values a function takes on a finite set are finitely many.
LEMMA FewValues ==
    ASSUME NEW S, IsFiniteSet(S), NEW f
    PROVE  IsFiniteSet({f[x] : x \in S})
<1> DEFINE T == {f[x] : x \in S}
           g == [x \in S |-> f[x]]
<1>1. g \in Surjection(S, T)
    BY DEF Surjection
<1> HIDE DEF g, T
<1>2. IsFiniteSet(T)
    BY <1>1, FS_Surjection
<1> QED
    BY <1>2 DEF T

-----------------------------------------------------------------------------
(* Lists.                                                                  *)

ElementsOf(l) == {l[i] : i \in 1..Len(l)}

\* How many elements of S lie below x.
RankIn(x, S) == Cardinality({y \in S : y < x})

\* Ranks number the elements of a finite set from 0.
LEMMA RanksNumber ==
    ASSUME NEW S \in SUBSET Int, IsFiniteSet(S)
    PROVE  /\ Cardinality(S) \in Nat
           /\ \A x \in S : RankIn(x, S) \in 0..(Cardinality(S) - 1)
           /\ \A x, z \in S : x < z => RankIn(x, S) < RankIn(z, S)
           /\ \A i \in 0..(Cardinality(S) - 1) : \E x \in S : RankIn(x, S) = i
<1> DEFINE Below(x) == {y \in S : y < x}
           T == 0..(Cardinality(S) - 1)
           rank == [x \in S |-> RankIn(x, S)]
<1>1. Cardinality(S) \in Nat
    BY FS_CardinalityType
<1>2. \A x \in S : IsFiniteSet(Below(x)) /\ Cardinality(Below(x)) \in Nat
    BY FS_Subset, FS_CardinalityType
<1>3. \A x \in S : RankIn(x, S) \in T
    <2> SUFFICES ASSUME NEW x \in S PROVE RankIn(x, S) \in T
        OBVIOUS
    <2>1. Below(x) \subseteq S /\ x \notin Below(x)
        BY x \in Int
    <2>2. Cardinality(Below(x)) <= Cardinality(S) /\ Cardinality(Below(x)) # Cardinality(S)
        BY <2>1, FS_Subset
    <2> QED
        BY <1>1, <1>2, <2>2 DEF RankIn
<1>4. \A x, z \in S : x < z => RankIn(x, S) < RankIn(z, S)
    <2> SUFFICES ASSUME NEW x \in S, NEW z \in S, x < z PROVE RankIn(x, S) < RankIn(z, S)
        OBVIOUS
    <2>1. x \in Int /\ z \in Int /\ \A y \in S : y \in Int
        OBVIOUS
    <2>0. \A y \in S : y < x => y < z
        BY <2>1
    <2>2. x \in Below(z) /\ x \notin Below(x)
        BY <2>1
    <2>4. Below(x) \subseteq Below(z)
        BY <2>0
    <2>3. Cardinality(Below(x)) <= Cardinality(Below(z)) /\ Cardinality(Below(x)) # Cardinality(Below(z))
        BY <1>2, <2>2, <2>4, FS_Subset
    <2> QED
        BY <1>2, <2>3 DEF RankIn
<1>5. IsFiniteSet(T) /\ Cardinality(T) = Cardinality(S)
    BY <1>1, FS_Interval
<1>6. rank \in Injection(S, T)
    <2>1. rank \in [S -> T]
        BY <1>3
    <2>2. \A x, z \in S : rank[x] = rank[z] => x = z
        <3>1. \A x \in S : x \in Int /\ RankIn(x, S) \in Int
            BY <1>3
        <3>2. \A x, z \in S : RankIn(x, S) = RankIn(z, S) => ~(x < z) /\ ~(z < x)
            BY <1>4, <3>1
        <3> QED
            BY <3>1, <3>2
    <2> HIDE DEF rank, T
    <2> QED
        BY <2>1, <2>2 DEF Injection, IsInjective
<1>7. \A i \in T : \E x \in S : RankIn(x, S) = i
    <2>1. rank \in Surjection(S, T)
        <3> HIDE DEF rank, T
        <3> QED
            BY <1>5, <1>6, FS_Injection
    <2> QED
        BY <2>1 DEF Surjection
<1> QED
    BY <1>1, <1>3, <1>4, <1>7

\* The ordered list of a finite set has its elements, each once, in order.
LEMMA AscendingLists ==
    ASSUME NEW S \in SUBSET Int, IsFiniteSet(S)
    PROVE  /\ Ascending(S) \in Seq(S)
           /\ Len(Ascending(S)) = Cardinality(S)
           /\ \A x \in S : \E i \in 1..Cardinality(S) : Ascending(S)[i] = x
           /\ \A i, j \in 1..Cardinality(S) : i < j => Ascending(S)[i] < Ascending(S)[j]
<1> DEFINE n == Cardinality(S)
           a == Ascending(S)
<1>1. n \in Nat
    BY RanksNumber
<1>2. \A i \in 1..n : a[i] \in S /\ RankIn(a[i], S) = i - 1
    <2> SUFFICES ASSUME NEW i \in 1..n PROVE a[i] \in S /\ RankIn(a[i], S) = i - 1
        OBVIOUS
    <2>1. i - 1 \in 0..(n - 1)
        BY <1>1
    <2>2. \E x \in S : RankIn(x, S) = i - 1
        BY <2>1, RanksNumber
    <2>3. a[i] = CHOOSE x \in S : RankIn(x, S) = i - 1
        BY DEF Ascending, RankIn
    <2> QED
        BY <2>2, <2>3
<1>3. a = [i \in 1..n |-> a[i]]
    <2> DEFINE at(i) == CHOOSE x \in S : RankIn(x, S) = i - 1
    <2>1. a = [i \in 1..n |-> at(i)]
        BY DEF Ascending, RankIn
    <2> HIDE DEF at, a, n
    <2> QED
        BY <2>1
<1> HIDE DEF a, n
<1>4. a \in [1..n -> S]
    BY <1>2, <1>3
<1>5. a \in Seq(S) /\ Len(a) = n
    BY <1>1, <1>4
<1>6. \A x, z \in S : RankIn(x, S) = RankIn(z, S) => x = z
    <2>1. \A x \in S : x \in Int /\ RankIn(x, S) \in Int
        BY RanksNumber
    <2>2. \A x, z \in S : RankIn(x, S) = RankIn(z, S) => ~(x < z) /\ ~(z < x)
        BY <2>1, RanksNumber
    <2> QED
        BY <2>1, <2>2
<1>7. ASSUME NEW x \in S PROVE \E i \in 1..n : a[i] = x
    <2>1. RankIn(x, S) \in 0..(n - 1)
        BY RanksNumber DEF n
    <2>2. RankIn(x, S) + 1 \in 1..n /\ (RankIn(x, S) + 1) - 1 = RankIn(x, S)
        BY <1>1, <2>1
    <2>3. a[RankIn(x, S) + 1] \in S /\ RankIn(a[RankIn(x, S) + 1], S) = RankIn(x, S)
        BY <1>2, <2>2
    <2> QED
        BY <1>6, <2>2, <2>3
<1>8. ASSUME NEW i \in 1..n, NEW j \in 1..n, i < j PROVE a[i] < a[j]
    <2>1. a[i] \in Int /\ a[j] \in Int /\ RankIn(a[i], S) = i - 1 /\ RankIn(a[j], S) = j - 1
        BY <1>2
    <2>2. a[j] < a[i] => RankIn(a[j], S) < RankIn(a[i], S)
        BY <1>2, RanksNumber
    <2>3. ~(j - 1 < i - 1) /\ i - 1 # j - 1
        BY <1>1, <1>8
    <2>4. a[i] # a[j] /\ ~(a[j] < a[i])
        BY <2>1, <2>2, <2>3
    <2> QED
        BY <2>1, <2>4
<1> QED
    BY <1>5, <1>7, <1>8 DEF a, n

\* A list is left with its entries in S, and keeps no others.
LEMMA OnlyKeeps ==
    ASSUME NEW T, NEW s \in Seq(T), NEW S
    PROVE  /\ Only(s, S) \in Seq(T \cap S)
           /\ ElementsOf(Only(s, S)) = ElementsOf(s) \cap S
<1> DEFINE P == {i \in 1..Len(s) : s[i] \in S}
           kept == Ascending(P)
           o == Only(s, S)
<1>1. P \in SUBSET Int /\ IsFiniteSet(P)
    <2>1. Len(s) \in Nat /\ IsFiniteSet(1..Len(s)) /\ P \subseteq 1..Len(s)
        BY FS_Interval
    <2> QED
        BY <2>1, FS_Subset
<1> HIDE DEF P
<1>2. /\ kept \in Seq(P) /\ Len(kept) = Cardinality(P) /\ Len(kept) \in Nat
      /\ \A x \in P : \E i \in 1..Len(kept) : kept[i] = x
    BY <1>1, AscendingLists, RanksNumber
<1>3. o = [n \in 1..Len(kept) |-> s[kept[n]]]
    BY DEF Only, P
<1> HIDE DEF kept, o
<1>4. \A n \in 1..Len(kept) : kept[n] \in P
    BY <1>2
<1>5. \A i \in P : i \in 1..Len(s) /\ s[i] \in T \cap S
    BY DEF P
<1>6. o \in [1..Len(kept) -> T \cap S]
    BY <1>3, <1>4, <1>5
<1>7. o \in Seq(T \cap S) /\ Len(o) = Len(kept)
    BY <1>2, <1>6
<1>8. ASSUME NEW i \in 1..Len(s), s[i] \in S PROVE \E n \in 1..Len(o) : o[n] = s[i]
    <2>1. PICK n \in 1..Len(kept) : kept[n] = i
        BY <1>2, <1>8 DEF P
    <2> QED
        BY <2>1, <1>3, <1>7
<1>9. ASSUME NEW n \in 1..Len(o) PROVE \E i \in 1..Len(s) : s[i] = o[n] /\ s[i] \in S
    <2>1. kept[n] \in P /\ o[n] = s[kept[n]]
        BY <1>3, <1>4, <1>7
    <2> QED
        BY <2>1, <1>5
<1>10. {o[n] : n \in 1..Len(o)} = {s[i] : i \in 1..Len(s)} \cap S
    <2>1. \A x \in {o[n] : n \in 1..Len(o)} : x \in S /\ x \in {s[i] : i \in 1..Len(s)}
        BY <1>9
    <2>2. \A x \in {s[i] : i \in 1..Len(s)} \cap S : x \in {o[n] : n \in 1..Len(o)}
        BY <1>8
    <2> QED
        BY <2>1, <2>2
<1> QED
    BY <1>7, <1>10 DEF o, ElementsOf

-----------------------------------------------------------------------------
(* Counting upwards.                                                       *)

\* What holds of 0, and of a number if it holds of the one before, holds up to n.
LEMMA Upwards ==
    ASSUME NEW n \in Nat, NEW S, 0 \in S, \A i \in 1..n : i - 1 \in S => i \in S
    PROVE  \A i \in 0..n : i \in S
<1> DEFINE Bad == {i \in 0..n : i \notin S}
<1>1. ASSUME Bad # {} PROVE FALSE
  <2>0. Bad \in SUBSET Nat
    OBVIOUS
  <2>1. PICK i \in Bad : \A j \in Bad : i <= j
    BY <1>1, <2>0, LeastNatural
  <2>2. i \in 1..n /\ i - 1 \in 0..n /\ ~(i <= i - 1)
    BY <2>1
  <2>3. i - 1 \in S
    BY <2>1, <2>2
  <2> QED BY <2>1, <2>2, <2>3
<1> QED BY <1>1

\* A function on 0..n may be given by its first value and its steps.
Follows(f, n, first, g) == f[0] = first /\ \A i \in 1..n : f[i] = g[i][f[i - 1]]

LEMMA RecursionExists ==
    ASSUME NEW n \in Nat, NEW V, NEW first \in V, NEW g \in [1..n -> [V -> V]]
    PROVE  \E f \in [0..n -> V] : Follows(f, n, first, g)
<1> DEFINE Upto(m, f) == f = [i \in 0..m |-> IF i = 0 THEN first ELSE g[i][f[i - 1]]]
           S == {m \in 0..n : \E f \in [0..m -> V] : Upto(m, f)}
<1>1. 0 \in S
  <2> DEFINE f == [i \in 0..0 |-> first]
  <2>1. f \in [0..0 -> V]
    OBVIOUS
  <2>2. Upto(0, f)
    <3>1. \A i \in 0..0 : i = 0
      OBVIOUS
    <3> QED BY <3>1
  <2> HIDE DEF Upto, f
  <2> QED BY <2>1, <2>2
<1>2. ASSUME NEW m \in 1..n, m - 1 \in S PROVE m \in S
  <2>1. PICK f \in [0..(m - 1) -> V] : Upto(m - 1, f)
    BY <1>2
  <2> DEFINE h == [i \in 0..m |-> IF i = 0 THEN first ELSE g[i][f[i - 1]]]
  <2>2. \A i \in 1..m : i \in 1..n /\ i - 1 \in 0..(m - 1)
    OBVIOUS
  <2>3. \A i \in 0..m : i # 0 => i \in 1..m
    OBVIOUS
  <2>4. h \in [0..m -> V]
    <3>1. \A i \in 1..m : g[i][f[i - 1]] \in V
      BY <2>2
    <3> QED BY <2>3, <3>1
  <2>5. \A i \in 0..(m - 1) : i \in 0..m /\ h[i] = f[i]
    <3>1. \A i \in 0..(m - 1) : f[i] = IF i = 0 THEN first ELSE g[i][f[i - 1]]
      BY <2>1
    <3>2. \A i \in 0..(m - 1) : i \in 0..m
      OBVIOUS
    <3> QED BY <3>1, <3>2
  <2>6. Upto(m, h)
    <3>1. \A i \in 0..m : i # 0 => h[i - 1] = f[i - 1]
      BY <2>2, <2>3, <2>5
    <3> QED BY <3>1
  <2> HIDE DEF Upto, h
  <2> QED BY <2>4, <2>6
<1> HIDE DEF S
<1>3. \A m \in 0..n : m \in S
  BY <1>1, <1>2, Upwards
<1>4. PICK f \in [0..n -> V] : Upto(n, f)
  <2>1. n \in S
    BY <1>3
  <2> QED BY <2>1 DEF S
<1>5. \A i \in 0..n : f[i] = IF i = 0 THEN first ELSE g[i][f[i - 1]]
  BY <1>4
<1> HIDE DEF Upto
<1>6. 0 \in 0..n /\ \A i \in 1..n : i \in 0..n /\ i # 0
  OBVIOUS
<1> QED BY <1>4, <1>5, <1>6 DEF Follows

\* A set of indices with every index below one of them is an initial segment.
LEMMA InitialSegment ==
    ASSUME NEW n \in Nat, NEW S \in SUBSET (1..n),
           \A i \in S, j \in 1..n : j <= i => j \in S
    PROVE  Cardinality(S) \in 0..n /\ S = 1..Cardinality(S)
<1> DEFINE Out == {i \in 1..(n + 1) : i \notin S}
<1>1. Out \in SUBSET Nat /\ n + 1 \in Out
  OBVIOUS
<1>2. PICK k \in Out : \A j \in Out : k <= j
  BY <1>1, LeastNatural
<1>3. k \in 1..(n + 1) /\ k \notin S
  BY <1>2
<1>4. \A j \in 1..n : j < k <=> j \in S
  <2> SUFFICES ASSUME NEW j \in 1..n PROVE j < k <=> j \in S
    OBVIOUS
  <2>1. j < k => j \in S
    BY <1>2, <1>3
  <2>2. j \in S /\ k <= j => FALSE
    BY <1>3
  <2> QED BY <1>3, <2>1, <2>2
<1>5. S = 1..(k - 1) /\ k - 1 \in 0..n
  <2>1. \A j \in S : j \in 1..(k - 1)
    BY <1>3, <1>4
  <2>2. \A j \in 1..(k - 1) : j \in 1..n /\ j < k
    BY <1>3
  <2>3. \A j \in 1..(k - 1) : j \in S
    BY <1>4, <2>2
  <2>4. S = 1..(k - 1)
    <3>1. \A j : j \in S <=> j \in 1..(k - 1)
      BY <2>1, <2>3
    <3> QED BY <3>1, Zenon
  <2> QED BY <1>3, <2>4
<1>6. Cardinality(1..(k - 1)) = k - 1
  BY <1>3, FS_Interval
<1> QED BY <1>5, <1>6

\* The least and the greatest of a set of numbers.
LEMMA MinIs ==
    ASSUME NEW S \in SUBSET Int, NEW m \in S, \A y \in S : m <= y
    PROVE  Min(S) = m
<1>1. \A z \in S : (\A y \in S : z <= y) => z = m
  OBVIOUS
<1> QED BY <1>1 DEF Min

LEMMA MaxIs ==
    ASSUME NEW S \in SUBSET Int, NEW m \in S, \A y \in S : y <= m
    PROVE  Max(S) = m
<1>1. \A z \in S : (\A y \in S : z >= y) => z = m
  OBVIOUS
<1> QED BY <1>1 DEF Max

=============================================================================
