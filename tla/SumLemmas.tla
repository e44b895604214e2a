------------------------------ MODULE SumLemmas ------------------------------
(***************************************************************************)
(* Sums of integer weights over finite sets, as the folds of the community *)
(* modules compute them: the order in which the elements are taken does    *)
(* not matter, so a sum grows and shrinks with its set, element by element.*)
(* And orders of finite sets: every member has a place of its own.         *)
(***************************************************************************)
EXTENDS Integers, FiniteSets, FiniteSetTheorems, FunctionTheorems, WellFoundedInduction, TLAPS

Pick(T) == CHOOSE x \in T : TRUE

\* The sums of w over the subsets of T, element by element.
Sums(w, T) ==
    {g \in [SUBSET T -> Int] :
        \A s \in SUBSET T : g[s] = IF s = {} THEN 0 ELSE w[Pick(s)] + g[s \ {Pick(s)}]}

SumOf(w, T) == (CHOOSE g \in Sums(w, T) : TRUE)[T]

LEMMA PickIsIn == ASSUME NEW T, T # {} PROVE Pick(T) \in T
  BY DEF Pick

LEMMA LeastOf ==
    ASSUME NEW S, S \subseteq Nat, S # {}
    PROVE  \E i \in S : \A j \in S : i <= j
<1>1. PICK x \in S : \A y \in S : <<y, x>> \notin OpToRel(<, Nat)
    BY NatLessThanWellFounded, WFMin
<1>2. \A y \in S : ~(y < x)
    BY <1>1 DEF OpToRel
<1> QED BY <1>2

\* A non-empty family of finite sets has a smallest one.
LEMMA Smallest ==
    ASSUME NEW F, F # {}, \A s \in F : IsFiniteSet(s)
    PROVE  \E s \in F : \A u \in F : Cardinality(s) <= Cardinality(u)
<1> DEFINE N == {Cardinality(s) : s \in F}
<1>1. N \subseteq Nat /\ N # {}
    BY FS_CardinalityType
<1> HIDE DEF N
<1>2. PICK n \in N : \A m \in N : n <= m
    BY <1>1, LeastOf
<1> QED BY <1>2 DEF N

\* The numbers from 1 to n are n numbers.
LEMMA UpTo ==
    ASSUME NEW n \in Nat
    PROVE  IsFiniteSet(1 .. n) /\ Cardinality(1 .. n) = n
<1>1. Cardinality(1 .. n) = IF 1 > n THEN 0 ELSE n - 1 + 1
    BY FS_Interval
<1> QED BY <1>1, FS_Interval

LEMMA Without ==
    ASSUME NEW T, IsFiniteSet(T), NEW x \in T
    PROVE  /\ IsFiniteSet(T \ {x}) /\ Cardinality(T \ {x}) \in Nat
           /\ Cardinality(T) \in Nat /\ Cardinality(T \ {x}) < Cardinality(T)
<1>1. /\ IsFiniteSet(T \ {x})
      /\ Cardinality(T \ {x}) = IF x \in T THEN Cardinality(T) - 1 ELSE Cardinality(T)
    BY FS_RemoveElement
<1>2. Cardinality(T \ {x}) \in Nat /\ Cardinality(T) \in Nat
    BY <1>1, FS_CardinalityType
<1> QED BY <1>1, <1>2

LEMMA SumsAgree ==
    ASSUME NEW w, NEW T, NEW U, NEW g \in Sums(w, T), NEW h \in Sums(w, U),
           NEW s \in SUBSET T, s \in SUBSET U, IsFiniteSet(s)
    PROVE  g[s] = h[s]
<1> DEFINE bad == {u \in SUBSET s : g[u] # h[u]}
<1> SUFFICES ASSUME bad # {} PROVE FALSE
    OBVIOUS
<1>1. \A u \in bad : IsFiniteSet(u)
    BY FS_Subset
<1>2. PICK u \in bad : \A v \in bad : Cardinality(u) <= Cardinality(v)
    BY <1>1, Smallest
<1>3. u # {}
    BY DEF Sums
<1> DEFINE x == Pick(u)
<1>4. x \in u /\ IsFiniteSet(u)
    BY <1>1, <1>3, PickIsIn
<1>5. Cardinality(u \ {x}) < Cardinality(u) /\ Cardinality(u \ {x}) \in Nat /\ Cardinality(u) \in Nat
    BY <1>4, Without
<1>6. u \ {x} \notin bad
    BY <1>2, <1>5
<1>7. g[u \ {x}] = h[u \ {x}]
    BY <1>6
<1>8. g[u] = w[x] + g[u \ {x}] /\ h[u] = w[x] + h[u \ {x}]
    BY <1>3 DEF Sums
<1> QED BY <1>7, <1>8

LEMMA SumsExist ==
    ASSUME NEW D, NEW w \in [D -> Int], NEW T \in SUBSET D, IsFiniteSet(T)
    PROVE  Sums(w, T) # {}
<1> DEFINE bad == {u \in SUBSET T : Sums(w, u) = {}}
<1> SUFFICES ASSUME bad # {} PROVE FALSE
    OBVIOUS
<1>1. \A u \in SUBSET T : IsFiniteSet(u)
    BY FS_Subset
<1>2. PICK u \in bad : \A v \in bad : Cardinality(u) <= Cardinality(v)
    BY <1>1, Smallest
<1>3. ASSUME NEW s \in SUBSET u, s # {}
      PROVE  /\ Pick(s) \in s /\ s \ {Pick(s)} \in SUBSET s /\ w[Pick(s)] \in Int
             /\ Sums(w, s \ {Pick(s)}) # {}
  <2>1. Pick(s) \in s /\ IsFiniteSet(s) /\ IsFiniteSet(u)
      BY <1>1, <1>3, PickIsIn
  <2>2. /\ Cardinality(s \ {Pick(s)}) < Cardinality(s)
        /\ Cardinality(s \ {Pick(s)}) \in Nat /\ Cardinality(s) \in Nat
      BY <2>1, Without
  <2>3. Cardinality(s) <= Cardinality(u) /\ Cardinality(u) \in Nat
      BY <2>1, FS_Subset, FS_CardinalityType
  <2>4. s \ {Pick(s)} \notin bad
      BY <1>2, <2>2, <2>3
  <2> QED BY <2>1, <2>4
<1> DEFINE sol(s) == CHOOSE h \in Sums(w, s) : TRUE
           g == [s \in SUBSET u |->
                    IF s = {} THEN 0 ELSE w[Pick(s)] + sol(s \ {Pick(s)})[s \ {Pick(s)}]]
<1>4. \A s : Sums(w, s) # {} => sol(s) \in Sums(w, s)
    OBVIOUS
<1> HIDE DEF sol
<1>5. ASSUME NEW s \in SUBSET u, s # {}
      PROVE  sol(s \ {Pick(s)})[s \ {Pick(s)}] \in Int
  <2> DEFINE r == s \ {Pick(s)}
  <2>1. Sums(w, r) # {}
      BY <1>3, <1>5
  <2>2. sol(r) \in Sums(w, r)
      BY <1>4, <2>1
  <2> HIDE DEF r
  <2>3. sol(r)[r] \in Int
      BY <2>2 DEF Sums
  <2> QED BY <2>3 DEF r
<1>6. g \in [SUBSET u -> Int]
    BY <1>3, <1>5
<1>7. ASSUME NEW s \in SUBSET u
      PROVE  g[s] = IF s = {} THEN 0 ELSE w[Pick(s)] + g[s \ {Pick(s)}]
  <2>1. CASE s = {}
      BY <2>1
  <2>2. CASE s # {}
    <3> DEFINE r == s \ {Pick(s)}
    <3>1. r \in SUBSET u /\ Sums(w, r) # {} /\ IsFiniteSet(r)
        BY <1>1, <1>3, <2>2
    <3>2. sol(r) \in Sums(w, r)
        BY <1>4, <3>1
    <3>3. CASE r = {}
      <4>1. sol(r)[r] = 0
          BY <3>2, <3>3 DEF Sums
      <4> QED BY <2>2, <3>1, <3>3, <4>1
    <3>4. CASE r # {}
      <4> DEFINE q == r \ {Pick(r)}
      <4>1. q \in SUBSET r /\ Sums(w, q) # {} /\ q \in SUBSET q /\ IsFiniteSet(q)
          BY <1>1, <1>3, <3>1, <3>4
      <4>2. sol(q) \in Sums(w, q)
          BY <1>4, <4>1
      <4>3. sol(r)[q] = sol(q)[q]
          BY <3>2, <4>1, <4>2, SumsAgree
      <4>4. sol(r)[r] = w[Pick(r)] + sol(r)[q]
          BY <3>2, <3>4 DEF Sums
      <4>5. g[r] = w[Pick(r)] + sol(q)[q]
          BY <3>1, <3>4
      <4> QED BY <2>2, <4>3, <4>4, <4>5
    <3> QED BY <3>3, <3>4
  <2> QED BY <2>1, <2>2
<1>8. g \in Sums(w, u)
    BY <1>6, <1>7 DEF Sums
<1> QED BY <1>2, <1>8

\* A sum is taken element by element, in the order of Pick.
LEMMA SumUnfolds ==
    ASSUME NEW D, NEW w \in [D -> Int], NEW T \in SUBSET D, IsFiniteSet(T)
    PROVE  /\ SumOf(w, T) \in Int
           /\ SumOf(w, T) = IF T = {} THEN 0 ELSE w[Pick(T)] + SumOf(w, T \ {Pick(T)})
<1> DEFINE g == CHOOSE h \in Sums(w, T) : TRUE
<1>1. g \in Sums(w, T) /\ SumOf(w, T) = g[T]
    BY SumsExist DEF SumOf
<1> HIDE DEF g
<1>2. SumOf(w, T) \in Int
  <2>1. g \in [SUBSET T -> Int] /\ T \in SUBSET T
      BY <1>1 DEF Sums
  <2> QED BY <1>1, <2>1
<1>3. CASE T = {}
  <2>1. g[T] = 0
      BY <1>1, <1>3 DEF Sums
  <2> QED BY <1>1, <1>3, <2>1
<1>4. CASE T # {}
  <2> DEFINE r == T \ {Pick(T)}
             h == CHOOSE k \in Sums(w, r) : TRUE
  <2>1. r \in SUBSET T /\ r \in SUBSET r /\ r \in SUBSET D /\ IsFiniteSet(r)
      BY FS_Subset
  <2>2. h \in Sums(w, r) /\ SumOf(w, r) = h[r]
      BY <2>1, SumsExist DEF SumOf
  <2> HIDE DEF h
  <2>3. g[r] = h[r]
      BY <1>1, <2>1, <2>2, SumsAgree
  <2>4. g[T] = w[Pick(T)] + g[r]
      BY <1>1, <1>4 DEF Sums
  <2> QED BY <1>1, <1>2, <1>4, <2>2, <2>3, <2>4
<1> QED BY <1>2, <1>3, <1>4

\* The order does not matter.
LEMMA SumRemoves ==
    ASSUME NEW D, NEW w \in [D -> Int], NEW T \in SUBSET D, IsFiniteSet(T), NEW x \in T
    PROVE  SumOf(w, T) = w[x] + SumOf(w, T \ {x})
<1> DEFINE bad == {u \in SUBSET T : \E z \in u : SumOf(w, u) # w[z] + SumOf(w, u \ {z})}
<1> SUFFICES ASSUME bad # {} PROVE FALSE
    OBVIOUS
<1>1. \A u \in SUBSET T : IsFiniteSet(u) /\ SumOf(w, u) \in Int
    BY FS_Subset, SumUnfolds
<1>2. PICK u \in bad : \A v \in bad : Cardinality(u) <= Cardinality(v)
    BY <1>1, Smallest
<1>3. PICK z \in u : SumOf(w, u) # w[z] + SumOf(w, u \ {z})
    BY <1>2
<1> DEFINE y == Pick(u)
<1>4. y \in u /\ IsFiniteSet(u)
    BY <1>1, <1>3, PickIsIn
<1>5. SumOf(w, u) = w[y] + SumOf(w, u \ {y})
    BY <1>1, <1>3, SumUnfolds
<1>6. y # z
    BY <1>3, <1>5
<1>7. /\ Cardinality(u \ {y}) < Cardinality(u) /\ Cardinality(u \ {y}) \in Nat /\ Cardinality(u) \in Nat
      /\ Cardinality(u \ {z}) < Cardinality(u) /\ Cardinality(u \ {z}) \in Nat
    BY <1>4, Without
<1>8. u \ {y} \notin bad /\ u \ {z} \notin bad
  <2>1. ASSUME NEW v \in bad PROVE ~(Cardinality(v) < Cardinality(u))
    <3>1. IsFiniteSet(v) /\ IsFiniteSet(u)
        BY <1>1
    <3>2. Cardinality(v) \in Nat /\ Cardinality(u) \in Nat
        BY <3>1, FS_CardinalityType
    <3> QED BY <1>2, <3>2
  <2> QED BY <1>7, <2>1
<1>9. /\ SumOf(w, u \ {y}) = w[z] + SumOf(w, (u \ {y}) \ {z})
      /\ SumOf(w, u \ {z}) = w[y] + SumOf(w, (u \ {z}) \ {y})
    BY <1>4, <1>6, <1>8
<1>10. (u \ {y}) \ {z} = (u \ {z}) \ {y}
    OBVIOUS
<1>11. w[y] \in Int /\ w[z] \in Int /\ SumOf(w, (u \ {y}) \ {z}) \in Int
  <2>1. (u \ {y}) \ {z} \in SUBSET T
      OBVIOUS
  <2>2. y \in D /\ z \in D
      BY <1>4
  <2> QED BY <1>1, <2>1, <2>2
<1> DEFINE rest == SumOf(w, (u \ {y}) \ {z})
<1> HIDE DEF y
<1>12. SumOf(w, u \ {y}) = w[z] + rest /\ SumOf(w, u \ {z}) = w[y] + rest /\ rest \in Int
    BY <1>9, <1>10, <1>11
<1> HIDE DEF rest
<1>13. w[y] + (w[z] + rest) = w[z] + (w[y] + rest)
    BY <1>11, <1>12
<1>14. SumOf(w, u) = w[z] + SumOf(w, u \ {z})
    BY <1>5, <1>12, <1>13
<1> QED BY <1>3, <1>14

LEMMA SumAdds ==
    ASSUME NEW D, NEW w \in [D -> Int], NEW T \in SUBSET D, IsFiniteSet(T), NEW x \in D, x \notin T
    PROVE  SumOf(w, T \cup {x}) = SumOf(w, T) + w[x] /\ SumOf(w, T) \in Int
<1>1. IsFiniteSet(T \cup {x}) /\ T \cup {x} \in SUBSET D /\ (T \cup {x}) \ {x} = T
    BY FS_AddElement
<1>2. SumOf(w, T \cup {x}) = w[x] + SumOf(w, T)
  <2>1. x \in T \cup {x}
      OBVIOUS
  <2> QED BY <1>1, <2>1, SumRemoves
<1>3. SumOf(w, T) \in Int
    BY SumUnfolds
<1> QED BY <1>2, <1>3

\* The fold of the community modules, with any choice c of the next element.
LEMMA FoldIsSum ==
    ASSUME NEW D, NEW w \in [D -> Int], NEW T \in SUBSET D, IsFiniteSet(T),
           NEW c, \A s \in SUBSET T : s # {} => c[s] \in s,
           NEW g, \A s \in SUBSET T : g[s] = IF s = {} THEN 0 ELSE w[c[s]] + g[s \ {c[s]}]
    PROVE  g[T] = SumOf(w, T)
<1> DEFINE bad == {u \in SUBSET T : g[u] # SumOf(w, u)}
<1> SUFFICES ASSUME bad # {} PROVE FALSE
    OBVIOUS
<1>1. \A u \in SUBSET T : IsFiniteSet(u)
    BY FS_Subset
<1>2. PICK u \in bad : \A v \in bad : Cardinality(u) <= Cardinality(v)
    BY <1>1, Smallest
<1>4. u # {}
    BY <1>1, SumUnfolds
<1>5. c[u] \in u /\ IsFiniteSet(u)
    BY <1>1, <1>4
<1>6. Cardinality(u \ {c[u]}) < Cardinality(u) /\ Cardinality(u \ {c[u]}) \in Nat /\ Cardinality(u) \in Nat
    BY <1>5, Without
<1>7. u \ {c[u]} \notin bad
  <2>1. ASSUME NEW v \in bad PROVE ~(Cardinality(v) < Cardinality(u))
    <3>1. IsFiniteSet(v) /\ IsFiniteSet(u)
        BY <1>1
    <3>2. Cardinality(v) \in Nat /\ Cardinality(u) \in Nat
        BY <3>1, FS_CardinalityType
    <3> QED BY <1>2, <3>2
  <2> QED BY <1>6, <2>1
<1>8. g[u \ {c[u]}] = SumOf(w, u \ {c[u]})
    BY <1>7
<1>9. SumOf(w, u) = w[c[u]] + SumOf(w, u \ {c[u]})
    BY <1>5, SumRemoves
<1> QED BY <1>4, <1>8, <1>9

IsFold(g, w, c, T) == g = [s \in SUBSET T |-> IF s = {} THEN 0 ELSE w[c[s]] + g[s \ {c[s]}]]

\* There is such a fold.
LEMMA FoldExists ==
    ASSUME NEW D, NEW w \in [D -> Int], NEW T \in SUBSET D, IsFiniteSet(T),
           NEW c, \A s \in SUBSET T : s # {} => c[s] \in s
    PROVE  \E g : IsFold(g, w, c, T)
<1> DEFINE f == [s \in SUBSET T |-> SumOf(w, s)]
<1>1. ASSUME NEW s \in SUBSET T
      PROVE  SumOf(w, s) = IF s = {} THEN 0 ELSE w[c[s]] + f[s \ {c[s]}]
  <2>1. IsFiniteSet(s) /\ s \in SUBSET D
      BY FS_Subset
  <2>2. s = {} => SumOf(w, s) = 0
      BY <2>1, SumUnfolds
  <2>3. s # {} => SumOf(w, s) = w[c[s]] + SumOf(w, s \ {c[s]})
      BY <2>1, SumRemoves
  <2> QED BY <2>2, <2>3
<1>2. f = [s \in SUBSET T |-> IF s = {} THEN 0 ELSE w[c[s]] + f[s \ {c[s]}]]
    BY <1>1
<1> QED BY <1>2 DEF IsFold

\* A sum depends on the weights of its elements only.
LEMMA SumSame ==
    ASSUME NEW w, NEW v, NEW T, \A x \in T : w[x] = v[x]
    PROVE  SumOf(w, T) = SumOf(v, T)
<1>1. \A s \in SUBSET T : s # {} => w[Pick(s)] = v[Pick(s)]
    BY PickIsIn
<1>2. Sums(w, T) = Sums(v, T)
    BY <1>1 DEF Sums
<1> QED BY <1>2 DEF SumOf

\* The sum of the community modules is this one.
LEMMA LibrarySum ==
    ASSUME NEW D, NEW w \in [D -> Int], NEW T \in SUBSET D, IsFiniteSet(T)
    PROVE  SumFunctionOnSet(w, T) = SumOf(w, T)
<1> DEFINE next(s) == CHOOSE x \in s : TRUE
           c == [s \in SUBSET T |-> next(s)]
           step(g) == [s \in SUBSET T |-> IF s = {} THEN 0 ELSE w[next(s)] + g[s \ {next(s)}]]
           iter == CHOOSE g : g = step(g)
<1>1. SumFunctionOnSet(w, T) = iter[T]
    BY DEF SumFunctionOnSet, FoldFunctionOnSet, MapThenFoldSet
<1>2. \A s \in SUBSET T : s # {} => next(s) \in s
    OBVIOUS
<1> HIDE DEF next
<1>3. \A s \in SUBSET T : c[s] = next(s)
    OBVIOUS
<1>4. \A s \in SUBSET T : s # {} => c[s] \in s
    BY <1>2, <1>3
<1> HIDE DEF c
<1>5. ASSUME NEW g
      PROVE  step(g) = [s \in SUBSET T |-> IF s = {} THEN 0 ELSE w[c[s]] + g[s \ {c[s]}]]
    BY <1>3
<1>6. PICK g0 : IsFold(g0, w, c, T)
    BY <1>4, FoldExists
<1> HIDE DEF step
<1>7. g0 = step(g0)
    BY <1>5, <1>6 DEF IsFold
<1>8. iter = step(iter)
    BY <1>7
<1> HIDE DEF iter
<1>9. iter = [s \in SUBSET T |-> IF s = {} THEN 0 ELSE w[c[s]] + iter[s \ {c[s]}]]
    BY <1>5, <1>8
<1>10. ASSUME NEW s \in SUBSET T
       PROVE  iter[s] = IF s = {} THEN 0 ELSE w[c[s]] + iter[s \ {c[s]}]
  <2> DEFINE v(r) == IF r = {} THEN 0 ELSE w[c[r]] + iter[r \ {c[r]}]
             f == [r \in SUBSET T |-> v(r)]
  <2>1. iter = f
      BY <1>9
  <2> HIDE DEF v
  <2>2. f[s] = v(s)
      OBVIOUS
  <2> HIDE DEF f
  <2> QED BY <2>1, <2>2 DEF v
<1>11. iter[T] = SumOf(w, T)
    BY <1>4, <1>10, FoldIsSum
<1> QED BY <1>1, <1>11

\* Sums of natural numbers are natural numbers.
LEMMA SumIsNat ==
    ASSUME NEW D, NEW w \in [D -> Nat], NEW T \in SUBSET D, IsFiniteSet(T)
    PROVE  SumOf(w, T) \in Nat
<1> DEFINE bad == {u \in SUBSET T : SumOf(w, u) \notin Nat}
<1> SUFFICES ASSUME bad # {} PROVE FALSE
    OBVIOUS
<1>0. w \in [D -> Int]
    OBVIOUS
<1>1. \A u \in SUBSET T : IsFiniteSet(u)
    BY FS_Subset
<1>2. PICK u \in bad : \A v \in bad : Cardinality(u) <= Cardinality(v)
    BY <1>1, Smallest
<1>3. u # {}
    BY <1>0, <1>1, SumUnfolds
<1>4. PICK x \in u : TRUE
    BY <1>3
<1>5. /\ Cardinality(u \ {x}) < Cardinality(u)
      /\ Cardinality(u \ {x}) \in Nat /\ Cardinality(u) \in Nat
    BY <1>1, <1>4, Without
<1>6. u \ {x} \notin bad
    BY <1>2, <1>5
<1>7. SumOf(w, u \ {x}) \in Nat
    BY <1>6
<1>8. SumOf(w, u) = w[x] + SumOf(w, u \ {x})
    BY <1>0, <1>1, <1>4, SumRemoves
<1>9. w[x] \in Nat
    BY <1>4
<1> QED BY <1>7, <1>8, <1>9

\* A sum over a part of another, each of whose weights is at most its image's,
\* is at most the other.
LEMMA SumInjects ==
    ASSUME NEW C, NEW D, NEW w \in [C -> Nat], NEW v \in [D -> Nat],
           NEW T \in SUBSET C, NEW U \in SUBSET D, IsFiniteSet(T), IsFiniteSet(U),
           NEW m, \A x \in T : m[x] \in U /\ w[x] <= v[m[x]],
           \A x, y \in T : m[x] = m[y] => x = y
    PROVE  SumOf(w, T) <= SumOf(v, U)
<1> DEFINE bad == {t \in SUBSET T :
                     \E u \in SUBSET U : (\A x \in t : m[x] \in u) /\ ~(SumOf(w, t) <= SumOf(v, u))}
<1> SUFFICES ASSUME bad # {} PROVE FALSE
    OBVIOUS
<1>0. w \in [C -> Int] /\ v \in [D -> Int]
    OBVIOUS
<1>1. \A t \in SUBSET T : IsFiniteSet(t) /\ SumOf(w, t) \in Nat
    BY FS_Subset, SumIsNat
<1>2. \A u \in SUBSET U : IsFiniteSet(u) /\ SumOf(v, u) \in Nat
    BY FS_Subset, SumIsNat
<1>3. PICK t \in bad : \A s \in bad : Cardinality(t) <= Cardinality(s)
    BY <1>1, Smallest
<1>4. PICK u \in SUBSET U : (\A x \in t : m[x] \in u) /\ ~(SumOf(w, t) <= SumOf(v, u))
    BY <1>3
<1>5. t # {}
  <2>1. ASSUME t = {} PROVE SumOf(w, t) = 0
      BY <1>0, <1>1, <2>1, SumUnfolds
  <2> QED BY <1>2, <1>4, <2>1
<1>6. PICK x \in t : TRUE
    BY <1>5
<1>7. /\ Cardinality(t \ {x}) < Cardinality(t)
      /\ Cardinality(t \ {x}) \in Nat /\ Cardinality(t) \in Nat
    BY <1>1, <1>6, Without
<1>8. t \ {x} \notin bad
    BY <1>3, <1>7
<1>9. \A y \in t \ {x} : m[y] \in u \ {m[x]}
    BY <1>4, <1>6
<1>10. SumOf(w, t \ {x}) <= SumOf(v, u \ {m[x]})
    BY <1>8, <1>9
<1>11. SumOf(w, t) = w[x] + SumOf(w, t \ {x})
    BY <1>0, <1>1, <1>6, SumRemoves
<1>12. SumOf(v, u) = v[m[x]] + SumOf(v, u \ {m[x]})
    BY <1>0, <1>2, <1>4, <1>6, SumRemoves
<1>13. w[x] \in Nat /\ v[m[x]] \in Nat /\ w[x] <= v[m[x]]
    BY <1>4, <1>6
<1>14. SumOf(w, t \ {x}) \in Nat /\ SumOf(v, u \ {m[x]}) \in Nat
    BY <1>1, <1>2
<1> QED BY <1>4, <1>10, <1>11, <1>12, <1>13, <1>14

\* A set that maps one to one into a finite one is no larger.
LEMMA CountInjects ==
    ASSUME NEW T, NEW U, IsFiniteSet(U), NEW m, \A x \in T : m[x] \in U,
           \A x, y \in T : m[x] = m[y] => x = y
    PROVE  /\ IsFiniteSet(T) /\ Cardinality(T) \in Nat /\ Cardinality(U) \in Nat
           /\ Cardinality(T) <= Cardinality(U)
<1> DEFINE f == [x \in T |-> m[x]]
<1>1. f \in Injection(T, U)
    BY DEF Injection, IsInjective
<1>2. IsFiniteSet(T) /\ Cardinality(T) <= Cardinality(U)
    BY <1>1, FS_Injection
<1> QED BY <1>2, FS_CardinalityType
Steps(g, N, base, F) == g[0] = base /\ \A n \in 1 .. N : g[n] = F[<<n, g[n - 1]>>]

\* A function that goes on step by step exists.
LEMMA StepsExist ==
    ASSUME NEW N \in Nat, NEW V, NEW base \in V, NEW F \in [(1 .. N) \X V -> V]
    PROVE  \E g \in [0 .. N -> V] : Steps(g, N, base, F)
<1> USE DEF Steps
<1> DEFINE Upto(m, g) == g \in [0 .. m -> V] /\ Steps(g, m, base, F)
           bad == {m \in 0 .. N : ~\E g : Upto(m, g)}
<1>0. ASSUME bad = {} PROVE \E g \in [0 .. N -> V] : Steps(g, N, base, F)
  <2>1. N \in 0 .. N
      OBVIOUS
  <2>2. \E g : Upto(N, g)
      BY <1>0, <2>1
  <2> QED BY <2>2
<1> SUFFICES ASSUME bad # {} PROVE FALSE
    BY <1>0
<1>1. PICK m \in bad : \A k \in bad : m <= k
  <2>1. bad \subseteq Nat
      OBVIOUS
  <2> HIDE DEF bad
  <2> QED BY <2>1, LeastOf
<1>2. m \in 0 .. N /\ ~\E g : Upto(m, g)
    BY <1>1
<1>3. m # 0
  <2> DEFINE g == [n \in 0 .. 0 |-> base]
  <2>1. Upto(0, g)
      OBVIOUS
  <2> HIDE DEF Upto, g
  <2> QED BY <1>2, <2>1
<1>4. m - 1 \in 0 .. N /\ m - 1 < m /\ m \in 1 .. N
    BY <1>2, <1>3
<1>5. m - 1 \notin bad
  <2> HIDE DEF bad
  <2>1. m - 1 \in bad => m <= m - 1
      BY <1>1
  <2> QED BY <1>4, <2>1
<1>6. PICK h : Upto(m - 1, h)
    BY <1>4, <1>5
<1> DEFINE new == F[<<m, h[m - 1]>>]
           g == [n \in 0 .. m |-> IF n = m THEN new ELSE h[n]]
<1>7. h[m - 1] \in V /\ new \in V
  <2>1. m - 1 \in 0 .. m - 1
      BY <1>4
  <2>2. h[m - 1] \in V
      BY <1>6, <2>1
  <2> QED BY <1>4, <2>2
<1>8. \A n \in 0 .. m - 1 : h[n] \in V /\ g[n] = h[n]
    BY <1>4, <1>6
<1>9. g \in [0 .. m -> V] /\ g[0] = base /\ g[m] = new
  <2>1. 0 \in 0 .. m - 1 /\ m \in 0 .. m
      BY <1>4
  <2>2. \A n \in 0 .. m : n # m => n \in 0 .. m - 1
      BY <1>4
  <2>3. g[0] = base
      BY <1>6, <1>8, <2>1
  <2>4. g[m] = new
      BY <2>1
  <2> HIDE DEF new
  <2> QED BY <1>7, <1>8, <2>2, <2>3, <2>4
<1> HIDE DEF g
<1>10. ASSUME NEW n \in 1 .. m PROVE g[n] = F[<<n, g[n - 1]>>]
  <2>1. CASE n = m
    <3>1. g[m - 1] = h[m - 1]
        BY <1>4, <1>8
    <3> QED BY <1>9, <2>1, <3>1
  <2>2. CASE n # m
    <3>1. n \in 1 .. m - 1 /\ n \in 0 .. m - 1 /\ n - 1 \in 0 .. m - 1
        BY <1>4, <2>2
    <3>2. g[n] = h[n] /\ g[n - 1] = h[n - 1]
        BY <1>8, <3>1
    <3>3. h[n] = F[<<n, h[n - 1]>>]
        BY <1>6, <3>1
    <3> QED BY <3>2, <3>3
  <2> QED BY <2>1, <2>2
<1>11. Upto(m, g)
    BY <1>9, <1>10
<1> HIDE DEF Upto
<1> QED BY <1>2, <1>11

-----------------------------------------------------------------------------
(* Orders.                                                                  *)

\* A strict order in which any two members compare, as a set of pairs.
StrictOrder(S, R) ==
    /\ \A x \in S : <<x, x>> \notin R
    /\ \A x, y, z \in S : <<x, y>> \in R /\ <<y, z>> \in R => <<x, z>> \in R
    /\ \A x, y \in S : x = y \/ <<x, y>> \in R \/ <<y, x>> \in R
AheadOf(S, R, i) == {j \in S : <<j, i>> \in R}

\* In an order, each member has a place of its own.
LEMMA PlacesDiffer ==
    ASSUME NEW S, IsFiniteSet(S), NEW R, StrictOrder(S, R)
    PROVE  /\ Cardinality(S) \in Nat
           /\ \A i \in S : Cardinality(AheadOf(S, R, i)) \in 0 .. Cardinality(S) - 1
           /\ \A i, j \in S : <<i, j>> \in R =>
                Cardinality(AheadOf(S, R, i)) < Cardinality(AheadOf(S, R, j))
<1>1. \A i \in S : /\ AheadOf(S, R, i) \subseteq S /\ i \notin AheadOf(S, R, i)
    BY DEF StrictOrder, AheadOf
<1>2. \A i \in S : IsFiniteSet(AheadOf(S, R, i)) /\ Cardinality(AheadOf(S, R, i)) \in Nat
    BY <1>1, FS_Subset, FS_CardinalityType
<1>3. Cardinality(S) \in Nat
    BY FS_CardinalityType
<1>4. ASSUME NEW i \in S PROVE Cardinality(AheadOf(S, R, i)) < Cardinality(S)
  <2>1. Cardinality(AheadOf(S, R, i)) <= Cardinality(S)
      BY <1>1, FS_Subset
  <2>2. Cardinality(S) = Cardinality(AheadOf(S, R, i)) => S = AheadOf(S, R, i)
      BY <1>1, FS_Subset
  <2>3. Cardinality(S) # Cardinality(AheadOf(S, R, i))
      BY <1>1, <2>2
  <2> QED BY <1>2, <1>3, <2>1, <2>3
<1>5. ASSUME NEW i \in S, NEW j \in S, <<i, j>> \in R
      PROVE  Cardinality(AheadOf(S, R, i)) < Cardinality(AheadOf(S, R, j))
  <2>1. AheadOf(S, R, i) \subseteq AheadOf(S, R, j) /\ i \in AheadOf(S, R, j) /\ i \notin AheadOf(S, R, i)
      BY <1>1, <1>5 DEF StrictOrder, AheadOf
  <2>2. /\ Cardinality(AheadOf(S, R, i)) <= Cardinality(AheadOf(S, R, j))
        /\ Cardinality(AheadOf(S, R, j)) = Cardinality(AheadOf(S, R, i)) => AheadOf(S, R, j) = AheadOf(S, R, i)
      BY <1>2, <2>1, FS_Subset
  <2>3. Cardinality(AheadOf(S, R, i)) # Cardinality(AheadOf(S, R, j))
      BY <2>1, <2>2
  <2> QED BY <1>2, <2>2, <2>3
<1> QED BY <1>2, <1>3, <1>4, <1>5

\* so each place is a number.
LEMMA PlacesAreCounts ==
    ASSUME NEW S, IsFiniteSet(S), NEW R, StrictOrder(S, R), NEW i \in S
    PROVE  Cardinality(AheadOf(S, R, i)) \in Nat
<1>1. AheadOf(S, R, i) \subseteq S
    BY DEF AheadOf
<1> QED BY <1>1, FS_Subset, FS_CardinalityType

\* The places are those from the first to the last, each taken once.
LEMMA PlacesAreTaken ==
    ASSUME NEW S, IsFiniteSet(S), NEW R, StrictOrder(S, R)
    PROVE  /\ \A n \in 1 .. Cardinality(S) : \E i \in S : Cardinality(AheadOf(S, R, i)) = n - 1
           /\ \A i, j \in S : Cardinality(AheadOf(S, R, i)) = Cardinality(AheadOf(S, R, j)) => i = j
<1> DEFINE N == Cardinality(S)
           f == [i \in S |-> Cardinality(AheadOf(S, R, i)) + 1]
<1>1. /\ N \in Nat
      /\ \A i \in S : Cardinality(AheadOf(S, R, i)) \in 0 .. N - 1
    BY PlacesDiffer
<1>2. ASSUME NEW i \in S, NEW j \in S, Cardinality(AheadOf(S, R, i)) = Cardinality(AheadOf(S, R, j))
      PROVE  i = j
  <2>1. i = j \/ <<i, j>> \in R \/ <<j, i>> \in R
      BY DEF StrictOrder
  <2>2. Cardinality(AheadOf(S, R, i)) \in Nat
      BY <1>1
  <2>3. <<i, j>> \notin R /\ <<j, i>> \notin R
      BY <1>2, <2>2, PlacesDiffer
  <2> QED BY <2>1, <2>3
<1>3. f \in Injection(S, 1 .. N)
  <2>1. f \in [S -> 1 .. N]
      BY <1>1
  <2>2. \A i, j \in S : f[i] = f[j] => i = j
      BY <1>1, <1>2
  <2> HIDE DEF f
  <2> QED BY <2>1, <2>2 DEF Injection, IsInjective
<1>4. IsFiniteSet(1 .. N) /\ Cardinality(1 .. N) = N
    BY <1>1, FS_Interval
<1>5. f \in Surjection(S, 1 .. N)
  <2> HIDE DEF f
  <2> QED BY <1>3, <1>4, FS_Injection
<1>6. ASSUME NEW n \in 1 .. N PROVE \E i \in S : Cardinality(AheadOf(S, R, i)) = n - 1
  <2>1. PICK i \in S : f[i] = n
    <3> HIDE DEF f
    <3> QED BY <1>5 DEF Surjection
  <2>2. Cardinality(AheadOf(S, R, i)) + 1 = n
      BY <2>1
  <2> QED BY <1>1, <2>2
<1> QED BY <1>2, <1>6

\* Somebody comes first.
LEMMA SomebodyIsFirst ==
    ASSUME NEW S, IsFiniteSet(S), S # {}, NEW R, StrictOrder(S, R)
    PROVE  \E i \in S : AheadOf(S, R, i) = {}
<1>1. Cardinality(S) \in Nat \ {0}
    BY FS_EmptySet, FS_CardinalityType
<1>2. 1 \in 1 .. Cardinality(S)
    BY <1>1
<1>3. PICK i \in S : Cardinality(AheadOf(S, R, i)) = 1 - 1
    BY <1>2, PlacesAreTaken
<1>4. IsFiniteSet(AheadOf(S, R, i))
    BY FS_Subset DEF AheadOf
<1> QED BY <1>3, <1>4, FS_EmptySet

\* What a function gives for a finite set is finite.
LEMMA ImageIsFinite ==
    ASSUME NEW S, IsFiniteSet(S), NEW f, DOMAIN f = S
    PROVE  IsFiniteSet({f[i] : i \in S})
<1> DEFINE T == {f[i] : i \in S}
<1>1. f = [i \in S |-> f[i]] => f \in Surjection(S, T)
    BY DEF Surjection
<1>2. [i \in S |-> f[i]] \in Surjection(S, T)
  <2>1. \A i \in S : f[i] \in T
      OBVIOUS
  <2>2. [i \in S |-> f[i]] \in [S -> T]
      BY <2>1
  <2>3. \A t \in T : \E i \in S : [k \in S |-> f[k]][i] = t
      OBVIOUS
  <2> QED BY <2>2, <2>3 DEF Surjection
<1> HIDE DEF T
<1>3. IsFiniteSet(T)
    BY <1>2, FS_Surjection
<1> QED BY <1>3 DEF T

\* A bijection takes every member to one of its own.
LEMMA BijectionIs ==
    ASSUME NEW S, NEW T, NEW p \in Bijection(S, T)
    PROVE  /\ \A i \in S : p[i] \in T
           /\ \A i, h \in S : p[i] = p[h] => i = h
           /\ \A k \in T : \E i \in S : p[i] = k
    BY DEF Bijection, Injection, Surjection, IsInjective

\* What corresponds under a bijection is equally many.
LEMMA CountSame ==
    ASSUME NEW S, NEW T, IsFiniteSet(S), NEW p \in Bijection(S, T),
           NEW U \in SUBSET S, NEW V \in SUBSET T, \A i \in S : i \in U <=> p[i] \in V
    PROVE  Cardinality(U) = Cardinality(V) /\ IsFiniteSet(V)
<1> DEFINE q == [i \in U |-> p[i]]
<1>1. /\ \A i \in S : p[i] \in T
      /\ \A i, h \in S : p[i] = p[h] => i = h
      /\ \A k \in T : \E i \in S : p[i] = k
    BY DEF Bijection, Injection, Surjection, IsInjective
<1>2. q \in [U -> V]
    BY <1>1
<1>3. \A i, h \in U : q[i] = q[h] => i = h
    BY <1>1
<1>4. \A k \in V : \E i \in U : q[i] = k
    BY <1>1
<1> HIDE DEF q
<1>5. q \in Bijection(U, V)
    BY <1>2, <1>3, <1>4 DEF Bijection, Injection, Surjection, IsInjective
<1>6. IsFiniteSet(U)
    BY FS_Subset
<1>7. ExistsBijection(U, V)
    BY <1>5 DEF ExistsBijection
<1> QED BY <1>6, <1>7, FS_Bijection

\* Numbers by their size.
Earlier(S) == {x \in S \X S : x[1] < x[2]}

LEMMA EarlierIsStrict ==
    ASSUME NEW S, S \subseteq Nat
    PROVE  StrictOrder(S, Earlier(S))
<1>1. \A x, y \in S : <<x, y>> \in Earlier(S) <=> x < y
    BY DEF Earlier
<1>2. \A x, y, z \in S : x < y /\ y < z => x < z
    OBVIOUS
<1>3. \A x, y \in S : x = y \/ x < y \/ y < x
    OBVIOUS
<1>4. \A x \in S : ~(x < x)
    OBVIOUS
<1> QED BY <1>1, <1>2, <1>3, <1>4 DEF StrictOrder
=============================================================================
