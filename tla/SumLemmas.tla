------------------------------- MODULE SumLemmas -------------------------------
(***************************************************************************)
(* What SumFunctionOnSet of the module Functions computes: a sum over a    *)
(* finite set, in whatever order.  Induction is on the members of a given  *)
(* set, from the well-foundedness of the naturals, so that nothing has to  *)
(* be instantiated with an operator.                                       *)
(***************************************************************************)
EXTENDS FiniteSetTheorems, TLAPS

-------------------------------------------------------------------------------
(* Induction *)

\* Among naturals there is a least one.
LEMMA LeastOne ==
    ASSUME NEW T, T \subseteq Nat, T # {}
    PROVE  \E x \in T : \A y \in T : x =< y
<1>. DEFINE R == OpToRel(<, Nat)
<1>1. IsWellFoundedOn(R, Nat)
  BY NatLessThanWellFounded
<1>2. \A x, y \in Nat : <<x, y>> \in R <=> x < y
  BY DEF OpToRel
<1>. HIDE DEF R
<1>3. \E x \in T : \A y \in T : ~(<<y, x>> \in R)
  BY <1>1, WFMin
<1>4. ASSUME NEW x \in T, \A y \in T : ~(<<y, x>> \in R), NEW y \in T
      PROVE  x =< y
  <2>1. x \in Nat /\ y \in Nat /\ ~(y < x)
    BY <1>2, <1>4
  <2>. QED  BY <2>1
<1>. QED  BY <1>3, <1>4

\* What holds of 0 and of every next number holds of all.
LEMMA NumberInduction ==
    ASSUME NEW Good, 0 \in Good, \A n \in Nat : n \in Good => n + 1 \in Good
    PROVE  Nat \subseteq Good
<1>. SUFFICES ASSUME Nat \ Good # {}
              PROVE  FALSE
  OBVIOUS
<1>1. PICK m \in Nat \ Good : \A n \in Nat \ Good : m =< n
  BY LeastOne
<1>2. m - 1 \in Nat /\ ~(m =< m - 1)
  BY <1>1
<1>3. m - 1 \in Good
  BY <1>1, <1>2
<1>. QED  BY <1>1, <1>2, <1>3

\* What holds of the empty set, and of a set if of all that lack one element of it,
\* holds of a finite set.
LEMMA SubsetInduction ==
    ASSUME NEW S, IsFiniteSet(S), NEW Good, {} \in Good,
           \A T \in SUBSET S : T # {} /\ (\A x \in T : T \ {x} \in Good) => T \in Good
    PROVE  S \in Good
<1>. DEFINE Bad == {T \in SUBSET S : T \notin Good}
            Sizes == {Cardinality(T) : T \in Bad}
<1>1. SUFFICES ASSUME Bad # {}
               PROVE  FALSE
  OBVIOUS
<1>2. \A T \in SUBSET S : IsFiniteSet(T) /\ Cardinality(T) \in Nat
  BY FS_Subset, FS_CardinalityType
<1>3. Sizes \subseteq Nat /\ Sizes # {}
  BY <1>1, <1>2
<1>4. PICK n \in Sizes : \A m \in Sizes : n =< m
  BY <1>3, LeastOne
<1>5. PICK T \in Bad : Cardinality(T) = n
  BY <1>4
<1>6. PICK x \in T : T \ {x} \notin Good
  BY <1>5
<1>7. /\ T \ {x} \in SUBSET S
      /\ Cardinality(T \ {x}) = Cardinality(T) - 1
  BY <1>2, <1>5, <1>6, FS_RemoveElement
<1>8. T \ {x} \in Bad
  BY <1>5, <1>6, <1>7
<1>9. Cardinality(T \ {x}) \in Sizes
  BY <1>8
<1>10. n \in Nat /\ n =< Cardinality(T \ {x})
  BY <1>3, <1>4, <1>9
<1>11. Cardinality(T \ {x}) = n - 1
  BY <1>5, <1>7
<1>. QED  BY <1>10, <1>11

-------------------------------------------------------------------------------
(* The table the fold is defined by *)

AnyOf(s) == CHOOSE x \in s : TRUE

\* g is a table of the sums of f over the sets of D.
IsTable(f, g, D) == g = [s \in D |-> IF s = {} THEN 0 ELSE f[AnyOf(s)] + g[s \ {AnyOf(s)}]]

LEMMA SumIsInTable ==
    ASSUME NEW f, NEW S
    PROVE  SumFunctionOnSet(f, S) = (CHOOSE g : IsTable(f, g, SUBSET S))[S]
  BY DEF SumFunctionOnSet, FoldFunctionOnSet, MapThenFoldSet, IsTable, AnyOf

LEMMA TableExists ==
    ASSUME NEW f, NEW S, IsFiniteSet(S)
    PROVE  \E g : IsTable(f, g, SUBSET S)
<1>. DEFINE Small(n) == {s \in SUBSET S : Cardinality(s) =< n}
            Good == {n \in Nat : \E g : IsTable(f, g, Small(n))}
<1>1. \A s \in SUBSET S : IsFiniteSet(s) /\ Cardinality(s) \in Nat /\ Cardinality(s) =< Cardinality(S)
  BY FS_Subset, FS_CardinalityType
<1>2. 0 \in Good
  <2>. DEFINE g == [s \in Small(0) |-> 0]
  <2>1. \A s \in Small(0) : s = {}
    BY <1>1, FS_EmptySet
  <2>2. IsTable(f, g, Small(0))
    BY <2>1 DEF IsTable
  <2>. QED  BY <2>2
<1>3. ASSUME NEW n \in Nat, n \in Good
      PROVE  n + 1 \in Good
  <2>1. PICK g : IsTable(f, g, Small(n))
    BY <1>3
  <2>. DEFINE h == [s \in Small(n + 1) |-> IF s = {} THEN 0 ELSE f[AnyOf(s)] + g[s \ {AnyOf(s)}]]
  <2>2. ASSUME NEW s \in Small(n + 1), s # {}
        PROVE  /\ s \ {AnyOf(s)} \in Small(n)
               /\ s \ {AnyOf(s)} \in Small(n + 1)
    <3>1. AnyOf(s) \in s
      BY <2>2 DEF AnyOf
    <3>2. Cardinality(s \ {AnyOf(s)}) = Cardinality(s) - 1
      BY <1>1, <3>1, FS_RemoveElement
    <3>3. s \ {AnyOf(s)} \in SUBSET S /\ Cardinality(s) =< n + 1
      BY <2>2
    <3>. QED  BY <1>1, <2>2, <3>2, <3>3
  <2>3. ASSUME NEW s \in Small(n)
        PROVE  h[s] = g[s]
    <3>1. s \in Small(n + 1)
      BY <1>1
    <3>. QED  BY <2>1, <3>1 DEF IsTable
  <2>4. IsTable(f, h, Small(n + 1))
    <3>1. \A s \in Small(n + 1) : s # {} => h[s \ {AnyOf(s)}] = g[s \ {AnyOf(s)}]
      BY <2>2, <2>3
    <3>. HIDE DEF Small
    <3>. QED  BY <3>1 DEF IsTable
  <2>. HIDE DEF h, Small
  <2>. QED  BY <2>4
<1>4. Cardinality(S) \in Good
  <2>. HIDE DEF Good
  <2>. QED  BY <1>1, <1>2, <1>3, NumberInduction
<1>5. Small(Cardinality(S)) = SUBSET S
  BY <1>1
<1>. QED  BY <1>4, <1>5

\* Tables agree on what they both hold.
LEMMA TablesAgree ==
    ASSUME NEW f, NEW S, NEW T \in SUBSET S, IsFiniteSet(T), NEW g, NEW h,
           IsTable(f, g, SUBSET S), IsTable(f, h, SUBSET T)
    PROVE  g[T] = h[T]
<1>. DEFINE Good == {U \in SUBSET T : \A V \in SUBSET U : g[V] = h[V]}
<1>1. {} \in Good
  BY DEF IsTable
<1>2. ASSUME NEW U \in SUBSET T, \A x \in U : U \ {x} \in Good
      PROVE  U \in Good
  <2>. SUFFICES ASSUME NEW V \in SUBSET U
                PROVE  g[V] = h[V]
    OBVIOUS
  <2>1. CASE V = {}
    BY <1>1, <2>1
  <2>2. CASE V # U
    <3>1. PICK x \in U : x \notin V
      BY <2>2
    <3>2. V \in SUBSET (U \ {x})
      BY <3>1
    <3>. QED  BY <1>2, <3>1, <3>2
  <2>3. CASE V = U /\ V # {}
    <3>1. AnyOf(V) \in V
      BY <2>3 DEF AnyOf
    <3>2. g[V \ {AnyOf(V)}] = h[V \ {AnyOf(V)}]
      BY <1>2, <2>3, <3>1
    <3>3. g[V] = f[AnyOf(V)] + g[V \ {AnyOf(V)}] /\ h[V] = f[AnyOf(V)] + h[V \ {AnyOf(V)}]
      BY <2>3 DEF IsTable
    <3>. QED  BY <3>2, <3>3
  <2>. QED  BY <2>1, <2>2, <2>3
<1>3. T \in Good
  <2>. HIDE DEF Good
  <2>. QED  BY <1>1, <1>2, SubsetInduction
<1>. QED  BY <1>3

\* The sum takes any element and leaves the sum of the others; first the one the
\* fold picks.
LEMMA SumPicks ==
    ASSUME NEW f, NEW S, IsFiniteSet(S), S # {}
    PROVE  SumFunctionOnSet(f, S) = f[AnyOf(S)] + SumFunctionOnSet(f, S \ {AnyOf(S)})
<1>. DEFINE T == S \ {AnyOf(S)}
            g == CHOOSE g : IsTable(f, g, SUBSET S)
            h == CHOOSE h : IsTable(f, h, SUBSET T)
<1>1. T \in SUBSET S /\ IsFiniteSet(T)
  BY FS_Subset
<1>2. IsTable(f, g, SUBSET S)
  BY TableExists
<1>3. IsTable(f, h, SUBSET T)
  BY <1>1, TableExists
<1>4. SumFunctionOnSet(f, S) = g[S] /\ SumFunctionOnSet(f, T) = h[T]
  BY SumIsInTable
<1>5. g[S] = f[AnyOf(S)] + g[T]
  BY <1>2 DEF IsTable
<1>. HIDE DEF g, h
<1>6. g[T] = h[T]
  BY <1>1, <1>2, <1>3, TablesAgree
<1>. QED  BY <1>4, <1>5, <1>6

LEMMA SumEmpty ==
    ASSUME NEW f
    PROVE  SumFunctionOnSet(f, {}) = 0
<1>. DEFINE g == CHOOSE g : IsTable(f, g, SUBSET {})
<1>1. IsTable(f, g, SUBSET {})
  BY TableExists, FS_EmptySet
<1>2. SumFunctionOnSet(f, {}) = g[{}]
  BY SumIsInTable
<1>. HIDE DEF g
<1>. QED  BY <1>1, <1>2 DEF IsTable

LEMMA SumInt ==
    ASSUME NEW S, IsFiniteSet(S), NEW f, \A x \in S : f[x] \in Int
    PROVE  SumFunctionOnSet(f, S) \in Int
<1>. DEFINE Good == {T \in SUBSET S : SumFunctionOnSet(f, T) \in Int}
<1>1. {} \in Good
  BY SumEmpty
<1>2. ASSUME NEW T \in SUBSET S, T # {}, \A x \in T : T \ {x} \in Good
      PROVE  T \in Good
  <2>1. AnyOf(T) \in T
    BY <1>2 DEF AnyOf
  <2>2. SumFunctionOnSet(f, T) = f[AnyOf(T)] + SumFunctionOnSet(f, T \ {AnyOf(T)})
    BY <1>2, FS_Subset, SumPicks
  <2>. QED  BY <1>2, <2>1, <2>2
<1>3. S \in Good
  <2>. HIDE DEF Good
  <2>. QED  BY <1>1, <1>2, SubsetInduction
<1>. QED  BY <1>3

LEMMA SumRemove ==
    ASSUME NEW S, IsFiniteSet(S), NEW f, \A x \in S : f[x] \in Int, NEW x \in S
    PROVE  SumFunctionOnSet(f, S) = f[x] + SumFunctionOnSet(f, S \ {x})
<1>. DEFINE Sum(T) == SumFunctionOnSet(f, T)
            Good == {T \in SUBSET S : \A y \in T : Sum(T) = f[y] + Sum(T \ {y})}
<1>1. {} \in Good
  OBVIOUS
<1>2. ASSUME NEW T \in SUBSET S, T # {}, \A y \in T : T \ {y} \in Good
      PROVE  T \in Good
  <2>. SUFFICES ASSUME NEW y \in T
                PROVE  Sum(T) = f[y] + Sum(T \ {y})
    OBVIOUS
  <2>. DEFINE c == AnyOf(T)
  <2>1. c \in T
    BY DEF AnyOf
  <2>2. IsFiniteSet(T) /\ IsFiniteSet(T \ {y}) /\ IsFiniteSet((T \ {y}) \ {c})
    BY FS_Subset
  <2>3. Sum(T) = f[c] + Sum(T \ {c})
    BY <2>2, SumPicks
  <2>. HIDE DEF c
  <2>4. CASE y = c
    BY <2>3, <2>4
  <2>5. CASE y # c
    <3>. DEFINE rest == Sum((T \ {y}) \ {c})
    <3>1. (T \ {c}) \ {y} = (T \ {y}) \ {c}
      OBVIOUS
    <3>2. Sum(T \ {c}) = f[y] + rest
      BY <1>2, <2>1, <2>5, <3>1
    <3>3. Sum(T \ {y}) = f[c] + rest
      BY <1>2, <2>1, <2>5
    <3>4. rest \in Int /\ f[c] \in Int /\ f[y] \in Int
      BY <2>1, <2>2, SumInt
    <3>. HIDE DEF Sum, rest
    <3>. QED  BY <2>3, <3>2, <3>3, <3>4
  <2>. QED  BY <2>4, <2>5
<1>3. S \in Good
  <2>. HIDE DEF Good
  <2>. QED  BY <1>1, <1>2, SubsetInduction
<1>. QED  BY <1>3

LEMMA SumAdd ==
    ASSUME NEW S, IsFiniteSet(S), NEW x, x \notin S, NEW f, \A y \in S \cup {x} : f[y] \in Int
    PROVE  SumFunctionOnSet(f, S \cup {x}) = SumFunctionOnSet(f, S) + f[x]
<1>1. IsFiniteSet(S \cup {x}) /\ (S \cup {x}) \ {x} = S
  BY FS_AddElement
<1>2. SumFunctionOnSet(f, S \cup {x}) = f[x] + SumFunctionOnSet(f, S)
  BY <1>1, SumRemove
<1>3. SumFunctionOnSet(f, S) \in Int /\ f[x] \in Int
  BY SumInt
<1>. QED  BY <1>2, <1>3

\* Only the terms of the set count.
LEMMA SumSame ==
    ASSUME NEW S, IsFiniteSet(S), NEW f, NEW g, \A x \in S : f[x] = g[x]
    PROVE  SumFunctionOnSet(f, S) = SumFunctionOnSet(g, S)
<1>. DEFINE Good == {T \in SUBSET S : SumFunctionOnSet(f, T) = SumFunctionOnSet(g, T)}
<1>1. {} \in Good
  BY SumEmpty
<1>2. ASSUME NEW T \in SUBSET S, T # {}, \A x \in T : T \ {x} \in Good
      PROVE  T \in Good
  <2>1. AnyOf(T) \in T
    BY <1>2 DEF AnyOf
  <2>2. IsFiniteSet(T)
    BY FS_Subset
  <2>3. /\ SumFunctionOnSet(f, T) = f[AnyOf(T)] + SumFunctionOnSet(f, T \ {AnyOf(T)})
        /\ SumFunctionOnSet(g, T) = g[AnyOf(T)] + SumFunctionOnSet(g, T \ {AnyOf(T)})
    BY <1>2, <2>2, SumPicks
  <2>. QED  BY <1>2, <2>1, <2>3
<1>3. S \in Good
  <2>. HIDE DEF Good
  <2>. QED  BY <1>1, <1>2, SubsetInduction
<1>. QED  BY <1>3

LEMMA SumNat ==
    ASSUME NEW S, IsFiniteSet(S), NEW f, \A x \in S : f[x] \in Nat
    PROVE  SumFunctionOnSet(f, S) \in Nat
<1>. DEFINE Good == {T \in SUBSET S : SumFunctionOnSet(f, T) \in Nat}
<1>1. {} \in Good
  BY SumEmpty
<1>2. ASSUME NEW T \in SUBSET S, T # {}, \A x \in T : T \ {x} \in Good
      PROVE  T \in Good
  <2>1. AnyOf(T) \in T
    BY <1>2 DEF AnyOf
  <2>2. SumFunctionOnSet(f, T) = f[AnyOf(T)] + SumFunctionOnSet(f, T \ {AnyOf(T)})
    BY <1>2, FS_Subset, SumPicks
  <2>. QED  BY <1>2, <2>1, <2>2
<1>3. S \in Good
  <2>. HIDE DEF Good
  <2>. QED  BY <1>1, <1>2, SubsetInduction
<1>. QED  BY <1>3

\* A sum whose terms are all nought is nought.
LEMMA SumZero ==
    ASSUME NEW S, IsFiniteSet(S), NEW f, \A x \in S : f[x] = 0
    PROVE  SumFunctionOnSet(f, S) = 0
<1>. DEFINE Good == {T \in SUBSET S : SumFunctionOnSet(f, T) = 0}
<1>1. {} \in Good
  BY SumEmpty
<1>2. ASSUME NEW T \in SUBSET S, T # {}, \A x \in T : T \ {x} \in Good
      PROVE  T \in Good
  <2>1. AnyOf(T) \in T
    BY <1>2 DEF AnyOf
  <2>2. SumFunctionOnSet(f, T) = f[AnyOf(T)] + SumFunctionOnSet(f, T \ {AnyOf(T)})
    BY <1>2, FS_Subset, SumPicks
  <2>. QED  BY <1>2, <2>1, <2>2
<1>3. S \in Good
  <2>. HIDE DEF Good
  <2>. QED  BY <1>1, <1>2, SubsetInduction
<1>. QED  BY <1>3

\* A sum of what is taken is what a sum of what is given lacks.
LEMMA SumNegated ==
    ASSUME NEW S, IsFiniteSet(S), NEW f, \A x \in S : f[x] \in Int,
           NEW g, \A x \in S : g[x] = -f[x]
    PROVE  SumFunctionOnSet(g, S) = -SumFunctionOnSet(f, S)
<1>. DEFINE Good == {T \in SUBSET S : SumFunctionOnSet(g, T) = -SumFunctionOnSet(f, T)}
<1>1. {} \in Good
  BY SumEmpty
<1>2. ASSUME NEW T \in SUBSET S, T # {}, \A x \in T : T \ {x} \in Good
      PROVE  T \in Good
  <2>. DEFINE c == AnyOf(T)
              rest == SumFunctionOnSet(f, T \ {c})
  <2>1. c \in T /\ f[c] \in Int /\ g[c] = -f[c]
    BY <1>2 DEF AnyOf
  <2>2. IsFiniteSet(T) /\ IsFiniteSet(T \ {c})
    BY FS_Subset
  <2>3. /\ SumFunctionOnSet(f, T) = f[c] + rest
        /\ SumFunctionOnSet(g, T) = g[c] + SumFunctionOnSet(g, T \ {c})
    BY <1>2, <2>2, SumPicks
  <2>4. rest \in Int
    BY <2>2, SumInt
  <2>5. SumFunctionOnSet(g, T \ {c}) = -rest
    BY <1>2, <2>1
  <2>. HIDE DEF c, rest
  <2>. QED  BY <2>1, <2>3, <2>4, <2>5
<1>3. S \in Good
  <2>. HIDE DEF Good
  <2>. QED  BY <1>1, <1>2, SubsetInduction
<1>. QED  BY <1>3

\* With terms that are not negative, more terms are not less.
LEMMA SumMonotone ==
    ASSUME NEW T, IsFiniteSet(T), NEW S \in SUBSET T, NEW f, \A x \in T : f[x] \in Nat
    PROVE  SumFunctionOnSet(f, S) =< SumFunctionOnSet(f, T)
<1>. DEFINE Good == {U \in SUBSET T : SumFunctionOnSet(f, S \cap U) =< SumFunctionOnSet(f, U)}
<1>1. {} \in Good
  <2>1. S \cap {} = {}
    OBVIOUS
  <2>. QED  BY <2>1, SumEmpty
<1>2. ASSUME NEW U \in SUBSET T, U # {}, \A x \in U : U \ {x} \in Good
      PROVE  U \in Good
  <2>1. PICK x \in U : TRUE
    BY <1>2
  <2>. DEFINE lower == SumFunctionOnSet(f, S \cap (U \ {x}))
              upper == SumFunctionOnSet(f, U \ {x})
  <2>2. IsFiniteSet(U) /\ IsFiniteSet(S \cap U) /\ IsFiniteSet(U \ {x}) /\ IsFiniteSet(S \cap (U \ {x}))
    BY FS_Subset
  <2>3. lower \in Nat /\ upper \in Nat /\ f[x] \in Nat /\ lower =< upper
    BY <1>2, <2>1, <2>2, SumNat
  <2>4. SumFunctionOnSet(f, U) = f[x] + upper
    BY <2>1, <2>2, SumRemove
  <2>5. SumFunctionOnSet(f, S \cap U) \in {lower, f[x] + lower}
    <3>1. CASE x \in S
      <4>1. (S \cap U) \ {x} = S \cap (U \ {x})
        OBVIOUS
      <4>2. SumFunctionOnSet(f, S \cap U) = f[x] + SumFunctionOnSet(f, (S \cap U) \ {x})
        BY <2>1, <2>2, <3>1, SumRemove
      <4>. QED  BY <4>1, <4>2
    <3>2. CASE x \notin S
      <4>1. S \cap U = S \cap (U \ {x})
        BY <3>2
      <4>. QED  BY <4>1
    <3>. QED  BY <3>1, <3>2
  <2>. HIDE DEF lower, upper
  <2>. QED  BY <2>3, <2>4, <2>5
<1>3. T \in Good
  <2>. HIDE DEF Good
  <2>. QED  BY <1>1, <1>2, SubsetInduction
<1>4. S \cap T = S
  OBVIOUS
<1>. QED  BY <1>3, <1>4

\* A sum may be split over two sets without a common member.
LEMMA SumSplit ==
    ASSUME NEW S, IsFiniteSet(S), NEW T, IsFiniteSet(T), S \cap T = {},
           NEW f, \A x \in S \cup T : f[x] \in Int
    PROVE  SumFunctionOnSet(f, S \cup T) = SumFunctionOnSet(f, S) + SumFunctionOnSet(f, T)
<1>. DEFINE Sum(U) == SumFunctionOnSet(f, U)
            Good == {U \in SUBSET T : Sum(S \cup U) = Sum(S) + Sum(U)}
<1>1. {} \in Good
  <2>1. S \cup {} = S
    OBVIOUS
  <2>2. Sum(S) \in Int
    BY SumInt
  <2>. QED  BY <2>1, <2>2, SumEmpty
<1>2. ASSUME NEW U \in SUBSET T, U # {}, \A x \in U : U \ {x} \in Good
      PROVE  U \in Good
  <2>1. PICK x \in U : TRUE
    BY <1>2
  <2>2. IsFiniteSet(U) /\ IsFiniteSet(S \cup U) /\ IsFiniteSet(U \ {x})
    BY FS_Subset, FS_Union
  <2>3. (S \cup U) \ {x} = S \cup (U \ {x})
    BY <2>1
  <2>4. Sum(S \cup U) = f[x] + Sum(S \cup (U \ {x})) /\ Sum(U) = f[x] + Sum(U \ {x})
    BY <2>1, <2>2, <2>3, SumRemove
  <2>5. Sum(S \cup (U \ {x})) = Sum(S) + Sum(U \ {x})
    BY <1>2, <2>1
  <2>6. f[x] \in Int /\ Sum(S) \in Int /\ Sum(U \ {x}) \in Int
    BY <2>1, <2>2, SumInt
  <2>. HIDE DEF Sum
  <2>. QED  BY <2>4, <2>5, <2>6
<1>3. T \in Good
  <2>. HIDE DEF Good
  <2>. QED  BY <1>1, <1>2, SubsetInduction
<1>. QED  BY <1>3

-------------------------------------------------------------------------------
(* Sums over the places of a sequence *)

LEMMA SumNext ==
    ASSUME NEW n \in Nat, NEW f, \A i \in 1..n + 1 : f[i] \in Int
    PROVE  SumFunctionOnSet(f, 1..n + 1) = SumFunctionOnSet(f, 1..n) + f[n + 1]
<1>. DEFINE S == 1..n
            x == n + 1
<1>1. IsFiniteSet(S)
  BY FS_Interval
<1>2. x \notin S /\ 1..x = S \cup {x}
  OBVIOUS
<1>3. \A i \in S \cup {x} : f[i] \in Int
  BY <1>2
<1>4. SumFunctionOnSet(f, S \cup {x}) = SumFunctionOnSet(f, S) + f[x]
  <2>. HIDE DEF S, x
  <2>. QED  BY <1>1, <1>2, <1>3, SumAdd
<1>. QED  BY <1>2, <1>4

\* A sum goes on where another one ended.
LEMMA SumConcat ==
    ASSUME NEW m \in Nat, NEW n \in Nat, NEW f, \A i \in 1..m + n : f[i] \in Int,
           NEW g, \A i \in 1..n : g[i] = f[m + i]
    PROVE  SumFunctionOnSet(f, 1..m + n) = SumFunctionOnSet(f, 1..m) + SumFunctionOnSet(g, 1..n)
<1>. DEFINE Sum(h, k) == SumFunctionOnSet(h, 1..k)
            Good == {k \in Nat : k =< n => Sum(f, m + k) = Sum(f, m) + Sum(g, k)}
<1>1. \A k \in 0..n : /\ IsFiniteSet(1..m + k) /\ IsFiniteSet(1..k)
                      /\ \A i \in 1..k : g[i] \in Int
                      /\ \A i \in 1..m + k : f[i] \in Int
  <2>. SUFFICES ASSUME NEW k \in 0..n
                PROVE  /\ IsFiniteSet(1..m + k) /\ IsFiniteSet(1..k)
                       /\ \A i \in 1..k : g[i] \in Int
                       /\ \A i \in 1..m + k : f[i] \in Int
    OBVIOUS
  <2>1. 1 \in Int /\ k \in Int /\ m + k \in Int
    OBVIOUS
  <2>2. IsFiniteSet(1..m + k) /\ IsFiniteSet(1..k)
    BY <2>1, FS_Interval
  <2>3. \A i \in 1..m + k : i \in 1..m + n
    OBVIOUS
  <2>4. \A i \in 1..k : i \in 1..n /\ m + i \in 1..m + n
    OBVIOUS
  <2>. QED  BY <2>2, <2>3, <2>4
<1>2. \A k \in 0..n : Sum(f, m + k) \in Int /\ Sum(g, k) \in Int
  BY <1>1, SumInt
<1>3. 0 \in Good
  <2>1. 1..0 = {} /\ m + 0 = m
    OBVIOUS
  <2>2. Sum(g, 0) = 0 /\ Sum(f, m) \in Int
    BY <1>2, <2>1, SumEmpty
  <2>. HIDE DEF Sum
  <2>. QED  BY <2>1, <2>2
<1>4. ASSUME NEW k \in Nat, k \in Good
      PROVE  k + 1 \in Good
  <2>. SUFFICES ASSUME k + 1 =< n
                PROVE  Sum(f, m + (k + 1)) = Sum(f, m) + Sum(g, k + 1)
    OBVIOUS
  <2>1. k \in 0..n /\ k + 1 \in 0..n /\ 0 \in 0..n /\ m + (k + 1) = (m + k) + 1 /\ m + k \in Nat /\ m + 0 = m
    OBVIOUS
  <2>2. Sum(f, (m + k) + 1) = Sum(f, m + k) + f[(m + k) + 1]
    BY <1>1, <2>1, SumNext
  <2>3. Sum(g, k + 1) = Sum(g, k) + g[k + 1]
    BY <1>1, <2>1, SumNext
  <2>4. g[k + 1] = f[(m + k) + 1] /\ g[k + 1] \in Int
    BY <1>1, <2>1
  <2>5. Sum(f, m + k) = Sum(f, m) + Sum(g, k)
    BY <1>4, <2>1
  <2>6. Sum(f, m) \in Int /\ Sum(g, k) \in Int
    BY <1>2, <2>1
  <2>. HIDE DEF Sum
  <2>. QED  BY <2>1, <2>2, <2>3, <2>4, <2>5, <2>6
<1>5. n \in Good
  <2>. HIDE DEF Good
  <2>. QED  BY <1>3, <1>4, NumberInduction
<1>. QED  BY <1>5

===============================================================================
