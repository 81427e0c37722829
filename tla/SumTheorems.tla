----------------------------- MODULE SumTheorems -----------------------------
(***************************************************************************)
(* What the sums of the community modules compute: SumFunctionOnSet(f, S)  *)
(* adds f[x] over the elements x of a finite set S, in whatever order its  *)
(* CHOOSE takes them.  The fold is defined by a table over the subsets of  *)
(* S; that there is such a table, and what it holds, follows from the      *)
(* least number principle.                                                 *)
(***************************************************************************)
EXTENDS Integers, FiniteSets, Functions, FiniteSetTheorems, WellFoundedInduction, TLAPS

\* The element a fold takes next.
Pick(s) == CHOOSE x \in s : TRUE

\* g is the table of the sums of f over the sets in T.
IsTable(g, f, T) ==
  g = [s \in T |-> IF s = {} THEN 0 ELSE f[Pick(s)] + g[s \ {Pick(s)}]]

-----------------------------------------------------------------------------
\* A set of numbers that is not empty has a least one.
LEMMA LeastNumber ==
  ASSUME NEW T \in SUBSET Nat, T # {}
  PROVE  \E m \in T : \A k \in T : m <= k
<1>1. \E m \in T : \A k \in T : ~ (<<k, m>> \in OpToRel(<, Nat))
  BY WFMin, NatLessThanWellFounded
<1>2. PICK m \in T : \A k \in T : ~ (<<k, m>> \in OpToRel(<, Nat))
  BY <1>1
<1>3. \A k \in T : ~ (k < m)
  BY <1>2 DEF OpToRel
<1> QED
  BY <1>3

\* A set of numbers up to a bound has a largest one, unless it is empty.
LEMMA LargestNumber ==
  ASSUME NEW n \in Nat, NEW s \in SUBSET (1 .. n), s # {}
  PROVE  \E x \in s : \A y \in s : x >= y
<1> DEFINE B == {k \in Nat : \E x \in s : k = n - x}
<1>1. \A x \in s : x \in Nat /\ n - x \in Nat
  OBVIOUS
<1>2. B # {} /\ B \in SUBSET Nat
  BY <1>1
<1> HIDE DEF B
<1>3. PICK m \in B : \A k \in B : m <= k
  BY <1>2, LeastNumber
<1>4. PICK x \in s : m = n - x
  BY <1>3 DEF B
<1>5. \A y \in s : x >= y
  <2> TAKE y \in s
  <2>1. n - y \in B
    BY <1>1 DEF B
  <2>2. n - x <= n - y
    BY <1>3, <1>4, <2>1
  <2> QED
    BY <1>1, <2>2
<1> QED
  BY <1>5

\* A family of finite sets that is not empty has one with none of the others
\* in it: how an induction over finite sets is written here.
LEMMA SmallestSet ==
  ASSUME NEW S, IsFiniteSet(S), NEW B \in SUBSET (SUBSET S), B # {}
  PROVE  \E s \in B : \A x \in s : s \ {x} \notin B
<1> DEFINE Sizes == {k \in Nat : \E s \in B : k = Cardinality(s)}
<1>1. \A s \in B : IsFiniteSet(s) /\ Cardinality(s) \in Nat
  BY FS_Subset, FS_CardinalityType
<1>2. Sizes # {}
  BY <1>1
<1>3. PICK m \in Sizes : \A k \in Sizes : m <= k
  BY <1>2, LeastNumber
<1>4. PICK s \in B : m = Cardinality(s)
  BY <1>3
<1>5. ASSUME NEW x \in s PROVE s \ {x} \notin B
  <2>1. Cardinality(s \ {x}) = Cardinality(s) - 1
    BY <1>1, FS_RemoveElement
  <2>2. ~ (m <= Cardinality(s \ {x}))
    BY <1>1, <1>4, <2>1
  <2> QED
    BY <1>1, <1>3, <2>2
<1> QED
  BY <1>5

\* What the fold is by its definition.
LEMMA SumIsTable ==
  ASSUME NEW f, NEW S
  PROVE  SumFunctionOnSet(f, S) = (CHOOSE g : IsTable(g, f, SUBSET S))[S]
BY DEF SumFunctionOnSet, FoldFunctionOnSet, MapThenFoldSet, IsTable, Pick

\* There is a table over all the subsets of a finite set.
LEMMA TableExists ==
  ASSUME NEW f, NEW S, IsFiniteSet(S)
  PROVE  \E g : IsTable(g, f, SUBSET S)
<1> DEFINE UpTo(k) == {s \in SUBSET S : Cardinality(s) <= k}
           HasTable(k) == \E g : IsTable(g, f, UpTo(k))
           Bad == {k \in Nat : ~ HasTable(k)}
<1>1. \A s \in SUBSET S : IsFiniteSet(s) /\ Cardinality(s) \in Nat
  BY FS_Subset, FS_CardinalityType
<1>2. SUFFICES Bad = {}
  <2>1. Cardinality(S) \in Nat /\ UpTo(Cardinality(S)) = SUBSET S
    BY <1>1, FS_Subset
  <2> QED
    BY <1>2, <2>1
<1>3. SUFFICES ASSUME NEW m \in Bad, \A k \in Bad : m <= k
               PROVE  FALSE
  BY LeastNumber
<1>4. \A s \in SUBSET S : s # {} => Pick(s) \in s
  BY DEF Pick
<1>5. CASE m = 0
  <2> DEFINE g == [s \in UpTo(0) |-> 0]
  <2>1. \A s \in UpTo(0) : s = {}
    BY <1>1, FS_EmptySet
  <2>2. IsTable(g, f, UpTo(0))
    BY <2>1 DEF IsTable
  <2> QED
    BY <1>5, <2>2
<1>6. CASE m # 0
  <2> HIDE DEF Bad
  <2>1. m \in Nat /\ m - 1 \in Nat /\ m - 1 \notin Bad
    <3>1. m \in Nat
      BY <1>3 DEF Bad
    <3> QED
      BY <1>3, <1>6, <3>1
  <2>2. PICK h : IsTable(h, f, UpTo(m - 1))
    BY <2>1 DEF Bad
  <2> DEFINE Next(s) == IF s = {} THEN 0 ELSE f[Pick(s)] + h[s \ {Pick(s)}]
  <2>3. PICK g : g = [s \in UpTo(m) |-> Next(s)]
    OBVIOUS
  <2>4. ASSUME NEW s \in UpTo(m), s # {}
        PROVE  s \ {Pick(s)} \in UpTo(m - 1) /\ s \ {Pick(s)} \in UpTo(m)
    <3>1. Cardinality(s \ {Pick(s)}) = Cardinality(s) - 1
      BY <1>1, <1>4, <2>4, FS_RemoveElement
    <3> QED
      BY <1>1, <2>1, <3>1
  <2>5. \A s \in UpTo(m - 1) : s \in UpTo(m) /\ h[s] = Next(s)
    <3>1. \A s \in UpTo(m - 1) : s \in UpTo(m)
      BY <1>1, <2>1
    <3> HIDE DEF UpTo
    <3>2. \A s \in UpTo(m - 1) : h[s] = Next(s)
      BY <2>2 DEF IsTable
    <3> QED
      BY <3>1, <3>2
  <2> HIDE DEF UpTo
  <2>6. \A s \in UpTo(m) : s # {} => g[s \ {Pick(s)}] = h[s \ {Pick(s)}]
    BY <2>3, <2>4, <2>5
  <2> DEFINE Same(s) == IF s = {} THEN 0 ELSE f[Pick(s)] + g[s \ {Pick(s)}]
  <2>7. \A s \in UpTo(m) : Next(s) = Same(s)
    BY <2>6
  <2> HIDE DEF Next, Same
  <2>8. g = [s \in UpTo(m) |-> Same(s)]
    BY <2>3, <2>7
  <2>9. IsTable(g, f, UpTo(m))
    BY <2>8, Zenon DEF IsTable, Same
  <2> QED
    BY <1>3, <2>9 DEF Bad
<1> QED
  BY <1>5, <1>6

\* Tables over a set and over a part of it agree on the part.
LEMMA TablesAgree ==
  ASSUME NEW f, NEW R, IsFiniteSet(R), NEW S \in SUBSET R, NEW g, NEW h,
         IsTable(g, f, SUBSET S), IsTable(h, f, SUBSET R)
  PROVE  g[S] = h[S]
<1> DEFINE Bad == {s \in SUBSET S : g[s] # h[s]}
<1>1. SUFFICES Bad = {}
  BY <1>1
<1>2. SUFFICES ASSUME NEW s \in Bad, \A x \in s : s \ {x} \notin Bad PROVE FALSE
  BY SmallestSet, FS_Subset
<1>3. /\ g[s] = IF s = {} THEN 0 ELSE f[Pick(s)] + g[s \ {Pick(s)}]
      /\ h[s] = IF s = {} THEN 0 ELSE f[Pick(s)] + h[s \ {Pick(s)}]
  BY DEF IsTable
<1>4. CASE s = {}
  BY <1>3, <1>4
<1>5. CASE s # {}
  <2>1. Pick(s) \in s
    BY <1>5 DEF Pick
  <2> QED
    BY <1>2, <1>3, <1>5, <2>1
<1> QED
  BY <1>4, <1>5

\* Nothing adds up to zero.
LEMMA SumEmpty ==
  ASSUME NEW f
  PROVE  SumFunctionOnSet(f, {}) = 0
<1>1. PICK g : IsTable(g, f, SUBSET {}) /\ SumFunctionOnSet(f, {}) = g[{}]
  BY TableExists, SumIsTable, FS_EmptySet
<1> QED
  BY <1>1 DEF IsTable

\* A sum is what the fold takes first and the sum of the others.
LEMMA SumUnfolds ==
  ASSUME NEW f, NEW S, IsFiniteSet(S), S # {}
  PROVE  SumFunctionOnSet(f, S) = f[Pick(S)] + SumFunctionOnSet(f, S \ {Pick(S)})
<1> DEFINE Less == S \ {Pick(S)}
<1>1. Pick(S) \in S /\ IsFiniteSet(Less)
  BY FS_Subset DEF Pick
<1>2. PICK g : IsTable(g, f, SUBSET S) /\ SumFunctionOnSet(f, S) = g[S]
  BY TableExists, SumIsTable
<1>3. PICK h : IsTable(h, f, SUBSET Less) /\ SumFunctionOnSet(f, Less) = h[Less]
  BY <1>1, TableExists, SumIsTable
<1>4. h[Less] = g[Less]
  <2>1. Less \in SUBSET S
    OBVIOUS
  <2> HIDE DEF Less
  <2> QED
    BY <1>2, <1>3, <2>1, TablesAgree
<1>5. g[S] = f[Pick(S)] + g[Less]
  BY <1>2 DEF IsTable
<1> QED
  BY <1>2, <1>3, <1>4, <1>5

-----------------------------------------------------------------------------
\* A sum of natural numbers is one.
LEMMA SumNat ==
  ASSUME NEW S, IsFiniteSet(S), NEW f, \A x \in S : f[x] \in Nat
  PROVE  SumFunctionOnSet(f, S) \in Nat
<1> DEFINE Bad == {s \in SUBSET S : SumFunctionOnSet(f, s) \notin Nat}
<1>1. SUFFICES ASSUME NEW s \in Bad, \A x \in s : s \ {x} \notin Bad PROVE FALSE
  BY SmallestSet
<1>2. s \in SUBSET S /\ IsFiniteSet(s) /\ SumFunctionOnSet(f, s) \notin Nat
  BY FS_Subset
<1>3. CASE s = {}
  BY <1>2, <1>3, SumEmpty
<1>4. CASE s # {}
  <2>1. Pick(s) \in s
    BY <1>4 DEF Pick
  <2>2. SumFunctionOnSet(f, s \ {Pick(s)}) \in Nat
    BY <1>1, <1>2, <2>1
  <2>3. SumFunctionOnSet(f, s) = f[Pick(s)] + SumFunctionOnSet(f, s \ {Pick(s)})
    BY <1>2, <1>4, SumUnfolds
  <2>4. f[Pick(s)] \in Nat
    BY <1>2, <2>1
  <2> QED
    BY <1>2, <2>2, <2>3, <2>4
<1> QED
  BY <1>3, <1>4

\* Any element may be taken first.
LEMMA SumTake ==
  ASSUME NEW S, IsFiniteSet(S), NEW f, \A y \in S : f[y] \in Nat, NEW x \in S
  PROVE  SumFunctionOnSet(f, S) = f[x] + SumFunctionOnSet(f, S \ {x})
<1> DEFINE Sum(s) == SumFunctionOnSet(f, s)
           Good(s) == \A y \in s : Sum(s) = f[y] + Sum(s \ {y})
           Bad == {s \in SUBSET S : ~ Good(s)}
<1>1. \A s \in SUBSET S : IsFiniteSet(s) /\ Sum(s) \in Nat
  BY FS_Subset, SumNat
<1>2. \A s \in SUBSET S : s # {} => Sum(s) = f[Pick(s)] + Sum(s \ {Pick(s)}) /\ Pick(s) \in s
  BY <1>1, SumUnfolds DEF Pick
<1> HIDE DEF Sum
<1>3. SUFFICES Bad = {}
  BY <1>3 DEF Sum
<1>4. SUFFICES ASSUME NEW s \in Bad, \A y \in s : s \ {y} \notin Bad PROVE FALSE
  BY SmallestSet
<1>5. PICK y \in s : Sum(s) # f[y] + Sum(s \ {y})
  OBVIOUS
<1> DEFINE c == Pick(s)
<1>6. c \in s /\ Sum(s) = f[c] + Sum(s \ {c}) /\ c # y
  BY <1>2, <1>5
<1>7. s \ {c} \in SUBSET S /\ s \ {y} \in SUBSET S /\ Good(s \ {c}) /\ Good(s \ {y})
  BY <1>4, <1>6
<1>8. /\ Sum(s \ {c}) = f[y] + Sum((s \ {c}) \ {y})
      /\ Sum(s \ {y}) = f[c] + Sum((s \ {y}) \ {c})
      /\ (s \ {c}) \ {y} = (s \ {y}) \ {c}
  BY <1>5, <1>6, <1>7
<1>9. Sum((s \ {y}) \ {c}) \in Nat /\ f[c] \in Nat /\ f[y] \in Nat
  BY <1>1, <1>6, <1>7
<1> HIDE DEF c
<1> QED
  BY <1>5, <1>6, <1>8, <1>9

\* Only the values on the set count.
LEMMA SumEqual ==
  ASSUME NEW S, IsFiniteSet(S), NEW f, NEW g, \A x \in S : f[x] = g[x]
  PROVE  SumFunctionOnSet(f, S) = SumFunctionOnSet(g, S)
<1> DEFINE Bad == {s \in SUBSET S : SumFunctionOnSet(f, s) # SumFunctionOnSet(g, s)}
<1>1. SUFFICES ASSUME NEW s \in Bad, \A x \in s : s \ {x} \notin Bad PROVE FALSE
  BY SmallestSet
<1>2. s \in SUBSET S /\ IsFiniteSet(s)
      /\ SumFunctionOnSet(f, s) # SumFunctionOnSet(g, s)
  BY FS_Subset
<1>3. CASE s = {}
  BY <1>2, <1>3, SumEmpty
<1>4. CASE s # {}
  <2>1. Pick(s) \in s
    BY <1>4 DEF Pick
  <2>2. SumFunctionOnSet(f, s \ {Pick(s)}) = SumFunctionOnSet(g, s \ {Pick(s)})
    BY <1>1, <1>2, <2>1
  <2>3. /\ SumFunctionOnSet(f, s) = f[Pick(s)] + SumFunctionOnSet(f, s \ {Pick(s)})
        /\ SumFunctionOnSet(g, s) = g[Pick(s)] + SumFunctionOnSet(g, s \ {Pick(s)})
    BY <1>2, <1>4, SumUnfolds
  <2>4. f[Pick(s)] = g[Pick(s)]
    BY <1>2, <2>1
  <2> QED
    BY <1>2, <2>2, <2>3, <2>4
<1> QED
  BY <1>3, <1>4

\* One value changes, and the sum by as much.
LEMMA SumChange ==
  ASSUME NEW S, IsFiniteSet(S), NEW f, NEW g, NEW x \in S,
         \A y \in S : f[y] \in Nat /\ g[y] \in Nat,
         \A y \in S \ {x} : f[y] = g[y]
  PROVE  /\ SumFunctionOnSet(g, S) + f[x] = SumFunctionOnSet(f, S) + g[x]
         /\ SumFunctionOnSet(f, S) \in Nat /\ SumFunctionOnSet(g, S) \in Nat
<1>1. IsFiniteSet(S \ {x}) /\ \A y \in S \ {x} : f[y] \in Nat
  BY FS_Subset
<1>2. /\ SumFunctionOnSet(f, S) = f[x] + SumFunctionOnSet(f, S \ {x})
      /\ SumFunctionOnSet(g, S) = g[x] + SumFunctionOnSet(g, S \ {x})
  BY SumTake
<1>3. SumFunctionOnSet(f, S \ {x}) = SumFunctionOnSet(g, S \ {x})
  BY <1>1, SumEqual
<1>4. SumFunctionOnSet(f, S \ {x}) \in Nat
  BY <1>1, SumNat
<1> QED
  BY <1>2, <1>3, <1>4

\* A sum of zeros.
LEMMA SumZero ==
  ASSUME NEW S, IsFiniteSet(S), NEW f, \A x \in S : f[x] = 0
  PROVE  SumFunctionOnSet(f, S) = 0
<1> DEFINE Bad == {s \in SUBSET S : SumFunctionOnSet(f, s) # 0}
<1>1. SUFFICES ASSUME NEW s \in Bad, \A x \in s : s \ {x} \notin Bad PROVE FALSE
  BY SmallestSet
<1>2. s \in SUBSET S /\ IsFiniteSet(s) /\ SumFunctionOnSet(f, s) # 0
  BY FS_Subset
<1>3. CASE s = {}
  BY <1>2, <1>3, SumEmpty
<1>4. CASE s # {}
  <2>1. Pick(s) \in s
    BY <1>4 DEF Pick
  <2>2. SumFunctionOnSet(f, s \ {Pick(s)}) = 0
    BY <1>1, <1>2, <2>1
  <2>3. SumFunctionOnSet(f, s) = f[Pick(s)] + SumFunctionOnSet(f, s \ {Pick(s)})
    BY <1>2, <1>4, SumUnfolds
  <2> QED
    BY <1>2, <2>1, <2>2, <2>3
<1> QED
  BY <1>3, <1>4

\* A sum of ones counts the elements.
LEMMA SumOnes ==
  ASSUME NEW S, IsFiniteSet(S), NEW f, \A x \in S : f[x] = 1
  PROVE  SumFunctionOnSet(f, S) = Cardinality(S)
<1> DEFINE Bad == {s \in SUBSET S : SumFunctionOnSet(f, s) # Cardinality(s)}
<1>1. SUFFICES ASSUME NEW s \in Bad, \A x \in s : s \ {x} \notin Bad PROVE FALSE
  BY SmallestSet
<1>2. s \in SUBSET S /\ IsFiniteSet(s) /\ SumFunctionOnSet(f, s) # Cardinality(s)
  BY FS_Subset
<1>3. CASE s = {}
  BY <1>2, <1>3, SumEmpty, FS_EmptySet
<1>4. CASE s # {}
  <2>1. Pick(s) \in s
    BY <1>4 DEF Pick
  <2>2. SumFunctionOnSet(f, s \ {Pick(s)}) = Cardinality(s \ {Pick(s)})
    BY <1>1, <1>2, <2>1
  <2>3. SumFunctionOnSet(f, s) = f[Pick(s)] + SumFunctionOnSet(f, s \ {Pick(s)})
    BY <1>2, <1>4, SumUnfolds
  <2>4. Cardinality(s \ {Pick(s)}) = Cardinality(s) - 1 /\ Cardinality(s) \in Nat
    BY <1>2, <2>1, FS_RemoveElement, FS_CardinalityType
  <2> QED
    BY <1>2, <2>1, <2>2, <2>3, <2>4
<1> QED
  BY <1>3, <1>4

\* A sum is at least the number of places that hold one or more.
LEMMA SumAtLeast ==
  ASSUME NEW S, IsFiniteSet(S), NEW f, NEW T \in SUBSET S,
         \A x \in S : f[x] \in Nat, \A x \in T : f[x] >= 1
  PROVE  SumFunctionOnSet(f, S) >= Cardinality(T)
<1> DEFINE Sum(s) == SumFunctionOnSet(f, s)
           Size(s) == Cardinality(T \cap s)
           Bad == {s \in SUBSET S : ~ (Sum(s) >= Size(s))}
<1>1. \A s \in SUBSET S : IsFiniteSet(s) /\ Sum(s) \in Nat
                          /\ IsFiniteSet(T \cap s) /\ Size(s) \in Nat
  BY FS_Subset, SumNat, FS_CardinalityType
<1>2. SUFFICES Bad = {}
  <2>1. S \in SUBSET S /\ T \cap S = T
    OBVIOUS
  <2> HIDE DEF Sum
  <2>2. Sum(S) >= Size(S)
    BY <1>2, <2>1
  <2> QED
    BY <2>1, <2>2 DEF Sum
<1>3. SUFFICES ASSUME NEW s \in Bad, \A x \in s : s \ {x} \notin Bad PROVE FALSE
  BY SmallestSet
<1>4. s \in SUBSET S /\ IsFiniteSet(s) /\ ~ (Sum(s) >= Size(s))
  BY <1>1
<1>5. CASE s = {}
  <2>1. Sum(s) = 0 /\ Size(s) = 0
    BY <1>5, SumEmpty, FS_EmptySet
  <2> QED
    BY <1>4, <2>1
<1>6. CASE s # {}
  <2> DEFINE c == Pick(s)
  <2>1. c \in s /\ Sum(s) = f[c] + Sum(s \ {c})
    BY <1>4, <1>6, SumUnfolds DEF Pick
  <2> HIDE DEF c, Sum, Size
  <2>2. s \ {c} \in SUBSET S /\ Sum(s \ {c}) >= Size(s \ {c})
    BY <1>3, <1>4, <2>1
  <2>3. Size(s) = IF c \in T THEN Size(s \ {c}) + 1 ELSE Size(s \ {c})
    <3>1. T \cap (s \ {c}) = (T \cap s) \ {c} /\ IsFiniteSet(T \cap s)
      BY <1>1, <1>4
    <3>2. c \notin T => (T \cap s) \ {c} = T \cap s
      OBVIOUS
    <3>3. c \in T => Cardinality((T \cap s) \ {c}) = Cardinality(T \cap s) - 1
      BY <2>1, <3>1, FS_RemoveElement
    <3> QED
      BY <1>1, <1>4, <3>1, <3>2, <3>3 DEF Size
  <2>4. f[c] \in Nat /\ (c \in T => f[c] >= 1)
    BY <1>4, <2>1
  <2>5. Size(s) \in Nat /\ Size(s \ {c}) \in Nat /\ Sum(s \ {c}) \in Nat
    BY <1>1, <1>4, <2>2
  <2>6. Sum(s) >= Size(s)
    BY <2>1, <2>2, <2>3, <2>4, <2>5
  <2> QED
    BY <1>4, <2>6
<1> QED
  BY <1>5, <1>6

\* A sum of numbers up to two is at most twice the number of places.
LEMMA SumOfTwos ==
  ASSUME NEW S, IsFiniteSet(S), NEW f, \A x \in S : f[x] \in Nat /\ f[x] <= 2
  PROVE  SumFunctionOnSet(f, S) <= 2 * Cardinality(S)
<1> DEFINE Bad == {s \in SUBSET S : ~ (SumFunctionOnSet(f, s) <= 2 * Cardinality(s))}
<1>1. SUFFICES ASSUME NEW s \in Bad, \A x \in s : s \ {x} \notin Bad PROVE FALSE
  BY SmallestSet
<1>2. s \in SUBSET S /\ IsFiniteSet(s) /\ ~ (SumFunctionOnSet(f, s) <= 2 * Cardinality(s))
  BY FS_Subset
<1>3. CASE s = {}
  <2>1. SumFunctionOnSet(f, s) = 0 /\ Cardinality(s) = 0
    BY <1>3, SumEmpty, FS_EmptySet
  <2> QED
    BY <1>2, <2>1
<1>4. CASE s # {}
  <2> DEFINE c == Pick(s)
  <2>1. c \in s /\ SumFunctionOnSet(f, s) = f[c] + SumFunctionOnSet(f, s \ {c})
    BY <1>2, <1>4, SumUnfolds DEF Pick
  <2> HIDE DEF c
  <2>2. SumFunctionOnSet(f, s \ {c}) <= 2 * Cardinality(s \ {c})
    BY <1>1, <1>2, <2>1
  <2>3. Cardinality(s \ {c}) = Cardinality(s) - 1 /\ Cardinality(s) \in Nat
    BY <1>2, <2>1, FS_RemoveElement, FS_CardinalityType
  <2>4. f[c] \in Nat /\ f[c] <= 2
    BY <1>2, <2>1
  <2>5. SumFunctionOnSet(f, s \ {c}) \in Nat
    <3>1. IsFiniteSet(s \ {c}) /\ \A x \in s \ {c} : f[x] \in Nat
      BY <1>2, <2>1, FS_RemoveElement
    <3> QED
      BY <3>1, SumNat
  <2> QED
    BY <1>2, <2>1, <2>2, <2>3, <2>4, <2>5
<1> QED
  BY <1>3, <1>4

\* What is zero outside a part of the set is summed over the part.
LEMMA SumPart ==
  ASSUME NEW S, IsFiniteSet(S), NEW f, NEW T \in SUBSET S,
         \A x \in S : f[x] \in Nat, \A x \in S \ T : f[x] = 0
  PROVE  SumFunctionOnSet(f, S) = SumFunctionOnSet(f, T)
<1> DEFINE Sum(s) == SumFunctionOnSet(f, s)
           Bad == {s \in SUBSET (S \ T) : Sum(T \cup s) # Sum(T)}
<1> HIDE DEF Sum
<1>1. SUFFICES Bad = {}
  <2>1. T \cup (S \ T) = S
    OBVIOUS
  <2>2. S \ T \notin Bad
    BY <1>1
  <2>3. Sum(S) = Sum(T)
    BY <2>1, <2>2
  <2> QED
    BY <2>3 DEF Sum
<1>2. SUFFICES ASSUME NEW s \in Bad, \A x \in s : s \ {x} \notin Bad PROVE FALSE
  BY SmallestSet, FS_Subset
<1>3. s \in SUBSET (S \ T) /\ Sum(T \cup s) # Sum(T)
  OBVIOUS
<1>4. s # {}
  BY <1>3
<1>5. PICK x : x \in s
  BY <1>4
<1>6. Sum(T \cup (s \ {x})) = Sum(T)
  BY <1>2, <1>3, <1>5
<1>7. /\ T \cup s \in SUBSET S /\ x \in T \cup s
      /\ (T \cup s) \ {x} = T \cup (s \ {x})
      /\ f[x] = 0
  BY <1>3, <1>5
<1>8. IsFiniteSet(T \cup s) /\ \A y \in T \cup s : f[y] \in Nat
  BY <1>7, FS_Subset
<1>9. Sum(T \cup s) = f[x] + Sum((T \cup s) \ {x})
  BY <1>7, <1>8, SumTake DEF Sum
<1>10. Sum(T) \in Nat
  BY FS_Subset, SumNat DEF Sum
<1> QED
  BY <1>3, <1>6, <1>7, <1>9, <1>10

\* The size of a union of sets that have nothing in common.
LEMMA SumDisjoint ==
  ASSUME NEW S, IsFiniteSet(S), NEW P, \A x \in S : IsFiniteSet(P[x]),
         \A x, y \in S : x # y => P[x] \cap P[y] = {}
  PROVE  SumFunctionOnSet([x \in S |-> Cardinality(P[x])], S)
           = Cardinality(UNION {P[x] : x \in S})
<1> DEFINE f == [x \in S |-> Cardinality(P[x])]
           U(s) == UNION {P[x] : x \in s}
           Adds(s) == IsFiniteSet(U(s)) /\ SumFunctionOnSet(f, s) = Cardinality(U(s))
           Bad == {s \in SUBSET S : ~ Adds(s)}
<1>1. \A x \in S : f[x] = Cardinality(P[x])
  OBVIOUS
<1> HIDE DEF f
<1>2. SUFFICES Bad = {}
  <2>1. S \in SUBSET S
    OBVIOUS
  <2> HIDE DEF Adds
  <2>2. Adds(S)
    BY <1>2, <2>1
  <2> QED
    BY <2>2 DEF Adds, f
<1>3. SUFFICES ASSUME NEW s \in Bad, \A x \in s : s \ {x} \notin Bad PROVE FALSE
  BY SmallestSet
<1>4. s \in SUBSET S /\ IsFiniteSet(s)
  BY FS_Subset
<1>5. CASE s = {}
  <2>1. U(s) = {}
    BY <1>5
  <2> QED
    BY <1>5, <2>1, SumEmpty, FS_EmptySet
<1>6. CASE s # {}
  <2> DEFINE c == Pick(s)
  <2>1. c \in s /\ SumFunctionOnSet(f, s) = f[c] + SumFunctionOnSet(f, s \ {c})
    BY <1>4, <1>6, SumUnfolds DEF Pick
  <2> HIDE DEF c
  <2>2. Adds(s \ {c})
    BY <1>3, <1>4, <2>1
  <2>3. U(s) = U(s \ {c}) \cup P[c] /\ U(s \ {c}) \cap P[c] = {}
    BY <1>4, <2>1
  <2>4. IsFiniteSet(P[c]) /\ f[c] = Cardinality(P[c]) /\ Cardinality(P[c]) \in Nat
    BY <1>1, <1>4, <2>1, FS_CardinalityType
  <2>5. IsFiniteSet(U(s \ {c})) /\ Cardinality(U(s \ {c})) \in Nat
    BY <2>2, FS_CardinalityType
  <2> HIDE DEF U
  <2>6. IsFiniteSet(U(s)) /\ Cardinality(U(s)) = Cardinality(U(s \ {c})) + Cardinality(P[c])
    <3> DEFINE A == U(s \ {c})
               B == P[c]
    <3>1. IsFiniteSet(A) /\ IsFiniteSet(B) /\ A \cap B = {} /\ U(s) = A \cup B
          /\ Cardinality(A) \in Nat /\ Cardinality(B) \in Nat
      BY <2>3, <2>4, <2>5
    <3> HIDE DEF A, B
    <3>2. /\ IsFiniteSet(A \cup B)
          /\ Cardinality(A \cup B) = Cardinality(A) + Cardinality(B) - Cardinality(A \cap B)
      BY <3>1, FS_Union
    <3>3. Cardinality(A \cap B) = 0
      BY <3>1, FS_EmptySet
    <3>4. Cardinality(A \cup B) = Cardinality(A) + Cardinality(B)
      BY <3>1, <3>2, <3>3
    <3> QED
      BY <3>1, <3>2, <3>4 DEF A, B
  <2>7. SumFunctionOnSet(f, s \ {c}) = Cardinality(U(s \ {c}))
    BY <2>2
  <2>8. Adds(s)
    BY <2>1, <2>4, <2>5, <2>6, <2>7
  <2> QED
    BY <2>8
<1> QED
  BY <1>5, <1>6
=============================================================================
