-------------------------- MODULE Collections_proofs --------------------------
(***************************************************************************)
(* Facts about sums over finite sets, filtered sequences and occurrences   *)
(* in a sequence, for the proofs about the components.                     *)
(*                                                                         *)
(* The library's sum is a recursive function on the subsets of a set.  The *)
(* inductions below argue from a least counterexample, a number: LeastOf.  *)
(***************************************************************************)
EXTENDS Collections, FiniteSetsExt, FiniteSetTheorems, SequenceTheorems,
        WellFoundedInduction, TLAPS

\* A set of natural numbers that is not empty has a least element.
LEMMA LeastOf ==
    ASSUME NEW T \in SUBSET Nat, T # {}
    PROVE  \E n \in T : \A m \in T : n <= m
<1> DEFINE Less == OpToRel(<, Nat)
<1>1. \E n \in T : \A m \in T : ~(<<m, n>> \in Less)
  BY WFMin, NatLessThanWellFounded
<1>2. \A m, n \in Nat : <<m, n>> \in Less <=> m < n
  BY DEF OpToRel
<1> HIDE DEF Less
<1>3. PICK n \in T : \A m \in T : ~(<<m, n>> \in Less)
  BY <1>1
<1>4. \A m \in T : ~(m < n)
  BY <1>2, <1>3
<1>5. \A m \in T : n <= m
  BY <1>4
<1>q. QED
  BY <1>5

--------------------------------------------------------------------------------
(* Sums of the values a function has on a finite set. *)

One(s) == CHOOSE x \in s : TRUE

\* The recursion of the library's sum, on the sets of the collection D.
SumsOver(f, D, g) ==
    g = [s \in D |-> IF s = {} THEN 0 ELSE f[One(s)] + g[s \ {One(s)}]]

UpTo(S, n) == {s \in SUBSET S : Cardinality(s) <= n}

\* An element taken from a finite set leaves one of one element less.
LEMMA TakeOne ==
    ASSUME NEW s, IsFiniteSet(s), s # {}
    PROVE  /\ One(s) \in s
           /\ IsFiniteSet(s \ {One(s)})
           /\ Cardinality(s) \in Nat \ {0}
           /\ Cardinality(s \ {One(s)}) = Cardinality(s) - 1
<1>1. One(s) \in s
  BY DEF One
<1>2. Cardinality(s) \in Nat /\ Cardinality(s) # 0
  BY FS_CardinalityType, FS_EmptySet
<1>q. QED
  BY <1>1, <1>2, FS_RemoveElement

\* The recursion has a solution on the subsets of a finite set.
LEMMA SumsExist ==
    ASSUME NEW f, NEW S, IsFiniteSet(S)
    PROVE  \E g : SumsOver(f, SUBSET S, g)
<1> DEFINE T == {n \in Nat : ~\E g : SumsOver(f, UpTo(S, n), g)}
<1>0. \A s \in SUBSET S : IsFiniteSet(s) /\ Cardinality(s) \in Nat
  BY FS_Subset, FS_CardinalityType
<1>1. T = {}
  <2> SUFFICES ASSUME T # {} PROVE FALSE
    OBVIOUS
  <2>1. PICK n \in T : \A m \in T : n <= m
    BY LeastOf
  <2>2. CASE n = 0
    <3> DEFINE g == [s \in UpTo(S, 0) |-> 0]
    <3>1. \A s \in UpTo(S, 0) : s = {}
      BY <1>0, FS_EmptySet DEF UpTo
    <3>2. SumsOver(f, UpTo(S, 0), g)
      BY <3>1 DEF SumsOver
    <3>q. QED
      BY <2>1, <2>2, <3>2
  <2>3. CASE n # 0
    <3>1. n - 1 \in Nat /\ n - 1 \notin T
      BY <2>1, <2>3
    <3>2. PICK h : SumsOver(f, UpTo(S, n - 1), h)
      BY <3>1
    <3> DEFINE g == [s \in UpTo(S, n) |->
                       IF s = {} THEN 0 ELSE f[One(s)] + h[s \ {One(s)}]]
    <3>3. \A s \in UpTo(S, n) : s # {} =>
             /\ s \ {One(s)} \in UpTo(S, n - 1) /\ s \ {One(s)} \in UpTo(S, n)
      BY <1>0, <2>1, TakeOne DEF UpTo
    <3>4. \A s \in UpTo(S, n - 1) : h[s] = IF s = {} THEN 0 ELSE f[One(s)] + h[s \ {One(s)}]
      BY <3>2 DEF SumsOver
    <3>5. \A s \in UpTo(S, n) : s # {} => g[s \ {One(s)}] = h[s \ {One(s)}]
      BY <3>3, <3>4
    <3>6. SumsOver(f, UpTo(S, n), g)
      BY <3>5 DEF SumsOver
    <3>q. QED
      BY <2>1, <3>6
  <2>q. QED
    BY <2>2, <2>3
<1>2. Cardinality(S) \in Nat /\ UpTo(S, Cardinality(S)) = SUBSET S
  BY FS_CardinalityType, FS_Subset DEF UpTo
<1>3. Cardinality(S) \notin T
  BY <1>1
<1>q. QED
  BY <1>2, <1>3

\* Two solutions agree on the sets that both are about.
LEMMA SumsAgree ==
    ASSUME NEW f, NEW S, NEW T, NEW g, NEW h,
           SumsOver(f, SUBSET S, g), SumsOver(f, SUBSET T, h),
           NEW s, s \subseteq S, s \subseteq T, IsFiniteSet(s)
    PROVE  g[s] = h[s]
<1> DEFINE Bad == {r \in SUBSET s : g[r] # h[r]}
           N == {Cardinality(r) : r \in Bad}
<1>0. \A r \in SUBSET s : IsFiniteSet(r) /\ Cardinality(r) \in Nat
  BY FS_Subset, FS_CardinalityType
<1>1. SUFFICES ASSUME Bad # {} PROVE FALSE
  OBVIOUS
<1>2. N \in SUBSET Nat /\ N # {}
  BY <1>0, <1>1
<1>3. PICK n \in N : \A m \in N : n <= m
  BY <1>2, LeastOf
<1>4. PICK r \in Bad : Cardinality(r) = n
  BY <1>3
<1>5. /\ r \in SUBSET S /\ r \in SUBSET T /\ r # {} => r \ {One(r)} \in SUBSET s
      /\ g[r] = IF r = {} THEN 0 ELSE f[One(r)] + g[r \ {One(r)}]
      /\ h[r] = IF r = {} THEN 0 ELSE f[One(r)] + h[r \ {One(r)}]
  BY <1>4 DEF SumsOver
<1>6. r # {} /\ g[r \ {One(r)}] # h[r \ {One(r)}]
  BY <1>4, <1>5
<1>7. r \ {One(r)} \in Bad
  BY <1>5, <1>6
<1>8. Cardinality(r \ {One(r)}) = Cardinality(r) - 1 /\ Cardinality(r) \in Nat
  BY <1>0, <1>4, <1>6, TakeOne
<1>q. QED
  BY <1>3, <1>4, <1>7, <1>8

\* The library's sum is the value of a solution.
LEMMA SumIsSolution ==
    ASSUME NEW f, NEW S, IsFiniteSet(S)
    PROVE  \E g : SumsOver(f, SUBSET S, g) /\ SumFunctionOnSet(f, S) = g[S]
<1> DEFINE it == CHOOSE g : SumsOver(f, SUBSET S, g)
<1>1. SumsOver(f, SUBSET S, it)
  BY SumsExist
<1>2. SumFunctionOnSet(f, S) = it[S]
  BY DEF SumFunctionOnSet, FoldFunctionOnSet, MapThenFoldSet, SumsOver, One
<1>q. QED
  BY <1>1, <1>2

\* The sum over no element, and the sum with one element taken out.
LEMMA SumEmpty == \A f : SumFunctionOnSet(f, {}) = 0
<1> SUFFICES ASSUME NEW f PROVE SumFunctionOnSet(f, {}) = 0
  OBVIOUS
<1>1. PICK g : SumsOver(f, SUBSET {}, g) /\ SumFunctionOnSet(f, {}) = g[{}]
  BY SumIsSolution, FS_EmptySet
<1>q. QED
  BY <1>1 DEF SumsOver

LEMMA SumTakeOne ==
    ASSUME NEW f, NEW S, IsFiniteSet(S), S # {}
    PROVE  SumFunctionOnSet(f, S) = f[One(S)] + SumFunctionOnSet(f, S \ {One(S)})
<1> DEFINE R == S \ {One(S)}
<1>1. IsFiniteSet(R) /\ R \subseteq S
  BY TakeOne
<1>2. PICK g : SumsOver(f, SUBSET S, g) /\ SumFunctionOnSet(f, S) = g[S]
  BY SumIsSolution
<1>3. PICK h : SumsOver(f, SUBSET R, h) /\ SumFunctionOnSet(f, R) = h[R]
  BY <1>1, SumIsSolution
<1>4. g[S] = f[One(S)] + g[R]
  BY <1>2 DEF SumsOver
<1> HIDE DEF R
<1>5. g[R] = h[R]
  BY <1>1, <1>2, <1>3, SumsAgree
<1>q. QED
  BY <1>2, <1>3, <1>4, <1>5 DEF R

\* The sum of natural numbers is one.
LEMMA SumType ==
    ASSUME NEW f, NEW S, IsFiniteSet(S), \A x \in S : f[x] \in Nat
    PROVE  SumFunctionOnSet(f, S) \in Nat
<1> DEFINE Bad == {r \in SUBSET S : SumFunctionOnSet(f, r) \notin Nat}
           N == {Cardinality(r) : r \in Bad}
<1>0. \A r \in SUBSET S : IsFiniteSet(r) /\ Cardinality(r) \in Nat
  BY FS_Subset, FS_CardinalityType
<1>1. SUFFICES ASSUME Bad # {} PROVE FALSE
  OBVIOUS
<1>2. N \in SUBSET Nat /\ N # {}
  BY <1>0, <1>1
<1>3. PICK n \in N : \A m \in N : n <= m
  BY <1>2, LeastOf
<1>4. PICK r \in Bad : Cardinality(r) = n
  BY <1>3
<1>5. r # {} /\ IsFiniteSet(r)
  BY <1>0, <1>4, SumEmpty
<1> DEFINE q == r \ {One(r)}
<1>6. /\ q \in SUBSET S /\ One(r) \in S /\ Cardinality(q) = n - 1 /\ n \in Nat
      /\ SumFunctionOnSet(f, r) = f[One(r)] + SumFunctionOnSet(f, q)
  BY <1>0, <1>4, <1>5, TakeOne, SumTakeOne
<1>7. q \notin Bad
  BY <1>3, <1>6
<1>8. SumFunctionOnSet(f, q) \in Nat
  BY <1>6, <1>7
<1>q. QED
  BY <1>4, <1>6, <1>8

\* A set of subsets of a finite set that lacks the empty set, and with a
\* subset has the one that is left without its chosen element, is empty.
LEMMA FiniteDescent ==
    ASSUME NEW S, IsFiniteSet(S), NEW Bad, Bad \subseteq SUBSET S, {} \notin Bad,
           \A r \in Bad : r # {} => r \ {One(r)} \in Bad
    PROVE  Bad = {}
<1> DEFINE N == {Cardinality(r) : r \in Bad}
<1>0. \A r \in Bad : IsFiniteSet(r) /\ Cardinality(r) \in Nat
  BY FS_Subset, FS_CardinalityType
<1>1. SUFFICES ASSUME Bad # {} PROVE FALSE
  OBVIOUS
<1>2. N \in SUBSET Nat /\ N # {}
  BY <1>0, <1>1
<1>3. PICK n \in N : \A m \in N : n <= m
  BY <1>2, LeastOf
<1>4. PICK r \in Bad : Cardinality(r) = n
  BY <1>3
<1>5. /\ r # {} /\ r \ {One(r)} \in Bad /\ n \in Nat
      /\ Cardinality(r \ {One(r)}) = n - 1
  BY <1>0, <1>4, TakeOne
<1>6. n - 1 \in N
  BY <1>5
<1>q. QED
  BY <1>3, <1>5, <1>6

\* The sum of integers is one.
LEMMA SumInteger ==
    ASSUME NEW f, NEW S, IsFiniteSet(S), \A x \in S : f[x] \in Int
    PROVE  SumFunctionOnSet(f, S) \in Int
<1> DEFINE Bad == {r \in SUBSET S : SumFunctionOnSet(f, r) \notin Int}
<1>0. \A r \in SUBSET S : IsFiniteSet(r)
  BY FS_Subset
<1>1. {} \notin Bad
  BY SumEmpty
<1>2. ASSUME NEW r \in Bad, r # {}
      PROVE  r \ {One(r)} \in Bad
  <2>1. /\ One(r) \in S /\ r \ {One(r)} \in SUBSET S
        /\ SumFunctionOnSet(f, r) = f[One(r)] + SumFunctionOnSet(f, r \ {One(r)})
    BY <1>0, <1>2, TakeOne, SumTakeOne
  <2>2. f[One(r)] \in Int
    BY <2>1
  <2>3. SumFunctionOnSet(f, r) \notin Int
    OBVIOUS
  <2>4. SumFunctionOnSet(f, r \ {One(r)}) \notin Int
    BY <2>1, <2>2, <2>3
  <2>q. QED
    BY <2>1, <2>4
<1>3. Bad = {}
  <2>1. Bad \subseteq SUBSET S
    OBVIOUS
  <2> HIDE DEF Bad
  <2>q. QED
    BY <1>1, <1>2, <2>1, FiniteDescent
<1>q. QED
  BY <1>3

\* Any element can be taken out of a sum first.
LEMMA SumSplit ==
    ASSUME NEW f, NEW S, IsFiniteSet(S), \A x \in S : f[x] \in Int
    PROVE  \A a \in S : SumFunctionOnSet(f, S) = f[a] + SumFunctionOnSet(f, S \ {a})
<1> DEFINE Splits(r) == \A a \in r : SumFunctionOnSet(f, r) = f[a] + SumFunctionOnSet(f, r \ {a})
           Bad == {r \in SUBSET S : ~Splits(r)}
           N == {Cardinality(r) : r \in Bad}
<1>0. \A r \in SUBSET S : IsFiniteSet(r) /\ Cardinality(r) \in Nat
  BY FS_Subset, FS_CardinalityType
<1>1. SUFFICES ASSUME Bad # {} PROVE FALSE
  <2>1. S \in SUBSET S /\ S \notin Bad => Splits(S)
    OBVIOUS
  <2>q. QED
    BY <2>1
<1>2. N \in SUBSET Nat /\ N # {}
  BY <1>0, <1>1
<1>3. PICK n \in N : \A m \in N : n <= m
  BY <1>2, LeastOf
<1>4. PICK r \in Bad : Cardinality(r) = n
  BY <1>3
<1>5. PICK a \in r : SumFunctionOnSet(f, r) # f[a] + SumFunctionOnSet(f, r \ {a})
  BY <1>4
<1> DEFINE b == One(r)
<1>6. /\ IsFiniteSet(r) /\ r \in SUBSET S /\ n \in Nat /\ b \in r
      /\ SumFunctionOnSet(f, r) = f[b] + SumFunctionOnSet(f, r \ {b})
      /\ Cardinality(r) = n
  BY <1>0, <1>4, <1>5, TakeOne, SumTakeOne
<1> HIDE DEF b
<1>7. a # b
  BY <1>5, <1>6
<1>8. \A c \in r : Splits(r \ {c})
  <2> SUFFICES ASSUME NEW c \in r PROVE Splits(r \ {c})
    OBVIOUS
  <2>1. r \ {c} \in SUBSET S /\ Cardinality(r \ {c}) = n - 1
    BY <1>6, FS_RemoveElement
  <2>2. r \ {c} \notin Bad
    BY <1>3, <1>6, <2>1
  <2> HIDE DEF Splits
  <2>q. QED
    BY <2>1, <2>2
<1>9. /\ SumFunctionOnSet(f, r \ {b}) = f[a] + SumFunctionOnSet(f, (r \ {b}) \ {a})
      /\ SumFunctionOnSet(f, r \ {a}) = f[b] + SumFunctionOnSet(f, (r \ {a}) \ {b})
  BY <1>5, <1>6, <1>7, <1>8
<1> DEFINE rest == SumFunctionOnSet(f, (r \ {a}) \ {b})
<1>10. /\ SumFunctionOnSet(f, r \ {b}) = f[a] + rest
       /\ SumFunctionOnSet(f, r \ {a}) = f[b] + rest
  <2>1. (r \ {b}) \ {a} = (r \ {a}) \ {b}
    OBVIOUS
  <2>q. QED
    BY <1>9, <2>1
<1>11. rest \in Int /\ f[a] \in Int /\ f[b] \in Int
  <2>1. (r \ {a}) \ {b} \in SUBSET S
    BY <1>6
  <2>2. SumFunctionOnSet(f, (r \ {a}) \ {b}) \in Int
    BY <1>0, <2>1, SumInteger
  <2>q. QED
    BY <1>5, <1>6, <2>2
<1> HIDE DEF rest
<1>q. QED
  BY <1>5, <1>6, <1>10, <1>11

\* An element more adds its value.
LEMMA SumAdd ==
    ASSUME NEW f, NEW S, IsFiniteSet(S), NEW a, a \notin S, f[a] \in Nat,
           \A x \in S : f[x] \in Nat
    PROVE  /\ SumFunctionOnSet(f, S \cup {a}) = SumFunctionOnSet(f, S) + f[a]
           /\ SumFunctionOnSet(f, S) \in Nat
<1>1. IsFiniteSet(S \cup {a}) /\ (S \cup {a}) \ {a} = S
  BY FS_AddElement
<1>2. SumFunctionOnSet(f, S \cup {a}) = f[a] + SumFunctionOnSet(f, (S \cup {a}) \ {a})
  BY <1>1, SumSplit
<1>3. SumFunctionOnSet(f, S) \in Nat
  BY SumType
<1>q. QED
  BY <1>1, <1>2, <1>3

\* The sum over one element.
LEMMA SumOne ==
    ASSUME NEW f, NEW a, f[a] \in Nat
    PROVE  SumFunctionOnSet(f, {a}) = f[a]
<1>1. SumFunctionOnSet(f, {} \cup {a}) = SumFunctionOnSet(f, {}) + f[a]
  BY SumAdd, FS_EmptySet
<1>2. {} \cup {a} = {a}
  OBVIOUS
<1>q. QED
  BY <1>1, <1>2, SumEmpty

\* An element less takes its value away.
LEMMA SumRemove ==
    ASSUME NEW f, NEW S, IsFiniteSet(S), NEW a \in S, \A x \in S : f[x] \in Nat
    PROVE  /\ SumFunctionOnSet(f, S \ {a}) = SumFunctionOnSet(f, S) - f[a]
           /\ SumFunctionOnSet(f, S) \in Nat /\ SumFunctionOnSet(f, S \ {a}) \in Nat
<1>1. IsFiniteSet(S \ {a})
  BY FS_RemoveElement
<1>2. SumFunctionOnSet(f, S) = f[a] + SumFunctionOnSet(f, S \ {a})
  BY SumSplit
<1>3. SumFunctionOnSet(f, S) \in Nat /\ SumFunctionOnSet(f, S \ {a}) \in Nat
  BY <1>1, SumType
<1>q. QED
  BY <1>2, <1>3

\* The sum depends on the values at the summed elements only.
LEMMA SumSame ==
    ASSUME NEW f, NEW g, NEW S, IsFiniteSet(S), \A x \in S : f[x] = g[x]
    PROVE  SumFunctionOnSet(f, S) = SumFunctionOnSet(g, S)
<1> DEFINE Bad == {r \in SUBSET S : SumFunctionOnSet(f, r) # SumFunctionOnSet(g, r)}
           N == {Cardinality(r) : r \in Bad}
<1>0. \A r \in SUBSET S : IsFiniteSet(r) /\ Cardinality(r) \in Nat
  BY FS_Subset, FS_CardinalityType
<1>1. SUFFICES ASSUME Bad # {} PROVE FALSE
  OBVIOUS
<1>2. N \in SUBSET Nat /\ N # {}
  BY <1>0, <1>1
<1>3. PICK n \in N : \A m \in N : n <= m
  BY <1>2, LeastOf
<1>4. PICK r \in Bad : Cardinality(r) = n
  BY <1>3
<1>5. r # {} /\ IsFiniteSet(r)
  BY <1>0, <1>4, SumEmpty
<1> DEFINE q == r \ {One(r)}
<1>6. /\ q \in SUBSET S /\ One(r) \in S /\ Cardinality(q) = n - 1 /\ n \in Nat
      /\ SumFunctionOnSet(f, r) = f[One(r)] + SumFunctionOnSet(f, q)
      /\ SumFunctionOnSet(g, r) = g[One(r)] + SumFunctionOnSet(g, q)
  BY <1>0, <1>4, <1>5, TakeOne, SumTakeOne
<1>7. q \notin Bad
  BY <1>3, <1>6
<1>q. QED
  BY <1>4, <1>6, <1>7
\* The sum over two sets without a common element.
LEMMA SumUnion ==
    ASSUME NEW f, NEW S, IsFiniteSet(S), NEW T, IsFiniteSet(T), S \cap T = {},
           \A x \in S \cup T : f[x] \in Int
    PROVE  SumFunctionOnSet(f, S \cup T) = SumFunctionOnSet(f, S) + SumFunctionOnSet(f, T)
<1> DEFINE Adds(r) == SumFunctionOnSet(f, r \cup T) = SumFunctionOnSet(f, r) + SumFunctionOnSet(f, T)
           Bad == {r \in SUBSET S : ~Adds(r)}
<1>0. /\ \A r \in SUBSET S : IsFiniteSet(r) /\ IsFiniteSet(r \cup T)
      /\ \A r \in SUBSET S : SumFunctionOnSet(f, r) \in Int
      /\ SumFunctionOnSet(f, T) \in Int
  BY FS_Subset, FS_Union, SumInteger
<1>1. {} \notin Bad
  <2>1. {} \cup T = T
    OBVIOUS
  <2>q. QED
    BY <1>0, <2>1, SumEmpty
<1>2. ASSUME NEW r \in Bad, r # {}
      PROVE  r \ {One(r)} \in Bad
  <2> DEFINE a == One(r)
             q == r \ {a}
  <2>1. a \in r /\ r \in SUBSET S /\ q \in SUBSET S /\ a \in S /\ ~Adds(r)
    BY <1>0, <1>2, TakeOne
  <2>2. SumFunctionOnSet(f, r) = f[a] + SumFunctionOnSet(f, q)
    BY <1>0, <1>2, SumTakeOne
  <2>3. SumFunctionOnSet(f, r \cup T) = f[a] + SumFunctionOnSet(f, (r \cup T) \ {a})
    <3>1. \A x \in r \cup T : f[x] \in Int
      BY <2>1
    <3>2. a \in r \cup T /\ IsFiniteSet(r \cup T)
      BY <1>0, <2>1
    <3> HIDE DEF a
    <3>q. QED
      BY <3>1, <3>2, SumSplit
  <2>4. (r \cup T) \ {a} = q \cup T
    BY <2>1
  <2>5. f[a] \in Int /\ SumFunctionOnSet(f, q) \in Int
    BY <1>0, <2>1
  <2> HIDE DEF a, q
  <2>6. ~(SumFunctionOnSet(f, q \cup T) = SumFunctionOnSet(f, q) + SumFunctionOnSet(f, T))
    <3>1. SUFFICES ASSUME SumFunctionOnSet(f, q \cup T)
                            = SumFunctionOnSet(f, q) + SumFunctionOnSet(f, T)
                   PROVE  FALSE
      OBVIOUS
    <3>2. SumFunctionOnSet(f, r \cup T) = f[a] + SumFunctionOnSet(f, q \cup T)
      BY <2>3, <2>4
    <3>3. SumFunctionOnSet(f, r \cup T) = SumFunctionOnSet(f, r) + SumFunctionOnSet(f, T)
      BY <1>0, <2>2, <2>5, <3>1, <3>2
    <3>q. QED
      BY <2>1, <3>3
  <2>q. QED
    BY <2>1, <2>6 DEF q, a
<1>3. Bad = {}
  <2>1. Bad \subseteq SUBSET S
    OBVIOUS
  <2> HIDE DEF Bad
  <2>q. QED
    BY <1>1, <1>2, <2>1, FiniteDescent
<1>q. QED
  BY <1>3

\* The sum of the values that are themselves the sums of two.
LEMMA SumPlus ==
    ASSUME NEW f, NEW g, NEW h, NEW S, IsFiniteSet(S),
           \A x \in S : f[x] \in Int /\ g[x] \in Int /\ h[x] = f[x] + g[x]
    PROVE  SumFunctionOnSet(h, S) = SumFunctionOnSet(f, S) + SumFunctionOnSet(g, S)
<1> DEFINE Adds(r) == SumFunctionOnSet(h, r) = SumFunctionOnSet(f, r) + SumFunctionOnSet(g, r)
           Bad == {r \in SUBSET S : ~Adds(r)}
<1>0. \A r \in SUBSET S : /\ IsFiniteSet(r)
                         /\ SumFunctionOnSet(f, r) \in Int /\ SumFunctionOnSet(g, r) \in Int
  BY FS_Subset, SumInteger
<1>1. {} \notin Bad
  BY SumEmpty
<1>2. ASSUME NEW r \in Bad, r # {}
      PROVE  r \ {One(r)} \in Bad
  <2> DEFINE a == One(r)
             q == r \ {a}
  <2>1. a \in r /\ r \in SUBSET S /\ q \in SUBSET S /\ a \in S /\ ~Adds(r)
    BY <1>0, <1>2, TakeOne
  <2>2. /\ SumFunctionOnSet(f, r) = f[a] + SumFunctionOnSet(f, q)
        /\ SumFunctionOnSet(g, r) = g[a] + SumFunctionOnSet(g, q)
        /\ SumFunctionOnSet(h, r) = h[a] + SumFunctionOnSet(h, q)
    BY <1>0, <1>2, SumTakeOne
  <2>3. /\ f[a] \in Int /\ g[a] \in Int /\ h[a] = f[a] + g[a]
        /\ SumFunctionOnSet(f, q) \in Int /\ SumFunctionOnSet(g, q) \in Int
    BY <1>0, <2>1
  <2> HIDE DEF a, q
  <2>4. ~(SumFunctionOnSet(h, q) = SumFunctionOnSet(f, q) + SumFunctionOnSet(g, q))
    <3>1. SUFFICES ASSUME SumFunctionOnSet(h, q) = SumFunctionOnSet(f, q) + SumFunctionOnSet(g, q)
                   PROVE  FALSE
      OBVIOUS
    <3>2. SumFunctionOnSet(h, r) = SumFunctionOnSet(f, r) + SumFunctionOnSet(g, r)
      BY <2>2, <2>3, <3>1
    <3>q. QED
      BY <2>1, <3>2
  <2>q. QED
    BY <2>1, <2>4 DEF q, a
<1>3. Bad = {}
  <2>1. Bad \subseteq SUBSET S
    OBVIOUS
  <2> HIDE DEF Bad
  <2>q. QED
    BY <1>1, <1>2, <2>1, FiniteDescent
<1>q. QED
  BY <1>3

\* A sum of zeros.
LEMMA SumZero ==
    ASSUME NEW S, IsFiniteSet(S), NEW f, \A x \in S : f[x] = 0
    PROVE  SumFunctionOnSet(f, S) = 0
<1>1. \A x \in S : f[x] \in Int /\ f[x] = f[x] + f[x]
  OBVIOUS
<1>2. SumFunctionOnSet(f, S) = SumFunctionOnSet(f, S) + SumFunctionOnSet(f, S)
  BY <1>1, SumPlus
<1>3. PICK n \in Int : n = SumFunctionOnSet(f, S)
  BY <1>1, SumInteger
<1>4. n = n + n
  BY <1>2, <1>3
<1>5. n = 0
  BY <1>4
<1>q. QED
  BY <1>3, <1>5

\* The sum of what is zero but for two elements.
LEMMA SumOfTwo ==
    ASSUME NEW S, IsFiniteSet(S), NEW a \in S, NEW c \in S, a # c,
           NEW f \in [S -> Int], \A x \in S \ {a, c} : f[x] = 0
    PROVE  SumFunctionOnSet(f, S) = f[a] + f[c]
<1>1. IsFiniteSet(S \ {a}) /\ IsFiniteSet((S \ {a}) \ {c})
  BY FS_RemoveElement
<1>2. SumFunctionOnSet(f, S) = f[a] + SumFunctionOnSet(f, S \ {a})
  BY SumSplit
<1>3. c \in S \ {a} /\ \A x \in S \ {a} : f[x] \in Int
  OBVIOUS
<1>4. SumFunctionOnSet(f, S \ {a}) = f[c] + SumFunctionOnSet(f, (S \ {a}) \ {c})
  BY <1>1, <1>3, SumSplit
<1>5. SumFunctionOnSet(f, (S \ {a}) \ {c}) = 0
  <2>1. \A x \in (S \ {a}) \ {c} : f[x] = 0
    OBVIOUS
  <2>q. QED
    BY <1>1, <2>1, SumZero
<1>q. QED
  BY <1>2, <1>4, <1>5

--------------------------------------------------------------------------------
(* Filtered sequences. *)

\* The recursion of Keep, up to n.
KeepsUpTo(s, P, n, g) ==
    g = [i \in 0 .. n |-> IF i = 0 THEN <<>>
                          ELSE IF s[i] \in P THEN Append(g[i - 1], s[i]) ELSE g[i - 1]]

\* The recursion has a solution.
LEMMA KeepExists ==
    ASSUME NEW s, NEW P, NEW n \in Nat
    PROVE  \E g : KeepsUpTo(s, P, n, g)
<1> DEFINE T == {m \in Nat : ~\E g : KeepsUpTo(s, P, m, g)}
<1>1. SUFFICES ASSUME T # {} PROVE FALSE
  OBVIOUS
<1>2. PICK m \in T : \A k \in T : m <= k
  BY <1>1, LeastOf
<1>3. CASE m = 0
  <2> DEFINE g == [i \in 0 .. 0 |-> <<>>]
  <2>1. KeepsUpTo(s, P, 0, g)
    BY DEF KeepsUpTo
  <2>q. QED
    BY <1>2, <1>3, <2>1
<1>4. CASE m # 0
  <2>1. m - 1 \in Nat /\ m - 1 \notin T
    BY <1>2, <1>4
  <2>2. PICK h : KeepsUpTo(s, P, m - 1, h)
    BY <2>1
  <2> DEFINE g == [i \in 0 .. m |-> IF i = 0 THEN <<>>
                        ELSE IF s[i] \in P THEN Append(h[i - 1], s[i]) ELSE h[i - 1]]
  <2>3. \A i \in 0 .. m - 1 : h[i] = IF i = 0 THEN <<>>
                        ELSE IF s[i] \in P THEN Append(h[i - 1], s[i]) ELSE h[i - 1]
    BY <2>2 DEF KeepsUpTo
  <2>4. \A i \in 0 .. m - 1 : i \in 0 .. m /\ g[i] = h[i]
    BY <1>2, <2>3
  <2>5. \A i \in 0 .. m : i # 0 => i - 1 \in 0 .. m - 1
    BY <1>2
  <2>6. \A i \in 0 .. m : i # 0 => g[i - 1] = h[i - 1]
    BY <2>4, <2>5
  <2>7. KeepsUpTo(s, P, m, g)
    BY <2>6 DEF KeepsUpTo
  <2>q. QED
    BY <1>2, <2>7
<1>q. QED
  BY <1>3, <1>4

\* Keep returns a sequence of elements of s that are in P, and all of them.
LEMMA KeepProperties ==
    ASSUME NEW S, NEW s \in Seq(S), NEW P
    PROVE  /\ Keep(s, P) \in Seq(S \cap P)
           /\ \A x : (\E i \in 1 .. Len(s) : s[i] = x /\ x \in P)
                     <=> \E j \in 1 .. Len(Keep(s, P)) : Keep(s, P)[j] = x
<1> DEFINE g == CHOOSE h : KeepsUpTo(s, P, Len(s), h)
           Good(n) == /\ g[n] \in Seq(S \cap P)
                      /\ \A x : (\E i \in 1 .. n : s[i] = x /\ x \in P)
                                <=> \E j \in 1 .. Len(g[n]) : g[n][j] = x
           Bad == {n \in 0 .. Len(s) : ~Good(n)}
<1>1. Len(s) \in Nat
  BY LenProperties
<1>2. KeepsUpTo(s, P, Len(s), g)
  BY <1>1, KeepExists
<1>3. Keep(s, P) = g[Len(s)]
  BY DEF Keep, KeepsUpTo
<1> HIDE DEF g
<1>4. /\ g[0] = <<>>
      /\ \A n \in 1 .. Len(s) : g[n] = IF s[n] \in P THEN Append(g[n - 1], s[n]) ELSE g[n - 1]
  <2>1. \A n \in 0 .. Len(s) : g[n] = IF n = 0 THEN <<>>
                        ELSE IF s[n] \in P THEN Append(g[n - 1], s[n]) ELSE g[n - 1]
    BY <1>2 DEF KeepsUpTo
  <2>2. 0 \in 0 .. Len(s) /\ \A n \in 1 .. Len(s) : n \in 0 .. Len(s) /\ n # 0
    BY <1>1
  <2>q. QED
    BY <2>1, <2>2
<1>5. Bad = {}
  <2> SUFFICES ASSUME Bad # {} PROVE FALSE
    OBVIOUS
  <2>0. Bad \in SUBSET Nat
    BY <1>1
  <2>1. PICK n \in Bad : \A m \in Bad : n <= m
    <3> HIDE DEF Bad
    <3>q. QED
      BY <2>0, LeastOf
  <2>2. n \in 0 .. Len(s) /\ ~Good(n)
    BY <2>1
  <2>3. n # 0
    <3>1. Good(0)
      BY <1>4
    <3>q. QED
      BY <2>2, <3>1
  <2>4. n \in 1 .. Len(s) /\ n - 1 \in 0 .. Len(s) /\ n - 1 \notin Bad
    BY <1>1, <2>1, <2>2, <2>3
  <2>5. Good(n - 1)
    BY <2>4
  <2>6. s[n] \in S
    BY <2>4, ElementOfSeq
  <2>7. CASE s[n] \in P
    <3>1. g[n] = Append(g[n - 1], s[n]) /\ g[n - 1] \in Seq(S \cap P) /\ s[n] \in S \cap P
      BY <1>4, <2>4, <2>5, <2>6, <2>7
    <3>2. /\ g[n] \in Seq(S \cap P) /\ Len(g[n]) = Len(g[n - 1]) + 1
          /\ \A j \in 1 .. Len(g[n - 1]) : g[n][j] = g[n - 1][j]
          /\ g[n][Len(g[n - 1]) + 1] = s[n]
          /\ Len(g[n - 1]) \in Nat
      BY <3>1, AppendProperties, LenProperties
    <3>3. ASSUME NEW x
          PROVE  (\E i \in 1 .. n : s[i] = x /\ x \in P)
                 <=> (\E i \in 1 .. n - 1 : s[i] = x /\ x \in P) \/ x = s[n]
      BY <2>4, <2>7
    <3>4. ASSUME NEW x
          PROVE  (\E j \in 1 .. Len(g[n]) : g[n][j] = x)
                 <=> (\E j \in 1 .. Len(g[n - 1]) : g[n - 1][j] = x) \/ x = s[n]
      <4>1. \A j \in 1 .. Len(g[n]) : j \in 1 .. Len(g[n - 1]) \/ j = Len(g[n - 1]) + 1
        BY <3>2
      <4>2. \A j \in 1 .. Len(g[n - 1]) : j \in 1 .. Len(g[n])
        BY <3>2
      <4>3. Len(g[n - 1]) + 1 \in 1 .. Len(g[n])
        BY <3>2
      <4>q. QED
        BY <3>2, <4>1, <4>2, <4>3
    <3>5. Good(n)
      BY <2>5, <3>2, <3>3, <3>4
    <3>q. QED
      BY <2>2, <3>5
  <2>8. CASE s[n] \notin P
    <3>1. g[n] = g[n - 1]
      BY <1>4, <2>4, <2>8
    <3>2. ASSUME NEW x
          PROVE  (\E i \in 1 .. n : s[i] = x /\ x \in P)
                 <=> (\E i \in 1 .. n - 1 : s[i] = x /\ x \in P)
      BY <2>4, <2>8
    <3>3. Good(n)
      BY <2>5, <3>1, <3>2
    <3>q. QED
      BY <2>2, <3>3
  <2>q. QED
    BY <2>7, <2>8
<1>6. Good(Len(s))
  BY <1>1, <1>5
<1>q. QED
  BY <1>3, <1>6
--------------------------------------------------------------------------------
(* Largest elements, and occurrences in a sequence. *)

\* A bounded set of natural numbers that is not empty has a largest element.
LEMMA LargestOf ==
    ASSUME NEW n \in Nat, NEW T \in SUBSET (0 .. n), T # {}
    PROVE  Max(T) \in T /\ \A m \in T : m <= Max(T)
<1> DEFINE D == {n - m : m \in T}
<1>1. D \in SUBSET Nat /\ D # {}
  <2>1. \A m \in T : m \in 0 .. n
    OBVIOUS
  <2>2. \A m \in T : n - m \in Nat
    BY <2>1
  <2>q. QED
    BY <2>2
<1>2. PICK d \in D : \A c \in D : d <= c
  <2> HIDE DEF D
  <2>q. QED
    BY <1>1, LeastOf
<1>3. PICK x \in T : d = n - x
  BY <1>2
<1>4. \A m \in T : n - x <= n - m
  BY <1>2, <1>3
<1>5. \A m \in T : x >= m
  BY <1>4
<1>6. Max(T) \in T /\ \A m \in T : Max(T) >= m
  BY <1>5 DEF Max
<1>q. QED
  BY <1>6

\* The places of y in s.
PlacesOf(s, y) == {i \in DOMAIN s : s[i] = y}

\* A sequence holds finitely many of anything, and appending x makes x, and
\* nothing else, occur once more.
LEMMA CountAppend ==
    ASSUME NEW S, NEW s \in Seq(S), NEW x \in S, NEW y
    PROVE  /\ Cardinality(PlacesOf(s, y)) \in Nat
           /\ Cardinality(PlacesOf(Append(s, x), y))
                = Cardinality(PlacesOf(s, y)) + IF x = y THEN 1 ELSE 0
<1> DEFINE a == Append(s, x)
           n == Len(s)
<1>1. n \in Nat /\ DOMAIN s = 1 .. n
  BY LenProperties
<1>2. /\ a \in Seq(S) /\ Len(a) = n + 1 /\ a[n + 1] = x
      /\ \A i \in 1 .. n : a[i] = s[i]
  BY AppendProperties
<1>3. DOMAIN a = 1 .. n + 1
  BY <1>2, LenProperties
<1>4. IsFiniteSet(PlacesOf(s, y))
  <2>1. IsFiniteSet(1 .. n) /\ PlacesOf(s, y) \subseteq 1 .. n
    BY <1>1, FS_Interval DEF PlacesOf
  <2>q. QED
    BY <2>1, FS_Subset
<1> HIDE DEF a, n
<1>5. PlacesOf(a, y) = IF x = y THEN PlacesOf(s, y) \cup {n + 1} ELSE PlacesOf(s, y)
  BY <1>1, <1>2, <1>3 DEF PlacesOf
<1>6. n + 1 \notin PlacesOf(s, y)
  BY <1>1 DEF PlacesOf
<1>7. Cardinality(PlacesOf(s, y)) \in Nat
  BY <1>4, FS_CardinalityType
<1>8. Cardinality(PlacesOf(s, y) \cup {n + 1}) = Cardinality(PlacesOf(s, y)) + 1
  BY <1>4, <1>6, FS_AddElement
<1>9. Cardinality(PlacesOf(a, y)) = Cardinality(PlacesOf(s, y)) + IF x = y THEN 1 ELSE 0
  BY <1>5, <1>7, <1>8
<1>q. QED
  BY <1>7, <1>9 DEF a
================================================================================
