---------------------------- MODULE FiniteSetLemmas ---------------------------
(***************************************************************************)
(* Least elements, and what the sum of a function over a finite set is     *)
(* worth.  The accounts of the library (bytes of the sent cache, of the    *)
(* stream budget, of the egress rings, of the assemblers) are compared     *)
(* with such sums.                                                         *)
(*                                                                         *)
(* SumFunctionOnSet is a recursive function on the subsets of the set.     *)
(* The lemmas go by induction on finite sets, in the first-order form that *)
(* a set of good subsets gives: WFMin of WellFoundedInduction names a      *)
(* smallest bad one.                                                       *)
(***************************************************************************)
EXTENDS Integers, FiniteSets, FiniteSetsExt, Functions, FiniteSetTheorems,
        Sequences, SequenceTheorems, WellFoundedInduction, TLAPS

(* Least elements *)

\* A nonempty set of naturals has a least element, and Min is it.
LEMMA MinOfNaturals ==
    ASSUME NEW S, S \subseteq Nat, S # {}
    PROVE  Min(S) \in S /\ \A y \in S : Min(S) <= y
<1> DEFINE less == {ss \in Nat \X Nat : ss[1] < ss[2]}
<1>1. IsWellFoundedOn(less, Nat)
  BY NatLessThanWellFounded DEF OpToRel
<1> HIDE DEF less
<1>2. PICK x \in S : \A y \in S : ~(<<y, x>> \in less)
  BY <1>1, WFMin
<1>3. ASSUME NEW y \in S PROVE x <= y
  <2>1. x \in Nat /\ y \in Nat
    OBVIOUS
  <2>2. <<y, x>> \in Nat \X Nat /\ <<y, x>>[1] = y /\ <<y, x>>[2] = x
    BY <2>1
  <2>3. ~(y < x)
    BY <1>2, <2>2, Zenon DEF less
  <2>4. QED BY <2>1, <2>3
<1>4. QED BY <1>3 DEF Min

\* Max is an upper bound that the set holds, for naturals up to b.
LEMMA MaxOfNaturals ==
    ASSUME NEW b \in Nat, NEW S, S \subseteq 0 .. b, S # {}
    PROVE  Max(S) \in S /\ \A y \in S : Max(S) >= y
<1> DEFINE V == {b - x : x \in S}
<1>1. V \subseteq Nat /\ V # {}
  <2>1. \A x \in S : b - x \in Nat
    OBVIOUS
  <2>2. QED BY <2>1
<1>2. Min(V) \in V /\ \A v \in V : Min(V) <= v
  <2> HIDE DEF V
  <2> QED BY <1>1, MinOfNaturals
<1>3. PICK x \in S : \A v \in V : b - x <= v
  BY <1>2
<1>4. \A y \in S : x >= y
  BY <1>3
<1>5. QED BY <1>4 DEF Max

\* A natural measure takes its least value somewhere.
LEMMA LeastExists ==
    ASSUME NEW S, S # {}, NEW h, \A x \in S : h[x] \in Nat
    PROVE  \E x \in S : \A y \in S : h[x] <= h[y]
<1> DEFINE V == {h[x] : x \in S}
<1>1. V \subseteq Nat /\ V # {}
  OBVIOUS
<1>2. Min(V) \in V /\ \A v \in V : Min(V) <= v
  <2> HIDE DEF V
  <2> QED BY <1>1, MinOfNaturals
<1>3. QED BY <1>2

-----------------------------------------------------------------------------
(* Induction *)

\* A property that a finite set inherits from the set without any one of its
\* elements holds of all finite sets.
LEMMA SubsetInduction ==
    ASSUME NEW S, IsFiniteSet(S), NEW Good,
           \A T \in SUBSET S : (\A x \in T : T \ {x} \in Good) => T \in Good
    PROVE  \A T \in SUBSET S : T \in Good
<1> DEFINE Bad == (SUBSET S) \ Good
<1>1. SUFFICES ASSUME Bad # {} PROVE FALSE
  OBVIOUS
<1>2. Bad \subseteq FiniteSubsetsOf(S)
  BY FS_Subset DEF FiniteSubsetsOf
<1>3. \E T \in Bad : \A U \in Bad : ~ (<<U, T>> \in StrictSubsetOrdering(S))
  <2> HIDE DEF Bad
  <2> QED BY <1>1, <1>2, FS_StrictSubsetOrderingWellFounded, WFMin
<1>4. PICK T \in Bad : \A U \in Bad : ~ (<<U, T>> \in StrictSubsetOrdering(S))
  BY <1>3
<1>5. \A x \in T : T \ {x} \in Good
  <2> TAKE x \in T
  <2>1. SUFFICES ASSUME T \ {x} \in Bad PROVE FALSE
    OBVIOUS
  <2>2. <<T \ {x}, T>> \in StrictSubsetOrdering(S)
    BY DEF StrictSubsetOrdering
  <2>3. QED BY <1>4, <2>1, <2>2
<1>6. QED BY <1>5

-----------------------------------------------------------------------------
(* The recursion is well defined *)

Pick(s) == CHOOSE x \in s : TRUE

\* The value of the recursion at s, when g has those of the smaller sets
Sum1(f, g, s) == IF s = {} THEN 0 ELSE f[Pick(s)] + g[s \ {Pick(s)}]

Table(f, S) == CHOOSE g : g = [s \in SUBSET S |-> Sum1(f, g, s)]

\* The library's definition, with its parts named
LEMMA SumIsTable ==
    ASSUME NEW f, NEW S
    PROVE  SumFunctionOnSet(f, S) = Table(f, S)[S]
BY DEF SumFunctionOnSet, FoldFunctionOnSet, MapThenFoldSet, Table, Sum1, Pick

\* There is a table with an entry for every subset.
LEMMA TableExists ==
    ASSUME NEW S, IsFiniteSet(S), NEW f, \A x \in S : f[x] \in Int
    PROVE  \A s \in SUBSET S : Table(f, S)[s] = Sum1(f, Table(f, S), s)
<1> DEFINE Upto(n, g) ==
             \A s \in SUBSET S : Cardinality(s) <= n => g[s] = Sum1(f, g, s)
           Good == {T \in SUBSET S :
                      \E g \in [SUBSET S -> Int] : Upto(Cardinality(T), g)}
<1>1. \A s \in SUBSET S : IsFiniteSet(s) /\ Cardinality(s) \in Nat
  BY FS_Subset, FS_CardinalityType
<1>2. \A T \in SUBSET S : (\A x \in T : T \ {x} \in Good) => T \in Good
  <2> SUFFICES ASSUME NEW T \in SUBSET S, \A x \in T : T \ {x} \in Good
               PROVE  T \in Good
    OBVIOUS
  <2>1. CASE T = {}
    <3> DEFINE z == [s \in SUBSET S |-> 0]
    <3>1. Cardinality(T) = 0
      BY <2>1, FS_EmptySet
    <3>2. \A s \in SUBSET S : Cardinality(s) <= 0 => s = {}
      BY <1>1, FS_EmptySet
    <3>3. Upto(0, z) /\ z \in [SUBSET S -> Int]
      BY <3>2 DEF Sum1
    <3>4. QED BY <3>1, <3>3
  <2>2. CASE T # {}
    <3>1. PICK y \in T : TRUE
      BY <2>2
    <3>2. Cardinality(T \ {y}) = Cardinality(T) - 1
      BY <1>1, <3>1, FS_RemoveElement
    <3>3. PICK g \in [SUBSET S -> Int] : Upto(Cardinality(T) - 1, g)
      BY <3>1, <3>2
    <3> DEFINE h == [s \in SUBSET S |-> Sum1(f, g, s)]
    <3>4. \A s \in SUBSET S : s # {} => Pick(s) \in s
      BY DEF Pick
    <3>5. h \in [SUBSET S -> Int]
      BY <3>4 DEF Sum1
    <3>6. ASSUME NEW s \in SUBSET S, Cardinality(s) <= Cardinality(T)
          PROVE  h[s] = Sum1(f, h, s)
      <4>1. CASE s = {}
        BY <4>1 DEF Sum1
      <4>2. CASE s # {}
        <5> DEFINE u == s \ {Pick(s)}
        <5>0. Pick(s) \in s /\ IsFiniteSet(s)
          BY <1>1, <3>4, <4>2
        <5>1. Cardinality(u) = Cardinality(s) - 1
          BY <5>0, FS_RemoveElement
        <5>2. u \in SUBSET S /\ Cardinality(u) <= Cardinality(T) - 1
          BY <1>1, <3>6, <5>1
        <5>3. g[u] = h[u]
          BY <3>3, <5>2
        <5>4. QED BY <4>2, <5>2, <5>3 DEF Sum1
      <4>3. QED BY <4>1, <4>2
    <3>7. Upto(Cardinality(T), h)
      BY <3>6
    <3>8. QED BY <3>5, <3>7
  <2>3. QED BY <2>1, <2>2
<1>3. S \in Good
  <2> HIDE DEF Good
  <2>1. \A T \in SUBSET S : T \in Good
    BY <1>2, SubsetInduction
  <2>2. QED BY <2>1
<1>4. PICK g \in [SUBSET S -> Int] : Upto(Cardinality(S), g)
  BY <1>3
<1>5. \A s \in SUBSET S : Cardinality(s) <= Cardinality(S)
  BY FS_Subset
<1>6. g = [s \in SUBSET S |-> Sum1(f, g, s)]
  BY <1>4, <1>5
<1>7. Table(f, S) = [s \in SUBSET S |-> Sum1(f, Table(f, S), s)]
  BY <1>6 DEF Table
<1>8. ASSUME NEW h, h = [s \in SUBSET S |-> Sum1(f, h, s)]
      PROVE  \A s \in SUBSET S : h[s] = Sum1(f, h, s)
  <2> SUFFICES ASSUME NEW s \in SUBSET S PROVE h[s] = Sum1(f, h, s)
    OBVIOUS
  <2> DEFINE r == [t \in SUBSET S |-> Sum1(f, h, t)]
  <2>1. r[s] = Sum1(f, h, s)
    OBVIOUS
  <2>2. h = r
    BY <1>8
  <2> HIDE DEF r
  <2>3. QED BY <2>1, <2>2
<1>9. QED BY <1>7, <1>8

\* The table of a set agrees with that of a larger one: an entry is the sum
\* over its subset.
LEMMA TableIsSum ==
    ASSUME NEW S, IsFiniteSet(S), NEW f, \A x \in S : f[x] \in Int,
           NEW T \in SUBSET S
    PROVE  Table(f, S)[T] = SumFunctionOnSet(f, T)
<1> DEFINE Good == {u \in SUBSET T : Table(f, T)[u] = Table(f, S)[u]}
<1>1. IsFiniteSet(T)
  BY FS_Subset
<1>2. \A u \in SUBSET S : Table(f, S)[u] = Sum1(f, Table(f, S), u)
  BY TableExists
<1>3. \A u \in SUBSET T : Table(f, T)[u] = Sum1(f, Table(f, T), u)
  BY <1>1, TableExists
<1>4. \A u \in SUBSET T : (\A x \in u : u \ {x} \in Good) => u \in Good
  <2> SUFFICES ASSUME NEW u \in SUBSET T, \A x \in u : u \ {x} \in Good
               PROVE  Table(f, T)[u] = Table(f, S)[u]
    OBVIOUS
  <2>1. CASE u = {}
    BY <1>2, <1>3, <2>1 DEF Sum1
  <2>2. CASE u # {}
    <3>1. Pick(u) \in u
      BY <2>2 DEF Pick
    <3>2. Table(f, T)[u \ {Pick(u)}] = Table(f, S)[u \ {Pick(u)}]
      BY <3>1
    <3>3. QED BY <1>2, <1>3, <2>2, <3>2 DEF Sum1
  <2>3. QED BY <2>1, <2>2
<1>5. \A u \in SUBSET T : u \in Good
  <2> HIDE DEF Good
  <2> QED BY <1>1, <1>4, SubsetInduction
<1>6. QED BY <1>5, SumIsTable

\* The sum over nothing is 0.
LEMMA SumEmpty ==
    ASSUME NEW f
    PROVE  SumFunctionOnSet(f, {}) = 0
<1>1. Table(f, {})[{}] = Sum1(f, Table(f, {}), {})
  BY FS_EmptySet, TableExists
<1>2. QED BY <1>1, SumIsTable DEF Sum1

\* The recursion of the sum, at the element it happens to pick
LEMMA SumAtPick ==
    ASSUME NEW S, IsFiniteSet(S), NEW f, \A x \in S : f[x] \in Int, S # {}
    PROVE  /\ Pick(S) \in S
           /\ SumFunctionOnSet(f, S) =
                 f[Pick(S)] + SumFunctionOnSet(f, S \ {Pick(S)})
<1>1. Pick(S) \in S
  BY DEF Pick
<1>2. Table(f, S)[S] = Sum1(f, Table(f, S), S)
  BY TableExists
<1>3. Table(f, S)[S \ {Pick(S)}] = SumFunctionOnSet(f, S \ {Pick(S)})
  BY TableIsSum
<1>4. QED BY <1>1, <1>2, <1>3, SumIsTable DEF Sum1

-----------------------------------------------------------------------------
(* Sums as they are used *)

\* A sum of integers is an integer, one of naturals a natural.
LEMMA SumType ==
    ASSUME NEW S, IsFiniteSet(S), NEW f, \A x \in S : f[x] \in Int
    PROVE  /\ SumFunctionOnSet(f, S) \in Int
           /\ (\A x \in S : f[x] \in Nat) => SumFunctionOnSet(f, S) \in Nat
<1> DEFINE Good == {T \in SUBSET S :
                     /\ SumFunctionOnSet(f, T) \in Int
                     /\ (\A x \in T : f[x] \in Nat)
                           => SumFunctionOnSet(f, T) \in Nat}
<1>1. \A T \in SUBSET S : (\A x \in T : T \ {x} \in Good) => T \in Good
  <2> SUFFICES ASSUME NEW T \in SUBSET S, \A x \in T : T \ {x} \in Good
               PROVE  T \in Good
    OBVIOUS
  <2>1. CASE T = {}
    BY <2>1, SumEmpty
  <2>2. CASE T # {}
    <3>1. IsFiniteSet(T)
      BY FS_Subset
    <3>2. /\ Pick(T) \in T
          /\ SumFunctionOnSet(f, T) =
                f[Pick(T)] + SumFunctionOnSet(f, T \ {Pick(T)})
      BY <2>2, <3>1, SumAtPick
    <3>3. T \ {Pick(T)} \in Good
      BY <3>2
    <3>4. QED BY <3>2, <3>3
  <2>3. QED BY <2>1, <2>2
<1>2. \A T \in SUBSET S : T \in Good
  <2> HIDE DEF Good
  <2> QED BY <1>1, SubsetInduction
<1>3. S \in Good
  BY <1>2
<1>4. QED BY <1>3

\* Any element may be taken out first.
LEMMA SumRemove ==
    ASSUME NEW S, IsFiniteSet(S), NEW f, \A x \in S : f[x] \in Int,
           NEW y \in S
    PROVE  SumFunctionOnSet(f, S) = f[y] + SumFunctionOnSet(f, S \ {y})
<1> DEFINE Good == {T \in SUBSET S : \A z \in T :
             SumFunctionOnSet(f, T) = f[z] + SumFunctionOnSet(f, T \ {z})}
<1>1. \A T \in SUBSET S : (\A x \in T : T \ {x} \in Good) => T \in Good
  <2> SUFFICES ASSUME NEW T \in SUBSET S, \A x \in T : T \ {x} \in Good,
                      NEW z \in T
               PROVE  SumFunctionOnSet(f, T) = f[z] + SumFunctionOnSet(f, T \ {z})
    OBVIOUS
  <2> DEFINE p == Pick(T)
  <2>1. \A U \in SUBSET S : IsFiniteSet(U) /\ SumFunctionOnSet(f, U) \in Int
    BY FS_Subset, SumType
  <2>2. p \in T /\ SumFunctionOnSet(f, T) = f[p] + SumFunctionOnSet(f, T \ {p})
    BY <2>1, SumAtPick
  <2>3. CASE p = z
    BY <2>2, <2>3
  <2>4. CASE p # z
    <3> DEFINE W == (T \ {p}) \ {z}
    <3>1. SumFunctionOnSet(f, T \ {p}) = f[z] + SumFunctionOnSet(f, W)
      BY <2>2, <2>4
    <3>2. (T \ {z}) \ {p} = W
      OBVIOUS
    <3>3. SumFunctionOnSet(f, T \ {z}) = f[p] + SumFunctionOnSet(f, W)
      BY <2>2, <2>4, <3>2
    <3>4. f[p] \in Int /\ f[z] \in Int /\ SumFunctionOnSet(f, W) \in Int
      BY <2>1, <2>2
    <3> HIDE DEF W, p
    <3>5. QED BY <2>2, <3>1, <3>3, <3>4
  <2>5. QED BY <2>3, <2>4
<1>2. \A T \in SUBSET S : T \in Good
  <2> HIDE DEF Good
  <2> QED BY <1>1, SubsetInduction
<1>3. S \in Good
  BY <1>2
<1>4. QED BY <1>3

\* Only the values on the set count.
LEMMA SumAgree ==
    ASSUME NEW S, IsFiniteSet(S), NEW f, NEW g,
           \A x \in S : f[x] \in Int /\ f[x] = g[x]
    PROVE  SumFunctionOnSet(f, S) = SumFunctionOnSet(g, S)
<1> DEFINE Good == {T \in SUBSET S :
                      SumFunctionOnSet(f, T) = SumFunctionOnSet(g, T)}
<1>1. \A T \in SUBSET S : (\A x \in T : T \ {x} \in Good) => T \in Good
  <2> SUFFICES ASSUME NEW T \in SUBSET S, \A x \in T : T \ {x} \in Good
               PROVE  SumFunctionOnSet(f, T) = SumFunctionOnSet(g, T)
    OBVIOUS
  <2>1. CASE T = {}
    BY <2>1, SumEmpty
  <2>2. CASE T # {}
    <3>1. IsFiniteSet(T)
      BY FS_Subset
    <3>2. /\ Pick(T) \in T
          /\ SumFunctionOnSet(f, T) =
                f[Pick(T)] + SumFunctionOnSet(f, T \ {Pick(T)})
      BY <2>2, <3>1, SumAtPick
    <3>3. SumFunctionOnSet(g, T) = g[Pick(T)] + SumFunctionOnSet(g, T \ {Pick(T)})
      BY <2>2, <3>1, SumAtPick
    <3>4. T \ {Pick(T)} \in Good /\ f[Pick(T)] = g[Pick(T)]
      BY <3>2
    <3>5. QED BY <3>2, <3>3, <3>4
  <2>3. QED BY <2>1, <2>2
<1>2. \A T \in SUBSET S : T \in Good
  <2> HIDE DEF Good
  <2> QED BY <1>1, SubsetInduction
<1>3. S \in Good
  BY <1>2
<1>4. QED BY <1>3

\* Nothing adds up to nothing.
LEMMA SumZero ==
    ASSUME NEW S, IsFiniteSet(S), NEW f, \A x \in S : f[x] = 0
    PROVE  SumFunctionOnSet(f, S) = 0
<1> DEFINE Good == {T \in SUBSET S : SumFunctionOnSet(f, T) = 0}
<1>1. \A T \in SUBSET S : (\A x \in T : T \ {x} \in Good) => T \in Good
  <2> SUFFICES ASSUME NEW T \in SUBSET S, \A x \in T : T \ {x} \in Good
               PROVE  SumFunctionOnSet(f, T) = 0
    OBVIOUS
  <2>1. CASE T = {}
    BY <2>1, SumEmpty
  <2>2. CASE T # {}
    <3>1. IsFiniteSet(T)
      BY FS_Subset
    <3>2. /\ Pick(T) \in T
          /\ SumFunctionOnSet(f, T) =
                f[Pick(T)] + SumFunctionOnSet(f, T \ {Pick(T)})
      BY <2>2, <3>1, SumAtPick
    <3>3. T \ {Pick(T)} \in Good
      BY <3>2
    <3>4. QED BY <3>2, <3>3
  <2>3. QED BY <2>1, <2>2
<1>2. \A T \in SUBSET S : T \in Good
  <2> HIDE DEF Good
  <2> QED BY <1>1, SubsetInduction
<1>3. S \in Good
  BY <1>2
<1>4. QED BY <1>3

\* A sum after one value changed
LEMMA SumUpdate ==
    ASSUME NEW S, IsFiniteSet(S), NEW f, NEW g, NEW y \in S,
           \A x \in S : f[x] \in Int /\ g[x] \in Int,
           \A x \in S \ {y} : f[x] = g[x]
    PROVE  SumFunctionOnSet(g, S) = SumFunctionOnSet(f, S) - f[y] + g[y]
<1>1. IsFiniteSet(S \ {y})
  BY FS_RemoveElement
<1>2. SumFunctionOnSet(f, S \ {y}) = SumFunctionOnSet(g, S \ {y})
  BY <1>1, SumAgree
<1>3. SumFunctionOnSet(f, S) = f[y] + SumFunctionOnSet(f, S \ {y})
  BY SumRemove
<1>4. SumFunctionOnSet(g, S) = g[y] + SumFunctionOnSet(g, S \ {y})
  BY SumRemove
<1>5. SumFunctionOnSet(f, S \ {y}) \in Int /\ f[y] \in Int /\ g[y] \in Int
  BY <1>1, SumType
<1>6. QED BY <1>2, <1>3, <1>4, <1>5

\* A sum splits into that of a part and that of the rest.
LEMMA SumSplit ==
    ASSUME NEW S, IsFiniteSet(S), NEW f, \A x \in S : f[x] \in Int,
           NEW P \in SUBSET S
    PROVE  SumFunctionOnSet(f, S) =
             SumFunctionOnSet(f, P) + SumFunctionOnSet(f, S \ P)
<1> DEFINE Good == {T \in SUBSET S : SumFunctionOnSet(f, S) =
                      SumFunctionOnSet(f, T) + SumFunctionOnSet(f, S \ T)}
<1>0. \A U \in SUBSET S : IsFiniteSet(U) /\ SumFunctionOnSet(f, U) \in Int
  BY FS_Subset, SumType
<1>1. \A T \in SUBSET S : (\A x \in T : T \ {x} \in Good) => T \in Good
  <2> SUFFICES ASSUME NEW T \in SUBSET S, \A x \in T : T \ {x} \in Good
               PROVE  SumFunctionOnSet(f, S) =
                        SumFunctionOnSet(f, T) + SumFunctionOnSet(f, S \ T)
    OBVIOUS
  <2>1. CASE T = {}
    <3>1. S \ T = S
      BY <2>1
    <3>2. QED BY <1>0, <2>1, <3>1, SumEmpty
  <2>2. CASE T # {}
    <3>1. PICK z \in T : TRUE
      BY <2>2
    <3> DEFINE R == S \ (T \ {z})
    <3>2. SumFunctionOnSet(f, S) =
            SumFunctionOnSet(f, T \ {z}) + SumFunctionOnSet(f, R)
      BY <3>1
    <3>3. SumFunctionOnSet(f, T) = f[z] + SumFunctionOnSet(f, T \ {z})
      BY <1>0, SumRemove
    <3>4. z \in R /\ R \in SUBSET S /\ R \ {z} = S \ T
      OBVIOUS
    <3>5. SumFunctionOnSet(f, R) = f[z] + SumFunctionOnSet(f, R \ {z})
      <4> HIDE DEF R
      <4> QED BY <1>0, <3>4, SumRemove
    <3>6. /\ SumFunctionOnSet(f, T \ {z}) \in Int
          /\ SumFunctionOnSet(f, S \ T) \in Int /\ f[z] \in Int
      BY <1>0
    <3> HIDE DEF R
    <3>7. QED BY <3>2, <3>3, <3>4, <3>5, <3>6
  <2>3. QED BY <2>1, <2>2
<1>2. \A T \in SUBSET S : T \in Good
  <2> HIDE DEF Good
  <2> QED BY <1>1, SubsetInduction
<1>3. P \in Good
  BY <1>2
<1>4. QED BY <1>3

\* A sum may be taken over other indices of the same values.
LEMMA SumImage ==
    ASSUME NEW S, IsFiniteSet(S), NEW f, NEW g, NEW h,
           \A x \in S : g[x] = f[h[x]] /\ g[x] \in Int,
           \A x, y \in S : h[x] = h[y] => x = y
    PROVE  SumFunctionOnSet(g, S) = SumFunctionOnSet(f, {h[x] : x \in S})
<1> DEFINE Im(T) == {h[x] : x \in T}
           Good == {T \in SUBSET S : /\ IsFiniteSet(Im(T))
                      /\ SumFunctionOnSet(g, T) = SumFunctionOnSet(f, Im(T))}
<1>1. \A T \in SUBSET S : (\A x \in T : T \ {x} \in Good) => T \in Good
  <2> SUFFICES ASSUME NEW T \in SUBSET S, \A x \in T : T \ {x} \in Good
               PROVE  T \in Good
    OBVIOUS
  <2>1. CASE T = {}
    <3>1. Im(T) = {}
      BY <2>1
    <3>2. QED BY <2>1, <3>1, SumEmpty, FS_EmptySet
  <2>2. CASE T # {}
    <3>1. PICK z \in T : TRUE
      BY <2>2
    <3> DEFINE A == Im(T)
               B == Im(T \ {z})
    <3>2. A \ {h[z]} = B /\ h[z] \in A /\ A = B \cup {h[z]}
      OBVIOUS
    <3>3. /\ IsFiniteSet(B)
          /\ SumFunctionOnSet(g, T \ {z}) = SumFunctionOnSet(f, B)
      BY <3>1
    <3>4. \A y \in A : f[y] \in Int
      OBVIOUS
    <3>5. T \in SUBSET S /\ g[z] = f[h[z]] /\ \A x \in T : g[x] \in Int
      OBVIOUS
    <3>6. T \in Good <=> /\ IsFiniteSet(A)
                        /\ SumFunctionOnSet(g, T) = SumFunctionOnSet(f, A)
      OBVIOUS
    <3> HIDE DEF A, B, Good
    <3>7. IsFiniteSet(A)
      <4>1. IsFiniteSet(B \cup {h[z]})
        BY <3>3, FS_AddElement
      <4>2. QED BY <3>2, <4>1
    <3>8. SumFunctionOnSet(f, A) = f[h[z]] + SumFunctionOnSet(f, A \ {h[z]})
      BY <3>2, <3>4, <3>7, SumRemove
    <3>9. SumFunctionOnSet(g, T) = g[z] + SumFunctionOnSet(g, T \ {z})
      BY <3>5, FS_Subset, SumRemove
    <3>10. QED BY <3>2, <3>3, <3>5, <3>6, <3>7, <3>8, <3>9
  <2>3. QED BY <2>1, <2>2
<1>2. \A T \in SUBSET S : T \in Good
  <2> HIDE DEF Good
  <2> QED BY <1>1, SubsetInduction
<1>3. S \in Good
  BY <1>2
<1>4. QED BY <1>3

\* ... with a name for the image
LEMMA SumRenumbered ==
    ASSUME NEW S, IsFiniteSet(S), NEW f, NEW g, NEW h, NEW V,
           V = {h[x] : x \in S},
           \A x \in S : g[x] = f[h[x]] /\ g[x] \in Int,
           \A x, y \in S : h[x] = h[y] => x = y
    PROVE  SumFunctionOnSet(g, S) = SumFunctionOnSet(f, V)
BY SumImage

\* Bounded values have a bounded sum.
LEMMA SumBound ==
    ASSUME NEW S, IsFiniteSet(S), NEW f, NEW c \in Int,
           \A x \in S : f[x] \in Int /\ f[x] <= c
    PROVE  SumFunctionOnSet(f, S) <= Cardinality(S) * c
<1> DEFINE Good == {T \in SUBSET S :
                      SumFunctionOnSet(f, T) <= Cardinality(T) * c}
<1>1. \A T \in SUBSET S : (\A x \in T : T \ {x} \in Good) => T \in Good
  <2> SUFFICES ASSUME NEW T \in SUBSET S, \A x \in T : T \ {x} \in Good
               PROVE  SumFunctionOnSet(f, T) <= Cardinality(T) * c
    OBVIOUS
  <2>1. CASE T = {}
    BY <2>1, SumEmpty, FS_EmptySet
  <2>2. CASE T # {}
    <3>1. PICK z \in T : TRUE
      BY <2>2
    <3>2. IsFiniteSet(T) /\ IsFiniteSet(T \ {z})
      BY FS_Subset
    <3>3. SumFunctionOnSet(f, T) = f[z] + SumFunctionOnSet(f, T \ {z})
      BY <3>2, SumRemove
    <3>4. SumFunctionOnSet(f, T \ {z}) <= Cardinality(T \ {z}) * c
      BY <3>1
    <3>5. /\ Cardinality(T \ {z}) = Cardinality(T) - 1
          /\ Cardinality(T) \in Nat
      BY <3>2, FS_RemoveElement, FS_CardinalityType
    <3>6. /\ SumFunctionOnSet(f, T \ {z}) \in Int
          /\ f[z] \in Int /\ f[z] <= c
      BY <3>2, SumType
    <3>7. \A n \in Nat : (n - 1) * c = n * c - c /\ n * c \in Int
      OBVIOUS
    <3>8. QED BY <3>3, <3>4, <3>5, <3>6, <3>7
  <2>3. QED BY <2>1, <2>2
<1>2. \A T \in SUBSET S : T \in Good
  <2> HIDE DEF Good
  <2> QED BY <1>1, SubsetInduction
<1>3. S \in Good
  BY <1>2
<1>4. QED BY <1>3

\* Sums add up element by element.
LEMMA SumPlus ==
    ASSUME NEW S, IsFiniteSet(S), NEW f, NEW g, NEW h,
           \A x \in S : f[x] \in Int /\ g[x] \in Int /\ h[x] = f[x] + g[x]
    PROVE  SumFunctionOnSet(h, S) = SumFunctionOnSet(f, S) + SumFunctionOnSet(g, S)
<1> DEFINE Good == {T \in SUBSET S :
             SumFunctionOnSet(h, T) = SumFunctionOnSet(f, T) + SumFunctionOnSet(g, T)}
<1>1. \A T \in SUBSET S : (\A x \in T : T \ {x} \in Good) => T \in Good
  <2> SUFFICES ASSUME NEW T \in SUBSET S, \A x \in T : T \ {x} \in Good
               PROVE  SumFunctionOnSet(h, T) = SumFunctionOnSet(f, T) + SumFunctionOnSet(g, T)
    OBVIOUS
  <2>1. CASE T = {}
    BY <2>1, SumEmpty
  <2>2. CASE T # {}
    <3>1. PICK y \in T : TRUE
      BY <2>2
    <3>2. IsFiniteSet(T) /\ IsFiniteSet(T \ {y})
      BY FS_Subset
    <3>3. \A x \in T : f[x] \in Int /\ g[x] \in Int /\ h[x] \in Int
      OBVIOUS
    <3>4. /\ SumFunctionOnSet(f, T) = f[y] + SumFunctionOnSet(f, T \ {y})
          /\ SumFunctionOnSet(g, T) = g[y] + SumFunctionOnSet(g, T \ {y})
          /\ SumFunctionOnSet(h, T) = h[y] + SumFunctionOnSet(h, T \ {y})
      BY <3>2, <3>3, SumRemove
    <3>5. SumFunctionOnSet(f, T \ {y}) \in Int /\ SumFunctionOnSet(g, T \ {y}) \in Int
      BY <3>2, <3>3, SumType
    <3>6. SumFunctionOnSet(h, T \ {y}) =
            SumFunctionOnSet(f, T \ {y}) + SumFunctionOnSet(g, T \ {y})
      OBVIOUS
    <3>7. f[y] \in Int /\ g[y] \in Int /\ h[y] = f[y] + g[y]
      OBVIOUS
    <3>8. QED BY <3>4, <3>5, <3>6, <3>7
  <2>3. QED BY <2>1, <2>2
<1> HIDE DEF Good
<1>2. S \in Good
  <2>1. \A T \in SUBSET S : T \in Good
    BY <1>1, SubsetInduction
  <2>2. QED BY <2>1
<1>3. QED BY <1>2 DEF Good

\* A sum grows with its terms.
LEMMA SumMonotone ==
    ASSUME NEW S, IsFiniteSet(S), NEW f, NEW g,
           \A x \in S : f[x] \in Int /\ g[x] \in Int /\ f[x] <= g[x]
    PROVE  /\ SumFunctionOnSet(f, S) \in Int /\ SumFunctionOnSet(g, S) \in Int
           /\ SumFunctionOnSet(f, S) <= SumFunctionOnSet(g, S)
<1> DEFINE h == [x \in S |-> g[x] - f[x]]
<1>1. \A x \in S : h[x] \in Nat /\ h[x] \in Int /\ g[x] = f[x] + h[x]
  OBVIOUS
<1>2. \A x \in S : f[x] \in Int /\ g[x] \in Int
  OBVIOUS
<1> HIDE DEF h
<1>3. \A x \in S : f[x] \in Int /\ h[x] \in Int /\ g[x] = f[x] + h[x]
  BY <1>1, <1>2
<1>4. SumFunctionOnSet(g, S) = SumFunctionOnSet(f, S) + SumFunctionOnSet(h, S)
  BY <1>3, SumPlus
<1>5. SumFunctionOnSet(h, S) \in Nat
  BY <1>1, SumType
<1>6. SumFunctionOnSet(f, S) \in Int
  BY <1>2, SumType
<1>7. QED BY <1>4, <1>5, <1>6

\* A sum of naturals is no less than any part of it.
LEMMA SumPart ==
    ASSUME NEW S, IsFiniteSet(S), NEW f, \A x \in S : f[x] \in Nat, NEW P \in SUBSET S
    PROVE  /\ SumFunctionOnSet(f, P) \in Nat /\ SumFunctionOnSet(f, S) \in Nat
           /\ SumFunctionOnSet(f, P) <= SumFunctionOnSet(f, S)
<1>1. IsFiniteSet(P) /\ IsFiniteSet(S \ P)
  BY FS_Subset
<1>2. \A x \in S : f[x] \in Int
  OBVIOUS
<1>3. SumFunctionOnSet(f, S) = SumFunctionOnSet(f, P) + SumFunctionOnSet(f, S \ P)
  BY <1>2, SumSplit
<1>4. SumFunctionOnSet(f, P) \in Nat /\ SumFunctionOnSet(f, S \ P) \in Nat
  BY <1>1, <1>2, SumType
<1>5. QED BY <1>3, <1>4

\* The values of some arguments are replaced.
LEMMA SumReplaced ==
    ASSUME NEW S, IsFiniteSet(S), NEW f, NEW g, NEW P \in SUBSET S,
           \A x \in S : f[x] \in Int /\ g[x] \in Int,
           \A x \in S \ P : f[x] = g[x]
    PROVE  SumFunctionOnSet(g, S) =
             SumFunctionOnSet(f, S) - SumFunctionOnSet(f, P) + SumFunctionOnSet(g, P)
<1> DEFINE R == S \ P
<1>1. IsFiniteSet(R) /\ IsFiniteSet(P)
  BY FS_Subset
<1>2. \A x \in R : f[x] \in Int /\ g[x] \in Int /\ f[x] = g[x]
  OBVIOUS
<1>3. /\ SumFunctionOnSet(f, S) = SumFunctionOnSet(f, P) + SumFunctionOnSet(f, R)
      /\ SumFunctionOnSet(g, S) = SumFunctionOnSet(g, P) + SumFunctionOnSet(g, R)
  <2>1. \A x \in S : f[x] \in Int
    OBVIOUS
  <2>2. \A x \in S : g[x] \in Int
    OBVIOUS
  <2>3. QED BY <2>1, <2>2, SumSplit
<1> HIDE DEF R
<1>4. SumFunctionOnSet(f, R) = SumFunctionOnSet(g, R)
  BY <1>1, <1>2, SumAgree
<1>5. /\ SumFunctionOnSet(f, P) \in Int /\ SumFunctionOnSet(g, P) \in Int
      /\ SumFunctionOnSet(f, R) \in Int
  <2>1. \A x \in P : f[x] \in Int
    OBVIOUS
  <2>2. \A x \in P : g[x] \in Int
    OBVIOUS
  <2>3. QED BY <1>1, <1>2, <2>1, <2>2, SumType
<1>6. QED BY <1>3, <1>4, <1>5

\* The positions after the first m of m + n
LEMMA ShiftedPositions ==
    ASSUME NEW m \in Nat, NEW n \in Nat
    PROVE  LET h == [i \in 1 .. n |-> i + m] IN
           /\ IsFiniteSet(1 .. n) /\ IsFiniteSet(1 .. m + n)
           /\ 1 .. m \in SUBSET (1 .. m + n)
           /\ {h[i] : i \in 1 .. n} = (1 .. m + n) \ (1 .. m)
           /\ \A i, j \in 1 .. n : h[i] = h[j] => i = j
<1> DEFINE P == 1 .. m
           Q == 1 .. n
           R == 1 .. m + n
           h == [i \in Q |-> i + m]
<1>1. \A i \in Q : h[i] = i + m /\ h[i] \in R \ P
  OBVIOUS
<1>2. ASSUME NEW j \in R \ P
      PROVE  j - m \in Q /\ h[j - m] = j
  OBVIOUS
<1>3. \A i, j \in Q : h[i] = h[j] => i = j
  BY <1>1
<1>4. {h[i] : i \in Q} = R \ P
  <2> HIDE DEF h, P, Q, R
  <2>1. \A j \in R \ P : \E i \in Q : h[i] = j
    BY <1>2
  <2>2. QED BY <1>1, <2>1
<1>5. IsFiniteSet(Q) /\ IsFiniteSet(R)
  <2>1. IsFiniteSet(Q)
    BY FS_Interval
  <2>2. m + n \in Int
    OBVIOUS
  <2>3. IsFiniteSet(R)
    BY <2>2, FS_Interval
  <2>4. QED BY <2>1, <2>3
<1>6. P \in SUBSET R
  OBVIOUS
<1>7. QED BY <1>3, <1>4, <1>5, <1>6

-----------------------------------------------------------------------------
(* Folds in general: pick[s] is the element of s taken up last, step[<<x, v>>] *)
(* the result of taking x up after the others gave v.                          *)

Fold1(base, pick, step, g, s) ==
    IF s = {} THEN base ELSE step[<<pick[s], g[s \ {pick[s]}]>>]

Folds(S, V, base, pick, step) ==
    \E g \in [SUBSET S -> V] : \A s \in SUBSET S : g[s] = Fold1(base, pick, step, g, s)

\* There is a table of the results for every subset.
LEMMA FoldExists ==
    ASSUME NEW S, IsFiniteSet(S), NEW V, NEW base \in V, NEW pick, NEW step,
           \A s \in SUBSET S : s # {} => pick[s] \in s,
           \A x \in S, v \in V : step[<<x, v>>] \in V
    PROVE  Folds(S, V, base, pick, step)
<1> DEFINE Upto(n, g) == \A s \in SUBSET S :
                            Cardinality(s) <= n => g[s] = Fold1(base, pick, step, g, s)
           Good == {T \in SUBSET S :
                      \E g \in [SUBSET S -> V] : Upto(Cardinality(T), g)}
<1>1. \A s \in SUBSET S : IsFiniteSet(s) /\ Cardinality(s) \in Nat
  BY FS_Subset, FS_CardinalityType
<1>2. \A T \in SUBSET S : (\A x \in T : T \ {x} \in Good) => T \in Good
  <2> SUFFICES ASSUME NEW T \in SUBSET S, \A x \in T : T \ {x} \in Good
               PROVE  T \in Good
    OBVIOUS
  <2>1. CASE T = {}
    <3> DEFINE z == [s \in SUBSET S |-> base]
    <3>1. Cardinality(T) = 0
      BY <2>1, FS_EmptySet
    <3>2. \A s \in SUBSET S : Cardinality(s) <= 0 => s = {}
      BY <1>1, FS_EmptySet
    <3>3. Upto(0, z) /\ z \in [SUBSET S -> V]
      BY <3>2 DEF Fold1
    <3>4. QED BY <3>1, <3>3
  <2>2. CASE T # {}
    <3>1. PICK y \in T : TRUE
      BY <2>2
    <3>2. Cardinality(T \ {y}) = Cardinality(T) - 1
      BY <1>1, <3>1, FS_RemoveElement
    <3>3. PICK g \in [SUBSET S -> V] : Upto(Cardinality(T) - 1, g)
      <4>1. T \ {y} \in Good
        BY <3>1
      <4>2. \E g \in [SUBSET S -> V] : Upto(Cardinality(T \ {y}), g)
        <5> HIDE DEF Upto
        <5> QED BY <4>1
      <4> HIDE DEF Upto
      <4>3. QED BY <3>2, <4>2
    <3> DEFINE h == [s \in SUBSET S |-> Fold1(base, pick, step, g, s)]
    <3>4. h \in [SUBSET S -> V]
      <4> SUFFICES ASSUME NEW s \in SUBSET S PROVE Fold1(base, pick, step, g, s) \in V
        OBVIOUS
      <4>1. s # {} => pick[s] \in S /\ g[s \ {pick[s]}] \in V
        BY <3>3
      <4>2. QED BY <4>1 DEF Fold1
    <3>5. ASSUME NEW s \in SUBSET S, Cardinality(s) <= Cardinality(T)
          PROVE  h[s] = Fold1(base, pick, step, h, s)
      <4>1. CASE s = {}
        BY <4>1 DEF Fold1
      <4>2. CASE s # {}
        <5> DEFINE u == s \ {pick[s]}
        <5>0. pick[s] \in s /\ IsFiniteSet(s)
          BY <1>1, <4>2
        <5>1. Cardinality(u) = Cardinality(s) - 1
          BY <5>0, FS_RemoveElement
        <5>2. u \in SUBSET S /\ Cardinality(u) <= Cardinality(T) - 1
          BY <1>1, <3>5, <5>1
        <5>3. g[u] = h[u]
          BY <3>3, <5>2
        <5>4. h[s] = Fold1(base, pick, step, g, s)
          OBVIOUS
        <5> HIDE DEF h
        <5>5. QED BY <4>2, <5>3, <5>4 DEF Fold1
      <4>3. QED BY <4>1, <4>2
    <3>6. Upto(Cardinality(T), h)
      BY <3>5
    <3>7. QED BY <3>4, <3>6
  <2>3. QED BY <2>1, <2>2
<1>3. S \in Good
  <2> HIDE DEF Good
  <2>1. \A T \in SUBSET S : T \in Good
    BY <1>2, SubsetInduction
  <2>2. QED BY <2>1
<1>4. PICK g \in [SUBSET S -> V] : Upto(Cardinality(S), g)
  BY <1>3
<1>5. \A s \in SUBSET S : Cardinality(s) <= Cardinality(S)
  BY FS_Subset
<1>6. QED BY <1>4, <1>5 DEF Folds

-----------------------------------------------------------------------------
(* The size of a sequence of records *)

SizeSum(p) == SumFunctionOnSet([i \in DOMAIN p |-> p[i].size], DOMAIN p)

LEMMA SizeSumEmpty == SizeSum(<<>>) = 0
<1>1. SizeSum(<<>>) = SumFunctionOnSet([i \in DOMAIN <<>> |-> <<>>[i].size], {})
  BY DEF SizeSum
<1>2. QED BY <1>1, SumEmpty

LEMMA SizeSumNat ==
    ASSUME NEW S, \A x \in S : x.size \in Nat, NEW p \in Seq(S)
    PROVE  SizeSum(p) \in Nat
<1> DEFINE f == [i \in DOMAIN p |-> p[i].size]
<1>1. DOMAIN p = 1 .. Len(p) /\ Len(p) \in Nat
  BY LenProperties
<1>2. \A i \in DOMAIN p : f[i] \in Nat /\ f[i] \in Int
  BY <1>1, ElementOfSeq
<1>3. IsFiniteSet(DOMAIN p)
  BY <1>1, FS_Interval
<1>4. SizeSum(p) = SumFunctionOnSet(f, DOMAIN p)
  BY DEF SizeSum
<1> HIDE DEF f
<1>5. QED BY <1>2, <1>3, <1>4, SumType

LEMMA SizeSumConcat ==
    ASSUME NEW S, \A x \in S : x.size \in Nat, NEW p \in Seq(S), NEW q \in Seq(S)
    PROVE  SizeSum(p \o q) = SizeSum(p) + SizeSum(q)
<1> DEFINE c == p \o q
           m == Len(p)
           n == Len(q)
           f == [i \in DOMAIN c |-> c[i].size]
           fp == [i \in DOMAIN p |-> p[i].size]
           fq == [i \in DOMAIN q |-> q[i].size]
           P == 1 .. m
           Q == 1 .. n
           R == 1 .. m + n
           h == [i \in Q |-> i + m]
<1>1. /\ m \in Nat /\ n \in Nat /\ DOMAIN p = P /\ DOMAIN q = Q
      /\ c \in Seq(S) /\ Len(c) = m + n
      /\ \A i \in R : c[i] = IF i <= m THEN p[i] ELSE q[i - m]
  BY LenProperties, ConcatProperties
<1>2. DOMAIN c = R
  BY <1>1, LenProperties
<1>3. \A i \in R : f[i] \in Int
  BY <1>1, <1>2, ElementOfSeq
<1>4. \A i \in P : fp[i] \in Int /\ fp[i] = f[i]
  <2>1. \A i \in P : i \in R /\ i <= m
    BY <1>1
  <2>2. QED BY <1>1, <1>2, <1>3, <2>1
<1>5. ASSUME NEW i \in Q
      PROVE  fq[i] \in Int /\ fq[i] = f[h[i]]
  <2>1. h[i] = i + m /\ i + m \in R /\ ~(i + m <= m) /\ (i + m) - m = i
    BY <1>1
  <2>2. c[i + m] = q[i]
    BY <1>1, <2>1
  <2>3. QED BY <1>1, <1>2, <1>3, <2>1, <2>2
<1>6. /\ SizeSum(c) = SumFunctionOnSet(f, R)
      /\ SizeSum(p) = SumFunctionOnSet(fp, P)
      /\ SizeSum(q) = SumFunctionOnSet(fq, Q)
  BY <1>1, <1>2 DEF SizeSum
<1>7. /\ IsFiniteSet(Q) /\ IsFiniteSet(R) /\ P \in SUBSET R
      /\ {h[i] : i \in Q} = R \ P
      /\ \A i, j \in Q : h[i] = h[j] => i = j
  BY <1>1, ShiftedPositions
<1> HIDE DEF f, fp, fq, c, m, n, P, Q, R, h
<1>8. SumFunctionOnSet(f, R) = SumFunctionOnSet(f, P) + SumFunctionOnSet(f, R \ P)
  BY <1>3, <1>7, SumSplit
<1>9. SumFunctionOnSet(fp, P) = SumFunctionOnSet(f, P)
  BY <1>4, <1>7, SumAgree, FS_Subset
<1>10. SumFunctionOnSet(fq, Q) = SumFunctionOnSet(f, {h[i] : i \in Q})
  <2>1. \A i \in Q : fq[i] = f[h[i]] /\ fq[i] \in Int
    BY <1>5
  <2>2. IsFiniteSet(Q) /\ (\A i, j \in Q : h[i] = h[j] => i = j)
    BY <1>7
  <2> DEFINE V == {h[i] : i \in Q}
  <2>3. V = {h[i] : i \in Q}
    OBVIOUS
  <2> HIDE DEF V
  <2>4. SumFunctionOnSet(fq, Q) = SumFunctionOnSet(f, V)
    BY <2>1, <2>2, <2>3, SumRenumbered
  <2>5. QED BY <2>3, <2>4
<1>11. SizeSum(c) = SizeSum(p) + SizeSum(q)
  BY <1>6, <1>7, <1>8, <1>9, <1>10
<1>12. QED BY <1>11 DEF c

LEMMA SizeSumAppend ==
    ASSUME NEW S, \A x \in S : x.size \in Nat, NEW p \in Seq(S), NEW e \in S
    PROVE  SizeSum(Append(p, e)) = SizeSum(p) + e.size
<1> DEFINE f == [i \in 1 .. 1 |-> e.size]
<1>1. <<e>> \in Seq(S) /\ Append(p, e) = p \o <<e>>
  OBVIOUS
<1>2. SizeSum(p \o <<e>>) = SizeSum(p) + SizeSum(<<e>>)
  BY <1>1, SizeSumConcat
<1>3. SizeSum(<<e>>) = e.size
  <2>1. DOMAIN <<e>> = {1} /\ <<e>>[1] = e
    OBVIOUS
  <2> DEFINE g == [i \in DOMAIN <<e>> |-> <<e>>[i].size]
  <2>2. g[1] = e.size /\ g[1] \in Int /\ SizeSum(<<e>>) = SumFunctionOnSet(g, {1})
    BY <2>1 DEF SizeSum
  <2> HIDE DEF g
  <2>3. IsFiniteSet({1}) /\ {1} \ {1} = {}
    BY FS_Singleton
  <2>4. SumFunctionOnSet(g, {1}) = g[1] + SumFunctionOnSet(g, {1} \ {1})
    BY <2>2, <2>3, SumRemove
  <2>5. SumFunctionOnSet(g, {1} \ {1}) = 0
    BY <2>3, SumEmpty
  <2>6. e.size \in Nat
    OBVIOUS
  <2>7. QED BY <2>2, <2>4, <2>5, <2>6
<1>4. QED BY <1>1, <1>2, <1>3

\* A sequence cut in two
LEMMA SizeSumCut ==
    ASSUME NEW S, \A x \in S : x.size \in Nat, NEW p \in Seq(S), NEW n \in 0 .. Len(p)
    PROVE  LET u == SubSeq(p, 1, n)
               v == SubSeq(p, n + 1, Len(p))
           IN  /\ u \in Seq(S) /\ Len(u) = n
               /\ v \in Seq(S) /\ Len(v) = Len(p) - n
               /\ SizeSum(p) = SizeSum(u) + SizeSum(v)
<1> DEFINE u == SubSeq(p, 1, n)
           v == SubSeq(p, n + 1, Len(p))
           k == Len(p)
<1>1. k \in Nat /\ n \in Nat /\ n \in Int /\ 1 \in Int /\ n + 1 \in Int /\ k \in Int
  BY LenProperties
<1>2. \A i \in 1 .. k : p[i] \in S
  BY ElementOfSeq
<1>3. (\A i \in 1 .. n : p[i] \in S) /\ (\A i \in n + 1 .. k : p[i] \in S)
  <2>1. (\A i \in 1 .. n : i \in 1 .. k) /\ (\A i \in n + 1 .. k : i \in 1 .. k)
    BY <1>1
  <2>2. QED BY <1>2, <2>1
<1>4. u \in Seq(S) /\ Len(u) = IF 1 <= n THEN n - 1 + 1 ELSE 0
  BY <1>1, <1>3, SubSeqProperties
<1>5. v \in Seq(S) /\ Len(v) = IF n + 1 <= k THEN k - (n + 1) + 1 ELSE 0
  <2> HIDE DEF k
  <2>1. SubSeq(p, n + 1, k) \in Seq(S)
        /\ Len(SubSeq(p, n + 1, k)) = IF n + 1 <= k THEN k - (n + 1) + 1 ELSE 0
    BY <1>1, <1>3, SubSeqProperties
  <2>2. QED BY <2>1 DEF k
<1>6. Len(u) = n /\ Len(v) = k - n
  <2> HIDE DEF u, v, k
  <2>1. n <= k
    BY DEF k
  <2>2. QED BY <1>1, <1>4, <1>5, <2>1
<1>7. u \o v = p
  <2>1. 1 \in 1 .. k + 1 /\ n \in 1 - 1 .. k /\ k \in n .. k
    BY <1>1
  <2>2. u \o v = SubSeq(p, 1, k)
    BY <2>1, ConcatAdjacentSubSeq
  <2>3. QED BY <2>2, SubSeqFull
<1> HIDE DEF u, v
<1>8. SizeSum(p) = SizeSum(u) + SizeSum(v)
  BY <1>4, <1>5, <1>7, SizeSumConcat
<1>9. QED BY <1>4, <1>5, <1>6, <1>8 DEF u, v
=============================================================================
