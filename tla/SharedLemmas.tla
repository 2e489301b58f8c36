---------------------------- MODULE SharedLemmas ----------------------------
(***************************************************************************)
(* Facts about operators that several components are built from: `ingest`  *)
(* of the case ledger, which both transports of the gateway call; and what *)
(* reports are made of: sums over finite sets and sums of sums, greatest   *)
(* and least members, and rounded fractions.                               *)
(*                                                                         *)
(* The theorems of induction in the library take a predicate.  What holds  *)
(* of a set is stated here as membership in a set of sets, so that an      *)
(* induction is the citation of a minimal counterexample (WFMin).          *)
(***************************************************************************)
EXTENDS CaseIngest, Rounding, FiniteSetTheorems, WellFoundedInduction,
        SequenceTheorems, TLAPS

-----------------------------------------------------------------------------
(* `ingest`, for any rows that have an alert and a scope *)

\* `ingest` of a well-typed row leaves a well-typed ledger.
LEMMA IngestedType ==
    ASSUME NEW S, NEW table \in Seq(S), NEW row \in S
    PROVE  Ingested(table, row) \in Seq(S)
BY DEF Ingested

\* `ingest` keeps every row it finds, keeps one case per alert, and leaves the
\* alert with a case whose scope is the caller's if the scopes agreed.
LEMMA IngestedKeeps ==
    ASSUME NEW S, NEW table \in Seq(S), NEW row \in S
    PROVE  /\ \A c \in DOMAIN table : /\ c \in DOMAIN Ingested(table, row)
                                      /\ Ingested(table, row)[c] = table[c]
           /\ OneCasePerAlert(table) => OneCasePerAlert(Ingested(table, row))
           /\ ScopeAgrees(table, row) =>
                \A c \in CasesFor(Ingested(table, row), row.alert) :
                    Ingested(table, row)[c].scope = row.scope
<1>1. CASE CasesFor(table, row.alert) = {}
  <2>1. Ingested(table, row) = Append(table, row)
    BY <1>1 DEF Ingested
  <2>2. /\ DOMAIN table = 1..Len(table)
        /\ DOMAIN Append(table, row) = 1..(Len(table) + 1)
        /\ \A c \in 1..Len(table) : Append(table, row)[c] = table[c]
        /\ Append(table, row)[Len(table) + 1] = row
    BY AppendProperties
  <2> QED
    BY <1>1, <2>1, <2>2 DEF CasesFor, OneCasePerAlert
<1>2. CASE CasesFor(table, row.alert) # {}
  BY <1>2 DEF Ingested, ScopeAgrees, CasesFor
<1> QED
  BY <1>1, <1>2

-----------------------------------------------------------------------------
(* Induction over finite sets: what holds of a set when it holds of the set *)
(* without any one of its elements, holds of every finite set.  `Good` is   *)
(* the set of the sets it holds of.                                         *)

LEMMA SetInduction ==
    ASSUME NEW S, IsFiniteSet(S), NEW Good,
           \A T \in SUBSET S : (\A x \in T : T \ {x} \in Good) => T \in Good
    PROVE  \A T \in SUBSET S : T \in Good
<1> DEFINE bad == (SUBSET S) \ Good
           R == StrictSubsetOrdering(S)
<1>1. SUFFICES ASSUME bad # {} PROVE FALSE
  OBVIOUS
<1>2. bad \subseteq FiniteSubsetsOf(S)
  BY FS_Subset DEF FiniteSubsetsOf
<1>3. IsWellFoundedOn(R, FiniteSubsetsOf(S))
  BY FS_StrictSubsetOrderingWellFounded
<1>4. PICK T \in bad : \A U \in bad : ~(<<U, T>> \in R)
  <2> HIDE DEF bad, R
  <2> QED
    BY <1>1, <1>2, <1>3, WFMin, Zenon
<1>5. ASSUME NEW x \in T PROVE T \ {x} \in Good
  <2>1. T \ {x} \in SUBSET S /\ T \ {x} # T
    BY <1>5
  <2>2. <<T \ {x}, T>> \in R
    BY <2>1 DEF StrictSubsetOrdering
  <2> QED
    BY <1>4, <2>1, <2>2
<1> QED
  BY <1>4, <1>5

-----------------------------------------------------------------------------
(* Sums over finite sets *)

\* The element MapThenSumSet takes first, and the function it is defined by.
FirstIn(s) == CHOOSE x \in s : TRUE

IsFold(f, S, g) ==
    g = [s \in SUBSET S |-> IF s = {} THEN 0 ELSE f[FirstIn(s)] + g[s \ {FirstIn(s)}]]

LEMMA SumIsFold ==
    ASSUME NEW f, NEW S
    PROVE  SumOver(f, S) = (CHOOSE g : IsFold(f, S, g))[S]
BY DEF SumOver, MapThenSumSet, MapThenFoldSet, IsFold, FirstIn

LEMMA FirstIsIn ==
    ASSUME NEW s, s # {}
    PROVE  FirstIn(s) \in s
BY DEF FirstIn

\* The same up to a number of elements.
Small(S, n) == {s \in SUBSET S : Cardinality(s) <= n}

IsFoldUpTo(f, S, n, g) ==
    g = [s \in Small(S, n) |-> IF s = {} THEN 0 ELSE f[FirstIn(s)] + g[s \ {FirstIn(s)}]]

LEMMA SmallStep ==
    ASSUME NEW S, IsFiniteSet(S), NEW n \in Nat
    PROVE  /\ Small(S, n) \subseteq Small(S, n + 1)
           /\ \A s \in Small(S, n + 1) : s # {} => s \ {FirstIn(s)} \in Small(S, n)
           /\ Small(S, 0) = {{}}
<1>1. ASSUME NEW s \in SUBSET S
      PROVE  IsFiniteSet(s) /\ Cardinality(s) \in Nat
  BY FS_Subset, FS_CardinalityType
<1>2. Small(S, n) \subseteq Small(S, n + 1)
  BY <1>1 DEF Small
<1>3. ASSUME NEW s \in Small(S, n + 1), s # {}
      PROVE  s \ {FirstIn(s)} \in Small(S, n)
  <2>1. s \in SUBSET S /\ Cardinality(s) <= n + 1 /\ FirstIn(s) \in s
    BY <1>3, FirstIsIn DEF Small
  <2>2. Cardinality(s \ {FirstIn(s)}) = Cardinality(s) - 1
    BY <1>1, <2>1, FS_RemoveElement
  <2>3. Cardinality(s \ {FirstIn(s)}) <= n
    BY <1>1, <2>1, <2>2
  <2> QED
    BY <2>1, <2>3 DEF Small
<1>4. ASSUME NEW s \in SUBSET S PROVE Cardinality(s) <= 0 <=> s = {}
  BY <1>1, FS_EmptySet
<1>5. Small(S, 0) = {{}}
  BY <1>4 DEF Small
<1> QED
  BY <1>2, <1>3, <1>5

\* A fold up to n elements gives one up to n + 1.
LEMMA FoldGrows ==
    ASSUME NEW S, IsFiniteSet(S), NEW f, NEW n \in Nat, NEW g, IsFoldUpTo(f, S, n, g)
    PROVE  \E h : IsFoldUpTo(f, S, n + 1, h)
<1> DEFINE body(k, s) == IF s = {} THEN 0 ELSE f[FirstIn(s)] + k[s \ {FirstIn(s)}]
           h == [s \in Small(S, n + 1) |-> body(g, s)]
<1>1. ASSUME NEW s \in Small(S, n) PROVE h[s] = g[s]
  <2>1. s \in Small(S, n + 1)
    BY <1>1, SmallStep
  <2>2. g[s] = body(g, s)
    BY <1>1 DEF IsFoldUpTo
  <2> QED
    BY <2>1, <2>2
<1>2. ASSUME NEW s \in Small(S, n + 1) PROVE body(g, s) = body(h, s)
  <2>1. CASE s = {}
    BY <2>1
  <2>2. CASE s # {}
    <3>1. s \ {FirstIn(s)} \in Small(S, n)
      BY <1>2, <2>2, SmallStep
    <3>2. h[s \ {FirstIn(s)}] = g[s \ {FirstIn(s)}]
      BY <1>1, <3>1
    <3> QED
      BY <2>2, <3>2
  <2> QED
    BY <2>1, <2>2
<1>3. h = [s \in Small(S, n + 1) |-> body(h, s)]
  <2> HIDE DEF body
  <2> QED
    BY <1>2
<1>4. IsFoldUpTo(f, S, n + 1, h)
  BY <1>3 DEF IsFoldUpTo
<1> QED
  BY <1>4

\* The sum of a finite set is defined.
LEMMA FoldExists ==
    ASSUME NEW S, IsFiniteSet(S), NEW f
    PROVE  \E g : IsFold(f, S, g)
<1> DEFINE bad == {n \in Nat : ~\E g : IsFoldUpTo(f, S, n, g)}
<1>1. bad = {}
  <2>1. SUFFICES ASSUME bad # {} PROVE FALSE
    OBVIOUS
  <2>2. PICK n \in bad : \A m \in bad : ~(<<m, n>> \in OpToRel(<, Nat))
    <3> bad \subseteq Nat
      OBVIOUS
    <3> HIDE DEF bad
    <3> QED
      BY <2>1, NatLessThanWellFounded, WFMin, Zenon
  <2>3. n \in Nat /\ ~\E g : IsFoldUpTo(f, S, n, g)
    OBVIOUS
  <2>4. n # 0
    <3> DEFINE g == [s \in {{}} |-> 0]
    <3>1. Small(S, 0) = {{}}
      BY SmallStep
    <3>2. g = [s \in Small(S, 0) |-> IF s = {} THEN 0 ELSE f[FirstIn(s)] + g[s \ {FirstIn(s)}]]
      BY <3>1
    <3>3. IsFoldUpTo(f, S, 0, g)
      BY <3>2 DEF IsFoldUpTo
    <3> QED
      BY <2>3, <3>3
  <2>5. n - 1 \in Nat /\ n - 1 < n
    BY <2>3, <2>4
  <2>6. <<n - 1, n>> \in OpToRel(<, Nat)
    BY <2>3, <2>5 DEF OpToRel
  <2>7. n - 1 \notin bad
    <3> HIDE DEF bad
    <3> QED
      BY <2>2, <2>6
  <2>8. PICK g : IsFoldUpTo(f, S, n - 1, g)
    BY <2>5, <2>7
  <2>9. \E h : IsFoldUpTo(f, S, (n - 1) + 1, h)
    BY <2>5, <2>8, FoldGrows
  <2>10. (n - 1) + 1 = n
    BY <2>3
  <2> QED
    BY <2>3, <2>9, <2>10
<1> DEFINE n == Cardinality(S)
<1>2. n \in Nat
  BY FS_CardinalityType
<1>3. PICK g : IsFoldUpTo(f, S, n, g)
  BY <1>1, <1>2
<1>4. Small(S, n) = SUBSET S
  BY FS_Subset DEF Small
<1>5. IsFold(f, S, g)
  BY <1>3, <1>4 DEF IsFold, IsFoldUpTo
<1> QED
  BY <1>5

\* Folds of the same values agree, whatever larger set they are folds of.
LEMMA FoldsAgree ==
    ASSUME NEW S, IsFiniteSet(S), NEW T \in SUBSET S, NEW f, NEW e, NEW g, NEW h,
           \A x \in T : f[x] = e[x], IsFold(f, S, g), IsFold(e, T, h)
    PROVE  \A s \in SUBSET T : g[s] = h[s]
<1> DEFINE Good == {s \in SUBSET T : g[s] = h[s]}
<1>1. IsFiniteSet(T)
  BY FS_Subset
<1>2. ASSUME NEW s \in SUBSET T, \A x \in s : s \ {x} \in Good PROVE s \in Good
  <2>1. CASE s = {}
    BY <2>1 DEF IsFold
  <2>2. CASE s # {}
    <3>1. FirstIn(s) \in s /\ s \ {FirstIn(s)} \in Good
      BY <1>2, <2>2, FirstIsIn
    <3>2. /\ g[s] = f[FirstIn(s)] + g[s \ {FirstIn(s)}]
          /\ h[s] = e[FirstIn(s)] + h[s \ {FirstIn(s)}]
      BY <2>2 DEF IsFold
    <3> QED
      BY <3>1, <3>2
  <2> QED
    BY <2>1, <2>2
<1>3. \A s \in SUBSET T : s \in Good
  <2> HIDE DEF Good
  <2> QED
    BY <1>1, <1>2, SetInduction
<1> QED
  BY <1>3

\* Every fold over a finite set gives its sum and those of its subsets.
LEMMA FoldIsSum ==
    ASSUME NEW S, IsFiniteSet(S), NEW f, NEW g, IsFold(f, S, g)
    PROVE  \A T \in SUBSET S : SumOver(f, T) = g[T]
<1> SUFFICES ASSUME NEW T \in SUBSET S PROVE SumOver(f, T) = g[T]
  OBVIOUS
<1> DEFINE h == CHOOSE k : IsFold(f, T, k)
<1>1. IsFold(f, T, h)
  <2>1. IsFiniteSet(T)
    BY FS_Subset
  <2>2. \E k : IsFold(f, T, k)
    BY <2>1, FoldExists
  <2> QED
    BY <2>2
<1>2. SumOver(f, T) = h[T]
  BY SumIsFold
<1>3. g[T] = h[T]
  <2> HIDE DEF h
  <2> QED
    BY <1>1, FoldsAgree
<1> QED
  BY <1>2, <1>3

\* A sum depends on the values it is of, and on nothing else.
LEMMA SumOfSame ==
    ASSUME NEW S, IsFiniteSet(S), NEW f, NEW e, \A x \in S : f[x] = e[x]
    PROVE  SumOver(f, S) = SumOver(e, S)
<1>1. PICK g : IsFold(f, S, g)
  BY FoldExists
<1>2. PICK h : IsFold(e, S, h)
  BY FoldExists
<1>3. SumOver(f, S) = g[S]
  BY <1>1, FoldIsSum
<1>4. SumOver(e, S) = h[S]
  BY <1>2, FoldIsSum
<1>5. \A s \in SUBSET S : g[s] = h[s]
  <2> S \in SUBSET S
    OBVIOUS
  <2> QED
    BY <1>1, <1>2, FoldsAgree
<1> QED
  BY <1>3, <1>4, <1>5

LEMMA SumOfNone ==
    ASSUME NEW f
    PROVE  SumOver(f, {}) = 0
<1>1. IsFiniteSet({})
  BY FS_EmptySet
<1>2. PICK g : IsFold(f, {}, g)
  BY <1>1, FoldExists
<1>3. g[{}] = 0
  BY <1>2 DEF IsFold
<1> QED
  BY <1>1, <1>2, <1>3, FoldIsSum

LEMMA SumFromFirst ==
    ASSUME NEW S, IsFiniteSet(S), S # {}, NEW f
    PROVE  SumOver(f, S) = f[FirstIn(S)] + SumOver(f, S \ {FirstIn(S)})
<1>1. PICK g : IsFold(f, S, g)
  BY FoldExists
<1>2. SumOver(f, S) = g[S] /\ SumOver(f, S \ {FirstIn(S)}) = g[S \ {FirstIn(S)}]
  BY <1>1, FoldIsSum
<1>3. g[S] = f[FirstIn(S)] + g[S \ {FirstIn(S)}]
  BY <1>1 DEF IsFold
<1> QED
  BY <1>2, <1>3

\* A sum of integers is an integer.
LEMMA SumType ==
    ASSUME NEW S, IsFiniteSet(S), NEW f, \A x \in S : f[x] \in Int
    PROVE  \A T \in SUBSET S : SumOver(f, T) \in Int
<1> DEFINE Good == {T \in SUBSET S : SumOver(f, T) \in Int}
<1>1. ASSUME NEW T \in SUBSET S, \A x \in T : T \ {x} \in Good PROVE T \in Good
  <2>1. CASE T = {}
    BY <2>1, SumOfNone
  <2>2. CASE T # {}
    <3>1. FirstIn(T) \in T /\ IsFiniteSet(T)
      BY <2>2, FirstIsIn, FS_Subset
    <3>2. SumOver(f, T) = f[FirstIn(T)] + SumOver(f, T \ {FirstIn(T)})
      BY <2>2, <3>1, SumFromFirst
    <3>3. SumOver(f, T \ {FirstIn(T)}) \in Int /\ f[FirstIn(T)] \in Int
      BY <1>1, <3>1
    <3> QED
      BY <3>2, <3>3
  <2> QED
    BY <2>1, <2>2
<1>2. \A T \in SUBSET S : T \in Good
  <2> HIDE DEF Good
  <2> QED
    BY <1>1, SetInduction
<1> QED
  BY <1>2

\* A sum of integers may begin with any of them.
LEMMA SumFromAny ==
    ASSUME NEW S, IsFiniteSet(S), NEW f, \A x \in S : f[x] \in Int
    PROVE  \A T \in SUBSET S : \A x \in T : SumOver(f, T) = f[x] + SumOver(f, T \ {x})
<1> DEFINE Good == {T \in SUBSET S : \A x \in T : SumOver(f, T) = f[x] + SumOver(f, T \ {x})}
<1>1. ASSUME NEW T \in SUBSET S, \A x \in T : T \ {x} \in Good PROVE T \in Good
  <2> SUFFICES ASSUME NEW x \in T PROVE SumOver(f, T) = f[x] + SumOver(f, T \ {x})
    OBVIOUS
  <2> DEFINE c == FirstIn(T)
  <2>1. c \in T /\ IsFiniteSet(T)
    BY FirstIsIn, FS_Subset
  <2>2. SumOver(f, T) = f[c] + SumOver(f, T \ {c})
    BY <2>1, SumFromFirst
  <2> HIDE DEF c
  <2>3. CASE x = c
    BY <2>2, <2>3
  <2>4. CASE x # c
    <3> DEFINE rest == (T \ {c}) \ {x}
    <3>1. x \in T \ {c} /\ c \in T \ {x} /\ (T \ {x}) \ {c} = rest
      BY <2>1, <2>4
    <3>2. SumOver(f, T \ {c}) = f[x] + SumOver(f, rest)
      BY <1>1, <2>1, <3>1
    <3>3. SumOver(f, T \ {x}) = f[c] + SumOver(f, rest)
      BY <1>1, <3>1
    <3>4. SumOver(f, rest) \in Int /\ f[x] \in Int /\ f[c] \in Int
      BY <2>1, SumType
    <3> HIDE DEF rest
    <3> QED
      BY <2>2, <3>2, <3>3, <3>4
  <2> QED
    BY <2>3, <2>4
<1>2. \A T \in SUBSET S : T \in Good
  <2> HIDE DEF Good
  <2> QED
    BY <1>1, SetInduction
<1> QED
  BY <1>2

\* Sums of naturals are naturals, and grow with each of them; a positive sum
\* has a positive part.
LEMMA SumGrows ==
    ASSUME NEW S, IsFiniteSet(S), NEW f, NEW e, \A x \in S : f[x] \in Int /\ e[x] \in Int /\ f[x] <= e[x]
    PROVE  SumOver(f, S) <= SumOver(e, S)
<1> DEFINE Good == {T \in SUBSET S : SumOver(f, T) <= SumOver(e, T)}
<1>1. ASSUME NEW T \in SUBSET S, \A x \in T : T \ {x} \in Good PROVE T \in Good
  <2>1. CASE T = {}
    BY <2>1, SumOfNone
  <2>2. CASE T # {}
    <3>1. FirstIn(T) \in T /\ IsFiniteSet(T)
      BY <2>2, FirstIsIn, FS_Subset
    <3>2. /\ SumOver(f, T) = f[FirstIn(T)] + SumOver(f, T \ {FirstIn(T)})
          /\ SumOver(e, T) = e[FirstIn(T)] + SumOver(e, T \ {FirstIn(T)})
      BY <2>2, <3>1, SumFromFirst
    <3>3. /\ SumOver(f, T \ {FirstIn(T)}) \in Int /\ f[FirstIn(T)] \in Int
          /\ SumOver(e, T \ {FirstIn(T)}) \in Int /\ e[FirstIn(T)] \in Int
      BY <3>1, SumType
    <3>4. SumOver(f, T \ {FirstIn(T)}) <= SumOver(e, T \ {FirstIn(T)}) /\ f[FirstIn(T)] <= e[FirstIn(T)]
      BY <1>1, <3>1
    <3> QED
      BY <3>2, <3>3, <3>4
  <2> QED
    BY <2>1, <2>2
<1>2. \A T \in SUBSET S : T \in Good
  <2> HIDE DEF Good
  <2> QED
    BY <1>1, SetInduction
<1> QED
  BY <1>2

LEMMA SumOfNothing ==
    ASSUME NEW S, IsFiniteSet(S)
    PROVE  SumOver([x \in S |-> 0], S) = 0
<1> DEFINE z == [x \in S |-> 0]
           Good == {T \in SUBSET S : SumOver(z, T) = 0}
<1>1. ASSUME NEW T \in SUBSET S, \A x \in T : T \ {x} \in Good PROVE T \in Good
  <2>1. CASE T = {}
    BY <2>1, SumOfNone
  <2>2. CASE T # {}
    <3>1. FirstIn(T) \in T /\ IsFiniteSet(T)
      BY <2>2, FirstIsIn, FS_Subset
    <3>2. SumOver(z, T) = z[FirstIn(T)] + SumOver(z, T \ {FirstIn(T)})
      <4> HIDE DEF z
      <4> QED
        BY <2>2, <3>1, SumFromFirst
    <3>3. SumOver(z, T \ {FirstIn(T)}) = 0 /\ z[FirstIn(T)] = 0
      BY <1>1, <3>1
    <3> HIDE DEF z
    <3> QED
      BY <3>2, <3>3
  <2> QED
    BY <2>1, <2>2
<1>2. \A T \in SUBSET S : T \in Good
  <2> HIDE DEF Good
  <2> QED
    BY <1>1, SetInduction
<1> QED
  BY <1>2

-----------------------------------------------------------------------------
(* The greatest and the least *)

\* A finite set of integers has a greatest and a least element, which Max and
\* Min choose.
LEMMA Extremes ==
    ASSUME NEW S \in SUBSET Int, IsFiniteSet(S), S # {}
    PROVE  /\ Max(S) \in S /\ \A y \in S : y <= Max(S)
           /\ Min(S) \in S /\ \A y \in S : Min(S) <= y
<1> DEFINE Good == {T \in SUBSET S : T # {} => /\ \E x \in T : \A y \in T : x >= y
                                               /\ \E x \in T : \A y \in T : x <= y}
<1>1. ASSUME NEW T \in SUBSET S, \A x \in T : T \ {x} \in Good PROVE T \in Good
  <2> SUFFICES ASSUME NEW c \in T
               PROVE  (\E x \in T : \A y \in T : x >= y) /\ (\E x \in T : \A y \in T : x <= y)
    OBVIOUS
  <2> DEFINE rest == T \ {c}
  <2>1. CASE rest = {}
    <3>1. T = {c} /\ c \in Int
      BY <2>1
    <3> QED
      BY <3>1
  <2>2. CASE rest # {}
    <3>1. PICK u \in rest : \A y \in rest : u >= y
      BY <1>1, <2>2
    <3>2. PICK l \in rest : \A y \in rest : l <= y
      BY <1>1, <2>2
    <3>3. \A y \in T : y = c \/ y \in rest
      OBVIOUS
    <3>4. u \in T /\ l \in T /\ T \subseteq Int
      OBVIOUS
    <3> HIDE DEF rest
    <3>5. \E x \in T : \A y \in T : x >= y
      <4>1. CASE c >= u
        <5>1. ASSUME NEW y \in T PROVE c >= y
          <6>1. y \in Int /\ c \in Int /\ u \in Int
            BY <3>4
          <6>2. y = c \/ u >= y
            BY <3>1, <3>3
          <6> QED
            BY <4>1, <6>1, <6>2
        <5> QED
          BY <3>4, <5>1
      <4>2. CASE ~(c >= u)
        <5>1. ASSUME NEW y \in T PROVE u >= y
          <6>1. y \in Int /\ c \in Int /\ u \in Int
            BY <3>4
          <6>2. y = c \/ u >= y
            BY <3>1, <3>3
          <6> QED
            BY <4>2, <6>1, <6>2
        <5> QED
          BY <3>4, <5>1
      <4> QED
        BY <4>1, <4>2
    <3>6. \E x \in T : \A y \in T : x <= y
      <4>1. CASE c <= l
        <5>1. ASSUME NEW y \in T PROVE c <= y
          <6>1. y \in Int /\ c \in Int /\ l \in Int
            BY <3>4
          <6>2. y = c \/ l <= y
            BY <3>2, <3>3
          <6> QED
            BY <4>1, <6>1, <6>2
        <5> QED
          BY <3>4, <5>1
      <4>2. CASE ~(c <= l)
        <5>1. ASSUME NEW y \in T PROVE l <= y
          <6>1. y \in Int /\ c \in Int /\ l \in Int
            BY <3>4
          <6>2. y = c \/ l <= y
            BY <3>2, <3>3
          <6> QED
            BY <4>2, <6>1, <6>2
        <5> QED
          BY <3>4, <5>1
      <4> QED
        BY <4>1, <4>2
    <3> QED
      BY <3>5, <3>6
  <2> QED
    BY <2>1, <2>2
<1>2. \A T \in SUBSET S : T \in Good
  <2> HIDE DEF Good
  <2> QED
    BY <1>1, SetInduction
<1>3. (\E x \in S : \A y \in S : x >= y) /\ (\E x \in S : \A y \in S : x <= y)
  BY <1>2
<1>4. Max(S) \in S /\ \A y \in S : Max(S) >= y
  BY <1>3 DEF Max
<1>5. Min(S) \in S /\ \A y \in S : Min(S) <= y
  BY <1>3 DEF Min
<1> QED
  BY <1>4, <1>5

\* The values of a function on a finite set are finitely many.
LEMMA ImageIsFinite ==
    ASSUME NEW S, IsFiniteSet(S), NEW f
    PROVE  IsFiniteSet({f[x] : x \in S})
<1> DEFINE T == {f[x] : x \in S}
           F == [x \in S |-> f[x]]
<1>1. F \in Surjection(S, T)
  BY DEF Surjection
<1> HIDE DEF F, T
<1>2. IsFiniteSet(T)
  BY <1>1, FS_Surjection
<1> QED
  BY <1>2 DEF T
-----------------------------------------------------------------------------
(* Sums of sums, of parts and of multiples *)

LEMMA SumPlus ==
    ASSUME NEW S, IsFiniteSet(S), NEW f, NEW e, \A x \in S : f[x] \in Int /\ e[x] \in Int
    PROVE  SumOver([x \in S |-> f[x] + e[x]], S) = SumOver(f, S) + SumOver(e, S)
<1> DEFINE h == [x \in S |-> f[x] + e[x]]
           Good == {T \in SUBSET S : SumOver(h, T) = SumOver(f, T) + SumOver(e, T)}
<1>0. \A x \in S : h[x] = f[x] + e[x] /\ h[x] \in Int
  OBVIOUS
<1> HIDE DEF h
<1>1. ASSUME NEW T \in SUBSET S, \A x \in T : T \ {x} \in Good PROVE T \in Good
  <2>1. CASE T = {}
    BY <2>1, SumOfNone
  <2>2. CASE T # {}
    <3>1. FirstIn(T) \in T /\ IsFiniteSet(T)
      BY <2>2, FirstIsIn, FS_Subset
    <3>2. SumOver(h, T) = h[FirstIn(T)] + SumOver(h, T \ {FirstIn(T)})
      BY <2>2, <3>1, SumFromFirst
    <3>3. SumOver(f, T) = f[FirstIn(T)] + SumOver(f, T \ {FirstIn(T)})
      BY <2>2, <3>1, SumFromFirst
    <3>4. SumOver(e, T) = e[FirstIn(T)] + SumOver(e, T \ {FirstIn(T)})
      BY <2>2, <3>1, SumFromFirst
    <3>5. SumOver(f, T \ {FirstIn(T)}) \in Int /\ f[FirstIn(T)] \in Int
      BY <3>1, SumType
    <3>6. SumOver(e, T \ {FirstIn(T)}) \in Int /\ e[FirstIn(T)] \in Int
      BY <3>1, SumType
    <3>7. /\ SumOver(h, T \ {FirstIn(T)})
               = SumOver(f, T \ {FirstIn(T)}) + SumOver(e, T \ {FirstIn(T)})
          /\ h[FirstIn(T)] = f[FirstIn(T)] + e[FirstIn(T)]
      BY <1>0, <1>1, <3>1
    <3> QED
      BY <3>2, <3>3, <3>4, <3>5, <3>6, <3>7
  <2> QED
    BY <2>1, <2>2
<1>2. \A T \in SUBSET S : T \in Good
  <2> HIDE DEF Good
  <2> QED
    BY <1>1, SetInduction
<1> QED
  BY <1>2 DEF h

LEMMA SumTimes ==
    ASSUME NEW S, IsFiniteSet(S), NEW f, \A x \in S : f[x] \in Int, NEW k \in Int
    PROVE  SumOver([x \in S |-> k * f[x]], S) = k * SumOver(f, S)
<1> DEFINE h == [x \in S |-> k * f[x]]
           Good == {T \in SUBSET S : SumOver(h, T) = k * SumOver(f, T)}
<1>0. \A x \in S : h[x] = k * f[x] /\ h[x] \in Int
  OBVIOUS
<1> HIDE DEF h
<1>1. ASSUME NEW T \in SUBSET S, \A x \in T : T \ {x} \in Good PROVE T \in Good
  <2>1. CASE T = {}
    BY <2>1, SumOfNone
  <2>2. CASE T # {}
    <3>1. FirstIn(T) \in T /\ IsFiniteSet(T)
      BY <2>2, FirstIsIn, FS_Subset
    <3>2. SumOver(h, T) = h[FirstIn(T)] + SumOver(h, T \ {FirstIn(T)})
      BY <2>2, <3>1, SumFromFirst
    <3>3. SumOver(f, T) = f[FirstIn(T)] + SumOver(f, T \ {FirstIn(T)})
      BY <2>2, <3>1, SumFromFirst
    <3>4. SumOver(f, T \ {FirstIn(T)}) \in Int /\ f[FirstIn(T)] \in Int
      BY <3>1, SumType
    <3>5. /\ SumOver(h, T \ {FirstIn(T)}) = k * SumOver(f, T \ {FirstIn(T)})
          /\ h[FirstIn(T)] = k * f[FirstIn(T)]
      BY <1>0, <1>1, <3>1
    <3>6. k * (f[FirstIn(T)] + SumOver(f, T \ {FirstIn(T)}))
            = k * f[FirstIn(T)] + k * SumOver(f, T \ {FirstIn(T)})
      BY <3>4
    <3> QED
      BY <3>2, <3>3, <3>5, <3>6
  <2> QED
    BY <2>1, <2>2
<1>2. \A T \in SUBSET S : T \in Good
  <2> HIDE DEF Good
  <2> QED
    BY <1>1, SetInduction
<1> QED
  BY <1>2 DEF h

\* The sum of what is nothing but at one element.
LEMMA SumOfOne ==
    ASSUME NEW S, IsFiniteSet(S), NEW c \in S, NEW f, f[c] \in Int, \A x \in S \ {c} : f[x] = 0
    PROVE  SumOver(f, S) = f[c]
<1> DEFINE R == S \ {c}
<1>1. \A x \in S : f[x] \in Int
  OBVIOUS
<1>2. SumOver(f, S) = f[c] + SumOver(f, R)
  BY <1>1, SumFromAny
<1>3. IsFiniteSet(R)
  BY FS_Subset
<1>4. SumOver(f, R) = SumOver([x \in R |-> 0], R)
  <2> DEFINE z == [x \in R |-> 0]
  <2>1. \A x \in R : f[x] = z[x]
    OBVIOUS
  <2> HIDE DEF z, R
  <2>2. SumOver(f, R) = SumOver(z, R)
    BY <1>3, <2>1, SumOfSame
  <2> QED
    BY <2>2 DEF z
<1> HIDE DEF R
<1>5. SumOver([x \in R |-> 0], R) = 0
  BY <1>3, SumOfNothing
<1> QED
  BY <1>2, <1>4, <1>5

\* A set of which a part counts.
LEMMA SumOfPart ==
    ASSUME NEW S, IsFiniteSet(S), NEW P, P \subseteq S, NEW f, \A x \in S : f[x] \in Int
    PROVE  SumOver(f, P) = SumOver([x \in S |-> IF x \in P THEN f[x] ELSE 0], S)
<1> DEFINE h == [x \in S |-> IF x \in P THEN f[x] ELSE 0]
           Good == {T \in SUBSET S : SumOver(f, T \cap P) = SumOver(h, T)}
<1>0. \A x \in S : h[x] = (IF x \in P THEN f[x] ELSE 0) /\ h[x] \in Int
  OBVIOUS
<1> HIDE DEF h
<1>1. ASSUME NEW T \in SUBSET S, \A x \in T : T \ {x} \in Good PROVE T \in Good
  <2>1. CASE T = {}
    <3>1. T \cap P = {}
      BY <2>1
    <3> QED
      BY <2>1, <3>1, SumOfNone
  <2>2. CASE T # {}
    <3> DEFINE x == FirstIn(T)
    <3>1. x \in T /\ IsFiniteSet(T)
      BY <2>2, FirstIsIn, FS_Subset
    <3>2. SumOver(h, T) = h[x] + SumOver(h, T \ {x})
      BY <2>2, <3>1, SumFromFirst
    <3> HIDE DEF x
    <3>3. SumOver(f, (T \ {x}) \cap P) = SumOver(h, T \ {x})
      BY <1>1, <3>1
    <3>4. CASE x \in P
      <4>1. T \cap P \in SUBSET S /\ x \in T \cap P /\ (T \cap P) \ {x} = (T \ {x}) \cap P
        BY <3>1, <3>4
      <4>2. SumOver(f, T \cap P) = f[x] + SumOver(f, (T \cap P) \ {x})
        BY <4>1, SumFromAny
      <4>3. h[x] = f[x]
        BY <1>0, <3>1, <3>4
      <4> QED
        BY <3>2, <3>3, <4>1, <4>2, <4>3
    <3>5. CASE x \notin P
      <4>1. T \cap P = (T \ {x}) \cap P /\ h[x] = 0
        BY <1>0, <3>1, <3>5
      <4>2. SumOver(h, T \ {x}) \in Int
        BY <1>0, SumType
      <4>3. SumOver(h, T) = SumOver(h, T \ {x})
        BY <3>2, <4>1, <4>2
      <4>4. SumOver(f, T \cap P) = SumOver(h, T)
        BY <3>3, <4>1, <4>3
      <4> QED
        BY <4>4
    <3> QED
      BY <3>4, <3>5
  <2> QED
    BY <2>1, <2>2
<1>2. \A T \in SUBSET S : T \in Good
  <2> HIDE DEF Good
  <2> QED
    BY <1>1, SetInduction
<1>3. S \cap P = P
  OBVIOUS
<1> QED
  BY <1>2, <1>3 DEF h

\* The sum of a set is that of a part and of the rest, and of naturals not less.
LEMMA SumOfBoth ==
    ASSUME NEW S, IsFiniteSet(S), NEW P, P \subseteq S, NEW f, \A x \in S : f[x] \in Int
    PROVE  SumOver(f, S) = SumOver(f, P) + SumOver(f, S \ P)
<1> DEFINE p == [x \in S |-> IF x \in P THEN f[x] ELSE 0]
           q == [x \in S |-> IF x \in S \ P THEN f[x] ELSE 0]
           g == [x \in S |-> p[x] + q[x]]
<1>1. SumOver(f, P) = SumOver(p, S) /\ SumOver(f, S \ P) = SumOver(q, S)
  <2>1. SumOver(f, P) = SumOver(p, S)
    BY SumOfPart
  <2>2. S \ P \subseteq S
    OBVIOUS
  <2>3. SumOver(f, S \ P) = SumOver(q, S)
    BY <2>2, SumOfPart
  <2> QED
    BY <2>1, <2>3
<1>2. \A x \in S : p[x] \in Int /\ q[x] \in Int /\ g[x] = f[x]
  OBVIOUS
<1>3. SumOver(g, S) = SumOver(p, S) + SumOver(q, S)
  <2> HIDE DEF p, q
  <2> QED
    BY <1>2, SumPlus
<1>4. SumOver(g, S) = SumOver(f, S)
  <2> HIDE DEF g
  <2> QED
    BY <1>2, SumOfSame
<1> QED
  BY <1>1, <1>3, <1>4

LEMMA SumOfMore ==
    ASSUME NEW S, IsFiniteSet(S), NEW f, \A x \in S : f[x] \in Nat
    PROVE  /\ SumOver(f, S) \in Nat
           /\ \A P \in SUBSET S : SumOver(f, P) \in Nat /\ SumOver(f, P) <= SumOver(f, S)
<1>1. ASSUME NEW P \in SUBSET S PROVE SumOver(f, P) \in Nat
  <2> DEFINE z == [x \in P |-> 0]
  <2>1. IsFiniteSet(P) /\ \A x \in P : f[x] \in Nat
    BY FS_Subset
  <2>2. SumOver(z, P) = 0
    BY <2>1, SumOfNothing
  <2>3. \A x \in P : z[x] \in Int /\ f[x] \in Int /\ z[x] <= f[x]
    BY <2>1
  <2> HIDE DEF z
  <2>4. SumOver(z, P) <= SumOver(f, P)
    BY <2>1, <2>3, SumGrows
  <2>5. SumOver(f, P) \in Int
    <3>1. \A x \in P : f[x] \in Int
      BY <2>1
    <3> QED
      BY <2>1, <3>1, SumType
  <2> QED
    BY <2>2, <2>4, <2>5
<1>2. ASSUME NEW P \in SUBSET S PROVE SumOver(f, P) <= SumOver(f, S)
  <2>1. SumOver(f, S) = SumOver(f, P) + SumOver(f, S \ P)
    <3>1. \A x \in S : f[x] \in Int
      OBVIOUS
    <3>2. P \subseteq S
      OBVIOUS
    <3> QED
      BY <3>1, <3>2, SumOfBoth
  <2>2. S \ P \in SUBSET S
    OBVIOUS
  <2>3. SumOver(f, P) \in Nat /\ SumOver(f, S \ P) \in Nat
    BY <1>1, <2>2
  <2> QED
    BY <2>1, <2>3
<1>3. S \in SUBSET S
  OBVIOUS
<1> QED
  BY <1>1, <1>2, <1>3

\* A sum of ones.
LEMMA SumOfConstant ==
    ASSUME NEW S, IsFiniteSet(S), NEW k \in Int
    PROVE  SumOver([x \in S |-> k], S) = k * Cardinality(S)
<1> DEFINE h == [x \in S |-> k]
           Good == {T \in SUBSET S : SumOver(h, T) = k * Cardinality(T)}
<1>0. \A x \in S : h[x] = k
  OBVIOUS
<1> HIDE DEF h
<1>1. ASSUME NEW T \in SUBSET S, \A x \in T : T \ {x} \in Good PROVE T \in Good
  <2>1. CASE T = {}
    <3>1. Cardinality(T) = 0
      BY <2>1, FS_EmptySet
    <3> QED
      BY <2>1, <3>1, SumOfNone
  <2>2. CASE T # {}
    <3>1. FirstIn(T) \in T /\ IsFiniteSet(T)
      BY <2>2, FirstIsIn, FS_Subset
    <3>2. SumOver(h, T) = h[FirstIn(T)] + SumOver(h, T \ {FirstIn(T)})
      BY <2>2, <3>1, SumFromFirst
    <3>3. Cardinality(T \ {FirstIn(T)}) = Cardinality(T) - 1 /\ Cardinality(T) \in Nat
      BY <3>1, FS_RemoveElement, FS_CardinalityType
    <3>4. SumOver(h, T \ {FirstIn(T)}) = k * (Cardinality(T) - 1) /\ h[FirstIn(T)] = k
      BY <1>0, <1>1, <3>1, <3>3
    <3>5. k + k * (Cardinality(T) - 1) = k * Cardinality(T)
      BY <3>3
    <3> QED
      BY <3>2, <3>4, <3>5
  <2> QED
    BY <2>1, <2>2
<1>2. \A T \in SUBSET S : T \in Good
  <2> HIDE DEF Good
  <2> QED
    BY <1>1, SetInduction
<1> QED
  BY <1>2 DEF h

\* By rows or by columns.
LEMMA SumExchange ==
    ASSUME NEW S, IsFiniteSet(S), NEW C, IsFiniteSet(C), NEW f,
           \A x \in S : \A y \in C : f[x][y] \in Int
    PROVE  SumOver([x \in S |-> SumOver(f[x], C)], S)
             = SumOver([y \in C |-> SumOver([x \in S |-> f[x][y]], S)], C)
<1> DEFINE rows == [x \in S |-> SumOver(f[x], C)]
           column(y) == [x \in S |-> f[x][y]]
           columns(T) == [y \in C |-> SumOver(column(y), T)]
           Good == {T \in SUBSET S : SumOver(rows, T) = SumOver(columns(T), C)}
<1>0. /\ \A x \in S : rows[x] = SumOver(f[x], C)
      /\ \A y \in C : \A x \in S : column(y)[x] = f[x][y] /\ column(y)[x] \in Int
      /\ \A T : \A y \in C : columns(T)[y] = SumOver(column(y), T)
  OBVIOUS
<1> HIDE DEF rows, column, columns
<1>1. ASSUME NEW T \in SUBSET S, \A x \in T : T \ {x} \in Good PROVE T \in Good
  <2>1. CASE T = {}
    <3>1. \A y \in C : columns(T)[y] = [z \in C |-> 0][y]
      BY <1>0, <2>1, SumOfNone
    <3>2. SumOver(columns(T), C) = 0
      <4> DEFINE nothing == [z \in C |-> 0]
      <4>1. \A y \in C : columns(T)[y] = nothing[y]
        BY <3>1
      <4> HIDE DEF nothing
      <4>2. SumOver(columns(T), C) = SumOver(nothing, C)
        BY <4>1, SumOfSame
      <4>3. SumOver(nothing, C) = 0
        BY SumOfNothing DEF nothing
      <4> QED
        BY <4>2, <4>3
    <3> QED
      BY <2>1, <3>2, SumOfNone
  <2>2. CASE T # {}
    <3> DEFINE x == FirstIn(T)
               R == T \ {x}
    <3>1. x \in T /\ IsFiniteSet(T)
      BY <2>2, FirstIsIn, FS_Subset
    <3>2. SumOver(rows, T) = SumOver(f[x], C) + SumOver(rows, R)
      BY <1>0, <2>2, <3>1, SumFromFirst
    <3>3. ASSUME NEW y \in C PROVE columns(T)[y] = f[x][y] + columns(R)[y]
      <4> DEFINE k == column(y)
      <4>1. SumOver(k, T) = k[x] + SumOver(k, R)
        BY <2>2, <3>1, SumFromFirst
      <4>2. k[x] = f[x][y]
        BY <1>0, <3>1
      <4> QED
        BY <1>0, <4>1, <4>2
    <3>4. R \in SUBSET S /\ x \in S
      BY <3>1
    <3> HIDE DEF x, R
    <3>5. \A y \in C : f[x][y] \in Int
      BY <3>4
    <3>6. \A y \in C : columns(R)[y] \in Int
      <4> SUFFICES ASSUME NEW y \in C PROVE columns(R)[y] \in Int
        OBVIOUS
      <4> DEFINE k == column(y)
      <4>1. \A z \in S : k[z] \in Int
        BY <1>0
      <4> HIDE DEF k
      <4>2. SumOver(k, R) \in Int
        BY <3>4, <4>1, SumType
      <4> QED
        BY <1>0, <4>2 DEF k
    <3>7. SumOver(columns(T), C) = SumOver(f[x], C) + SumOver(columns(R), C)
      <4> DEFINE a == f[x]
                 b == columns(R)
                 t == columns(T)
                 h == [y \in C |-> a[y] + b[y]]
      <4>1. /\ \A y \in C : a[y] \in Int /\ b[y] \in Int
            /\ \A y \in C : t[y] = h[y]
        BY <3>3, <3>5, <3>6
      <4> HIDE DEF a, b, t
      <4>2. SumOver(h, C) = SumOver(a, C) + SumOver(b, C)
        BY <4>1, SumPlus
      <4> HIDE DEF h
      <4>3. SumOver(t, C) = SumOver(h, C)
        BY <4>1, SumOfSame
      <4> QED
        BY <4>2, <4>3 DEF a, b, t
    <3>8. SumOver(rows, R) = SumOver(columns(R), C)
      BY <1>1, <3>1 DEF R, x
    <3> QED
      BY <3>2, <3>7, <3>8
  <2> QED
    BY <2>1, <2>2
<1>2. \A T \in SUBSET S : T \in Good
  <2> HIDE DEF Good
  <2> QED
    BY <1>1, SetInduction
<1>3. SumOver(rows, S) = SumOver(columns(S), C)
  BY <1>2
<1> QED
  BY <1>3 DEF rows, column, columns

-----------------------------------------------------------------------------
(* Rounding *)

\* round(a / b) is at most half of one away, and not below a whole number that
\* a / b is not below.
LEMMA Rounded ==
    ASSUME NEW a \in Int, NEW b \in Nat \ {0}
    PROVE  /\ RoundHalfEven(a, b) \in Int
           /\ 2 * (b * RoundHalfEven(a, b) - a) \in (-b)..b
           /\ \A k \in Int : b * k <= a => k <= RoundHalfEven(a, b)
<1> DEFINE q == a \div b
           m == a % b
           R == RoundHalfEven(a, b)
<1>1. q \in Int /\ m \in 0..(b - 1) /\ a = b * q + m
  OBVIOUS
<1>2. \/ R = q + 1 /\ 2 * m >= b
      \/ R = q /\ 2 * m <= b
  <2>1. R = IF 2 * m > b \/ (2 * m = b /\ q % 2 = 1) THEN q + 1 ELSE q
    BY DEF RoundHalfEven
  <2> HIDE DEF q, m, R
  <2> QED
    BY <1>1, <2>1
<1> HIDE DEF q, m, R
<1>3. b * (q + 1) = b * q + b /\ b * q \in Int
  BY <1>1
<1>4. R \in Int
  BY <1>1, <1>2
<1>5. 2 * (b * R - a) \in (-b)..b
  <2>1. CASE R = q + 1 /\ 2 * m >= b
    <3>1. b * R - a = b - m
      BY <1>1, <1>3, <2>1
    <3> QED
      BY <1>1, <2>1, <3>1
  <2>2. CASE R = q /\ 2 * m <= b
    <3>1. b * R - a = -m
      BY <1>1, <1>3, <2>2
    <3> QED
      BY <1>1, <2>2, <3>1
  <2> QED
    BY <1>2, <2>1, <2>2
<1>6. ASSUME NEW k \in Int, b * k <= a PROVE k <= R
  <2> SUFFICES ASSUME ~(k <= q) PROVE FALSE
    BY <1>1, <1>2, <1>4
  <2>1. k - (q + 1) \in Nat
    BY <1>1
  <2>2. b * (k - (q + 1)) \in Nat
    BY <2>1
  <2>3. b * (k - (q + 1)) = b * k - b * (q + 1) /\ b * k \in Int
    BY <1>1
  <2> QED
    BY <1>1, <1>3, <1>6, <2>2, <2>3
<1> QED
  BY <1>4, <1>5, <1>6 DEF R

\* Quotients that add up to a whole number, each rounded: the sum is off by at
\* most half of one for each.
LEMMA RoundedSum ==
    ASSUME NEW S, IsFiniteSet(S), NEW a, NEW c, NEW b \in Nat \ {0}, NEW due \in Int,
           \A x \in S : a[x] \in Int /\ c[x] = RoundHalfEven(a[x], b),
           SumOver(a, S) = b * due
    PROVE  SumOver(c, S) \in Int /\ 2 * (SumOver(c, S) - due) \in (-Cardinality(S))..Cardinality(S)
<1> DEFINE e == [x \in S |-> (2 * b) * c[x]]
           d == [x \in S |-> 2 * a[x]]
           u == [x \in S |-> b]
           l == [x \in S |-> -b]
           n == Cardinality(S)
<1>1. n \in Nat
  BY FS_CardinalityType
<1>2. ASSUME NEW x \in S
      PROVE  c[x] \in Int /\ 2 * (b * c[x] - a[x]) \in (-b)..b
  BY Rounded
<1>3. ASSUME NEW x \in S
      PROVE  /\ e[x] \in Int /\ d[x] \in Int /\ u[x] = b /\ l[x] = -b
             /\ d[x] + l[x] <= e[x] /\ e[x] <= d[x] + u[x]
  <2>1. e[x] = (2 * b) * c[x] /\ d[x] = 2 * a[x] /\ u[x] = b /\ l[x] = -b
    OBVIOUS
  <2> HIDE DEF e, d, u, l
  <2>2. (2 * b) * c[x] = 2 * (b * c[x]) /\ b * c[x] \in Int
    BY <1>2
  <2> QED
    BY <1>2, <2>1, <2>2
<1>4. SumOver(e, S) = (2 * b) * SumOver(c, S) /\ SumOver(c, S) \in Int
  <2>1. \A x \in S : c[x] \in Int
    BY <1>2
  <2> QED
    BY <2>1, SumTimes, SumType
<1>5. SumOver(d, S) = 2 * (b * due)
  BY SumTimes
<1>6. SumOver(u, S) = b * n /\ SumOver(l, S) = (-b) * n
  <2>1. b \in Int /\ -b \in Int
    OBVIOUS
  <2>2. SumOver([x \in S |-> b], S) = b * Cardinality(S)
    BY <2>1, SumOfConstant
  <2>3. SumOver([x \in S |-> -b], S) = (-b) * Cardinality(S)
    BY <2>1, SumOfConstant
  <2> QED
    BY <2>2, <2>3
<1> HIDE DEF e, d, u, l, n
<1>7. SumOver(d, S) + SumOver(l, S) <= SumOver(e, S)
  <2> DEFINE h == [x \in S |-> d[x] + l[x]]
  <2>1. SumOver(h, S) = SumOver(d, S) + SumOver(l, S)
    BY <1>3, SumPlus
  <2>2. \A x \in S : h[x] \in Int /\ e[x] \in Int /\ h[x] <= e[x]
    BY <1>3
  <2> HIDE DEF h
  <2>3. SumOver(h, S) <= SumOver(e, S)
    BY <2>2, SumGrows
  <2> QED
    BY <2>1, <2>3
<1>8. SumOver(e, S) <= SumOver(d, S) + SumOver(u, S)
  <2> DEFINE h == [x \in S |-> d[x] + u[x]]
  <2>1. SumOver(h, S) = SumOver(d, S) + SumOver(u, S)
    BY <1>3, SumPlus
  <2>2. \A x \in S : h[x] \in Int /\ e[x] \in Int /\ e[x] <= h[x]
    BY <1>3
  <2> HIDE DEF h
  <2>3. SumOver(e, S) <= SumOver(h, S)
    BY <2>2, SumGrows
  <2> QED
    BY <2>1, <2>3
<1> DEFINE t == 2 * (SumOver(c, S) - due)
<1>9. b * t = SumOver(e, S) - SumOver(d, S) /\ t \in Int
  <2> DEFINE s == SumOver(c, S)
  <2>1. s \in Int
    BY <1>4
  <2> HIDE DEF s
  <2>2. b * (2 * (s - due)) = (2 * b) * s - 2 * (b * due) /\ 2 * (s - due) \in Int
    BY <2>1
  <2> QED
    BY <1>4, <1>5, <2>2 DEF s
<1> HIDE DEF t
<1>10. (-b) * n <= b * t /\ b * t <= b * n
  <2>1. SumOver(e, S) \in Int /\ SumOver(d, S) \in Int /\ (-b) * n \in Int /\ b * n \in Int
    BY <1>1, <1>4, <1>5
  <2> QED
    BY <1>6, <1>7, <1>8, <1>9, <2>1
<1>11. t <= n
  <2> SUFFICES ASSUME t - n \in Nat \ {0} PROVE FALSE
    BY <1>1, <1>9
  <2>1. b * (t - n) > 0 /\ b * (t - n) = b * t - b * n /\ b * t \in Int /\ b * n \in Int
    BY <1>1, <1>9
  <2> QED
    BY <1>10, <2>1
<1>12. -n <= t
  <2> SUFFICES ASSUME (-n) - t \in Nat \ {0} PROVE FALSE
    BY <1>1, <1>9
  <2>1. b * ((-n) - t) > 0 /\ b * ((-n) - t) = (-b) * n - b * t /\ b * t \in Int /\ (-b) * n \in Int
    BY <1>1, <1>9
  <2> QED
    BY <1>10, <2>1
<1> QED
  BY <1>1, <1>4, <1>9, <1>11, <1>12 DEF t, n

\* A common factor decides nothing.
LEMMA CancelFactor ==
    ASSUME NEW b \in Nat \ {0}, NEW u \in Int, NEW v \in Int
    PROVE  /\ b * u <= b * v <=> u <= v
           /\ b * u < b * v <=> u < v
<1>1. b * v = b * u + b * (v - u) /\ b * u \in Int /\ b * (v - u) \in Int /\ v - u \in Int
  OBVIOUS
<1> DEFINE e == v - u
           f == b * e
<1>2. e \in Int /\ f \in Int
  BY <1>1
<1>3. (f >= 0 <=> e >= 0) /\ (f > 0 <=> e > 0)
  <2> HIDE DEF e
  <2>1. CASE e > 0
    <3>1. f > 0
      BY <1>2, <2>1
    <3> QED
      BY <1>2, <2>1, <3>1
  <2>2. CASE e = 0
    <3>1. f = 0
      BY <1>2, <2>2
    <3> QED
      BY <1>2, <2>2, <3>1
  <2>3. CASE e < 0
    <3>1. b * (-e) > 0 /\ f = -(b * (-e)) /\ b * (-e) \in Int
      BY <1>2, <2>3
    <3> QED
      BY <1>2, <2>3, <3>1
  <2> QED
    BY <1>2, <2>1, <2>2, <2>3
<1> HIDE DEF f
<1>4. b * v = b * u + f
  BY <1>1 DEF f
<1>5. u <= v <=> e >= 0
  OBVIOUS
<1>6. u < v <=> e > 0
  OBVIOUS
<1> HIDE DEF e
<1> QED
  BY <1>1, <1>2, <1>3, <1>4, <1>5, <1>6

\* When round(a / b) is at least m: the quotient is m - 1/2 or more, and more if
\* m is odd.
LEMMA RoundsAtLeast ==
    ASSUME NEW a \in Int, NEW b \in Nat \ {0}, NEW m \in Int
    PROVE  m <= RoundHalfEven(a, b) <=>
             (b * (2 * m - 1) < 2 * a \/ (b * (2 * m - 1) = 2 * a /\ m % 2 = 0))
<1> DEFINE q == a \div b
           r == a % b
           R == RoundHalfEven(a, b)
           x == b * (2 * m - 1)
<1>1. q \in Int /\ r \in 0..(b - 1) /\ a = b * q + r
  OBVIOUS
<1>2. R = (IF 2 * r > b \/ (2 * r = b /\ q % 2 = 1) THEN q + 1 ELSE q)
  BY DEF RoundHalfEven
<1>3. x \in Int /\ b * q \in Int
  BY <1>1
<1> HIDE DEF q, r, R
<1>4. CASE m <= q
  <2>1. m <= R
    BY <1>1, <1>2, <1>4
  <2>2. b * (2 * m - 1) <= b * (2 * q - 1)
    BY <1>1, <1>4, CancelFactor
  <2>3. b * (2 * q - 1) = 2 * (b * q) - b
    BY <1>1
  <2> HIDE DEF x
  <2>4. x < 2 * a
    BY <1>1, <1>3, <2>2, <2>3 DEF x
  <2> QED
    BY <2>1, <2>4 DEF x, R
<1>5. CASE m >= q + 2
  <2>1. ~(m <= R)
    BY <1>1, <1>2, <1>5
  <2>2. b * (2 * q + 3) <= b * (2 * m - 1)
    BY <1>1, <1>5, CancelFactor
  <2>3. b * (2 * q + 3) = 2 * (b * q) + 3 * b
    BY <1>1
  <2> HIDE DEF x
  <2>4. x > 2 * a
    BY <1>1, <1>3, <2>2, <2>3 DEF x
  <2>5. ~(x < 2 * a) /\ x # 2 * a
    BY <1>1, <1>3, <2>4
  <2> QED
    BY <2>1, <2>5 DEF x, R
<1>6. CASE m = q + 1
  <2>1. x = 2 * (b * q) + b
    BY <1>1, <1>6
  <2>2. m % 2 = 0 <=> q % 2 = 1
    BY <1>1, <1>6
  <2>3. m <= R <=> 2 * r > b \/ (2 * r = b /\ q % 2 = 1)
    BY <1>1, <1>2, <1>6
  <2> HIDE DEF x
  <2>4. (x < 2 * a <=> 2 * r > b) /\ (x = 2 * a <=> 2 * r = b)
    BY <1>1, <1>3, <2>1
  <2> QED
    BY <2>2, <2>3, <2>4 DEF x, R
<1> QED
  BY <1>1, <1>4, <1>5, <1>6

\* A greater quotient is not rounded to less.
LEMMA RoundsGrow ==
    ASSUME NEW a \in Int, NEW b \in Nat \ {0}, NEW c \in Int, NEW d \in Nat \ {0},
           a * d <= c * b
    PROVE  RoundHalfEven(a, b) <= RoundHalfEven(c, d)
<1> DEFINE m == RoundHalfEven(a, b)
           x == 2 * m - 1
<1>1. m \in Int /\ m <= m
  BY Rounded
<1>2. b * x < 2 * a \/ (b * x = 2 * a /\ m % 2 = 0)
  BY <1>1, RoundsAtLeast
<1>3. x \in Int
  BY <1>1
<1> HIDE DEF x
<1>4. /\ b * x \in Int /\ d * x \in Int /\ a * d \in Int /\ c * b \in Int
      /\ d * (b * x) = b * (d * x) /\ d * (2 * a) = 2 * (a * d) /\ b * (2 * c) = 2 * (c * b)
  BY <1>3
<1>5. CASE b * x < 2 * a
  <2>1. d * (b * x) < d * (2 * a)
    BY <1>4, <1>5, CancelFactor
  <2>2. b * (d * x) < b * (2 * c)
    <3> HIDE DEF m
    <3>1. d * (b * x) \in Int
      BY <1>4
    <3> QED
      BY <1>4, <2>1, <3>1
  <2>3. d * x < 2 * c
    BY <1>4, <2>2, CancelFactor
  <2> QED
    BY <1>1, <2>3, RoundsAtLeast DEF x
<1>6. CASE b * x = 2 * a /\ m % 2 = 0
  <2>1. b * (d * x) <= b * (2 * c)
    <3>1. b * (d * x) = 2 * (a * d)
      BY <1>4, <1>6
    <3> QED
      BY <1>4, <3>1
  <2>2. d * x <= 2 * c
    BY <1>4, <2>1, CancelFactor
  <2>3. d * x < 2 * c \/ d * x = 2 * c
    BY <1>4, <2>2
  <2> QED
    BY <1>1, <1>6, <2>3, RoundsAtLeast DEF x
<1> QED
  BY <1>2, <1>5, <1>6
=============================================================================
