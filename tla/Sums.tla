-------------------------------- MODULE Sums --------------------------------
(***************************************************************************)
(* Facts about folds and sums over a finite set.  The capacity of two      *)
(* users, the total a user gives, the ledger of applied trades and the     *)
(* projected quantities are written with SumFunction, the trades settled   *)
(* one by one with FoldSet.  The community modules define both by a        *)
(* function on the subsets of the set, chosen by CHOOSE, so that what they *)
(* are for every input takes an induction over finite sets.  It goes by    *)
(* the smallest counterexample: proper inclusion is well founded on the    *)
(* subsets of a finite set.                                                *)
(***************************************************************************)
EXTENDS Functions, FiniteSets, Integers, FiniteSetTheorems, WellFoundedInduction, TLAPS

\* The recursion of a fold: what the table iter has to hold for s.
Folded(base, step, iter, s) ==
    IF s = {} THEN base
    ELSE step[CHOOSE x \in s : TRUE][iter[s \ {CHOOSE x \in s : TRUE}]]
\* The table of the folds over the subsets of S.
IsTable(base, step, iter, S) == iter = [s \in SUBSET S |-> Folded(base, step, iter, s)]

\* Among subsets of a finite set there is one that contains no other: the
\* smallest counterexample of the proofs below.
LEMMA SmallestSubset ==
    ASSUME NEW S, IsFiniteSet(S), NEW T \in SUBSET SUBSET S, T # {}
    PROVE  \E A \in T : \A B \in T : B \subseteq A => B = A
<1>1. IsWellFoundedOn(StrictSubsetOrdering(S), SUBSET S)
  BY FS_StrictSubsetOrderingWellFounded, FS_FiniteSubsetsOfFinite
<1>2. PICK A \in T : \A B \in T : ~(<<B, A>> \in StrictSubsetOrdering(S))
  <2> DEFINE R == StrictSubsetOrdering(S)
             U == SUBSET S
  <2>1. IsWellFoundedOn(R, U) /\ T \subseteq U /\ T # {}
    BY <1>1
  <2> HIDE DEF R, U
  <2>2. \E x \in T : \A y \in T : ~ (<<y, x>> \in R)
    BY <2>1, WFMin
  <2> QED BY <2>2 DEF R
<1>3. \A B \in T : B \subseteq A => B = A
  BY <1>2 DEF StrictSubsetOrdering
<1> QED BY <1>3

\* Every entry of a table obeys the recursion.
LEMMA TableEntry ==
    ASSUME NEW base, NEW step, NEW S, NEW iter,
           IsTable(base, step, iter, S), NEW s \in SUBSET S
    PROVE  iter[s] = Folded(base, step, iter, s)
BY DEF IsTable

\* Two tables agree on the sets both cover, if their steps do.
LEMMA TablesAgree ==
    ASSUME NEW base, NEW step, NEW S, IsFiniteSet(S), NEW T \in SUBSET S,
           NEW other, \A x \in T : step[x] = other[x],
           NEW g, NEW h, IsTable(base, step, g, S), IsTable(base, other, h, T),
           NEW s \in SUBSET T
    PROVE  g[s] = h[s]
<1> DEFINE Bad == {r \in SUBSET T : g[r] # h[r]}
<1> SUFFICES ASSUME Bad # {} PROVE FALSE
  OBVIOUS
<1>0. IsFiniteSet(T)
  BY FS_Subset
<1>1. PICK A \in Bad : \A B \in Bad : B \subseteq A => B = A
  <2>1. Bad \in SUBSET SUBSET T
    OBVIOUS
  <2> HIDE DEF Bad
  <2> QED BY <1>0, <2>1, SmallestSubset
<1>2. g[A] = Folded(base, step, g, A) /\ h[A] = Folded(base, other, h, A)
  <2>1. A \in SUBSET S /\ A \in SUBSET T
    OBVIOUS
  <2> HIDE DEF Bad
  <2> QED BY <2>1 DEF IsTable
<1>3. CASE A = {}
  BY <1>1, <1>2, <1>3 DEF Folded
<1>4. CASE A # {}
  <2> DEFINE x == CHOOSE y \in A : TRUE
  <2>1. x \in A
    BY <1>4
  <2>2. g[A \ {x}] = h[A \ {x}]
    BY <1>1, <2>1
  <2> QED BY <1>1, <1>2, <1>4, <2>2 DEF Folded
<1> QED BY <1>3, <1>4

\* Every finite set has its table: a smallest set without one would get it
\* from the tables of the sets with one element less.
LEMMA TableExists ==
    ASSUME NEW base, NEW step, NEW S, IsFiniteSet(S)
    PROVE  \E iter : IsTable(base, step, iter, S)
<1> DEFINE Bad == {A \in SUBSET S : ~\E iter : IsTable(base, step, iter, A)}
<1> SUFFICES ASSUME Bad # {} PROVE FALSE
  OBVIOUS
<1>1. PICK A \in Bad : \A B \in Bad : B \subseteq A => B = A
  <2>1. Bad \in SUBSET SUBSET S
    OBVIOUS
  <2> HIDE DEF Bad
  <2> QED BY <2>1, SmallestSubset
<1>2. IsFiniteSet(A)
  BY FS_Subset
<1> DEFINE tab(y) == CHOOSE iter : IsTable(base, step, iter, A \ {y})
           out(s) == CHOOSE y \in A : y \notin s
           first == CHOOSE y \in A : TRUE
           g == [s \in SUBSET A |->
                    IF s = A THEN IF A = {} THEN base ELSE step[first][tab(first)[A \ {first}]]
                    ELSE tab(out(s))[s]]
<1>3. ASSUME NEW y \in A
      PROVE  IsTable(base, step, tab(y), A \ {y})
  <2>1. A \ {y} \notin Bad
    BY <1>1
  <2>2. \E iter : IsTable(base, step, iter, A \ {y})
    BY <2>1
  <2> QED BY <2>2
<1> HIDE DEF tab
<1>4. ASSUME NEW y \in A, NEW z \in A, NEW s \in SUBSET A, y \notin s, z \notin s
      PROVE  tab(y)[s] = tab(z)[s]
  <2> DEFINE T == A \ {y, z}
             h == [r \in SUBSET T |-> tab(y)[r]]
  <2>1. IsTable(base, step, h, T)
    <3> SUFFICES ASSUME NEW r \in SUBSET T PROVE h[r] = Folded(base, step, h, r)
      BY DEF IsTable
    <3>0. r \in SUBSET (A \ {y})
      BY DEF T
    <3>1. IsTable(base, step, tab(y), A \ {y})
      BY <1>3
    <3>2. tab(y)[r] = Folded(base, step, tab(y), r)
      BY <3>0, <3>1, TableEntry
    <3>3. Folded(base, step, tab(y), r) = Folded(base, step, h, r)
      BY DEF Folded
    <3> QED BY <3>2, <3>3
  <2>2. T \in SUBSET (A \ {y}) /\ T \in SUBSET (A \ {z}) /\ s \in SUBSET T
    BY <1>4 DEF T
  <2>3. IsFiniteSet(A \ {y}) /\ IsFiniteSet(A \ {z})
    BY <1>2, FS_Subset
  <2> HIDE DEF T, h
  <2>4. IsTable(base, step, tab(y), A \ {y}) /\ IsTable(base, step, tab(z), A \ {z})
    BY <1>3
  <2>5. tab(y)[s] = h[s]
    BY <2>1, <2>2, <2>3, <2>4, TablesAgree
  <2>6. tab(z)[s] = h[s]
    BY <2>1, <2>2, <2>3, <2>4, TablesAgree
  <2> QED BY <2>5, <2>6
<1>5. ASSUME NEW s \in SUBSET A
      PROVE  g[s] = Folded(base, step, g, s)
  <2> DEFINE x == CHOOSE y \in s : TRUE
  <2>1. CASE s = {} /\ A = {}
    BY <2>1 DEF Folded
  <2>2. CASE s = A /\ A # {}
    <3>1. first \in A /\ A \ {first} # A
      BY <2>2
    <3>2. out(A \ {first}) = first
      BY <3>1
    <3>3. g[A \ {first}] = tab(first)[A \ {first}]
      BY <3>1, <3>2
    <3> QED BY <2>2, <3>3 DEF Folded
  <2>3. CASE s # A
    <3>1. out(s) \in A /\ out(s) \notin s
      BY <2>3
    <3>2. g[s] = tab(out(s))[s]
      BY <2>3
    <3>3. tab(out(s))[s] = Folded(base, step, tab(out(s)), s)
      <4> HIDE DEF out
      <4>1. s \in SUBSET (A \ {out(s)})
        BY <3>1
      <4>2. IsTable(base, step, tab(out(s)), A \ {out(s)})
        BY <1>3, <3>1
      <4> QED BY <4>1, <4>2, TableEntry
    <3>4. ASSUME s # {} PROVE tab(out(s))[s \ {x}] = g[s \ {x}]
      <4>1. x \in s /\ s \ {x} # A
        BY <3>4
      <4>2. out(s \ {x}) \in A /\ out(s \ {x}) \notin s \ {x}
        BY <4>1
      <4>3. g[s \ {x}] = tab(out(s \ {x}))[s \ {x}]
        BY <4>1
      <4> HIDE DEF out, x, g
      <4> QED BY <1>4, <3>1, <4>2, <4>3
    <3> HIDE DEF out, g
    <3> QED BY <3>2, <3>3, <3>4 DEF Folded
  <2> QED BY <2>1, <2>2, <2>3
<1>6. IsTable(base, step, g, A)
  <2>1. g = [s \in SUBSET A |-> g[s]]
    OBVIOUS
  <2> HIDE DEF g
  <2> QED BY <1>5, <2>1 DEF IsTable
<1> QED BY <1>1, <1>6

-----------------------------------------------------------------------------
\* A fold keeps the type that its steps keep.
LEMMA TableTyped ==
    ASSUME NEW V, NEW base \in V, NEW step, NEW S, IsFiniteSet(S),
           \A x \in S : \A v \in V : step[x][v] \in V,
           NEW iter, IsTable(base, step, iter, S)
    PROVE  iter \in [SUBSET S -> V]
<1> DEFINE Bad == {s \in SUBSET S : iter[s] \notin V}
<1> SUFFICES ASSUME Bad # {} PROVE FALSE
  <2>1. iter = [s \in SUBSET S |-> iter[s]]
    BY DEF IsTable
  <2> QED BY <2>1
<1>1. PICK A \in Bad : \A B \in Bad : B \subseteq A => B = A
  <2>1. Bad \in SUBSET SUBSET S
    OBVIOUS
  <2> HIDE DEF Bad
  <2> QED BY <2>1, SmallestSubset
<1>2. iter[A] = Folded(base, step, iter, A)
  BY TableEntry
<1>3. CASE A = {}
  BY <1>1, <1>2, <1>3 DEF Folded
<1>4. CASE A # {}
  <2> DEFINE x == CHOOSE y \in A : TRUE
  <2>1. x \in A /\ x \in S
    BY <1>4
  <2>2. iter[A \ {x}] \in V
    BY <1>1, <2>1
  <2>3. iter[A] = step[x][iter[A \ {x}]]
    BY <1>2, <1>4 DEF Folded
  <2> HIDE DEF x
  <2> QED BY <1>1, <2>1, <2>2, <2>3
<1> QED BY <1>3, <1>4

-----------------------------------------------------------------------------
\* The steps of a sum.
Adding(f, S) == [x \in S |-> [n \in Int |-> f[x] + n]]

\* The table by which SumFunctionOnSet is defined.
IsSumTable(f, iter, S) ==
    iter = [s \in SUBSET S |->
                IF s = {} THEN 0
                ELSE f[CHOOSE x \in s : TRUE] + iter[s \ {CHOOSE x \in s : TRUE}]]

LEMMA SumByTable ==
    ASSUME NEW f, NEW S
    PROVE  SumFunctionOnSet(f, S) = (CHOOSE iter : IsSumTable(f, iter, S))[S]
BY DEF SumFunctionOnSet, FoldFunctionOnSet, MapThenFoldSet, IsSumTable

\* The table of a sum of integers is that of a fold, so there is one.
LEMMA SumTableFolds ==
    ASSUME NEW f, NEW S, IsFiniteSet(S), \A x \in S : f[x] \in Int,
           NEW iter \in [SUBSET S -> Int]
    PROVE  IsSumTable(f, iter, S) <=> IsTable(0, Adding(f, S), iter, S)
<1>1. ASSUME NEW s \in SUBSET S
      PROVE  Folded(0, Adding(f, S), iter, s) =
                IF s = {} THEN 0
                ELSE f[CHOOSE x \in s : TRUE] + iter[s \ {CHOOSE x \in s : TRUE}]
  <2>1. CASE s = {}
    BY <2>1 DEF Folded
  <2>2. CASE s # {}
    <3> DEFINE x == CHOOSE y \in s : TRUE
    <3>1. x \in S /\ s \ {x} \in SUBSET S
      BY <2>2
    <3> HIDE DEF x
    <3>2. Adding(f, S)[x][iter[s \ {x}]] = f[x] + iter[s \ {x}]
      BY <3>1 DEF Adding
    <3> QED BY <2>2, <3>2 DEF Folded, x
  <2> QED BY <2>1, <2>2
<1> QED BY <1>1 DEF IsSumTable, IsTable

LEMMA SumTableTyped ==
    ASSUME NEW f, NEW S, IsFiniteSet(S), \A x \in S : f[x] \in Int,
           NEW iter, IsSumTable(f, iter, S)
    PROVE  iter \in [SUBSET S -> Int]
<1> DEFINE Bad == {s \in SUBSET S : iter[s] \notin Int}
<1>0. \A s \in SUBSET S : iter[s] = IF s = {} THEN 0
            ELSE f[CHOOSE x \in s : TRUE] + iter[s \ {CHOOSE x \in s : TRUE}]
  BY DEF IsSumTable
<1> SUFFICES ASSUME Bad # {} PROVE FALSE
  <2>1. iter = [s \in SUBSET S |-> iter[s]]
    BY DEF IsSumTable
  <2> QED BY <2>1
<1>1. PICK A \in Bad : \A B \in Bad : B \subseteq A => B = A
  <2>1. Bad \in SUBSET SUBSET S
    OBVIOUS
  <2> HIDE DEF Bad
  <2> QED BY <2>1, SmallestSubset
<1>2. CASE A = {}
  BY <1>0, <1>1, <1>2
<1>3. CASE A # {}
  <2> DEFINE x == CHOOSE y \in A : TRUE
  <2>1. x \in A /\ x \in S
    BY <1>3
  <2>2. iter[A \ {x}] \in Int
    BY <1>1, <2>1
  <2>3. iter[A] = f[x] + iter[A \ {x}]
    BY <1>0, <1>3
  <2> HIDE DEF x
  <2>4. f[x] \in Int
    BY <2>1
  <2> QED BY <1>1, <2>2, <2>3, <2>4
<1> QED BY <1>2, <1>3

LEMMA SumFromFold ==
    ASSUME NEW f, NEW S, IsFiniteSet(S), \A x \in S : f[x] \in Int
    PROVE  \E iter : /\ IsTable(0, Adding(f, S), iter, S)
                     /\ SumFunctionOnSet(f, S) = iter[S]
<1> DEFINE own == CHOOSE h : IsSumTable(f, h, S)
<1>1. PICK g : IsTable(0, Adding(f, S), g, S)
  BY TableExists
<1>2. \A x \in S : \A v \in Int : Adding(f, S)[x][v] \in Int
  BY DEF Adding
<1>3. g \in [SUBSET S -> Int]
  <2> DEFINE V == Int
             step == Adding(f, S)
  <2>1. 0 \in V /\ \A x \in S : \A v \in V : step[x][v] \in V
    BY <1>2
  <2>2. IsTable(0, step, g, S)
    BY <1>1
  <2> HIDE DEF V, step
  <2>3. g \in [SUBSET S -> V]
    BY <2>1, <2>2, TableTyped
  <2> QED BY <2>3 DEF V
<1>4. IsSumTable(f, g, S)
  BY <1>1, <1>3, SumTableFolds
<1>5. IsSumTable(f, own, S)
  BY <1>4
<1>6. SumFunctionOnSet(f, S) = own[S]
  BY SumByTable
<1> HIDE DEF own
<1>7. own \in [SUBSET S -> Int]
  BY <1>5, SumTableTyped
<1>8. IsTable(0, Adding(f, S), own, S)
  BY <1>5, <1>7, SumTableFolds
<1> QED BY <1>6, <1>8

\* The summand of x can be taken out of the sum over S.
SumEntry(f, S, x) == SumFunctionOnSet(f, S) = f[x] + SumFunctionOnSet(f, S \ {x})

\* One table holds the sums over all subsets of a finite set.
LEMMA SumIsTable ==
    ASSUME NEW f, NEW S, IsFiniteSet(S), \A x \in S : f[x] \in Int
    PROVE  \E iter \in [SUBSET S -> Int] :
              /\ IsTable(0, Adding(f, S), iter, S)
              /\ \A T \in SUBSET S : SumFunctionOnSet(f, T) = iter[T]
<1>1. PICK iter : IsTable(0, Adding(f, S), iter, S)
  BY TableExists
<1>2. ASSUME NEW T \in SUBSET S
      PROVE  SumFunctionOnSet(f, T) = iter[T]
  <2>1. IsFiniteSet(T) /\ \A x \in T : f[x] \in Int
    BY FS_Subset
  <2>2. PICK own : IsTable(0, Adding(f, T), own, T) /\ SumFunctionOnSet(f, T) = own[T]
    BY <2>1, SumFromFold
  <2>3. \A x \in T : Adding(f, S)[x] = Adding(f, T)[x]
    BY DEF Adding
  <2>4. T \in SUBSET T
    OBVIOUS
  <2>5. iter[T] = own[T]
    BY <1>1, <2>2, <2>3, <2>4, TablesAgree
  <2> QED BY <2>2, <2>5
<1>3. iter \in [SUBSET S -> Int]
  <2> DEFINE V == Int
             step == Adding(f, S)
  <2>1. 0 \in V /\ \A x \in S : \A v \in V : step[x][v] \in V
    BY DEF Adding
  <2>2. IsTable(0, step, iter, S)
    BY <1>1
  <2> HIDE DEF V, step
  <2>3. iter \in [SUBSET S -> V]
    BY <2>1, <2>2, TableTyped
  <2> QED BY <2>3 DEF V
<1> QED BY <1>1, <1>2, <1>3

\* The sum over no index is 0, and some index can be taken out.
LEMMA SumUnfolds ==
    ASSUME NEW f, NEW S, IsFiniteSet(S), \A x \in S : f[x] \in Int
    PROVE  /\ S = {} => SumFunctionOnSet(f, S) = 0
           /\ S # {} => \E x \in S : SumEntry(f, S, x)
<1>1. PICK iter \in [SUBSET S -> Int] :
              /\ IsTable(0, Adding(f, S), iter, S)
              /\ \A T \in SUBSET S : SumFunctionOnSet(f, T) = iter[T]
  BY SumIsTable
<1>2. SumFunctionOnSet(f, S) = Folded(0, Adding(f, S), iter, S)
  <2>1. S \in SUBSET S
    OBVIOUS
  <2> QED BY <1>1, <2>1, TableEntry
<1>3. CASE S = {}
  BY <1>2, <1>3 DEF Folded
<1>4. CASE S # {}
  <2> DEFINE x == CHOOSE y \in S : TRUE
  <2>1. x \in S
    BY <1>4
  <2>2. SumFunctionOnSet(f, S \ {x}) = iter[S \ {x}] /\ iter[S \ {x}] \in Int
    BY <1>1
  <2>3. SumFunctionOnSet(f, S) = Adding(f, S)[x][iter[S \ {x}]]
    BY <1>2, <1>4 DEF Folded
  <2> HIDE DEF x
  <2>4. Adding(f, S)[x][iter[S \ {x}]] = f[x] + iter[S \ {x}]
    BY <2>1, <2>2 DEF Adding
  <2> QED BY <1>4, <2>1, <2>2, <2>3, <2>4 DEF SumEntry
<1> QED BY <1>3, <1>4

\* A sum of integers is an integer.
LEMMA SumIsInt ==
    ASSUME NEW f, NEW S, IsFiniteSet(S), \A x \in S : f[x] \in Int
    PROVE  SumFunctionOnSet(f, S) \in Int
<1> DEFINE Bad == {T \in SUBSET S : SumFunctionOnSet(f, T) \notin Int}
<1> SUFFICES ASSUME Bad # {} PROVE FALSE
  OBVIOUS
<1>1. PICK A \in Bad : \A B \in Bad : B \subseteq A => B = A
  <2>1. Bad \in SUBSET SUBSET S
    OBVIOUS
  <2> HIDE DEF Bad
  <2> QED BY <2>1, SmallestSubset
<1>2. IsFiniteSet(A)
  BY FS_Subset
<1>3. A # {}
  BY <1>2, SumUnfolds
<1>4. PICK x \in A : SumEntry(f, A, x)
  BY <1>2, <1>3, SumUnfolds
<1>5. A \ {x} \notin Bad
  BY <1>1
<1>6. SumFunctionOnSet(f, A \ {x}) \in Int /\ f[x] \in Int
  BY <1>5
<1> QED BY <1>1, <1>4, <1>6 DEF SumEntry

\* Any index can be taken out.
LEMMA SumTakesOut ==
    ASSUME NEW f, NEW S, IsFiniteSet(S), \A x \in S : f[x] \in Int, NEW y \in S
    PROVE  SumFunctionOnSet(f, S) = f[y] + SumFunctionOnSet(f, S \ {y})
<1> DEFINE Bad == {T \in SUBSET S : \E z \in T : ~SumEntry(f, T, z)}
<1> SUFFICES ASSUME Bad # {} PROVE FALSE
  BY DEF SumEntry
<1>1. PICK A \in Bad : \A B \in Bad : B \subseteq A => B = A
  <2>1. Bad \in SUBSET SUBSET S
    OBVIOUS
  <2> HIDE DEF Bad
  <2> QED BY <2>1, SmallestSubset
<1>2. PICK z \in A : ~SumEntry(f, A, z)
  OBVIOUS
<1>3. IsFiniteSet(A) /\ A \subseteq S
  BY FS_Subset
<1>4. PICK x \in A : SumEntry(f, A, x)
  BY <1>2, <1>3, SumUnfolds
<1>5. x # z
  BY <1>2, <1>4
<1>6. SumEntry(f, A \ {x}, z) /\ SumEntry(f, A \ {z}, x)
  <2>1. A \ {x} \notin Bad /\ A \ {z} \notin Bad
    BY <1>1
  <2>2. A \ {x} \in SUBSET S /\ A \ {z} \in SUBSET S
    BY <1>3
  <2>3. z \in A \ {x} /\ x \in A \ {z}
    BY <1>5
  <2> QED BY <2>1, <2>2, <2>3
<1> HIDE DEF Bad
<1> DEFINE rest == SumFunctionOnSet(f, (A \ {x}) \ {z})
<1>7. (A \ {x}) \ {z} = (A \ {z}) \ {x}
  OBVIOUS
<1>8. f[x] \in Int /\ f[z] \in Int /\ rest \in Int
  <2>1. IsFiniteSet((A \ {x}) \ {z}) /\ \A i \in (A \ {x}) \ {z} : f[i] \in Int
    BY <1>3, FS_Subset
  <2>2. rest \in Int
    BY <2>1, SumIsInt
  <2> QED BY <1>3, <2>2
<1>9. /\ SumFunctionOnSet(f, A) = f[x] + (f[z] + rest)
      /\ SumFunctionOnSet(f, A \ {z}) = f[x] + rest
  BY <1>4, <1>6, <1>7 DEF SumEntry
<1>10. SumFunctionOnSet(f, A) = f[z] + SumFunctionOnSet(f, A \ {z})
  BY <1>8, <1>9
<1> QED BY <1>2, <1>10 DEF SumEntry

\* A sum depends on the summands only.
LEMMA SumOfSame ==
    ASSUME NEW f, NEW g, NEW S, IsFiniteSet(S),
           \A x \in S : f[x] \in Int /\ f[x] = g[x]
    PROVE  SumFunctionOnSet(f, S) = SumFunctionOnSet(g, S)
<1>1. PICK h : IsTable(0, Adding(f, S), h, S) /\ SumFunctionOnSet(f, S) = h[S]
  BY SumFromFold
<1>2. PICK j : IsTable(0, Adding(g, S), j, S) /\ SumFunctionOnSet(g, S) = j[S]
  <2>1. \A x \in S : g[x] \in Int
    OBVIOUS
  <2> QED BY <2>1, SumFromFold
<1>3. \A x \in S : Adding(f, S)[x] = Adding(g, S)[x]
  BY DEF Adding
<1>4. S \in SUBSET S
  OBVIOUS
<1>5. h[S] = j[S]
  BY <1>1, <1>2, <1>3, <1>4, TablesAgree
<1> QED BY <1>1, <1>2, <1>5

\* A sum of zeros is zero.
LEMMA SumOfZeros ==
    ASSUME NEW f, NEW S, IsFiniteSet(S), \A x \in S : f[x] = 0
    PROVE  SumFunctionOnSet(f, S) = 0
<1> DEFINE Bad == {T \in SUBSET S : SumFunctionOnSet(f, T) # 0}
<1> SUFFICES ASSUME Bad # {} PROVE FALSE
  OBVIOUS
<1>1. PICK A \in Bad : \A B \in Bad : B \subseteq A => B = A
  <2>1. Bad \in SUBSET SUBSET S
    OBVIOUS
  <2> HIDE DEF Bad
  <2> QED BY <2>1, SmallestSubset
<1>2. IsFiniteSet(A)
  BY FS_Subset
<1>3. A # {}
  BY <1>2, SumUnfolds
<1>4. PICK x \in A : SumEntry(f, A, x)
  BY <1>2, <1>3, SumUnfolds
<1>5. A \ {x} \notin Bad
  BY <1>1
<1>6. SumFunctionOnSet(f, A \ {x}) = 0 /\ f[x] = 0
  BY <1>5
<1> QED BY <1>4, <1>6 DEF SumEntry

\* A sum of naturals is a natural.
LEMMA SumOfNats ==
    ASSUME NEW f, NEW S, IsFiniteSet(S), \A x \in S : f[x] \in Nat
    PROVE  SumFunctionOnSet(f, S) \in Nat
<1>1. SumFunctionOnSet(f, S) >= 0
  <2> DEFINE Bad == {T \in SUBSET S : ~(SumFunctionOnSet(f, T) >= 0)}
  <2> SUFFICES ASSUME Bad # {} PROVE FALSE
    OBVIOUS
  <2>1. PICK A \in Bad : \A B \in Bad : B \subseteq A => B = A
    <3>1. Bad \in SUBSET SUBSET S
      OBVIOUS
    <3> HIDE DEF Bad
    <3> QED BY <3>1, SmallestSubset
  <2>2. IsFiniteSet(A) /\ A \subseteq S
    BY FS_Subset
  <2>3. A # {}
    BY <2>2, SumUnfolds
  <2>4. PICK x \in A : SumEntry(f, A, x)
    BY <2>2, <2>3, SumUnfolds
  <2>5. SumFunctionOnSet(f, A \ {x}) >= 0
    <3>1. A \ {x} \notin Bad
      BY <2>1
    <3> QED BY <3>1
  <2>6. SumFunctionOnSet(f, A \ {x}) \in Int
    <3>1. IsFiniteSet(A \ {x}) /\ \A i \in A \ {x} : f[i] \in Int
      BY <2>2, FS_Subset
    <3> QED BY <3>1, SumIsInt
  <2>7. f[x] \in Nat
    BY <2>2
  <2> QED BY <2>1, <2>4, <2>5, <2>6, <2>7 DEF SumEntry
<1>2. SumFunctionOnSet(f, S) \in Int
  BY SumIsInt
<1> QED BY <1>1, <1>2

\* A sum of naturals is at least each of them.
LEMMA SumCoversSummand ==
    ASSUME NEW f, NEW S, IsFiniteSet(S), \A x \in S : f[x] \in Nat, NEW y \in S
    PROVE  f[y] <= SumFunctionOnSet(f, S)
<1>1. SumFunctionOnSet(f, S) = f[y] + SumFunctionOnSet(f, S \ {y})
  BY SumTakesOut
<1>2. SumFunctionOnSet(f, S \ {y}) \in Nat
  <2>1. IsFiniteSet(S \ {y}) /\ \A x \in S \ {y} : f[x] \in Nat
    BY FS_Subset
  <2> QED BY <2>1, SumOfNats
<1>3. f[y] \in Nat
  OBVIOUS
<1> QED BY <1>1, <1>2, <1>3

\* When one summand changes, the sum changes by as much.
LEMMA SumFollowsSummand ==
    ASSUME NEW f, NEW g, NEW S, IsFiniteSet(S), NEW y \in S,
           \A x \in S : f[x] \in Int /\ g[x] \in Int,
           \A x \in S \ {y} : g[x] = f[x]
    PROVE  SumFunctionOnSet(g, S) = SumFunctionOnSet(f, S) + (g[y] - f[y])
<1>1. SumFunctionOnSet(f, S) = f[y] + SumFunctionOnSet(f, S \ {y})
  BY SumTakesOut
<1>2. SumFunctionOnSet(g, S) = g[y] + SumFunctionOnSet(g, S \ {y})
  BY SumTakesOut
<1>3. IsFiniteSet(S \ {y}) /\ \A x \in S \ {y} : f[x] \in Int
  BY FS_Subset
<1>4. SumFunctionOnSet(g, S \ {y}) = SumFunctionOnSet(f, S \ {y})
  BY <1>3, SumOfSame
<1>5. SumFunctionOnSet(f, S \ {y}) \in Int
  BY <1>3, SumIsInt
<1>6. f[y] \in Int /\ g[y] \in Int
  OBVIOUS
<1> QED BY <1>1, <1>2, <1>4, <1>5, <1>6

\* A sum is the sum over one part and that over the rest.
LEMMA SumSplits ==
    ASSUME NEW f, NEW S, IsFiniteSet(S), \A x \in S : f[x] \in Int, NEW T \in SUBSET S
    PROVE  SumFunctionOnSet(f, S) = SumFunctionOnSet(f, T) + SumFunctionOnSet(f, S \ T)
<1> DEFINE Fails(A) == SumFunctionOnSet(f, S) #
                          SumFunctionOnSet(f, A) + SumFunctionOnSet(f, S \ A)
           Bad == {A \in SUBSET S : Fails(A)}
<1>0. \A A \in SUBSET S : IsFiniteSet(A) /\ SumFunctionOnSet(f, A) \in Int
  <2> TAKE A \in SUBSET S
  <2>1. IsFiniteSet(A) /\ \A x \in A : f[x] \in Int
    BY FS_Subset
  <2> QED BY <2>1, SumIsInt
<1> SUFFICES ASSUME Bad # {} PROVE FALSE
  OBVIOUS
<1>1. PICK A \in Bad : \A B \in Bad : B \subseteq A => B = A
  <2>1. Bad \in SUBSET SUBSET S
    OBVIOUS
  <2> HIDE DEF Bad
  <2> QED BY <2>1, SmallestSubset
<1>2. A \in SUBSET S /\ Fails(A)
  BY <1>1
<1>3. CASE A = {}
  <2>1. SumFunctionOnSet(f, {}) = 0
    BY SumUnfolds, FS_EmptySet
  <2>2. S \ {} = S /\ S \in SUBSET S
    OBVIOUS
  <2> QED BY <1>0, <1>2, <1>3, <2>1, <2>2
<1>4. CASE A # {}
  <2>1. PICK y \in A : TRUE
    BY <1>4
  <2> DEFINE B == A \ {y}
             R == S \ B
  <2>2. B \in SUBSET S /\ R \in SUBSET S /\ S \ A = R \ {y} /\ y \in R /\ y \in S
    BY <1>2, <2>1
  <2>3. ~Fails(B)
    BY <1>1, <2>1, <2>2
  <2>4. SumFunctionOnSet(f, A) = f[y] + SumFunctionOnSet(f, B)
    BY <1>0, <1>2, <2>1, SumTakesOut
  <2> HIDE DEF R, Bad
  <2>5. SumFunctionOnSet(f, R) = f[y] + SumFunctionOnSet(f, R \ {y})
    BY <1>0, <2>2, SumTakesOut
  <2>6. /\ f[y] \in Int /\ SumFunctionOnSet(f, B) \in Int
        /\ SumFunctionOnSet(f, R) \in Int /\ SumFunctionOnSet(f, R \ {y}) \in Int
    <3>1. R \ {y} \in SUBSET S
      BY <2>2
    <3> QED BY <1>0, <2>2, <3>1
  <2>7. SumFunctionOnSet(f, S) = SumFunctionOnSet(f, B) + SumFunctionOnSet(f, R)
    BY <2>3 DEF R
  <2>8. SumFunctionOnSet(f, S \ A) = SumFunctionOnSet(f, R \ {y})
    BY <2>2
  <2> HIDE DEF B
  <2> QED BY <1>2, <2>4, <2>5, <2>6, <2>7, <2>8
<1> QED BY <1>3, <1>4
=============================================================================
