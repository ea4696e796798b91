----------------------------- MODULE SumProofs -----------------------------
(***************************************************************************)
(* Sums over finite sets, as SumFunctionOnSet computes them: what adding,  *)
(* changing or renaming a term does to one.  The computation picks its     *)
(* terms in an order of its own; induction is by a least counterexample.   *)
(***************************************************************************)
EXTENDS Functions, Integers, FiniteSetTheorems, TLAPS

Picked(s) == CHOOSE x \in s : TRUE

\* g is the table of the sums of f over the subsets of S.
SumTable(f, S, g) ==
    g = [s \in SUBSET S |-> IF s = {} THEN 0 ELSE f[Picked(s)] + g[s \ {Picked(s)}]]

\* The sum is the entry of S in the table the definition chooses.
LEMMA SumIsChosen ==
    ASSUME NEW f, NEW S
    PROVE  SumFunctionOnSet(f, S) = (CHOOSE g : SumTable(f, S, g))[S]
  BY DEF SumFunctionOnSet, FoldFunctionOnSet, MapThenFoldSet, SumTable, Picked

\* A set of subsets of a finite set has a smallest member.
LEMMA LeastSubset ==
    ASSUME NEW S, IsFiniteSet(S), NEW B, B \subseteq SUBSET S, B # {}
    PROVE  \E s \in B : \A t \in B : t \subseteq s => t = s
<1>1. B \subseteq FiniteSubsetsOf(S)
  BY FS_Subset DEF FiniteSubsetsOf
<1>2. PICK s \in B : \A t \in B : <<t, s>> \notin StrictSubsetOrdering(S)
  BY <1>1, WFMin, FS_StrictSubsetOrderingWellFounded
<1>3. \A t \in B : t \subseteq s => t = s
  BY <1>2 DEF StrictSubsetOrdering
<1> QED
  BY <1>3

\* Any set of natural numbers has a least one.
LEMMA LeastNat ==
    ASSUME NEW T, T \subseteq Nat, T # {}
    PROVE  \E x \in T : \A y \in T : x <= y
<1> DEFINE U == {1 .. x : x \in T}
<1>1. U \subseteq FiniteSubsetsOf(Nat) /\ U # {}
  <2>1. \A x \in T : IsFiniteSet(1 .. x) /\ 1 .. x \subseteq Nat
    BY FS_Interval
  <2> QED
    BY <2>1 DEF FiniteSubsetsOf
<1>2. PICK u \in U : \A v \in U : <<v, u>> \notin StrictSubsetOrdering(Nat)
  <2> HIDE DEF U
  <2> QED
    BY <1>1, WFMin, FS_StrictSubsetOrderingWellFounded
<1>3. PICK x \in T : u = 1 .. x
  OBVIOUS
<1>4. ASSUME NEW y \in T, y < x PROVE FALSE
  <2>1. /\ 1 .. y \in U
        /\ 1 .. y \subseteq u /\ 1 .. y # u
        /\ 1 .. y \in SUBSET Nat /\ u \in SUBSET Nat
    BY <1>3, <1>4
  <2> HIDE DEF U
  <2> QED
    BY <1>2, <2>1 DEF StrictSubsetOrdering
<1> QED
  BY <1>4

\* Two tables agree wherever both have an entry.
LEMMA TablesAgree ==
    ASSUME NEW f, NEW S, NEW T, NEW g, NEW h, SumTable(f, S, g), SumTable(f, T, h),
           NEW R, IsFiniteSet(R), R \subseteq S, R \subseteq T
    PROVE  g[R] = h[R]
<1> DEFINE Bad == {s \in SUBSET R : g[s] # h[s]}
<1>1. SUFFICES ASSUME Bad # {} PROVE FALSE
  OBVIOUS
<1>2. PICK s \in Bad : \A t \in Bad : t \subseteq s => t = s
  <2>1. Bad \subseteq SUBSET R
    OBVIOUS
  <2> HIDE DEF Bad
  <2> QED
    BY <1>1, <2>1, LeastSubset
<1> DEFINE rest == s \ {Picked(s)}
<1>3. /\ g[s] = IF s = {} THEN 0 ELSE f[Picked(s)] + g[rest]
      /\ h[s] = IF s = {} THEN 0 ELSE f[Picked(s)] + h[rest]
  BY <1>2 DEF SumTable
<1>4. s # {} => Picked(s) \in s
  BY DEF Picked
<1>5. s # {} => rest \in SUBSET R /\ rest \subseteq s /\ rest # s
  BY <1>2, <1>4
<1>6. s # {} => rest \notin Bad
  BY <1>2, <1>5
<1> QED
  BY <1>2, <1>3, <1>5, <1>6

\* Every finite set has its table.
LEMMA TableExists ==
    ASSUME NEW f, NEW S, IsFiniteSet(S)
    PROVE  \E g : SumTable(f, S, g)
<1> DEFINE Bad == {s \in SUBSET S : ~ \E g : SumTable(f, s, g)}
<1>1. SUFFICES ASSUME Bad # {} PROVE FALSE
  OBVIOUS
<1>2. PICK s \in Bad : \A t \in Bad : t \subseteq s => t = s
  <2>1. Bad \subseteq SUBSET S
    OBVIOUS
  <2> HIDE DEF Bad
  <2> QED
    BY <1>1, <2>1, LeastSubset
<1> DEFINE table(t) == CHOOSE g : SumTable(f, t, g)
           Sum(t)   == table(t)[t]
<1>3. \A t \in SUBSET s : t # s => SumTable(f, t, table(t))
  <2> SUFFICES ASSUME NEW t \in SUBSET s, t # s PROVE \E g : SumTable(f, t, g)
    OBVIOUS
  <2> QED
    BY <1>2
<1> HIDE DEF table
<1> DEFINE whole == IF s = {} THEN 0 ELSE f[Picked(s)] + Sum(s \ {Picked(s)})
           g == [t \in SUBSET s |-> IF t = s THEN whole ELSE Sum(t)]
<1>4. \A t \in SUBSET s : IsFiniteSet(t)
  BY <1>2, FS_Subset
<1>5. \A t \in SUBSET s : t # {} => /\ Picked(t) \in t
                                    /\ t \ {Picked(t)} \in SUBSET s
                                    /\ t \ {Picked(t)} # s /\ t \ {Picked(t)} # t
  BY DEF Picked
<1>6. ASSUME NEW t \in SUBSET s
      PROVE  g[t] = IF t = {} THEN 0 ELSE f[Picked(t)] + g[t \ {Picked(t)}]
  <2> DEFINE rest == t \ {Picked(t)}
  <2>1. t # {} => g[rest] = Sum(rest)
    BY <1>5
  <2>2. CASE t = s
    BY <2>1, <2>2
  <2>3. CASE t # s
    <3>1. g[t] = Sum(t)
      BY <2>3
    <3>2. table(t)[t] = IF t = {} THEN 0 ELSE f[Picked(t)] + table(t)[rest]
      <4>1. SumTable(f, t, table(t))
        BY <1>3, <2>3
      <4>2. t \in SUBSET t
        OBVIOUS
      <4>3. table(t) = [r \in SUBSET t |-> IF r = {} THEN 0 ELSE f[Picked(r)] + table(t)[r \ {Picked(r)}]]
        BY <4>1 DEF SumTable
      <4> QED
        BY <4>2, <4>3
    <3>3. t # {} => table(t)[rest] = table(rest)[rest]
      <4> SUFFICES ASSUME t # {} PROVE table(t)[rest] = table(rest)[rest]
        OBVIOUS
      <4>1. SumTable(f, t, table(t)) /\ SumTable(f, rest, table(rest))
        BY <1>3, <1>5, <2>3
      <4>2. IsFiniteSet(rest) /\ rest \subseteq t
        BY <1>4, <1>5
      <4> HIDE DEF rest
      <4> QED
        BY <4>1, <4>2, TablesAgree
    <3> HIDE DEF g
    <3> QED
      BY <2>1, <3>1, <3>2, <3>3
  <2> QED
    BY <2>2, <2>3
<1>7. SumTable(f, s, g)
  <2>1. g = [t \in SUBSET s |-> g[t]]
    OBVIOUS
  <2> HIDE DEF g
  <2>2. g = [t \in SUBSET s |-> IF t = {} THEN 0 ELSE f[Picked(t)] + g[t \ {Picked(t)}]]
    BY <1>6, <2>1
  <2> QED
    BY <2>2 DEF SumTable
<1> HIDE DEF g
<1> QED
  BY <1>2, <1>7

-----------------------------------------------------------------------------
\* The sum over nothing; the sum over S from the one over its rest.
THEOREM SumEquation ==
    /\ \A f : SumFunctionOnSet(f, {}) = 0
    /\ \A f, S : IsFiniteSet(S) /\ S # {} =>
          SumFunctionOnSet(f, S) = f[Picked(S)] + SumFunctionOnSet(f, S \ {Picked(S)})
<1> DEFINE table(f, S) == CHOOSE g : SumTable(f, S, g)
<1>1. ASSUME NEW f, NEW S, IsFiniteSet(S)
      PROVE  /\ SumTable(f, S, table(f, S))
             /\ SumFunctionOnSet(f, S) = table(f, S)[S]
  BY <1>1, TableExists, SumIsChosen
<1> HIDE DEF table
<1>2. ASSUME NEW f PROVE SumFunctionOnSet(f, {}) = 0
  <2>1. SumTable(f, {}, table(f, {})) /\ SumFunctionOnSet(f, {}) = table(f, {})[{}]
    BY <1>1, FS_EmptySet
  <2> QED
    BY <2>1 DEF SumTable
<1>3. ASSUME NEW f, NEW S, IsFiniteSet(S), S # {}
      PROVE  SumFunctionOnSet(f, S) = f[Picked(S)] + SumFunctionOnSet(f, S \ {Picked(S)})
  <2> DEFINE rest == S \ {Picked(S)}
  <2>1. IsFiniteSet(rest) /\ rest \subseteq S
    BY <1>3, FS_RemoveElement
  <2> HIDE DEF rest
  <2>2. /\ SumTable(f, S, table(f, S)) /\ SumTable(f, rest, table(f, rest))
        /\ SumFunctionOnSet(f, S) = table(f, S)[S]
        /\ SumFunctionOnSet(f, rest) = table(f, rest)[rest]
    BY <1>1, <1>3, <2>1
  <2>3. table(f, S)[rest] = table(f, rest)[rest]
    BY <2>1, <2>2, TablesAgree
  <2>4. table(f, S)[S] = f[Picked(S)] + table(f, S)[S \ {Picked(S)}]
    <3>1. S \in SUBSET S
      OBVIOUS
    <3> QED
      BY <1>3, <2>2, <3>1 DEF SumTable
  <2> QED
    BY <2>2, <2>3, <2>4 DEF rest
<1> QED
  BY <1>2, <1>3

\* What is picked from a set that is not empty is in it.
LEMMA PickedIn ==
    ASSUME NEW S, IsFiniteSet(S), S # {}
    PROVE  /\ Picked(S) \in S /\ IsFiniteSet(S \ {Picked(S)})
           /\ S \ {Picked(S)} \subseteq S /\ S \ {Picked(S)} # S
  BY FS_RemoveElement DEF Picked

\* A sum of integers is one; a sum of natural numbers is one.
THEOREM SumType ==
    ASSUME NEW S, IsFiniteSet(S), NEW f
    PROVE  /\ (\A x \in S : f[x] \in Int) => SumFunctionOnSet(f, S) \in Int
           /\ (\A x \in S : f[x] \in Nat) => SumFunctionOnSet(f, S) \in Nat
<1>1. ASSUME NEW Num \in {Int, Nat}, \A x \in S : f[x] \in Num
      PROVE  SumFunctionOnSet(f, S) \in Num
  <2> DEFINE Bad == {s \in SUBSET S : SumFunctionOnSet(f, s) \notin Num}
  <2>1. SUFFICES ASSUME Bad # {} PROVE FALSE
    OBVIOUS
  <2>2. PICK s \in Bad : \A t \in Bad : t \subseteq s => t = s
    <3>1. Bad \subseteq SUBSET S
      OBVIOUS
    <3> HIDE DEF Bad
    <3> QED
      BY <2>1, <3>1, LeastSubset
  <2>3. IsFiniteSet(s)
    BY <2>2, FS_Subset
  <2>4. CASE s = {}
    BY <2>2, <2>4, SumEquation
  <2>5. CASE s # {}
    <3>1. SumFunctionOnSet(f, s \ {Picked(s)}) \in Num /\ f[Picked(s)] \in Num
      BY <1>1, <2>2, <2>3, <2>5, PickedIn
    <3>2. SumFunctionOnSet(f, s) = f[Picked(s)] + SumFunctionOnSet(f, s \ {Picked(s)})
      BY <2>3, <2>5, SumEquation
    <3> QED
      BY <2>2, <3>1, <3>2
  <2> QED
    BY <2>4, <2>5
<1> QED
  BY <1>1

\* Any term can be taken out of a sum.
THEOREM SumRemove ==
    ASSUME NEW S, IsFiniteSet(S), NEW f, \A x \in S : f[x] \in Int, NEW x \in S
    PROVE  SumFunctionOnSet(f, S) = f[x] + SumFunctionOnSet(f, S \ {x})
<1> DEFINE Bad == {s \in SUBSET S : \E y \in s :
                     SumFunctionOnSet(f, s) # f[y] + SumFunctionOnSet(f, s \ {y})}
<1>1. SUFFICES ASSUME Bad # {} PROVE FALSE
  OBVIOUS
<1>2. PICK s \in Bad : \A t \in Bad : t \subseteq s => t = s
  <2>1. Bad \subseteq SUBSET S
    OBVIOUS
  <2> HIDE DEF Bad
  <2> QED
    BY <1>1, <2>1, LeastSubset
<1>3. PICK y \in s : SumFunctionOnSet(f, s) # f[y] + SumFunctionOnSet(f, s \ {y})
  BY <1>2
<1> DEFINE p == Picked(s)
<1>4. /\ s \in SUBSET S /\ IsFiniteSet(s) /\ p \in s
      /\ IsFiniteSet(s \ {p}) /\ IsFiniteSet(s \ {y}) /\ IsFiniteSet((s \ {p}) \ {y})
  <2>1. s \in SUBSET S /\ IsFiniteSet(s) /\ s # {}
    BY <1>2, <1>3, FS_Subset
  <2> QED
    BY <2>1, PickedIn, FS_RemoveElement
<1>5. SumFunctionOnSet(f, s) = f[p] + SumFunctionOnSet(f, s \ {p})
  BY <1>3, <1>4, SumEquation
<1>6. y # p
  BY <1>3, <1>5
<1>7. SumFunctionOnSet(f, s \ {p}) = f[y] + SumFunctionOnSet(f, (s \ {p}) \ {y})
  <2>1. s \ {p} \notin Bad /\ y \in s \ {p}
    BY <1>2, <1>4, <1>6
  <2> QED
    BY <1>4, <2>1
<1>8. SumFunctionOnSet(f, s \ {y}) = f[p] + SumFunctionOnSet(f, (s \ {p}) \ {y})
  <2>1. s \ {y} \notin Bad /\ p \in s \ {y}
    BY <1>2, <1>3, <1>4, <1>6
  <2>2. (s \ {y}) \ {p} = (s \ {p}) \ {y}
    OBVIOUS
  <2> QED
    BY <1>4, <2>1, <2>2
<1>9. /\ f[y] \in Int /\ f[p] \in Int
      /\ SumFunctionOnSet(f, (s \ {p}) \ {y}) \in Int
  BY <1>4, SumType
<1> HIDE DEF p, Bad
<1> QED
  BY <1>3, <1>5, <1>7, <1>8, <1>9

\* Sums add term by term.
THEOREM SumPlus ==
    ASSUME NEW S, IsFiniteSet(S), NEW f, NEW g, NEW h,
           \A x \in S : f[x] \in Int /\ g[x] \in Int /\ h[x] = f[x] + g[x]
    PROVE  SumFunctionOnSet(h, S) = SumFunctionOnSet(f, S) + SumFunctionOnSet(g, S)
<1> DEFINE Bad == {s \in SUBSET S :
                     SumFunctionOnSet(h, s) # SumFunctionOnSet(f, s) + SumFunctionOnSet(g, s)}
<1>1. SUFFICES ASSUME Bad # {} PROVE FALSE
  OBVIOUS
<1>2. PICK s \in Bad : \A t \in Bad : t \subseteq s => t = s
  <2>1. Bad \subseteq SUBSET S
    OBVIOUS
  <2> HIDE DEF Bad
  <2> QED
    BY <1>1, <2>1, LeastSubset
<1>3. s \in SUBSET S /\ IsFiniteSet(s)
  BY <1>2, FS_Subset
<1>4. CASE s = {}
  BY <1>2, <1>4, SumEquation
<1>5. CASE s # {}
  <2> DEFINE p == Picked(s)
  <2>1. p \in s /\ IsFiniteSet(s \ {p}) /\ s \ {p} \notin Bad
    BY <1>2, <1>3, <1>5, PickedIn
  <2>2. /\ SumFunctionOnSet(f, s) = f[p] + SumFunctionOnSet(f, s \ {p})
        /\ SumFunctionOnSet(g, s) = g[p] + SumFunctionOnSet(g, s \ {p})
        /\ SumFunctionOnSet(h, s) = h[p] + SumFunctionOnSet(h, s \ {p})
    BY <1>3, <1>5, SumEquation
  <2>3. SumFunctionOnSet(h, s \ {p})
           = SumFunctionOnSet(f, s \ {p}) + SumFunctionOnSet(g, s \ {p})
    BY <1>3, <2>1
  <2>4. /\ f[p] \in Int /\ g[p] \in Int /\ h[p] = f[p] + g[p]
        /\ SumFunctionOnSet(f, s \ {p}) \in Int /\ SumFunctionOnSet(g, s \ {p}) \in Int
    BY <1>3, <2>1, SumType
  <2>5. SumFunctionOnSet(h, s) # SumFunctionOnSet(f, s) + SumFunctionOnSet(g, s)
    BY <1>2
  <2> HIDE DEF p, Bad
  <2> QED
    BY <2>2, <2>3, <2>4, <2>5
<1> QED
  BY <1>4, <1>5

\* Sums keep order term by term.
COROLLARY SumMonotone ==
    ASSUME NEW S, IsFiniteSet(S), NEW f, NEW g,
           \A x \in S : f[x] \in Int /\ g[x] \in Int /\ f[x] <= g[x]
    PROVE  SumFunctionOnSet(f, S) <= SumFunctionOnSet(g, S)
<1> DEFINE d == [x \in S |-> g[x] - f[x]]
<1>1. \A x \in S : d[x] \in Nat /\ d[x] \in Int /\ g[x] = f[x] + d[x]
  OBVIOUS
<1> HIDE DEF d
<1>2. SumFunctionOnSet(g, S) = SumFunctionOnSet(f, S) + SumFunctionOnSet(d, S)
  BY <1>1, SumPlus
<1>3. SumFunctionOnSet(d, S) \in Nat /\ SumFunctionOnSet(f, S) \in Int
  BY <1>1, SumType
<1> QED
  BY <1>2, <1>3

\* A sum depends on its terms only.
COROLLARY SumCongruent ==
    ASSUME NEW S, IsFiniteSet(S), NEW f, NEW g, \A x \in S : f[x] \in Int /\ g[x] = f[x]
    PROVE  SumFunctionOnSet(g, S) = SumFunctionOnSet(f, S)
<1>1. /\ SumFunctionOnSet(f, S) <= SumFunctionOnSet(g, S)
      /\ SumFunctionOnSet(g, S) <= SumFunctionOnSet(f, S)
      /\ SumFunctionOnSet(f, S) \in Int /\ SumFunctionOnSet(g, S) \in Int
  BY SumMonotone, SumType
<1> QED
  BY <1>1

\* Nothing sums up to nothing.
COROLLARY SumZero ==
    ASSUME NEW S, IsFiniteSet(S), NEW f, \A x \in S : f[x] = 0
    PROVE  SumFunctionOnSet(f, S) = 0
<1> DEFINE sum == SumFunctionOnSet(f, S)
<1>1. sum = sum + sum
  BY SumPlus
<1>2. sum \in Int
  BY SumType
<1> HIDE DEF sum
<1>3. sum = 0
  BY <1>1, <1>2
<1> QED
  BY <1>3 DEF sum

\* A sum of which one term changes, changes by as much.
COROLLARY SumChanged ==
    ASSUME NEW S, IsFiniteSet(S), NEW f, NEW g, NEW u \in S,
           \A x \in S : f[x] \in Int /\ g[x] \in Int,
           \A x \in S \ {u} : g[x] = f[x]
    PROVE  SumFunctionOnSet(g, S) = SumFunctionOnSet(f, S) + (g[u] - f[u])
<1>1. /\ SumFunctionOnSet(f, S) = f[u] + SumFunctionOnSet(f, S \ {u})
      /\ SumFunctionOnSet(g, S) = g[u] + SumFunctionOnSet(g, S \ {u})
  BY SumRemove
<1>2. IsFiniteSet(S \ {u})
  BY FS_RemoveElement
<1>3. /\ SumFunctionOnSet(g, S \ {u}) = SumFunctionOnSet(f, S \ {u})
      /\ SumFunctionOnSet(f, S \ {u}) \in Int
  BY <1>2, SumCongruent, SumType
<1> QED
  BY <1>1, <1>3

\* A sum whose terms are another's, renamed one to one, is the other's.
THEOREM SumRename ==
    ASSUME NEW S, IsFiniteSet(S), NEW f, NEW g, NEW p, NEW T,
           \A x \in S : f[x] \in Int /\ p[x] \in T /\ g[p[x]] = f[x],
           \A y \in T : \E x \in S : p[x] = y,
           \A x, y \in S : p[x] = p[y] => x = y
    PROVE  SumFunctionOnSet(g, T) = SumFunctionOnSet(f, S)
<1> DEFINE Image(s) == {p[x] : x \in s}
           Bad == {s \in SUBSET S :
                     SumFunctionOnSet(g, Image(s)) # SumFunctionOnSet(f, s)}
<1>1. SUFFICES ASSUME Bad # {} PROVE FALSE
  <2>1. Image(S) = T
    OBVIOUS
  <2>2. S \notin Bad => SumFunctionOnSet(g, Image(S)) = SumFunctionOnSet(f, S)
    OBVIOUS
  <2> HIDE DEF Bad, Image
  <2> QED
    BY <2>1, <2>2
<1>2. PICK s \in Bad : \A t \in Bad : t \subseteq s => t = s
  <2>1. Bad \subseteq SUBSET S
    OBVIOUS
  <2> HIDE DEF Bad
  <2> QED
    BY <1>1, <2>1, LeastSubset
<1>3. s \in SUBSET S /\ IsFiniteSet(s) /\ IsFiniteSet(Image(s))
  <2>1. s \in SUBSET S /\ IsFiniteSet(s)
    BY <1>2, FS_Subset
  <2> DEFINE r == [x \in s |-> p[x]]
  <2>2. r \in Surjection(s, Image(s))
    BY DEF Surjection
  <2> HIDE DEF r, Image
  <2>3. IsFiniteSet(Image(s))
    BY <2>1, <2>2, FS_Surjection
  <2> QED
    BY <2>1, <2>3
<1>4. CASE s = {}
  <2>1. Image(s) = {}
    BY <1>4
  <2> QED
    BY <1>2, <1>4, <2>1, SumEquation
<1>5. CASE s # {}
  <2> DEFINE k == Picked(s)
  <2>1. k \in s /\ s \ {k} \notin Bad /\ s \ {k} \in SUBSET S
    BY <1>2, <1>3, <1>5, PickedIn
  <2>2. SumFunctionOnSet(f, s) = f[k] + SumFunctionOnSet(f, s \ {k})
    BY <1>3, <1>5, SumEquation
  <2>3. Image(s) \ {p[k]} = Image(s \ {k}) /\ p[k] \in Image(s)
    BY <1>3, <2>1
  <2>4. \A y \in Image(s) : g[y] \in Int
    BY <1>3
  <2> HIDE DEF k
  <2>5. SumFunctionOnSet(g, Image(s)) = g[p[k]] + SumFunctionOnSet(g, Image(s) \ {p[k]})
    <3> HIDE DEF Image
    <3> QED
      BY <1>3, <2>3, <2>4, SumRemove
  <2>6. SumFunctionOnSet(g, Image(s \ {k})) = SumFunctionOnSet(f, s \ {k})
    BY <2>1
  <2>7. g[p[k]] = f[k]
    BY <1>3, <2>1
  <2> QED
    BY <1>2, <2>2, <2>3, <2>5, <2>6, <2>7
<1> QED
  BY <1>4, <1>5
============================================================================
