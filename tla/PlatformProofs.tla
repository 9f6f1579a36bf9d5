---------------------------- MODULE PlatformProofs ----------------------------
(***************************************************************************)
(* The safety of the funds of a user, of the migration of legacy credits,  *)
(* of the stations and of the channel router, for any numbers of users,    *)
(* jobs, packs, batches of credit, runs, entries, models, channels,        *)
(* sessions and handlers.  Each part follows its own specification within  *)
(* the instance (PartsFollow); an inductive invariant is proved of each.   *)
(***************************************************************************)
EXTENDS MCPlatform, Functions, FiniteSetTheorems, WellFoundedInduction, TLAPS

(* The parts share no variable, so that a step is a step of one part, and  *)
(* leaves the others where they are.                                       *)
LEMMA PartsFollow ==
  PartsSpec => /\ Spec /\ Catalog!Spec /\ Routing!Spec /\ Payout!Spec
               /\ Wallet!Spec /\ Migration!Spec
<1>1. PartsInit => /\ Init /\ Catalog!Init /\ Routing!Init /\ Payout!Init
                   /\ Wallet!Init /\ Migration!Init
  BY DEF PartsInit
<1>2. [PartsNext]_parts => /\ [Next]_vars /\ [Catalog!Next]_(Catalog!vars)
                           /\ [Routing!Next]_(Routing!vars) /\ [Payout!Next]_(Payout!vars)
                           /\ [Wallet!Next]_(Wallet!vars) /\ [Migration!Next]_(Migration!vars)
  BY DEF PartsNext, parts, vars, payoutVars, catalogVars, routingVars, walletVars, migrationVars,
         Catalog!vars, Routing!vars, Payout!vars, Wallet!vars, Migration!vars
<1> QED BY <1>1, <1>2, PTL DEF PartsSpec, Spec, Catalog!Spec, Routing!Spec, Payout!Spec, Wallet!Spec,
                                Migration!Spec

-----------------------------------------------------------------------------
(* Sums over finite sets.                                                  *)

Below == {ss \in Nat \X Nat : ss[1] < ss[2]}

(* The order of the naturals has no infinite descent. *)
LEMMA BelowWellFounded == IsWellFoundedOn(Below, Nat)
  BY NatLessThanWellFounded DEF OpToRel, Below

(* A function into the naturals is lowest somewhere on a nonempty set.     *)
LEMMA LowestExists ==
  ASSUME NEW T, NEW f, T # {}, \A c \in T : f[c] \in Nat
  PROVE  \E c \in T : \A d \in T : f[c] <= f[d]
<1> DEFINE S == {f[c] : c \in T}
<1>1. S \subseteq Nat /\ S # {}
  OBVIOUS
<1>2. \E x \in S : \A y \in S : <<y, x>> \notin Below
  <2> HIDE DEF S
  <2> QED  BY <1>1, WFMin, BelowWellFounded
<1>3. PICK x \in S : \A y \in S : <<y, x>> \notin Below
  BY <1>2
<1>4. PICK c \in T : x = f[c]
  BY <1>3
<1>5. ASSUME NEW d \in T PROVE f[c] <= f[d]
  <2>1. f[d] \in S /\ f[d] \in Nat /\ x \in Nat /\ x = f[c]
    BY <1>1, <1>4
  <2>2. <<f[d], x>> \notin Below
    BY <2>1, <1>3
  <2>3. ~(f[d] < x)
    BY <2>1, <2>2 DEF Below
  <2> QED  BY <2>1, <2>3
<1> QED  BY <1>5

(* Induction over a finite set is the search for a smallest subset that    *)
(* makes an exception.                                                     *)
LEMMA SmallestSubset ==
  ASSUME NEW S, IsFiniteSet(S), NEW Bad \in SUBSET SUBSET S, Bad # {}
  PROVE  \E T \in Bad : \A U \in Bad : U \subseteq T => U = T
<1>1. FiniteSubsetsOf(S) = SUBSET S
  BY FS_FiniteSubsetsOfFinite
<1>2. IsWellFoundedOn(StrictSubsetOrdering(S), SUBSET S)
  BY <1>1, FS_StrictSubsetOrderingWellFounded, Zenon
<1>3. PICK T \in Bad : \A U \in Bad : ~ (<<U, T>> \in StrictSubsetOrdering(S))
  BY <1>2, WFMin
<1>4. ASSUME NEW U \in Bad, U \subseteq T PROVE U = T
  BY <1>3, <1>4 DEF StrictSubsetOrdering
<1> QED  BY <1>4

Pick(s) == CHOOSE x \in s : TRUE

(* g sums f over each of the sets of D. *)
Sums(g, f, D) ==
  g = [s \in D |-> IF s = {} THEN 0 ELSE f[Pick(s)] + g[s \ {Pick(s)}]]

SumsWithin(g, f, S) == Sums(g, f, SUBSET S)

(* f is a number on each element of the finite set S. *)
Summable(f, S) == IsFiniteSet(S) /\ \A y \in S : f[y] \in Int

LEMMA SumUnfolds ==
  ASSUME NEW f, NEW S
  PROVE  SumFunctionOnSet(f, S) = (CHOOSE g : SumsWithin(g, f, S))[S]
BY DEF SumFunctionOnSet, FoldFunctionOnSet, MapThenFoldSet, SumsWithin, Sums, Pick

LEMMA PickIn == ASSUME NEW s, s # {} PROVE Pick(s) \in s
BY DEF Pick

(* Such functions exist, by induction on the number of elements, ...       *)
LEMMA SumsExist ==
  ASSUME NEW f, NEW S, IsFiniteSet(S)
  PROVE  \E g : SumsWithin(g, f, S)
<1> DEFINE Small(n) == {s \in SUBSET S : Cardinality(s) < n}
           Missing == {n \in Nat : ~ \E g : Sums(g, f, Small(n))}
<1>1. \A s \in SUBSET S : IsFiniteSet(s) /\ Cardinality(s) \in Nat /\ Cardinality(s) <= Cardinality(S)
  BY FS_Subset, FS_CardinalityType
<1>2. ASSUME NEW n \in Nat, NEW g, Sums(g, f, Small(n))
      PROVE  \E h : Sums(h, f, Small(n + 1))
  <2> DEFINE h == [s \in Small(n + 1) |-> IF s = {} THEN 0 ELSE f[Pick(s)] + g[s \ {Pick(s)}]]
  <2>1. ASSUME NEW s \in Small(n + 1), s # {}
        PROVE  s \ {Pick(s)} \in Small(n) /\ s \ {Pick(s)} \in Small(n + 1)
    <3>1. Cardinality(s \ {Pick(s)}) = Cardinality(s) - 1
      BY <1>1, <2>1, PickIn, FS_RemoveElement
    <3> QED  BY <1>1, <3>1
  <2>2. \A s \in Small(n) : s \in Small(n + 1)
    BY <1>1
  <2>3. \A s \in Small(n) : g[s] = IF s = {} THEN 0 ELSE f[Pick(s)] + g[s \ {Pick(s)}]
    BY <1>2, Zenon DEF Sums
  <2>4. \A s \in Small(n + 1) : h[s] = IF s = {} THEN 0 ELSE f[Pick(s)] + g[s \ {Pick(s)}]
    BY Zenon
  <2>5. \A s \in Small(n) : h[s] = g[s]
    BY <2>2, <2>3, <2>4, Zenon
  <2>6. \A s \in Small(n + 1) : s # {} => h[s \ {Pick(s)}] = g[s \ {Pick(s)}]
    BY <2>1, <2>5, Zenon
  <2> HIDE DEF Small
  <2>7. h = [s \in Small(n + 1) |-> IF s = {} THEN 0 ELSE f[Pick(s)] + h[s \ {Pick(s)}]]
    BY <2>6
  <2> QED  BY <2>7 DEF Sums
<1>3. \E g : Sums(g, f, Small(0))
  <2>1. Small(0) = {}
    BY <1>1
  <2>2. Sums([s \in {} |-> 0], f, {})
    BY DEF Sums
  <2> QED  BY <2>1, <2>2, Zenon
<1>4. Missing = {}
  <2> SUFFICES ASSUME Missing # {} PROVE FALSE
    OBVIOUS
  <2>1. PICK n \in Missing : \A m \in Missing : ~ (<<m, n>> \in Below)
    BY WFMin, BelowWellFounded
  <2>2. n # 0
    BY <1>3
  <2>3. n - 1 \in Nat /\ n - 1 \notin Missing
    <3>1. n \in Nat /\ n - 1 \in Nat /\ n - 1 < n
      BY <2>2
    <3> HIDE DEF Missing
    <3> QED  BY <2>1, <3>1 DEF Below
  <2>4. PICK g : Sums(g, f, Small(n - 1))
    BY <2>3
  <2>5. \E h : Sums(h, f, Small((n - 1) + 1))
    BY <1>2, <2>3, <2>4
  <2>6. (n - 1) + 1 = n
    OBVIOUS
  <2> QED  BY <2>5, <2>6
<1>5. Cardinality(S) + 1 \in Nat /\ Small(Cardinality(S) + 1) = SUBSET S
  BY <1>1
<1>6. PICK g : Sums(g, f, SUBSET S)
  BY <1>4, <1>5, Zenon
<1> QED  BY <1>6 DEF SumsWithin

(* ... and agree where both are defined. *)
LEMMA SumsAgree ==
  ASSUME NEW f, NEW S, NEW T \in SUBSET S, IsFiniteSet(S),
         NEW g, SumsWithin(g, f, S), NEW k, SumsWithin(k, f, T)
  PROVE  g[T] = k[T]
<1> DEFINE Bad == {s \in SUBSET T : g[s] # k[s]}
<1>1. \A s \in SUBSET T : /\ g[s] = IF s = {} THEN 0 ELSE f[Pick(s)] + g[s \ {Pick(s)}]
                          /\ k[s] = IF s = {} THEN 0 ELSE f[Pick(s)] + k[s \ {Pick(s)}]
  BY DEF SumsWithin, Sums
<1>2. SUFFICES ASSUME Bad # {} PROVE FALSE
  OBVIOUS
<1>3. IsFiniteSet(T)
  BY FS_Subset
<1>4. PICK s \in Bad : \A u \in Bad : u \subseteq s => u = s
  <2>1. Bad \in SUBSET SUBSET T
    OBVIOUS
  <2> HIDE DEF Bad
  <2> QED  BY <1>2, <1>3, <2>1, SmallestSubset
<1>5. s # {}
  BY <1>1
<1>6. Pick(s) \in s /\ s \ {Pick(s)} \notin Bad /\ s \ {Pick(s)} \in SUBSET T
  BY <1>4, <1>5, PickIn
<1> QED  BY <1>1, <1>5, <1>6

(* A sum, element by element as the fold takes them. *)
LEMMA SumStep ==
  ASSUME NEW f, NEW S, IsFiniteSet(S)
  PROVE  /\ S = {} => SumFunctionOnSet(f, S) = 0
         /\ S # {} => /\ Pick(S) \in S
                      /\ SumFunctionOnSet(f, S) = f[Pick(S)] + SumFunctionOnSet(f, S \ {Pick(S)})
<1>1. PICK g : g = CHOOSE h : SumsWithin(h, f, S)
  OBVIOUS
<1>2. SumsWithin(g, f, S) /\ SumFunctionOnSet(f, S) = g[S]
  BY <1>1, SumsExist, SumUnfolds, Zenon
<1>3. g[S] = IF S = {} THEN 0 ELSE f[Pick(S)] + g[S \ {Pick(S)}]
  BY <1>2 DEF SumsWithin, Sums
<1>4. ASSUME S # {} PROVE SumFunctionOnSet(f, S \ {Pick(S)}) = g[S \ {Pick(S)}]
  <2> DEFINE R == S \ {Pick(S)}
  <2>1. IsFiniteSet(R) /\ R \in SUBSET S
    BY FS_Subset
  <2>2. PICK k : k = CHOOSE h : SumsWithin(h, f, R)
    OBVIOUS
  <2>3. SumsWithin(k, f, R) /\ SumFunctionOnSet(f, R) = k[R]
    BY <2>1, <2>2, SumsExist, SumUnfolds, Zenon
  <2> HIDE DEF R
  <2>4. g[R] = k[R]
    BY <1>2, <2>1, <2>3, SumsAgree
  <2> QED  BY <2>3, <2>4 DEF R
<1> QED  BY <1>2, <1>3, <1>4, PickIn

(* A sum of numbers is one. *)
LEMMA SumType ==
  ASSUME NEW f, NEW S, IsFiniteSet(S), NEW N, N = Int \/ N = Nat, \A x \in S : f[x] \in N
  PROVE  SumFunctionOnSet(f, S) \in N
<1> DEFINE Bad == {s \in SUBSET S : SumFunctionOnSet(f, s) \notin N}
<1>1. SUFFICES ASSUME Bad # {} PROVE FALSE
  OBVIOUS
<1>2. PICK s \in Bad : \A u \in Bad : u \subseteq s => u = s
  <2>1. Bad \in SUBSET SUBSET S
    OBVIOUS
  <2> HIDE DEF Bad
  <2> QED  BY <1>1, <2>1, SmallestSubset
<1>3. IsFiniteSet(s)
  BY FS_Subset
<1>4. s # {}
  BY <1>3, SumStep
<1>5. Pick(s) \in s /\ SumFunctionOnSet(f, s) = f[Pick(s)] + SumFunctionOnSet(f, s \ {Pick(s)})
  BY <1>3, <1>4, SumStep
<1>6. SumFunctionOnSet(f, s \ {Pick(s)}) \in N
  BY <1>2, <1>5
<1> QED  BY <1>5, <1>6

(* Sums add up point by point. *)
LEMMA SumPlus ==
  ASSUME NEW f, NEW g, NEW h, NEW S, IsFiniteSet(S),
         \A x \in S : f[x] \in Int /\ g[x] \in Int /\ h[x] = f[x] + g[x]
  PROVE  SumFunctionOnSet(h, S) = SumFunctionOnSet(f, S) + SumFunctionOnSet(g, S)
<1> DEFINE Bad == {s \in SUBSET S :
                     SumFunctionOnSet(h, s) # SumFunctionOnSet(f, s) + SumFunctionOnSet(g, s)}
<1>1. SUFFICES ASSUME Bad # {} PROVE FALSE
  OBVIOUS
<1>2. PICK s \in Bad : \A u \in Bad : u \subseteq s => u = s
  <2>1. Bad \in SUBSET SUBSET S
    OBVIOUS
  <2> HIDE DEF Bad
  <2> QED  BY <1>1, <2>1, SmallestSubset
<1>3. IsFiniteSet(s) /\ s \subseteq S
  BY FS_Subset
<1>4. s # {}
  <2>1. SumFunctionOnSet(f, {}) = 0 /\ SumFunctionOnSet(g, {}) = 0 /\ SumFunctionOnSet(h, {}) = 0
    BY SumStep, FS_EmptySet
  <2>2. {} \notin Bad
    BY <2>1
  <2> QED  BY <1>2, <2>2
<1> DEFINE r == s \ {Pick(s)}
<1>5. Pick(s) \in s /\ Pick(s) \in S /\ IsFiniteSet(r) /\ r \subseteq S /\ r # s /\ r \subseteq s
  BY <1>3, <1>4, SumStep, FS_Subset
<1>6. /\ SumFunctionOnSet(f, s) = f[Pick(s)] + SumFunctionOnSet(f, r)
      /\ SumFunctionOnSet(g, s) = g[Pick(s)] + SumFunctionOnSet(g, r)
      /\ SumFunctionOnSet(h, s) = h[Pick(s)] + SumFunctionOnSet(h, r)
  BY <1>3, <1>4, SumStep
<1>7. SumFunctionOnSet(h, r) = SumFunctionOnSet(f, r) + SumFunctionOnSet(g, r)
  BY <1>2, <1>5
<1>8. SumFunctionOnSet(f, r) \in Int /\ SumFunctionOnSet(g, r) \in Int
  <2>1. \A x \in r : f[x] \in Int /\ g[x] \in Int
    BY <1>5
  <2> HIDE DEF r
  <2> QED  BY <2>1, <1>5, SumType
<1> HIDE DEF r
<1>9. SumFunctionOnSet(h, s) = SumFunctionOnSet(f, s) + SumFunctionOnSet(g, s)
  BY <1>5, <1>6, <1>7, <1>8
<1> QED  BY <1>9

(* Any element may be taken first. *)
LEMMA SumRemove ==
  ASSUME NEW f, NEW S, Summable(f, S), NEW x \in S
  PROVE  SumFunctionOnSet(f, S) = f[x] + SumFunctionOnSet(f, S \ {x})
<1> USE DEF Summable
<1> DEFINE Bad == {s \in SUBSET S : \E y \in s :
                     SumFunctionOnSet(f, s) # f[y] + SumFunctionOnSet(f, s \ {y})}
<1>1. SUFFICES ASSUME Bad # {} PROVE FALSE
  OBVIOUS
<1>2. PICK s \in Bad : \A u \in Bad : u \subseteq s => u = s
  <2>1. Bad \in SUBSET SUBSET S
    OBVIOUS
  <2> HIDE DEF Bad
  <2> QED  BY <1>1, <2>1, SmallestSubset
<1>3. PICK y \in s : SumFunctionOnSet(f, s) # f[y] + SumFunctionOnSet(f, s \ {y})
  OBVIOUS
<1>4. IsFiniteSet(s) /\ s \in SUBSET S
  BY FS_Subset
<1>5. PICK p : p = Pick(s)
  OBVIOUS
<1>6. p \in s /\ SumFunctionOnSet(f, s) = f[p] + SumFunctionOnSet(f, s \ {p})
  BY <1>3, <1>4, <1>5, SumStep
<1>7. p # y
  BY <1>3, <1>6
<1> DEFINE r == (s \ {p}) \ {y}
<1>8. s \ {p} \notin Bad /\ s \ {y} \notin Bad
  BY <1>2, <1>3, <1>6
<1>9. SumFunctionOnSet(f, s \ {p}) = f[y] + SumFunctionOnSet(f, r)
  BY <1>3, <1>4, <1>7, <1>8
<1>10. (s \ {y}) \ {p} = r
  OBVIOUS
<1>11. SumFunctionOnSet(f, s \ {y}) = f[p] + SumFunctionOnSet(f, r)
  BY <1>4, <1>6, <1>7, <1>8, <1>10
<1>12. SumFunctionOnSet(f, r) \in Int
  <2>1. IsFiniteSet(r) /\ \A z \in r : f[z] \in Int
    BY <1>4, FS_Subset
  <2> HIDE DEF r
  <2> QED  BY <2>1, SumType
<1>13. f[p] \in Int /\ f[y] \in Int
  BY <1>3, <1>4, <1>6
<1> HIDE DEF r, Bad
<1> QED  BY <1>3, <1>6, <1>9, <1>11, <1>12, <1>13

LEMMA SumAdd ==
  ASSUME NEW f, NEW S, IsFiniteSet(S), NEW x, x \notin S, \A y \in S \cup {x} : f[y] \in Int
  PROVE  SumFunctionOnSet(f, S \cup {x}) = f[x] + SumFunctionOnSet(f, S)
<1>1. PICK U : U = S \cup {x}
  OBVIOUS
<1>2. IsFiniteSet(U)
  BY <1>1, FS_AddElement
<1>3. U \ {x} = S /\ x \in U /\ \A y \in U : f[y] \in Int
  BY <1>1
<1>4. SumFunctionOnSet(f, U) = f[x] + SumFunctionOnSet(f, U \ {x})
  <2>1. Summable(f, U)
    BY <1>2, <1>3 DEF Summable
  <2> QED  BY <1>3, <2>1, SumRemove
<1> QED  BY <1>1, <1>3, <1>4

(* A sum over a set is the sum of those over its parts. *)
LEMMA SumSplit ==
  ASSUME NEW f, NEW S, IsFiniteSet(S), \A y \in S : f[y] \in Int,
         NEW T \in SUBSET S, NEW R, R = S \ T
  PROVE  SumFunctionOnSet(f, S) = SumFunctionOnSet(f, T) + SumFunctionOnSet(f, R)
<1> DEFINE Splits(s) == \A a, b : a = s \cap T /\ b = s \ T =>
             SumFunctionOnSet(f, s) = SumFunctionOnSet(f, a) + SumFunctionOnSet(f, b)
           Bad == {s \in SUBSET S : ~ Splits(s)}
<1>1. SUFFICES ASSUME Bad # {} PROVE FALSE
  <2>1. S \notin Bad /\ S \in SUBSET S
    BY <1>1
  <2>2. Splits(S) /\ T = S \cap T /\ R = S \ T
    BY <2>1
  <2> QED  BY <2>2
<1>2. PICK s \in Bad : \A u \in Bad : u \subseteq s => u = s
  <2>1. Bad \in SUBSET SUBSET S
    OBVIOUS
  <2> HIDE DEF Bad
  <2> QED  BY <1>1, <2>1, SmallestSubset
<1>3. IsFiniteSet(s) /\ s \in SUBSET S
  BY FS_Subset
<1>4. PICK a, b : /\ a = s \cap T /\ b = s \ T
                  /\ SumFunctionOnSet(f, s) # SumFunctionOnSet(f, a) + SumFunctionOnSet(f, b)
  OBVIOUS
<1>5. IsFiniteSet(a) /\ IsFiniteSet(b) /\ (\A y \in a : f[y] \in Int) /\ (\A y \in b : f[y] \in Int)
  BY <1>3, <1>4, FS_Subset
<1>6. s # {}
  <2>1. SUFFICES ASSUME s = {} PROVE FALSE
    OBVIOUS
  <2>2. a = {} /\ b = {}
    BY <1>4, <2>1
  <2>3. SumFunctionOnSet(f, {}) = 0
    BY SumStep, FS_EmptySet
  <2> QED  BY <1>4, <2>1, <2>2, <2>3
<1>7. PICK p \in s : p = Pick(s)
  BY <1>6, PickIn
<1>8. PICK r : r = s \ {p}
  OBVIOUS
<1>9. r \in SUBSET S /\ r \notin Bad /\ SumFunctionOnSet(f, s) = f[p] + SumFunctionOnSet(f, r)
  BY <1>2, <1>3, <1>7, <1>8, SumStep
<1>10. PICK c, d : c = r \cap T /\ d = r \ T
  OBVIOUS
<1>11. SumFunctionOnSet(f, r) = SumFunctionOnSet(f, c) + SumFunctionOnSet(f, d)
  BY <1>9, <1>10
<1>12. IsFiniteSet(c) /\ IsFiniteSet(d) /\ (\A y \in c : f[y] \in Int) /\ (\A y \in d : f[y] \in Int)
  <2>1. c \in SUBSET s /\ d \in SUBSET s
    BY <1>8, <1>10
  <2> QED  BY <1>3, <2>1, FS_Subset
<1>13. SumFunctionOnSet(f, c) \in Int /\ SumFunctionOnSet(f, d) \in Int /\ f[p] \in Int
  BY <1>3, <1>12, SumType
<1> HIDE DEF Bad
<1>14. CASE p \in T
  <2>1. p \in a /\ a \ {p} = c /\ b = d
    BY <1>4, <1>8, <1>10, <1>14
  <2>2. SumFunctionOnSet(f, a) = f[p] + SumFunctionOnSet(f, a \ {p})
    <3>1. Summable(f, a)
      BY <1>5 DEF Summable
    <3> QED  BY <2>1, <3>1, SumRemove
  <2>3. SumFunctionOnSet(f, a) = f[p] + SumFunctionOnSet(f, c) /\ SumFunctionOnSet(f, b) = SumFunctionOnSet(f, d)
    BY <2>1, <2>2
  <2>4. SumFunctionOnSet(f, s) # SumFunctionOnSet(f, a) + SumFunctionOnSet(f, b)
    BY <1>4
  <2> QED  BY <1>9, <1>11, <1>13, <2>3, <2>4
<1>15. CASE p \notin T
  <2>1. p \in b /\ b \ {p} = d /\ a = c
    BY <1>4, <1>8, <1>10, <1>15
  <2>2. SumFunctionOnSet(f, b) = f[p] + SumFunctionOnSet(f, b \ {p})
    <3>1. Summable(f, b)
      BY <1>5 DEF Summable
    <3> QED  BY <2>1, <3>1, SumRemove
  <2>3. SumFunctionOnSet(f, b) = f[p] + SumFunctionOnSet(f, d) /\ SumFunctionOnSet(f, a) = SumFunctionOnSet(f, c)
    BY <2>1, <2>2
  <2>4. SumFunctionOnSet(f, s) # SumFunctionOnSet(f, a) + SumFunctionOnSet(f, b)
    BY <1>4
  <2> QED  BY <1>9, <1>11, <1>13, <2>3, <2>4
<1> QED  BY <1>14, <1>15

LEMMA SumZero ==
  ASSUME NEW f, NEW S, IsFiniteSet(S), \A y \in S : f[y] = 0
  PROVE  SumFunctionOnSet(f, S) = 0
<1>1. \A y \in S : f[y] \in Int /\ f[y] = f[y] + f[y]
  OBVIOUS
<1>2. SumFunctionOnSet(f, S) = SumFunctionOnSet(f, S) + SumFunctionOnSet(f, S)
  BY <1>1, SumPlus
<1>3. SumFunctionOnSet(f, S) \in Int
  BY <1>1, SumType
<1>4. \A x \in Int : x + x = x => x = 0
  OBVIOUS
<1> QED  BY <1>2, <1>3, <1>4

(* Only the values count. *)
LEMMA SumSame ==
  ASSUME NEW f, NEW g, NEW S, IsFiniteSet(S), \A y \in S : f[y] \in Int /\ f[y] = g[y]
  PROVE  SumFunctionOnSet(f, S) = SumFunctionOnSet(g, S)
<1> DEFINE zero == [y \in S |-> 0]
<1>1. \A y \in S : f[y] \in Int /\ zero[y] \in Int /\ g[y] = f[y] + zero[y] /\ zero[y] = 0
  OBVIOUS
<1>2. SumFunctionOnSet(f, S) \in Int
  BY <1>1, SumType
<1> HIDE DEF zero
<1>3. SumFunctionOnSet(zero, S) = 0
  BY <1>1, SumZero
<1>4. SumFunctionOnSet(g, S) = SumFunctionOnSet(f, S) + SumFunctionOnSet(zero, S)
  BY <1>1, SumPlus
<1> QED  BY <1>2, <1>3, <1>4

(* What counts for nothing may be left out. *)
LEMMA SumNarrows ==
  ASSUME NEW f, NEW S, IsFiniteSet(S), NEW T \in SUBSET S,
         \A y \in S : f[y] \in Int, \A y \in S \ T : f[y] = 0
  PROVE  SumFunctionOnSet(f, T) = SumFunctionOnSet(f, S)
<1>1. PICK R : R = S \ T
  OBVIOUS
<1>2. IsFiniteSet(R) /\ IsFiniteSet(T) /\ (\A y \in T : f[y] \in Int) /\ (\A y \in R : f[y] = 0)
  BY <1>1, FS_Subset
<1>3. SumFunctionOnSet(f, R) = 0
  BY <1>2, SumZero
<1>4. SumFunctionOnSet(f, T) \in Int
  BY <1>2, SumType
<1>5. SumFunctionOnSet(f, S) = SumFunctionOnSet(f, T) + SumFunctionOnSet(f, R)
  BY <1>1, SumSplit
<1> QED  BY <1>3, <1>4, <1>5

(* One term alone changes a sum by its own change. *)
LEMMA SumChanges ==
  ASSUME NEW f, NEW g, NEW S, IsFiniteSet(S), NEW x \in S,
         \A y \in S : f[y] \in Int /\ g[y] \in Int, \A y \in S \ {x} : f[y] = g[y]
  PROVE  SumFunctionOnSet(g, S) = SumFunctionOnSet(f, S) + g[x] - f[x]
<1>1. IsFiniteSet(S \ {x}) /\ \A y \in S \ {x} : f[y] \in Int /\ f[y] = g[y]
  BY FS_Subset
<1>2. SumFunctionOnSet(f, S \ {x}) = SumFunctionOnSet(g, S \ {x})
  BY <1>1, SumSame
<1>3. SumFunctionOnSet(f, S \ {x}) \in Int
  BY <1>1, SumType
<1>4. /\ SumFunctionOnSet(f, S) = f[x] + SumFunctionOnSet(f, S \ {x})
      /\ SumFunctionOnSet(g, S) = g[x] + SumFunctionOnSet(g, S \ {x})
  <2>1. Summable(f, S) /\ Summable(g, S)
    BY DEF Summable
  <2> QED  BY <2>1, SumRemove
<1> QED  BY <1>2, <1>3, <1>4

(* A part of a sum of natural numbers is at most the sum. *)
LEMMA SumBounds ==
  ASSUME NEW f, NEW S, IsFiniteSet(S), \A y \in S : f[y] \in Nat, NEW T \in SUBSET S
  PROVE  SumFunctionOnSet(f, T) <= SumFunctionOnSet(f, S)
<1>1. PICK R : R = S \ T
  OBVIOUS
<1>2. /\ IsFiniteSet(R) /\ IsFiniteSet(T) /\ \A y \in S : f[y] \in Int
      /\ (\A y \in T : f[y] \in Nat) /\ (\A y \in R : f[y] \in Nat)
  BY <1>1, FS_Subset
<1>3. SumFunctionOnSet(f, R) \in Nat /\ SumFunctionOnSet(f, T) \in Nat
  BY <1>2, SumType
<1>4. SumFunctionOnSet(f, S) = SumFunctionOnSet(f, T) + SumFunctionOnSet(f, R)
  BY <1>1, <1>2, SumSplit
<1> QED  BY <1>3, <1>4

-----------------------------------------------------------------------------
(* StationMembership.  The invariant adds what a handler that has checked  *)
(* and not committed relies on: the application that it holds is still     *)
(* pending, no other handler holds it, and a station to be joined exists.  *)

USE MembershipAssumption DEF MembershipAssumption, ApplicationRows, StationRows, Work

HandlersHold ==
  \A h \in Handlers :
    /\ handler[h].op # "idle" => handler[h].user \in Users
    /\ handler[h].op \in {"approve", "found"} => handler[h].slug \in Slugs
    /\ handler[h].op = "join" => handler[h].station \in Existing
    /\ handler[h].op # "approve" => handler[h].app = None
    /\ handler[h].op = "approve" =>
         /\ handler[h].app \in Applications
         /\ application[handler[h].app] = [user |-> handler[h].user, status |-> "pending"]

ReviewsApart ==
  \A g, h \in Handlers : g # h /\ handler[g].app = handler[h].app => handler[g].app = None

MembershipInv == TypeOK /\ HandlersHold /\ ReviewsApart /\ OwnersBelong

LEMMA MembershipInit == Init => MembershipInv
BY DEF Init, MembershipInv, TypeOK, HandlersHold, ReviewsApart, OwnersBelong, Idle, Rows, Existing, Owned

(* An application that is there is a row.                                  *)
LEMMA RowOfApplication ==
  ASSUME TypeOK, NEW a \in Applications, Reviewable(a)
  PROVE application[a] \in ApplicationRows /\ application[a] = [user |-> application[a].user, status |-> "pending"]
BY DEF TypeOK, Rows, Reviewable

(* Handlers that only check: the tables stay as they are.                  *)
LEMMA ChecksKeep ==
  ASSUME MembershipInv, NEW h \in Handlers, NEW work,
         Takes(h, work), UNCHANGED <<application, station, link>>,
         work \in [op : {"apply", "approve", "found", "join"}, user : Users, app : Rows(Applications),
                   slug : Rows(Slugs), station : Rows(Stations)],
         work.op \in {"approve", "found"} => work.slug \in Slugs,
         work.op = "join" => work.station \in Existing,
         work.op # "approve" => work.app = None,
         work.op = "approve" =>
           /\ work.app \in Applications
           /\ application[work.app] = [user |-> work.user, status |-> "pending"]
           /\ \A g \in Handlers : handler[g].app # work.app
  PROVE MembershipInv'
<1> USE DEF MembershipInv, Takes
<1>2. TypeOK' BY DEF TypeOK, Rows
<1>3. HandlersHold' BY DEF TypeOK, HandlersHold, Existing
<1>4. ReviewsApart' BY DEF TypeOK, ReviewsApart
<1>5. OwnersBelong' BY DEF OwnersBelong, Existing, Owned
<1> QED BY <1>2, <1>3, <1>4, <1>5

(* A new application changes none that a handler holds or that is approved. *)
LEMMA ApplyKeeps == ASSUME MembershipInv, NEW h \in Handlers, Apply(h) PROVE MembershipInv'
<1> USE DEF MembershipInv, TypeOK, HandlersHold, ReviewsApart, OwnersBelong, Idle, Rows, Existing, Owned
<1> PICK a \in Applications :
      /\ application[a] = None
      /\ application' = [application EXCEPT ![a] = [user |-> handler[h].user, status |-> "pending"]]
  BY DEF Apply
<1>1. handler[h].user \in Users BY DEF Apply, Doing
<1>2. handler' = [handler EXCEPT ![h] = Idle] /\ UNCHANGED <<station, link>> BY DEF Apply, Ends
<1>3. TypeOK' BY <1>1, <1>2
<1>4. HandlersHold' BY <1>1, <1>2
<1>5. ReviewsApart' BY <1>2
<1>6. OwnersBelong' BY <1>1, <1>2
<1> QED BY <1>3, <1>4, <1>5, <1>6

(* A review that creates nothing touches an application that no handler    *)
(* holds.                                                                  *)
LEMMA ReviewsKeep ==
  ASSUME MembershipInv, NEW a \in Applications, Reject(a) \/ ApproveOwner(a)
  PROVE MembershipInv'
<1> USE DEF MembershipInv, TypeOK, HandlersHold, ReviewsApart, OwnersBelong, Idle, Rows, Existing, Owned
<1>1. application[a] \in ApplicationRows
  BY RowOfApplication DEF Reject, ApproveOwner
<1>2. \A h \in Handlers : handler[h].app # a BY DEF Reject, ApproveOwner, Reviewable
<1>3. CASE Reject(a) BY <1>1, <1>2, <1>3 DEF Reject, Reviewed
<1>4. CASE ApproveOwner(a) BY <1>1, <1>2, <1>4 DEF ApproveOwner, Reviewed
<1> QED BY <1>3, <1>4

(* The new station gets an id of its own, and its owner, who belonged to   *)
(* none, belongs to it.                                                    *)
LEMMA FoundedKeeps ==
  ASSUME MembershipInv, NEW h \in Handlers, handler[h].op \in {"approve", "found"},
         MayFound(h), Founded(h), Ends(h)
  PROVE /\ station' \in [Stations -> Rows(StationRows)]
        /\ link' \in [Users -> Rows(Stations)]
        /\ \A s \in Existing' : link'[station'[s].owner] = s
        /\ \A s \in Existing : s \in Existing' /\ station'[s] = station[s]
        /\ \E s \in Existing' : station'[s].owner = handler[h].user
<1> USE DEF MembershipInv, TypeOK, HandlersHold, OwnersBelong, Rows, Existing
<1> PICK s \in Stations :
      /\ station[s] = None
      /\ station' = [station EXCEPT ![s] = [owner |-> handler[h].user, slug |-> handler[h].slug]]
      /\ link' = [link EXCEPT ![handler[h].user] = s]
  BY DEF Founded
<1>1. handler[h].user \in Users /\ handler[h].slug \in Slugs OBVIOUS
<1>2. link[handler[h].user] = None BY DEF MayFound, UserIsFree
<1>3. [owner |-> handler[h].user, slug |-> handler[h].slug] \in StationRows
  BY <1>1
<1> QED BY <1>1, <1>2, <1>3

(* The application under review becomes approved, and its user an owner.   *)
LEMMA ApproveKeeps == ASSUME MembershipInv, NEW h \in Handlers, Approve(h) PROVE MembershipInv'
<1>1. handler[h].op = "approve" /\ MayFound(h) /\ Founded(h) /\ Ends(h) BY DEF Approve, Doing
<1> DEFINE a == handler[h].app
<1>2. a \in Applications /\ application[a] = [user |-> handler[h].user, status |-> "pending"]
  BY <1>1 DEF MembershipInv, HandlersHold
<1>5. handler[h].user \in Users BY <1>1 DEF MembershipInv, HandlersHold
<1>3. /\ application' \in [Applications -> Rows(ApplicationRows)]
      /\ application'[a].status = "approved" /\ application'[a].user = handler[h].user
      /\ \A b \in Applications \ {a} : application'[b] = application[b]
  <2>1. application' = [application EXCEPT ![a].status = "approved"] BY DEF Approve, Reviewed
  <2>2. application \in [Applications -> Rows(ApplicationRows)] BY DEF MembershipInv, TypeOK
  <2>3. application'[a] = [application[a] EXCEPT !.status = "approved"] BY <1>2, <2>1, <2>2
  <2>4. application[a] \in ApplicationRows BY <1>2, <1>5
  <2> QED BY <1>2, <2>1, <2>2, <2>3, <2>4 DEF Rows
<1>4. handler' = [handler EXCEPT ![h] = Idle] BY <1>1 DEF Ends
<1>6. /\ station' \in [Stations -> Rows(StationRows)] /\ link' \in [Users -> Rows(Stations)]
      /\ \A s \in Existing' : link'[station'[s].owner] = s
      /\ \A s \in Existing : s \in Existing' /\ station'[s] = station[s]
      /\ \E s \in Existing' : station'[s].owner = handler[h].user
  BY <1>1, FoundedKeeps
<1>7. TypeOK' BY <1>3, <1>4, <1>5, <1>6 DEF MembershipInv, TypeOK, Rows, Idle
<1>8. HandlersHold'
  <2> SUFFICES ASSUME NEW g \in Handlers, g # h,
                      handler[g].op # "idle"
               PROVE /\ handler[g].op = "join" => handler[g].station \in Existing'
                     /\ handler[g].op = "approve" =>
                          application'[handler[g].app] = application[handler[g].app]
    BY <1>4 DEF HandlersHold, MembershipInv, TypeOK, Idle
  <2>1. handler[g].op = "approve" => handler[g].app # a BY <1>2 DEF MembershipInv, HandlersHold, ReviewsApart
  <2> QED BY <1>3, <1>6, <2>1 DEF MembershipInv, HandlersHold, TypeOK
<1>9. ReviewsApart' BY <1>4 DEF MembershipInv, ReviewsApart, TypeOK, Idle
<1>10. OwnersBelong' BY <1>2, <1>3, <1>6 DEF MembershipInv, OwnersBelong, Owned, TypeOK, Rows
<1> QED BY <1>7, <1>8, <1>9, <1>10 DEF MembershipInv

(* The same without an application.                                        *)
LEMMA FoundKeeps == ASSUME MembershipInv, NEW h \in Handlers, Found(h) PROVE MembershipInv'
<1>1. handler[h].op = "found" /\ MayFound(h) /\ Founded(h) /\ Ends(h) BY DEF Found, Doing
<1>2. handler' = [handler EXCEPT ![h] = Idle] /\ application' = application BY <1>1 DEF Ends, Found
<1>3. /\ station' \in [Stations -> Rows(StationRows)] /\ link' \in [Users -> Rows(Stations)]
      /\ \A s \in Existing' : link'[station'[s].owner] = s
      /\ \A s \in Existing : s \in Existing' /\ station'[s] = station[s]
  BY <1>1, FoundedKeeps
<1>4. TypeOK' BY <1>2, <1>3 DEF MembershipInv, TypeOK, Rows, Idle
<1>5. HandlersHold' BY <1>2, <1>3 DEF MembershipInv, HandlersHold, TypeOK, Idle
<1>6. ReviewsApart' BY <1>2 DEF MembershipInv, ReviewsApart, TypeOK, Idle
<1>7. OwnersBelong' BY <1>2, <1>3 DEF MembershipInv, OwnersBelong, Owned
<1> QED BY <1>4, <1>5, <1>6, <1>7 DEF MembershipInv

(* Only a user who belongs to no station joins one, so no owner does.      *)
LEMMA JoinKeeps == ASSUME MembershipInv, NEW h \in Handlers, Join(h) PROVE MembershipInv'
<1>1. handler[h].op = "join" /\ handler' = [handler EXCEPT ![h] = Idle] /\ UNCHANGED <<application, station>>
  BY DEF Join, Doing, Ends
<1>2. handler[h].user \in Users /\ handler[h].station \in Existing BY <1>1 DEF MembershipInv, HandlersHold
<1>3. \/ link' = link
      \/ link[handler[h].user] = None /\ link' = [link EXCEPT ![handler[h].user] = handler[h].station]
  BY DEF Join, UserIsFree
<1>4. TypeOK' BY <1>1, <1>2, <1>3 DEF MembershipInv, TypeOK, Rows, Idle, Existing
<1>5. HandlersHold' BY <1>1 DEF MembershipInv, HandlersHold, TypeOK, Idle, Existing
<1>6. ReviewsApart' BY <1>1 DEF MembershipInv, ReviewsApart, TypeOK, Idle
<1>7. OwnersBelong' BY <1>1, <1>2, <1>3 DEF MembershipInv, OwnersBelong, Owned, TypeOK, Rows, Existing
<1> QED BY <1>4, <1>5, <1>6, <1>7 DEF MembershipInv

(* What each step leaves.                                                  *)
LEMMA MembershipNext == MembershipInv /\ [Next]_vars => MembershipInv'
<1> SUFFICES ASSUME MembershipInv, [Next]_vars PROVE MembershipInv' OBVIOUS
<1> USE DEF MembershipInv
<1>1. CASE UNCHANGED vars
  <2> USE <1>1 DEF vars
  <2>1. TypeOK' BY DEF TypeOK
  <2>2. HandlersHold' BY DEF HandlersHold, Existing
  <2>3. ReviewsApart' BY DEF ReviewsApart
  <2>4. OwnersBelong' BY DEF OwnersBelong, Existing, Owned
  <2> QED BY <2>1, <2>2, <2>3, <2>4
<1>2. CASE \E a \in Applications : Reject(a) \/ ApproveOwner(a)
  BY <1>2, ReviewsKeep
<1>3. CASE \E u \in Users, s \in Stations : AddCustomer(u, s)
  <2> PICK u \in Users, s \in Stations : AddCustomer(u, s) BY <1>3
  <2> QED BY DEF AddCustomer, TypeOK, Rows, HandlersHold, ReviewsApart, OwnersBelong, Existing, Owned
<1>4. ASSUME NEW h \in Handlers, Apply(h) PROVE MembershipInv'
  BY <1>4, ApplyKeeps
<1>5. ASSUME NEW h \in Handlers, Approve(h) PROVE MembershipInv'
  BY <1>5, ApproveKeeps
<1>6. ASSUME NEW h \in Handlers, Found(h) PROVE MembershipInv'
  BY <1>6, FoundKeeps
<1>7. ASSUME NEW h \in Handlers, RollBack(h) PROVE MembershipInv'
  <2>1. handler' = [handler EXCEPT ![h] = Idle] /\ UNCHANGED <<application, station, link>>
    BY <1>7 DEF RollBack, Ends
  <2>2. TypeOK' BY <2>1 DEF TypeOK, Rows, Idle
  <2>3. HandlersHold' BY <2>1 DEF HandlersHold, TypeOK, Idle, Existing
  <2>4. ReviewsApart' BY <2>1 DEF ReviewsApart, TypeOK, Idle
  <2>5. OwnersBelong' BY <2>1 DEF OwnersBelong, Existing, Owned
  <2> QED BY <2>2, <2>3, <2>4, <2>5
<1>8. ASSUME NEW h \in Handlers, Join(h) PROVE MembershipInv'
  BY <1>8, JoinKeeps
<1>9. ASSUME NEW h \in Handlers, NEW a \in Applications, CheckApproval(h, a) PROVE MembershipInv'
  <2> PICK slug \in Slugs : Takes(h, Work("approve", application[a].user, a, slug, None))
    BY <1>9 DEF CheckApproval
  <2>1. application[a] \in ApplicationRows
        /\ application[a] = [user |-> application[a].user, status |-> "pending"]
    BY <1>9, RowOfApplication DEF CheckApproval
  <2>2. \A g \in Handlers : handler[g].app # a BY <1>9 DEF CheckApproval, Reviewable
  <2> QED BY <1>9, <2>1, <2>2, ChecksKeep DEF CheckApproval, Rows
<1>10. ASSUME NEW h \in Handlers, NEW u \in Users, CheckApplication(h, u) PROVE MembershipInv'
  BY <1>10, ChecksKeep DEF CheckApplication, Rows
<1>11. ASSUME NEW h \in Handlers, NEW u \in Users, NEW slug \in Slugs, CheckFoundation(h, u, slug)
       PROVE MembershipInv'
  BY <1>11, ChecksKeep DEF CheckFoundation, Rows
<1>12. ASSUME NEW h \in Handlers, NEW u \in Users, NEW s \in Stations, CheckJoin(h, u, s) PROVE MembershipInv'
  BY <1>12, ChecksKeep DEF CheckJoin, Rows, Existing
<1> QED BY <1>1, <1>2, <1>3, <1>4, <1>5, <1>6, <1>7, <1>8, <1>9, <1>10, <1>11, <1>12 DEF Next

LEMMA MembershipInvariant == Spec => []MembershipInv
BY MembershipInit, MembershipNext, PTL DEF Spec
HIDE MembershipAssumption DEF MembershipAssumption, ApplicationRows, StationRows, Work

-----------------------------------------------------------------------------
(* StationCatalog.  What a handler is about to write covers the cost it    *)
(* was validated against; each column that it leaves alone covered the     *)
(* cost before.                                                            *)

USE CatalogAssumption DEF CatalogAssumption

PricingValid ==
  \A h \in Handlers :
    pricing[h].alias # None =>
      /\ pricing[h].alias \in Aliases
      /\ pricing[h].next \in [Catalog!Columns -> Prices]
      /\ Catalog!Covers(pricing[h].next, pricing[h].cost)

PriceRows ==
  /\ cost \in [Models -> Prices]
  /\ target \in [Aliases -> Models \cup {None}]
  /\ retail \in [Aliases -> [Catalog!Columns -> Prices \cup {0}]]
  /\ DOMAIN pricing = Handlers /\ pricing = [h \in Handlers |-> pricing[h]]

CatalogInv == PriceRows /\ PricingValid /\ Catalog!CoversCostWhenValidated

LEMMA CatalogInit == Catalog!Init => CatalogInv
BY DEF Catalog!Init, CatalogInv, PriceRows, PricingValid, Catalog!CoversCostWhenValidated, Catalog!Idle

(* A column is as the handler wants it or as it was.                       *)
LEMMA PricesWritten == ASSUME CatalogInv, NEW h \in Handlers, Catalog!WriteEntry(h) PROVE CatalogInv'
<1> DEFINE x == pricing[h].alias
           current == pricing[h].against = target[x] /\ pricing[h].cost = cost[target[x]]
<1>1. /\ x # None /\ UNCHANGED <<cost, target>>
      /\ retail' = [retail EXCEPT ![x] = Catalog!Written(h, retail[x])]
      /\ moved' = IF ~ current THEN moved \cup {x}
                  ELSE IF pricing[h].read = retail[x] THEN moved \ {x} ELSE moved
      /\ pricing' = [pricing EXCEPT ![h] = Catalog!Idle]
  BY DEF Catalog!WriteEntry
<1>2. x \in Aliases /\ pricing[h].next \in [Catalog!Columns -> Prices] /\ Catalog!Covers(pricing[h].next, pricing[h].cost)
  BY <1>1 DEF CatalogInv, PricingValid
<1>3. Catalog!Written(h, retail[x]) \in [Catalog!Columns -> Prices \cup {0}]
  BY <1>2 DEF Catalog!Written, CatalogInv, PriceRows
<1>4. PriceRows' BY <1>1, <1>2, <1>3 DEF CatalogInv, PriceRows
<1>5. PricingValid' BY <1>1 DEF CatalogInv, PriceRows, PricingValid, Catalog!Idle
<1>6. ASSUME NEW y \in Aliases \ moved', target'[y] # None, NEW column \in Catalog!Columns
      PROVE retail'[y][column] >= cost'[target'[y]]
  <2>1. CASE y # x
    BY <1>1, <1>2, <1>6, <2>1 DEF CatalogInv, PriceRows, Catalog!CoversCostWhenValidated, Catalog!Charged, Catalog!Wholesale
  <2>2. CASE y = x
    <3>1. current BY <1>1, <1>6, <2>2
    <3>2. retail'[x][column] = Catalog!Written(h, retail[x])[column] BY <1>1, <1>2 DEF CatalogInv, PriceRows
    <3>3. pricing[h].next[column] >= cost[target[x]] BY <1>2, <3>1 DEF Catalog!Covers
    <3>4. CASE pricing[h].next[column] # pricing[h].read[column]
      BY <1>1, <2>2, <3>2, <3>3, <3>4 DEF Catalog!Written
    <3>5. CASE pricing[h].next[column] = pricing[h].read[column]
      <4>1. retail'[x][column] = retail[x][column] BY <3>2, <3>5 DEF Catalog!Written
      <4>2. CASE pricing[h].read = retail[x] BY <1>1, <2>2, <3>3, <3>5, <4>1, <4>2
      <4>3. CASE pricing[h].read # retail[x]
        <5>1. x \notin moved BY <1>1, <1>6, <2>2, <3>1, <4>3
        <5> QED BY <1>1, <1>2, <1>6, <2>2, <4>1, <5>1 DEF CatalogInv, Catalog!CoversCostWhenValidated, Catalog!Charged, Catalog!Wholesale
      <4> QED BY <4>2, <4>3
    <3> QED BY <3>4, <3>5
  <2> QED BY <2>1, <2>2
<1>7. Catalog!CoversCostWhenValidated' BY <1>6 DEF Catalog!CoversCostWhenValidated, Catalog!Charged, Catalog!Wholesale
<1> QED BY <1>4, <1>5, <1>7 DEF CatalogInv

LEMMA CatalogNext == CatalogInv /\ [Catalog!Next]_(Catalog!vars) => CatalogInv'
<1> SUFFICES ASSUME CatalogInv, [Catalog!Next]_(Catalog!vars) PROVE CatalogInv' OBVIOUS
<1>1. CASE UNCHANGED Catalog!vars
  <2>1. PriceRows' BY <1>1 DEF Catalog!vars, CatalogInv, PriceRows
  <2>2. PricingValid' BY <1>1 DEF Catalog!vars, CatalogInv, PricingValid
  <2>3. Catalog!CoversCostWhenValidated' BY <1>1 DEF Catalog!vars, CatalogInv, Catalog!CoversCostWhenValidated, Catalog!Charged, Catalog!Wholesale
  <2> QED BY <2>1, <2>2, <2>3 DEF CatalogInv
<1>2. ASSUME NEW x \in Aliases, NEW model \in Models, Catalog!Retarget(x, model) PROVE CatalogInv'
  <2>1. PriceRows' BY <1>2 DEF Catalog!Retarget, CatalogInv, PriceRows
  <2>2. PricingValid' BY <1>2 DEF Catalog!Retarget, CatalogInv, PricingValid
  <2>3. Catalog!CoversCostWhenValidated'
    BY <1>2 DEF Catalog!Retarget, CatalogInv, PriceRows, Catalog!CoversCostWhenValidated, Catalog!Charged, Catalog!Wholesale
  <2> QED BY <2>1, <2>2, <2>3 DEF CatalogInv
<1>3. ASSUME NEW x \in Aliases, NEW model \in Models, NEW prices \in [Catalog!Columns -> Prices],
             Catalog!Create(x, model, prices)
      PROVE CatalogInv'
  <2>1. PriceRows' BY <1>3 DEF Catalog!Create, CatalogInv, PriceRows
  <2>2. PricingValid' BY <1>3 DEF Catalog!Create, CatalogInv, PricingValid
  <2>3. Catalog!CoversCostWhenValidated'
    BY <1>3 DEF Catalog!Create, CatalogInv, PriceRows, Catalog!CoversCostWhenValidated, Catalog!Charged, Catalog!Wholesale, Catalog!Covers
  <2> QED BY <2>1, <2>2, <2>3 DEF CatalogInv
<1>4. ASSUME NEW h \in Handlers, Catalog!WriteEntry(h) PROVE CatalogInv'
  BY <1>4, PricesWritten
<1>5. ASSUME NEW h \in Handlers, NEW x \in Aliases, NEW prices \in [Catalog!Columns -> Prices],
             Catalog!ReadEntry(h, x, prices)
      PROVE CatalogInv'
  <2>1. PriceRows' BY <1>5 DEF Catalog!ReadEntry, CatalogInv, PriceRows
  <2>2. PricingValid' BY <1>5 DEF Catalog!ReadEntry, CatalogInv, PriceRows, PricingValid
  <2>3. Catalog!CoversCostWhenValidated'
    BY <1>5 DEF Catalog!ReadEntry, CatalogInv, Catalog!CoversCostWhenValidated, Catalog!Charged, Catalog!Wholesale
  <2> QED BY <2>1, <2>2, <2>3 DEF CatalogInv
<1>6. ASSUME NEW model \in Models, NEW c \in Prices, Catalog!Raise(model, c) PROVE CatalogInv'
  <2>1. PriceRows' BY <1>6 DEF Catalog!Raise, CatalogInv, PriceRows
  <2>2. PricingValid' BY <1>6 DEF Catalog!Raise, CatalogInv, PricingValid
  <2>3. Catalog!CoversCostWhenValidated'
    BY <1>6 DEF Catalog!Raise, CatalogInv, PriceRows, Catalog!CoversCostWhenValidated, Catalog!Charged, Catalog!Wholesale
  <2> QED BY <2>1, <2>2, <2>3 DEF CatalogInv
<1> QED BY <1>1, <1>2, <1>3, <1>4, <1>5, <1>6 DEF Catalog!Next

LEMMA CatalogInvariant == Catalog!Spec => []CatalogInv
BY CatalogInit, CatalogNext, PTL DEF Catalog!Spec
HIDE CatalogAssumption DEF CatalogAssumption

-----------------------------------------------------------------------------
(* ChannelRouting.  One channel that is taken out of the candidates, or    *)
(* put back, moves only the conversations that are served by it.           *)

(* The preferred channel of a nonempty tier has the lowest score in it.    *)
LEMMA PickLowest ==
  ASSUME NEW v \in Conversations, NEW T \in SUBSET Channels, T # {}
  PROVE  /\ Routing!Pick(v, T) \in T
         /\ \A d \in T : Score[v][Routing!Pick(v, T)] <= Score[v][d]
<1>1. \A c \in T : Score[v][c] \in Nat
  BY RoutingAssumption DEF RoutingAssumption, ChannelRows, Routing!ChannelRows
<1>2. \E c \in T : \A d \in T : Score[v][c] <= Score[v][d]
  BY <1>1, LowestExists
<1> QED  BY <1>2 DEF Routing!Pick

(* Some candidate is of the best tier. *)
LEMMA BestExists ==
  ASSUME NEW rows \in [Channels -> Routing!ChannelRows], NEW S \in SUBSET Channels, S # {}
  PROVE  Routing!Best(rows, S) \in SUBSET S /\ Routing!Best(rows, S) # {}
<1> DEFINE tier == [c \in Channels |-> rows[c].tier]
<1>1. \A c \in S : tier[c] \in Nat /\ tier[c] = rows[c].tier
  BY RoutingAssumption DEF RoutingAssumption, ChannelRows, Routing!ChannelRows
<1>2. \E c \in S : \A d \in S : tier[c] <= tier[d]
  <2> HIDE DEF tier
  <2> QED  BY <1>1, LowestExists
<1> QED  BY <1>1, <1>2 DEF Routing!Best

Preferred(rows, S, v) == IF S = {} THEN Nothing ELSE Routing!Pick(v, Routing!Best(rows, S))

(* Without one channel, the choice is the same unless it was that channel. *)
LEMMA StickyChoice ==
  ASSUME NEW rows \in [Channels -> Routing!ChannelRows], NEW S \in SUBSET Channels,
         NEW c \in Channels, NEW v \in Conversations
  PROVE  Preferred(rows, S, v) = c \/ Preferred(rows, S \ {c}, v) = Preferred(rows, S, v)
<1>1. CASE S = {}
  BY <1>1 DEF Preferred
<1>2. CASE S # {} /\ Preferred(rows, S, v) # c
  <2> DEFINE d == Routing!Pick(v, Routing!Best(rows, S))
             e == Routing!Pick(v, Routing!Best(rows, S \ {c}))
  <2>1. d \in Routing!Best(rows, S) /\ \A x \in Routing!Best(rows, S) : Score[v][d] <= Score[v][x]
    BY <1>2, BestExists, PickLowest
  <2>2. Preferred(rows, S, v) = d /\ d # c
    BY <1>2 DEF Preferred
  <2>3. d \in S \ {c}
    BY <1>2, <2>1, <2>2, BestExists
  <2>4. e \in Routing!Best(rows, S \ {c}) /\ \A x \in Routing!Best(rows, S \ {c}) : Score[v][e] <= Score[v][x]
    BY <2>3, BestExists, PickLowest
  <2>5. \A x \in S : rows[x].tier \in Nat
    BY RoutingAssumption DEF RoutingAssumption, ChannelRows, Routing!ChannelRows
  <2>6. d \in Routing!Best(rows, S \ {c})
    BY <2>1, <2>3 DEF Routing!Best
  <2>7. e \in Routing!Best(rows, S)
    BY <2>1, <2>3, <2>4, <2>5 DEF Routing!Best
  <2>8. e \in Channels /\ d \in Channels /\ Score[v][d] \in Nat /\ Score[v][e] \in Nat
    <3>1. e \in Channels /\ d \in Channels
      BY <2>3, <2>4, BestExists
    <3> QED  BY <3>1, RoutingAssumption DEF RoutingAssumption, ChannelRows, Routing!ChannelRows
  <2>9. Score[v][d] = Score[v][e]
    BY <2>1, <2>4, <2>6, <2>7, <2>8
  <2>10. d = e
    BY <2>8, <2>9, RoutingAssumption DEF RoutingAssumption, ChannelRows, Routing!ChannelRows
  <2> QED  BY <2>2, <2>3, <2>10 DEF Preferred
<1> QED  BY <1>1, <1>2

(* A cooldown takes its channel out of the candidates and nothing else.    *)
LEMMA CooldownSticks ==
  ASSUME NEW rows \in [Channels -> Routing!ChannelRows], NEW cold, NEW c \in Channels, NEW v \in Conversations
  PROVE  \/ Routing!Prefers(rows, cold, {}, v) = c
         \/ Routing!Prefers(rows, cold \cup {c}, {}, v) = Routing!Prefers(rows, cold, {}, v)
<1> DEFINE S == Routing!Candidates(rows, cold, {})
<1>1. S \in SUBSET Channels
  BY DEF Routing!Candidates, Routing!Listed
<1>2. Routing!Candidates(rows, cold \cup {c}, {}) = S \ {c}
  BY DEF Routing!Candidates
<1>3. Routing!Prefers(rows, cold, {}, v) = Preferred(rows, S, v)
  BY DEF Routing!Prefers, Preferred
<1>4. Routing!Prefers(rows, cold \cup {c}, {}, v) = Preferred(rows, S \ {c}, v)
  BY <1>2 DEF Routing!Prefers, Preferred
<1> QED  BY <1>1, <1>3, <1>4, StickyChoice

-----------------------------------------------------------------------------
(* The snapshots hold rows. *)
LEMMA RoutingTypesStep == Routing!TypeOK /\ [Routing!Next]_(Routing!vars) => Routing!TypeOK'
<1> SUFFICES ASSUME Routing!TypeOK, [Routing!Next]_(Routing!vars) PROVE Routing!TypeOK'
  OBVIOUS
<1>1. ASSUME NEW r \in Requests, Routing!Resolve(r) \/ Routing!Fails(r) \/ Routing!Answers(r)
      PROVE  Routing!TypeOK'
  BY <1>1 DEF Routing!Resolve, Routing!Fails, Routing!Answers, Routing!TypeOK
<1>2. ASSUME NEW r \in Requests, NEW w \in Workers, NEW key, Routing!Arrives(r, w, key)
      PROVE  Routing!TypeOK'
  BY <1>2 DEF Routing!Arrives, Routing!TypeOK
<1>3. ASSUME NEW w \in Workers, Routing!Refresh(w) PROVE Routing!TypeOK'
  BY <1>3 DEF Routing!Refresh, Routing!TypeOK
<1>4. ASSUME NEW w \in Workers, NEW c \in Channels, Routing!Cools(w, c) \/ Routing!Recovers(w, c)
      PROVE  Routing!TypeOK'
  BY <1>4 DEF Routing!Cools, Routing!Recovers, Routing!TypeOK
<1>5. ASSUME NEW c \in Channels, Routing!Edit(c) PROVE Routing!TypeOK'
  BY <1>5 DEF Routing!Edit, Routing!TypeOK
<1>6. CASE UNCHANGED Routing!vars
  BY <1>6 DEF Routing!vars, Routing!TypeOK
<1> QED  BY <1>1, <1>2, <1>3, <1>4, <1>5, <1>6 DEF Routing!Next

LEMMA SnapshotsTyped == Routing!Spec => []Routing!TypeOK
<1>1. Routing!Init => Routing!TypeOK
  BY RoutingAssumption
  DEF RoutingAssumption, ChannelRows, Routing!ChannelRows, Routing!Init, Routing!TypeOK
<1> QED BY <1>1, RoutingTypesStep, PTL DEF Routing!Spec

(* A cooldown, or its end, moves only conversations of its own channel.    *)
LEMMA ConversationsStick == Routing!Spec => Routing!ConversationsStay
<1> DEFINE Stays(w, c, v) ==
      cooling'[w] # cooling[w] /\ snapshot'[w] = snapshot[w] =>
        /\ cooling'[w] = cooling[w] \cup {c} => Routing!Home(w, v) = c \/ Routing!Home(w, v)' = Routing!Home(w, v)
        /\ cooling[w] = cooling'[w] \cup {c} => Routing!Home(w, v)' = c \/ Routing!Home(w, v)' = Routing!Home(w, v)
<1>1. ASSUME Routing!TypeOK, NEW w \in Workers, NEW c \in Channels, NEW v \in Conversations
      PROVE  Stays(w, c, v)
  <2> SUFFICES ASSUME snapshot'[w] = snapshot[w] PROVE Stays(w, c, v)
    OBVIOUS
  <2>1. PICK rows : rows = snapshot[w] /\ rows \in [Channels -> Routing!ChannelRows]
    BY <1>1 DEF Routing!TypeOK
  <2>2. PICK before : before = cooling[w]
    OBVIOUS
  <2>3. PICK after : after = cooling'[w]
    OBVIOUS
  <2>4. Routing!Home(w, v) = Routing!Prefers(rows, before, {}, v) /\ Routing!Home(w, v)' = Routing!Prefers(rows, after, {}, v)
    BY <2>1, <2>2, <2>3 DEF Routing!Home
  <2>5. after = before \cup {c} => Routing!Home(w, v) = c \/ Routing!Home(w, v)' = Routing!Home(w, v)
    BY <2>1, <2>4, CooldownSticks
  <2>6. before = after \cup {c} => Routing!Home(w, v)' = c \/ Routing!Home(w, v)' = Routing!Home(w, v)
    BY <2>1, <2>4, CooldownSticks
  <2> QED  BY <2>2, <2>3, <2>5, <2>6
<1>2. Routing!TypeOK => [\A w \in Workers, c \in Channels, v \in Conversations : Stays(w, c, v)]_(Routing!vars)
  BY <1>1
<1> QED  BY <1>2, SnapshotsTyped, PTL DEF Routing!ConversationsStay

-----------------------------------------------------------------------------
(* ChannelRouting, the walk of a request.  A request has visited once each *)
(* channel of its list of attempts, and no other: the list that is carried *)
(* along is what keeps it from coming back, whatever the tables and the    *)
(* cooldowns have become meanwhile.                                        *)

Places == Channels \cup NoChannel

RequestRows ==
  [pc : {"new", "trying", "done"}, at : Workers \cup {Nothing}, key : Conversations \cup {Anyone},
   cfg : Places \cup {Nothing}, from : SUBSET Channels,
   result : {"none", "answered", "exhausted", "unresolved"}]

Walks ==
  /\ request \in [Requests -> RequestRows]
  /\ \A r \in Requests :
       /\ request[r].pc # "done" => request[r].result = "none"
       /\ request[r].pc = "new" => request[r].cfg = Nothing /\ request[r].from = {}
       /\ request[r].pc = "trying" => request[r].at \in Workers

VisitedOnce ==
  /\ visits \in [Requests -> [Channels -> Nat]]
  /\ \A r \in Requests, c \in Channels :
       visits[r][c] = IF c \in Routing!Attempted(r) THEN 1 ELSE 0

WalkInv == Routing!TypeOK /\ Walks /\ VisitedOnce

(* Whatever a request may go to is a candidate, and if it may go nowhere   *)
(* there is none.                                                          *)
LEMMA SelectableFromCandidates ==
  ASSUME NEW rows \in [Channels -> Routing!ChannelRows], NEW cold, NEW excluded,
         NEW key \in Conversations \cup {Anyone}
  PROVE  /\ Routing!Selectable(rows, cold, excluded, key)
              \subseteq Routing!Candidates(rows, cold, excluded)
         /\ Routing!Selectable(rows, cold, excluded, key) = {}
              => Routing!Candidates(rows, cold, excluded) = {}
         /\ Routing!Candidates(rows, cold, excluded) \subseteq Channels \ excluded
<1> DEFINE S == Routing!Candidates(rows, cold, excluded)
<1>1. S \subseteq Channels \ excluded
  BY DEF Routing!Candidates, Routing!Listed
<1>2. S # {} => Routing!Best(rows, S) \in SUBSET S /\ Routing!Best(rows, S) # {}
  BY <1>1, BestExists
<1>3. S = {} => Routing!Best(rows, S) = {}
  BY DEF Routing!Best
<1>4. CASE key = Anyone
  BY <1>1, <1>2, <1>3, <1>4 DEF Routing!Selectable
<1>5. CASE key # Anyone
  <2>1. key \in Conversations
    BY <1>5
  <2>2. S # {} => Routing!Pick(key, Routing!Best(rows, S)) \in S
    BY <1>1, <1>2, <2>1, PickLowest
  <2>3. Routing!Selectable(rows, cold, excluded, key)
          = {IF S = {} THEN Nothing ELSE Routing!Pick(key, Routing!Best(rows, S))} \ {Nothing}
    BY <1>5 DEF Routing!Selectable, Routing!Prefers
  <2>4. Nothing \notin S
    BY <1>1, RoutingAssumption DEF RoutingAssumption
  <2> HIDE DEF S
  <2> QED  BY <1>1, <2>2, <2>3, <2>4 DEF S
<1> QED  BY <1>4, <1>5

(* The same for what a worker sees.                                        *)
LEMMA ViewFromCandidates ==
  ASSUME WalkInv, NEW r \in Requests, request[r].at \in Workers, NEW excluded
  PROVE  LET w == request[r].at
         IN  /\ Routing!View(r, excluded) \subseteq Channels \ excluded
             /\ Routing!View(r, excluded) = {}
                  => Routing!Candidates(snapshot[w], cooling[w], excluded) = {}
             /\ Routing!Selectable(snapshot[w], {}, {}, request[r].key) \subseteq Channels
<1> DEFINE w == request[r].at
<1>1. snapshot[w] \in [Channels -> Routing!ChannelRows]
  BY DEF WalkInv, Routing!TypeOK
<1>2. request[r].key \in Conversations \cup {Anyone}
  BY DEF WalkInv, Walks, RequestRows
<1>3. PICK rows \in [Channels -> Routing!ChannelRows] : rows = snapshot[w]
  BY <1>1
<1>4. PICK key \in Conversations \cup {Anyone} : key = request[r].key
  BY <1>2
<1>5. PICK cold : cold = cooling[w]
  OBVIOUS
<1>6. PICK tried : tried = excluded
  OBVIOUS
<1>7. /\ Routing!Selectable(rows, cold, tried, key) \subseteq Routing!Candidates(rows, cold, tried)
      /\ Routing!Selectable(rows, cold, tried, key) = {} => Routing!Candidates(rows, cold, tried) = {}
      /\ Routing!Candidates(rows, cold, tried) \subseteq Channels \ tried
  BY SelectableFromCandidates
<1>8. /\ Routing!Selectable(rows, {}, {}, key) \subseteq Routing!Candidates(rows, {}, {})
      /\ Routing!Candidates(rows, {}, {}) \subseteq Channels \ {}
  BY SelectableFromCandidates
<1> QED  BY <1>3, <1>4, <1>5, <1>6, <1>7, <1>8 DEF Routing!View

(* The one step that visits a channel: it is added to the list.            *)
LEMMA GoesKeeps ==
  ASSUME Walks, VisitedOnce, NEW r \in Requests, NEW c \in Places, NEW attempted \in SUBSET Channels,
         Routing!Goes(r, c, attempted), request[r].at \in Workers, request[r].result = "none",
         c \notin attempted, attempted = Routing!Attempted(r) \cap Channels
  PROVE  Walks' /\ VisitedOnce' /\ request'[r].cfg = c /\ request'[r].result = "none"
<1> DEFINE x == [request[r] EXCEPT !.pc = "trying", !.cfg = c, !.from = attempted]
           v == [d \in Channels |-> visits[r][d] + IF d = c THEN 1 ELSE 0]
<1>1. request[r] \in RequestRows /\ visits[r] \in [Channels -> Nat]
  BY DEF Walks, VisitedOnce
<1>2. request' = [request EXCEPT ![r] = x]
  BY <1>1 DEF Routing!Goes, Walks, RequestRows
<1>3. visits' = [visits EXCEPT ![r] = v]
  BY DEF Routing!Goes, VisitedOnce
<1>4. x \in RequestRows /\ x.pc = "trying" /\ x.cfg = c /\ x.from = attempted
      /\ x.at = request[r].at /\ x.result = "none"
  BY <1>1 DEF RequestRows
<1>5. v \in [Channels -> Nat]
  BY <1>1
<1> HIDE DEF x
<1>6. Walks'
  BY <1>2, <1>4 DEF Walks
<1>7. request'[r] = x /\ \A q \in Requests \ {r} : request'[q] = request[q]
  BY <1>2 DEF Walks
<1>8. ASSUME NEW q \in Requests, NEW d \in Channels
      PROVE  visits'[q][d] = IF d \in request'[q].from \cup {request'[q].cfg} THEN 1 ELSE 0
  <2>1. CASE q # r
    BY <1>3, <1>7, <1>8, <2>1 DEF VisitedOnce, Routing!Attempted
  <2>2. CASE q = r
    <3>1. visits'[r][d] = visits[r][d] + IF d = c THEN 1 ELSE 0
      BY <1>3 DEF VisitedOnce
    <3>2. visits[r][d] = IF d \in attempted THEN 1 ELSE 0
      BY DEF VisitedOnce
    <3> QED  BY <1>4, <1>7, <2>2, <3>1, <3>2
  <2> QED  BY <2>1, <2>2
<1>9. VisitedOnce'
  <2>1. visits' \in [Requests -> [Channels -> Nat]]
    BY <1>3, <1>5 DEF VisitedOnce
  <2> QED  BY <1>8, <2>1 DEF VisitedOnce, Routing!Attempted
<1> QED  BY <1>4, <1>6, <1>7, <1>9

(* The end of a walk visits nothing.                                       *)
LEMMA EndsKeeps ==
  ASSUME Walks, VisitedOnce, NEW r \in Requests, NEW result \in {"answered", "exhausted", "unresolved"},
         Routing!Ends(r, result)
  PROVE  Walks' /\ VisitedOnce' /\ request'[r].cfg = request[r].cfg /\ request'[r].result = result
<1> DEFINE x == [request[r] EXCEPT !.pc = "done", !.result = result]
<1>1. request[r] \in RequestRows
  BY DEF Walks
<1>2. request' = [request EXCEPT ![r] = x] /\ visits' = visits
  BY <1>1 DEF Routing!Ends, Walks, RequestRows
<1>3. x \in RequestRows /\ x.pc = "done" /\ x.cfg = request[r].cfg /\ x.from = request[r].from
      /\ x.result = result
  BY <1>1 DEF RequestRows
<1> HIDE DEF x
<1>4. request'[r] = x /\ \A q \in Requests \ {r} : request'[q] = request[q]
  BY <1>2 DEF Walks
<1>5. Walks'
  BY <1>2, <1>3 DEF Walks
<1>6. VisitedOnce'
  BY <1>2, <1>3, <1>4 DEF VisitedOnce, Routing!Attempted
<1> QED  BY <1>3, <1>4, <1>5, <1>6

(* The three places that are no channel.                                   *)
LEMMA NoChannelApart ==
  {"catalog", "system", "pool"} \subseteq Places /\ {"catalog", "system", "pool"} \cap Channels = {}
  /\ Nothing \notin Channels
BY RoutingAssumption DEF RoutingAssumption, NoChannel, Places

LEMMA ResolveKeeps ==
  ASSUME WalkInv, NEW r \in Requests, Routing!Resolve(r)
  PROVE  Walks' /\ VisitedOnce'
<1>1. /\ request[r].pc = "new" /\ request[r].at \in Workers /\ request[r].result = "none"
      /\ Routing!Attempted(r) \cap Channels = {}
  <2>1. request[r].pc = "new" /\ request[r].at # Nothing
    BY DEF Routing!Resolve
  <2> QED  BY <2>1, NoChannelApart DEF WalkInv, Walks, RequestRows, Routing!Attempted
<1>2. \/ \E c \in Routing!View(r, {}) : Routing!Goes(r, c, {})
      \/ \E c \in Routing!Selectable(snapshot[request[r].at], {}, {}, request[r].key) :
           Routing!Goes(r, c, {})
      \/ Routing!Goes(r, "catalog", {})
      \/ Routing!Ends(r, "unresolved")
  BY DEF Routing!Resolve
<1>3. ASSUME NEW c \in Places, Routing!Goes(r, c, {}) PROVE Walks' /\ VisitedOnce'
  <2>1. {} \in SUBSET Channels /\ c \notin {}
    OBVIOUS
  <2> QED  BY <1>1, <1>3, <2>1, GoesKeeps DEF WalkInv
<1>4. ASSUME Routing!Ends(r, "unresolved") PROVE Walks' /\ VisitedOnce'
  BY <1>4, EndsKeeps DEF WalkInv
<1>5. Routing!View(r, {}) \subseteq Places
      /\ Routing!Selectable(snapshot[request[r].at], {}, {}, request[r].key) \subseteq Places
  BY <1>1, ViewFromCandidates DEF Places
<1>6. "catalog" \in Places
  BY NoChannelApart
<1> QED  BY <1>2, <1>3, <1>4, <1>5, <1>6

(* A failure moves on to a channel that is not in the list; it leaves the  *)
(* channels only when the worker sees no other, or at the limit.           *)
LEMMA FailsKeeps ==
  ASSUME WalkInv, NEW r \in Requests, Routing!Fails(r)
  PROVE  /\ Walks' /\ VisitedOnce'
         /\ request[r].cfg \in Channels
              /\ (request'[r].cfg \notin Channels \/ request'[r].result = "exhausted")
              => Routing!NextChannels(r) = {}
<1>1. /\ request[r].pc = "trying" /\ request[r].at \in Workers /\ request[r].result = "none"
      /\ request[r].from \in SUBSET Channels
  <2>1. request[r].pc = "trying"
    BY DEF Routing!Fails
  <2> QED  BY <2>1 DEF WalkInv, Walks, RequestRows
<1>2. CASE request[r].cfg \notin Channels
  <2>1. Routing!Ends(r, "exhausted")
    BY <1>2 DEF Routing!Fails
  <2> QED  BY <1>2, <2>1, EndsKeeps DEF WalkInv
<1>3. CASE request[r].cfg \in Channels
  <2>1. Routing!Attempted(r) \in SUBSET Channels
    BY <1>1, <1>3 DEF Routing!Attempted
  <2>2. ASSUME NEW c \in Places, c \notin Routing!Attempted(r),
               Routing!Goes(r, c, Routing!Attempted(r))
        PROVE  Walks' /\ VisitedOnce' /\ request'[r].cfg = c /\ request'[r].result = "none"
    <3>1. Routing!Attempted(r) = Routing!Attempted(r) \cap Channels
      BY <2>1
    <3> QED  BY <1>1, <2>1, <2>2, <3>1, GoesKeeps DEF WalkInv
  <2>3. ASSUME NEW c \in Routing!NextChannels(r), Routing!Goes(r, c, Routing!Attempted(r))
        PROVE  Walks' /\ VisitedOnce' /\ request'[r].cfg \in Channels
               /\ request'[r].result = "none"
    <3>1. c \in Routing!View(r, Routing!Attempted(r))
      BY <2>3 DEF Routing!NextChannels
    <3>2. c \in Channels /\ c \notin Routing!Attempted(r) /\ c \in Places
      BY <1>1, <3>1, ViewFromCandidates DEF Places
    <3> QED  BY <2>2, <2>3, <3>2
  <2>4. ASSUME Routing!SystemFallback(r) PROVE Walks' /\ VisitedOnce'
    <3>1. PICK c \in {"pool", "system"} : Routing!Goes(r, c, Routing!Attempted(r))
      BY <2>4 DEF Routing!SystemFallback
    <3>2. c \in Places /\ c \notin Channels
      BY NoChannelApart
    <3> QED  BY <2>1, <2>2, <3>1, <3>2
  <2>5. ASSUME Routing!Ends(r, "exhausted") PROVE Walks' /\ VisitedOnce'
    BY <2>5, EndsKeeps DEF WalkInv
  <2>6. \/ \E c \in Routing!NextChannels(r) : Routing!Goes(r, c, Routing!Attempted(r))
        \/ Routing!NextChannels(r) = {} /\ Routing!SystemFallback(r)
        \/ Routing!NextChannels(r) = {} /\ Routing!Ends(r, "exhausted")
    BY <1>3 DEF Routing!Fails
  <2> QED  BY <2>3, <2>4, <2>5, <2>6
<1> QED  BY <1>2, <1>3

(* The steps that are no step of a request's walk.                         *)
LEMMA OthersKeep ==
  ASSUME Walks, VisitedOnce, UNCHANGED <<request, visits>>
  PROVE  Walks' /\ VisitedOnce'
BY DEF Walks, VisitedOnce, Routing!Attempted

LEMMA ArrivesKeeps ==
  ASSUME WalkInv, NEW r \in Requests, NEW w \in Workers, NEW key \in Conversations \cup {Anyone},
         Routing!Arrives(r, w, key)
  PROVE  Walks' /\ VisitedOnce'
<1> DEFINE x == [request[r] EXCEPT !.at = w, !.key = key]
<1>1. request[r] \in RequestRows /\ request[r].pc = "new"
  BY DEF WalkInv, Walks, Routing!Arrives
<1>2. request' = [request EXCEPT ![r] = x] /\ visits' = visits
  BY <1>1 DEF Routing!Arrives, WalkInv, Walks, RequestRows
<1>3. x \in RequestRows /\ x.pc = "new" /\ x.cfg = request[r].cfg /\ x.from = request[r].from
      /\ x.result = request[r].result
  BY <1>1 DEF RequestRows
<1> HIDE DEF x
<1>4. request'[r] = x /\ \A q \in Requests \ {r} : request'[q] = request[q]
  BY <1>2 DEF WalkInv, Walks
<1>5. Walks'
  BY <1>1, <1>2, <1>3 DEF WalkInv, Walks
<1>6. VisitedOnce'
  BY <1>2, <1>3, <1>4 DEF WalkInv, VisitedOnce, Routing!Attempted
<1> QED  BY <1>5, <1>6

LEMMA WalkStep == WalkInv /\ [Routing!Next]_(Routing!vars) => WalkInv'
<1> SUFFICES ASSUME WalkInv, [Routing!Next]_(Routing!vars) PROVE Walks' /\ VisitedOnce'
  BY RoutingTypesStep DEF WalkInv
<1>1. ASSUME NEW r \in Requests, Routing!Resolve(r) PROVE Walks' /\ VisitedOnce'
  BY <1>1, ResolveKeeps
<1>2. ASSUME NEW r \in Requests, Routing!Fails(r) PROVE Walks' /\ VisitedOnce'
  BY <1>2, FailsKeeps
<1>3. ASSUME NEW r \in Requests, Routing!Answers(r) PROVE Walks' /\ VisitedOnce'
  BY <1>3, EndsKeeps DEF Routing!Answers, WalkInv
<1>4. ASSUME NEW r \in Requests, NEW w \in Workers, NEW key \in Conversations \cup {Anyone},
             Routing!Arrives(r, w, key)
      PROVE  Walks' /\ VisitedOnce'
  BY <1>4, ArrivesKeeps
<1>5. ASSUME UNCHANGED <<request, visits>> PROVE Walks' /\ VisitedOnce'
  BY <1>5, OthersKeep DEF WalkInv
<1>6. ASSUME NEW w \in Workers, Routing!Refresh(w) PROVE UNCHANGED <<request, visits>>
  BY <1>6 DEF Routing!Refresh
<1>7. ASSUME NEW w \in Workers, NEW c \in Channels, Routing!Cools(w, c) \/ Routing!Recovers(w, c)
      PROVE  UNCHANGED <<request, visits>>
  BY <1>7 DEF Routing!Cools, Routing!Recovers
<1>8. ASSUME NEW c \in Channels, Routing!Edit(c) PROVE UNCHANGED <<request, visits>>
  BY <1>8 DEF Routing!Edit
<1>9. CASE UNCHANGED Routing!vars
  BY <1>5, <1>9 DEF Routing!vars
<1> QED  BY <1>1, <1>2, <1>3, <1>4, <1>5, <1>6, <1>7, <1>8, <1>9 DEF Routing!Next

LEMMA WalkInit == Routing!Init => WalkInv
<1> SUFFICES ASSUME Routing!Init PROVE WalkInv
  OBVIOUS
<1>1. Routing!TypeOK
  BY RoutingAssumption DEF RoutingAssumption, ChannelRows, Routing!ChannelRows, Routing!Init, Routing!TypeOK
<1>2. Walks
  BY DEF Routing!Init, Routing!New, Walks, RequestRows
<1>3. VisitedOnce
  BY NoChannelApart DEF Routing!Init, Routing!New, VisitedOnce, Routing!Attempted
<1> QED  BY <1>1, <1>2, <1>3 DEF WalkInv

LEMMA WalkInvariant == Routing!Spec => []WalkInv
BY WalkInit, WalkStep, PTL DEF Routing!Spec

(* A step that gives up the channels of a request is a failure after the   *)
(* last of them.                                                           *)
LEMMA GivesUpStep ==
  ASSUME WalkInv, [Routing!Next]_(Routing!vars), NEW r \in Requests, Routing!GivesUp(r)
  PROVE  Routing!NothingLeft(r)
<1>0. /\ request[r].pc = "trying" /\ request[r].cfg \in Channels
      /\ request'[r].cfg \notin Channels \/ request'[r].result = "exhausted"
  BY DEF Routing!GivesUp
<1>1. /\ request[r].at \in Workers /\ request[r].result = "none"
      /\ request[r].from \in SUBSET Channels
  BY <1>0 DEF WalkInv, Walks, RequestRows
<1>2. request'[r] # request[r]
  BY <1>0, <1>1
<1>3. Routing!NextChannels(r) = {}
  <2>1. ASSUME NEW q \in Requests, q # r, Routing!Resolve(q) \/ Routing!Fails(q) \/ Routing!Answers(q)
        PROVE  FALSE
    <3>1. \/ \E c, attempted : Routing!Goes(q, c, attempted)
          \/ \E result : Routing!Ends(q, result)
      BY <2>1 DEF Routing!Resolve, Routing!Fails, Routing!SystemFallback, Routing!Answers
    <3>2. ASSUME NEW c, NEW attempted, Routing!Goes(q, c, attempted) PROVE request'[r] = request[r]
      BY <2>1, <3>2 DEF Routing!Goes, WalkInv, Walks
    <3>3. ASSUME NEW result, Routing!Ends(q, result) PROVE request'[r] = request[r]
      BY <2>1, <3>3 DEF Routing!Ends, WalkInv, Walks
    <3> QED  BY <1>2, <3>1, <3>2, <3>3
  <2>2. CASE Routing!Fails(r)
    BY <1>0, <2>2, FailsKeeps
  <2>3. ~ Routing!Resolve(r)
    BY <1>0 DEF Routing!Resolve
  <2>4. CASE Routing!Answers(r)
    <3>1. Routing!Ends(r, "answered")
      BY <2>4 DEF Routing!Answers
    <3> QED  BY <1>0, <3>1, EndsKeeps DEF WalkInv
  <2>5. ASSUME NEW q \in Requests, NEW w \in Workers, NEW key, Routing!Arrives(q, w, key) PROVE FALSE
    BY <1>0, <1>2, <2>5 DEF Routing!Arrives, WalkInv, Walks
  <2>6. ~ UNCHANGED request
    BY <1>2
  <2> QED  BY <2>1, <2>2, <2>3, <2>4, <2>5, <2>6
       DEF Routing!Next, Routing!Refresh, Routing!Cools, Routing!Recovers, Routing!Edit, Routing!vars
<1>4. Routing!Tried(r) = Routing!Attempted(r)
  BY <1>0, <1>1 DEF WalkInv, VisitedOnce, Routing!Attempted, Routing!Tried
<1>5. \/ Routing!Cardinality(Routing!Attempted(r)) >= MaxAttempts
      \/ Routing!View(r, Routing!Attempted(r)) = {}
  BY <1>3, Zenon DEF Routing!NextChannels
<1>6. CASE Routing!Cardinality(Routing!Attempted(r)) >= MaxAttempts
  BY <1>4, <1>6 DEF Routing!NothingLeft
<1>7. CASE Routing!View(r, Routing!Attempted(r)) = {}
  BY <1>1, <1>4, <1>7, ViewFromCandidates DEF Routing!NothingLeft
<1> QED  BY <1>5, <1>6, <1>7

LEMMA WalksTryAllOnce == Routing!Spec => Routing!TriesAllOnce
<1>1. WalkInv => Routing!NeverTwice
  BY DEF WalkInv, VisitedOnce, Routing!NeverTwice
<1>2. WalkInv /\ [Routing!Next]_(Routing!vars) =>
        [\A r \in Requests : Routing!GivesUp(r) => Routing!NothingLeft(r)]_(Routing!vars)
  BY GivesUpStep
<1> QED  BY <1>1, <1>2, WalkInvariant, PTL DEF Routing!Spec, Routing!TriesAllOnce, Routing!NoneLeftUntried

-----------------------------------------------------------------------------
(* StationPayout.  An entry that leaves a batch leaves a mark on both of   *)
(* them; a batch without a mark has the entries that its total was taken   *)
(* of, and whoever marks it as paid has read all of them.                  *)

EntryRows == [status : {"none", "held", "pending", "batched", "paid"}, batch : Batches \cup {None}]

PayoutRows ==
  /\ entry \in [Entries -> EntryRows]
  /\ \A e \in Entries : entry[e].batch # None <=> entry[e].status \in {"batched", "paid"}
  /\ batch \in [Batches -> {"none", "pending", "paid"}]
  /\ total = [b \in Batches |-> total[b]]
  /\ creating \in [Batches -> SUBSET Entries]
  /\ paying \in [Batches -> (SUBSET Entries) \cup {None}]

(* A batch that is being created does not exist yet, has no entries, and   *)
(* nobody pays it.                                                         *)
BatchesCreated ==
  \A b \in Batches :
    /\ creating[b] # {} => batch[b] = "none"
    /\ batch[b] = "none" => Payout!In(b) = {} /\ paying[b] = None

(* What whoever pays has read: all of the batch, or entries that were      *)
(* taken from it.                                                          *)
BatchesRead ==
  \A b \in Batches :
    paying[b] # None =>
      /\ batch[b] = "pending"
      /\ b \notin disturbed => Payout!In(b) \subseteq paying[b]
      /\ \A e \in paying[b] :
           entry[e].batch # None /\ (entry[e].batch # b => {b, entry[e].batch} \subseteq disturbed)

PayoutInv == PayoutRows /\ BatchesCreated /\ BatchesRead /\ Payout!BatchesPayTheirEntries

LEMMA PayoutInit == Payout!Init => PayoutInv
BY PayoutAssumption
   DEF PayoutAssumption, Payout!Init, PayoutInv, PayoutRows, EntryRows, BatchesCreated, BatchesRead,
       Payout!In, Payout!BatchesPayTheirEntries

(* Entries that are in no batch change.                                    *)
LEMMA EntriesChange ==
  ASSUME PayoutInv, NEW e \in Entries, Payout!Earn(e) \/ Payout!HoldPasses(e)
  PROVE  PayoutInv'
<1> USE DEF PayoutInv
<1>1. /\ entry[e].batch = None /\ UNCHANGED <<batch, total, creating, paying, disturbed>>
      /\ \E status \in {"held", "pending"} : entry' = [entry EXCEPT ![e].status = status]
  BY DEF Payout!Earn, Payout!HoldPasses, PayoutRows, EntryRows
<1>2. \A d \in Entries : entry'[d].batch = entry[d].batch /\ (d # e => entry'[d] = entry[d])
  BY <1>1 DEF PayoutRows, EntryRows
<1>3. \A b \in Batches : Payout!In(b)' = Payout!In(b) /\ e \notin Payout!In(b)
  BY <1>1, <1>2, PayoutAssumption DEF PayoutAssumption, Payout!In
<1>4. PayoutRows'
  BY <1>1 DEF PayoutRows, EntryRows
<1>5. BatchesCreated'
  BY <1>1, <1>3 DEF BatchesCreated
<1>6. BatchesRead'
  BY <1>1, <1>2, <1>3 DEF BatchesRead, PayoutRows
<1>7. Payout!BatchesPayTheirEntries'
  <2>1. \A b \in Batches : \A d \in Payout!In(b) : entry'[d] = entry[d]
    BY <1>2, <1>3 DEF Payout!In
  <2> QED  BY <1>1, <1>3, <2>1 DEF Payout!BatchesPayTheirEntries
<1> QED  BY <1>4, <1>5, <1>6, <1>7

(* The new batch takes the entries that were read; those that another one  *)
(* had taken since mark both.                                              *)
LEMMA BatchCreated ==
  ASSUME PayoutInv, NEW b \in Batches, Payout!CreateBatch(b)
  PROVE  PayoutInv'
<1> USE DEF PayoutInv
<1> DEFINE mark == IF Payout!Overtaken(b) = {} THEN {}
                   ELSE {b} \cup {entry[e].batch : e \in Payout!Overtaken(b)}
<1>1. /\ creating[b] # {} /\ paying' = paying
      /\ batch' = [batch EXCEPT ![b] = "pending"]
      /\ total' = [total EXCEPT ![b] = Payout!Sum(creating[b])]
      /\ entry' = [e \in Entries |-> IF e \in creating[b] THEN [status |-> "batched", batch |-> b]
                                     ELSE entry[e]]
      /\ disturbed' = disturbed \cup mark
      /\ creating' = [creating EXCEPT ![b] = {}]
  BY DEF Payout!CreateBatch
<1>2. /\ batch[b] = "none" /\ Payout!In(b) = {} /\ paying[b] = None
      /\ creating[b] \in SUBSET Entries /\ b # None
  BY <1>1, PayoutAssumption DEF BatchesCreated, PayoutRows, PayoutAssumption
(* An entry that is taken from another batch marks both. *)
<1>3. ASSUME NEW e \in creating[b], entry[e].batch # None
      PROVE  b \in disturbed' /\ entry[e].batch \in disturbed'
  <2>1. e \in Payout!Overtaken(b)
    BY <1>2, <1>3 DEF PayoutRows, Payout!Overtaken
  <2> QED  BY <1>1, <2>1
<1>4. \A e \in Entries : entry'[e] = IF e \in creating[b] THEN [status |-> "batched", batch |-> b]
                                     ELSE entry[e]
  BY <1>1
<1>5. PayoutRows'
  BY <1>1, <1>2, <1>4 DEF PayoutRows, EntryRows
<1>6. Payout!In(b)' = creating[b]
  BY <1>2, <1>4 DEF Payout!In
<1>7. ASSUME NEW c \in Batches, c # b
      PROVE  /\ Payout!In(c)' \subseteq Payout!In(c)
             /\ c \notin disturbed' => Payout!In(c)' = Payout!In(c)
             /\ batch'[c] = batch[c] /\ creating'[c] = creating[c] /\ total'[c] = total[c]
             /\ \A e \in Payout!In(c)' : entry'[e] = entry[e]
  <2>1. \A e \in Payout!In(c)' : e \in Entries /\ e \notin creating[b] /\ entry'[e] = entry[e]
    BY <1>4, <1>7 DEF Payout!In
  <2>2. Payout!In(c)' \subseteq Payout!In(c)
    BY <2>1 DEF Payout!In
  <2>3. c \notin disturbed' => Payout!In(c) \subseteq Payout!In(c)'
    <3> SUFFICES ASSUME c \notin disturbed', NEW e \in Payout!In(c) PROVE e \in Payout!In(c)'
      OBVIOUS
    <3>1. e \in Entries /\ entry[e].batch = c /\ c # None
      BY PayoutAssumption DEF Payout!In, PayoutAssumption
    <3>2. e \notin creating[b]
      BY <1>3, <3>1
    <3> QED  BY <1>4, <3>1, <3>2 DEF Payout!In
  <2>4. batch'[c] = batch[c] /\ creating'[c] = creating[c] /\ total'[c] = total[c]
    BY <1>1, <1>7 DEF PayoutRows
  <2> QED  BY <2>1, <2>2, <2>3, <2>4
<1>8. /\ batch'[b] = "pending" /\ creating'[b] = {} /\ total'[b] = Payout!Sum(creating[b])
  BY <1>1 DEF PayoutRows
<1>9. BatchesCreated'
  <2> SUFFICES ASSUME NEW c \in Batches
               PROVE  /\ creating'[c] # {} => batch'[c] = "none"
                      /\ batch'[c] = "none" => Payout!In(c)' = {} /\ paying'[c] = None
    BY DEF BatchesCreated
  <2>1. CASE c = b
    BY <1>8, <2>1
  <2>2. CASE c # b
    BY <1>1, <1>7, <2>2 DEF BatchesCreated
  <2> QED  BY <2>1, <2>2
<1>10. BatchesRead'
  <2> SUFFICES ASSUME NEW c \in Batches, paying[c] # None
               PROVE  /\ batch'[c] = "pending"
                      /\ c \notin disturbed' => Payout!In(c)' \subseteq paying[c]
                      /\ \A e \in paying[c] :
                           entry'[e].batch # None
                           /\ (entry'[e].batch # c => {c, entry'[e].batch} \subseteq disturbed')
    BY <1>1 DEF BatchesRead
  <2>1. c # b
    BY <1>2
  <2>2. disturbed \subseteq disturbed'
    BY <1>1
  <2>3. batch'[c] = "pending" /\ (c \notin disturbed' => Payout!In(c)' \subseteq paying[c])
    BY <1>7, <2>1, <2>2 DEF BatchesRead
  <2>4. ASSUME NEW e \in paying[c]
        PROVE  entry'[e].batch # None
               /\ (entry'[e].batch # c => {c, entry'[e].batch} \subseteq disturbed')
    <3>1. e \in Entries
      BY <2>4 DEF PayoutRows
    <3>2. entry[e].batch # None
          /\ (entry[e].batch # c => {c, entry[e].batch} \subseteq disturbed)
      BY <2>4 DEF BatchesRead
    <3>3. CASE e \notin creating[b]
      BY <1>4, <2>2, <3>1, <3>2, <3>3
    <3>4. CASE e \in creating[b]
      <4>1. b \in disturbed' /\ entry[e].batch \in disturbed'
        BY <1>3, <3>2, <3>4
      <4>2. c \in disturbed'
        BY <2>2, <3>2, <4>1
      <4> QED  BY <1>2, <1>4, <3>1, <3>4, <4>1, <4>2
    <3> QED  BY <3>3, <3>4
  <2> QED  BY <2>3, <2>4
<1>11. Payout!BatchesPayTheirEntries'
  <2> SUFFICES ASSUME NEW c \in Batches, c \notin disturbed', batch'[c] # "none"
               PROVE  /\ total'[c] = Payout!Sum(Payout!In(c))'
                      /\ \A e \in Payout!In(c)' :
                           entry'[e].status = IF batch'[c] = "paid" THEN "paid" ELSE "batched"
    BY DEF Payout!BatchesPayTheirEntries
  <2>1. CASE c = b
    BY <1>2, <1>4, <1>6, <1>8, <2>1
  <2>2. CASE c # b
    <3>1. c \notin disturbed /\ batch[c] # "none" /\ Payout!In(c)' = Payout!In(c)
      BY <1>1, <1>7, <2>2
    <3> QED  BY <1>7, <2>2, <3>1 DEF Payout!BatchesPayTheirEntries
  <2> QED  BY <2>1, <2>2
<1> QED  BY <1>5, <1>9, <1>10, <1>11

(* Whoever pays a batch without a mark has read all of its entries.        *)
LEMMA BatchPaid ==
  ASSUME PayoutInv, NEW b \in Batches, Payout!MarkPaid(b)
  PROVE  PayoutInv'
<1> USE DEF PayoutInv
<1>1. /\ paying[b] # None /\ UNCHANGED <<total, creating, disturbed>>
      /\ batch' = [batch EXCEPT ![b] = "paid"]
      /\ entry' = [e \in Entries |-> IF e \in paying[b] THEN [entry[e] EXCEPT !.status = "paid"]
                                     ELSE entry[e]]
      /\ paying' = [paying EXCEPT ![b] = None]
  BY DEF Payout!MarkPaid
<1>2. /\ batch[b] = "pending" /\ paying[b] \in SUBSET Entries
      /\ b \notin disturbed => Payout!In(b) \subseteq paying[b]
      /\ \A e \in paying[b] :
           entry[e].batch # None /\ (entry[e].batch # b => {b, entry[e].batch} \subseteq disturbed)
  BY <1>1 DEF BatchesRead, PayoutRows
<1>3. \A e \in Entries : entry'[e].batch = entry[e].batch
  BY <1>1 DEF PayoutRows, EntryRows
<1>4. /\ \A e \in Entries : e \in paying[b] => entry'[e].status = "paid"
      /\ \A e \in Entries : e \notin paying[b] => entry'[e] = entry[e]
  BY <1>1 DEF PayoutRows, EntryRows
<1>5. \A c \in Batches : Payout!In(c)' = Payout!In(c)
  BY <1>3 DEF Payout!In
<1>6. PayoutRows'
  <2>1. \A e \in Entries : entry'[e] \in EntryRows
    BY <1>1 DEF PayoutRows, EntryRows
  <2> QED  BY <1>1, <1>2, <1>3, <1>4, <2>1 DEF PayoutRows
<1>7. BatchesCreated'
  BY <1>1, <1>2, <1>5 DEF BatchesCreated, PayoutRows
<1>8. BatchesRead'
  BY <1>1, <1>3, <1>5 DEF BatchesRead, PayoutRows
<1>9. Payout!BatchesPayTheirEntries'
  <2> SUFFICES ASSUME NEW c \in Batches, c \notin disturbed, batch'[c] # "none"
               PROVE  /\ total'[c] = Payout!Sum(Payout!In(c))'
                      /\ \A e \in Payout!In(c)' :
                           entry'[e].status = IF batch'[c] = "paid" THEN "paid" ELSE "batched"
    BY <1>1 DEF Payout!BatchesPayTheirEntries
  <2>1. batch[c] # "none"
    BY <1>1, <1>2 DEF PayoutRows
  <2>2. total'[c] = Payout!Sum(Payout!In(c))'
    BY <1>1, <1>5, <2>1 DEF Payout!BatchesPayTheirEntries
  <2>3. CASE c = b
    <3>1. batch'[b] = "paid" /\ Payout!In(b) \subseteq paying[b]
      BY <1>1, <1>2, <2>3 DEF PayoutRows
    <3> QED  BY <1>2, <1>4, <1>5, <2>2, <2>3, <3>1
  <2>4. CASE c # b
    <3>1. batch'[c] = batch[c]
      BY <1>1, <2>4 DEF PayoutRows
    <3>2. \A e \in Payout!In(c) : e \in Entries /\ e \notin paying[b]
      BY <1>2, <2>4 DEF Payout!In
    <3> QED  BY <1>4, <1>5, <2>1, <2>2, <3>1, <3>2 DEF Payout!BatchesPayTheirEntries
  <2> QED  BY <2>3, <2>4
<1> QED  BY <1>6, <1>7, <1>8, <1>9

LEMMA PayoutStep == PayoutInv /\ [Payout!Next]_(Payout!vars) => PayoutInv'
<1> SUFFICES ASSUME PayoutInv, [Payout!Next]_(Payout!vars) PROVE PayoutInv'
  OBVIOUS
<1> USE DEF PayoutInv
<1>1. ASSUME NEW e \in Entries, Payout!Earn(e) \/ Payout!HoldPasses(e) PROVE PayoutInv'
  BY <1>1, EntriesChange
<1>2. ASSUME NEW b \in Batches, Payout!ReadEntries(b) PROVE PayoutInv'
  <2>1. /\ batch[b] = "none" /\ UNCHANGED <<entry, batch, total, paying, disturbed>>
        /\ creating' = [creating EXCEPT ![b] = Payout!Ready]
    BY <1>2 DEF Payout!ReadEntries
  <2>2. PayoutRows'
    BY <2>1 DEF PayoutRows, Payout!Ready
  <2>3. BatchesCreated'
    BY <2>1 DEF BatchesCreated, PayoutRows, Payout!In
  <2>4. BatchesRead'
    BY <2>1 DEF BatchesRead, Payout!In
  <2>5. Payout!BatchesPayTheirEntries'
    BY <2>1 DEF Payout!BatchesPayTheirEntries, Payout!In
  <2> QED  BY <2>2, <2>3, <2>4, <2>5
<1>3. ASSUME NEW b \in Batches, Payout!CreateBatch(b) PROVE PayoutInv'
  BY <1>3, BatchCreated
<1>4. ASSUME NEW b \in Batches, Payout!ReadBatch(b) PROVE PayoutInv'
  <2>1. /\ batch[b] = "pending" /\ UNCHANGED <<entry, batch, total, creating, disturbed>>
        /\ paying' = [paying EXCEPT ![b] = {e \in Payout!In(b) : entry[e].status # "paid"}]
    BY <1>4 DEF Payout!ReadBatch
  <2>2. PayoutRows'
    BY <2>1 DEF PayoutRows, Payout!In
  <2>3. BatchesCreated'
    BY <2>1 DEF BatchesCreated, PayoutRows, Payout!In
  <2>4. BatchesRead'
    <3>1. b \notin disturbed => \A e \in Payout!In(b) : entry[e].status = "batched"
      BY <2>1 DEF Payout!BatchesPayTheirEntries
    <3>2. \A e \in Payout!In(b) : entry[e].batch = b /\ b # None
      BY PayoutAssumption DEF PayoutAssumption, Payout!In
    <3>3. \A c \in Batches : Payout!In(c)' = Payout!In(c)
      BY <2>1 DEF Payout!In
    <3> QED  BY <2>1, <3>1, <3>2, <3>3 DEF BatchesRead, PayoutRows
  <2>5. Payout!BatchesPayTheirEntries'
    BY <2>1 DEF Payout!BatchesPayTheirEntries, Payout!In
  <2> QED  BY <2>2, <2>3, <2>4, <2>5
<1>5. ASSUME NEW b \in Batches, Payout!MarkPaid(b) PROVE PayoutInv'
  BY <1>5, BatchPaid
<1>6. CASE UNCHANGED Payout!vars
  BY <1>6 DEF Payout!vars, PayoutRows, BatchesCreated, BatchesRead, Payout!BatchesPayTheirEntries, Payout!In
<1> QED  BY <1>1, <1>2, <1>3, <1>4, <1>5, <1>6 DEF Payout!Next

LEMMA PayoutInvariant == Payout!Spec => []PayoutInv
BY PayoutInit, PayoutStep, PTL DEF Payout!Spec

-----------------------------------------------------------------------------
(* CreditWallet.  The invariant types the rows and what sessions hold of   *)
(* them, and keeps apart what two sessions may do with one job: only a     *)
(* session that alone has it may charge for it, and not yet stored; one    *)
(* that asks the upstream about it finds it stored.                        *)

Cents == [original : Nat, left : Nat]
SubRow == [start : Int, used : Int]
PackRows == [DOMAIN PackCents -> Nat]
Debits == [sub : Int, pack : PackRows, credit : Seq(Nat), legacy : Int, at : Nat]

WalletRow == [sub : SubRow, pack : PackRows, credit : Seq(Cents), balance : Int]

WalletRows ==
  /\ now \in Nat
  /\ wallet \in WalletRow
  /\ spent \in [DOMAIN wallet.credit -> Nat]

(* The places of a sequence. *)
LEMMA SeqPlaces ==
  ASSUME NEW R, NEW s \in Seq(R)
  PROVE  /\ Len(s) \in Nat /\ DOMAIN s = 1..Len(s) /\ \A k \in DOMAIN s : s[k] \in R
         /\ \E n \in Nat : n = Len(s) /\ DOMAIN s = 1..n
<1>1. Len(s) \in Nat /\ DOMAIN s = 1..Len(s) /\ \A k \in DOMAIN s : s[k] \in R
  OBVIOUS
<1>2. \E n \in Nat : n = Len(s) /\ DOMAIN s = 1..n
  BY <1>1, Zenon
<1> QED  BY <1>1, <1>2, Zenon

(* Another sequence of the same length. *)
LEMMA SameLength ==
  ASSUME NEW R, NEW s \in Seq(R), NEW t, t = [i \in DOMAIN s |-> t[i]], \A i \in DOMAIN s : t[i] \in R
  PROVE  t \in Seq(R) /\ Len(t) = Len(s) /\ DOMAIN t = DOMAIN s
OBVIOUS

StoredJob(j) == [state : {"open", "completed", "failed"}, debit : Debits, refunded : {0, Price[j]}]

(* The row of a job, when there are n batches. *)
JobRow(y, j, n) ==
  \/ y = Wallet!NoJob
  \/ y \in StoredJob(j) /\ Len(y.debit.credit) <= n

JobRows ==
  /\ job = [j \in Jobs |-> job[j]]
  /\ \A j \in Jobs : JobRow(job[j], j, Len(wallet.credit))

(* What a session holds. *)
SessionRow(x) ==
  \/ x = Wallet!Idle
  \/ x \in [pc : {"loaded"}, job : Jobs \cup {None}, balance : Int, sub : SubRow, normal : SubRow]
  \/ x \in [pc : {"authorized", "querying"}, job : Jobs, balance : Int]
  \/ x \in [pc : {"asking"}, job : Jobs, balance : Int, sub : SubRow, pack : PackRows]

SessionRows ==
  /\ sess = [s \in Sessions |-> sess[s]]
  /\ \A s \in Sessions : SessionRow(sess[s])

(* A session that may still charge for a job is the only one that may, and *)
(* the job is not stored yet.                                              *)
JobsApart ==
  \A s \in Sessions : sess[s].job # None =>
    /\ sess[s].pc = "querying" <=> job[sess[s].job].state # "none"
    /\ sess[s].pc # "querying" => \A t \in Sessions \ {s} : sess[t].job # sess[s].job

WalletInv ==
  WalletRows /\ JobRows /\ SessionRows /\ JobsApart /\ Wallet!CreditConserved /\ Wallet!RefundedExactly

-----------------------------------------------------------------------------
(* Taking in order. *)

LEMMA WalletSums ==
  ASSUME NEW f, NEW S
  PROVE  Wallet!SumFunctionOnSet(f, S) = SumFunctionOnSet(f, S)
BY DEF SumFunctionOnSet, FoldFunctionOnSet, MapThenFoldSet,
       Wallet!SumFunctionOnSet, Wallet!FoldFunctionOnSet, Wallet!MapThenFoldSet

(* What is left in n sources. *)
Purses(n) == [1..n -> Nat]

Before(left, i) == Wallet!SumFunctionOnSet(left, {k \in DOMAIN left : k < i})

(* What is taken of a from what is left in n places. *)
TakenFrom(p, n, left, a) ==
  /\ p \in Purses(n)
  /\ \A i \in 1..n :
       /\ p[i] <= left[i] /\ Before(left, i) \in Nat
       /\ p[i] = Wallet!AtMost(left[i], Wallet!AtLeast0(a - Before(left, i)))

LEMMA TakesWithin ==
  ASSUME NEW n \in Nat, NEW left \in Purses(n), NEW a \in Int, NEW p, p = Wallet!TakeInOrder(left, a)
  PROVE  TakenFrom(p, n, left, a)
<1> USE DEF Purses, TakenFrom
<1>1. ASSUME NEW i \in 1..n PROVE Before(left, i) \in Nat
  <2>1. PICK b : b = {k \in 1..n : k < i}
    OBVIOUS
  <2>2. IsFiniteSet(1..n) /\ b \in SUBSET (1..n) /\ DOMAIN left = 1..n
    BY <2>1, FS_Interval
  <2>3. IsFiniteSet(b) /\ \A k \in b : left[k] \in Nat
    BY <2>2, FS_Subset
  <2>4. SumFunctionOnSet(left, b) \in Nat
    BY <2>3, SumType
  <2> QED  BY <2>1, <2>2, <2>4, WalletSums DEF Before
<1>2. DOMAIN left = 1..n
  OBVIOUS
<1>3. p = [i \in 1..n |-> Wallet!AtMost(left[i], Wallet!AtLeast0(a - Before(left, i)))]
  BY <1>2, Zenon DEF Wallet!TakeInOrder, Before
<1>4. ASSUME NEW i \in 1..n
      PROVE  p[i] \in Nat /\ p[i] <= left[i]
  <2>1. p[i] = Wallet!AtMost(left[i], Wallet!AtLeast0(a - Before(left, i)))
    BY <1>3
  <2>2. left[i] \in Nat /\ Before(left, i) \in Nat
    BY <1>1
  <2> QED  BY <2>1, <2>2 DEF Wallet!AtMost, Wallet!AtLeast0
<1> QED  BY <1>1, <1>3, <1>4

LEMMA BeforeIs ==
  ASSUME NEW n \in Nat, NEW left \in Purses(n), NEW i, NEW b, b = {k \in 1..n : k < i}
  PROVE  Before(left, i) = SumFunctionOnSet(left, b)
<1>1. DOMAIN left = 1..n
  BY DEF Purses
<1> QED  BY <1>1, WalletSums, Zenon DEF Before

(* What is taken from a place leaves nothing at an earlier one. *)
LEMMA TakesFirstFirst ==
  ASSUME NEW n \in Nat, NEW left \in Purses(n), NEW a \in Int, NEW p, p = Wallet!TakeInOrder(left, a),
         NEW k \in 1..n, p[k] > 0, NEW i \in 1..n, i < k
  PROVE  p[i] = left[i]
<1>0. TakenFrom(p, n, left, a)
  BY TakesWithin
<1> USE DEF TakenFrom
<1> USE DEF Purses
<1>1. PICK b, c : b = {h \in 1..n : h < i} /\ c = {h \in 1..n : h < k}
  OBVIOUS
<1>2. PICK u : u = b \cup {i}
  OBVIOUS
<1>3. c \in SUBSET (1..n) /\ u \in SUBSET c /\ i \notin b /\ i \in u /\ u \ {i} = b
  BY <1>1, <1>2
<1>4. IsFiniteSet(c) /\ IsFiniteSet(u)
  <2>1. IsFiniteSet(1..n)
    BY FS_Interval
  <2> QED  BY <1>3, <2>1, FS_Subset
<1>5. (\A h \in c : left[h] \in Nat) /\ (\A h \in u : left[h] \in Int)
  BY <1>3
<1>6. SumFunctionOnSet(left, u) = left[i] + SumFunctionOnSet(left, u \ {i})
  <2>1. Summable(left, u)
    BY <1>4, <1>5 DEF Summable
  <2> QED  BY <1>3, <2>1, SumRemove
<1>7. SumFunctionOnSet(left, u) <= SumFunctionOnSet(left, c)
  BY <1>3, <1>4, <1>5, SumBounds
<1>8. Before(left, i) = SumFunctionOnSet(left, b) /\ Before(left, k) = SumFunctionOnSet(left, c)
  BY <1>1, BeforeIs
<1>9. left[i] + Before(left, i) <= Before(left, k)
  BY <1>3, <1>6, <1>7, <1>8
<1>10. PICK x \in Nat, y \in Nat, lk \in Nat, li \in Nat :
          x = Before(left, k) /\ y = Before(left, i) /\ lk = left[k] /\ li = left[i]
  BY <1>0
<1>11. /\ p[k] = Wallet!AtMost(lk, Wallet!AtLeast0(a - x))
       /\ p[i] = Wallet!AtMost(li, Wallet!AtLeast0(a - y))
  <2>1. /\ p[k] = Wallet!AtMost(left[k], Wallet!AtLeast0(a - Before(left, k)))
        /\ p[i] = Wallet!AtMost(left[i], Wallet!AtLeast0(a - Before(left, i)))
    BY <1>0
  <2> QED  BY <1>10, <2>1
<1>12. a > x
  BY <1>11 DEF Wallet!AtMost, Wallet!AtLeast0
<1>13. li + y <= x
  BY <1>9, <1>10
<1>14. p[i] = li
  BY <1>11, <1>12, <1>13 DEF Wallet!AtMost, Wallet!AtLeast0
<1> QED  BY <1>10, <1>14

(* Something is left only if there was enough. *)
LEMMA TakesEnough ==
  ASSUME NEW n \in Nat, NEW left \in Purses(n), NEW a \in Int,
         NEW p, p = Wallet!TakeInOrder(left, a)
  PROVE  /\ Wallet!SumFunction(p) \in Nat
         /\ (\E i \in 1..n : p[i] # left[i]) => Wallet!SumFunction(p) >= a
<1>1. TakenFrom(p, n, left, a)
  BY TakesWithin
<1> USE DEF TakenFrom
<1> USE DEF Purses
<1>2. PICK all : all = 1..n
  OBVIOUS
<1>3. IsFiniteSet(all) /\ \A i \in all : p[i] \in Nat
  <2>1. IsFiniteSet(1..n)
    BY FS_Interval
  <2> QED  BY <1>1, <1>2, <2>1
<1>4. DOMAIN p = all /\ Wallet!SumFunction(p) = SumFunctionOnSet(p, all)
  <2>1. DOMAIN p = all
    BY <1>1, <1>2
  <2> QED  BY <2>1, WalletSums, Zenon DEF Wallet!SumFunction
<1>5. SumFunctionOnSet(p, all) \in Nat
  BY <1>3, SumType
<1>6. ASSUME \E i \in 1..n : p[i] # left[i] PROVE SumFunctionOnSet(p, all) >= a
  <2> DEFINE T == {i \in 1..n : p[i] # left[i]}
             f == [x \in Nat |-> x]
  <2>1. \E x \in T : \A y \in T : f[x] <= f[y]
    <3>1. T # {} /\ \A x \in T : f[x] \in Nat
      BY <1>6
    <3> HIDE DEF T, f
    <3> QED  BY <3>1, LowestExists
  <2>2. PICK i \in 1..n : p[i] # left[i] /\ \A y \in 1..n : p[y] # left[y] => i <= y
    <3>1. \A x \in T : x \in Nat /\ f[x] = x
      OBVIOUS
    <3>2. \E x \in T : \A y \in T : x <= y
      BY <2>1, <3>1
    <3> QED  BY <3>2
  <2>3. PICK b : b = {h \in 1..n : h < i}
    OBVIOUS
  <2>4. PICK u : u = b \cup {i}
    OBVIOUS
  <2>5. u \in SUBSET all /\ b \in SUBSET all /\ i \in u /\ u \ {i} = b
    BY <1>2, <2>3, <2>4
  <2>6. IsFiniteSet(b) /\ IsFiniteSet(u)
    BY <1>3, <2>5, FS_Subset
  <2>7. (\A h \in u : p[h] \in Int) /\ \A h \in b : left[h] \in Int /\ left[h] = p[h]
    BY <1>1, <1>2, <2>2, <2>3, <2>5
  <2>8. SumFunctionOnSet(p, u) <= SumFunctionOnSet(p, all)
    BY <1>3, <2>5, SumBounds
  <2>9. SumFunctionOnSet(p, u) = p[i] + SumFunctionOnSet(p, u \ {i})
    <3>1. Summable(p, u)
      BY <2>6, <2>7 DEF Summable
    <3> QED  BY <2>5, <3>1, SumRemove
  <2>10. SumFunctionOnSet(left, b) = SumFunctionOnSet(p, b)
    BY <2>6, <2>7, SumSame
  <2>11. Before(left, i) = SumFunctionOnSet(left, b)
    BY <2>3, BeforeIs
  <2>12. PICK x \in Nat, l \in Nat, q \in Nat : x = Before(left, i) /\ l = left[i] /\ q = p[i]
    BY <1>1
  <2>13. q = Wallet!AtMost(l, Wallet!AtLeast0(a - x)) /\ q # l
    <3>1. p[i] = Wallet!AtMost(left[i], Wallet!AtLeast0(a - Before(left, i)))
      BY <1>1
    <3> QED  BY <2>2, <2>12, <3>1
  <2>14. q >= a - x
    BY <2>13 DEF Wallet!AtMost, Wallet!AtLeast0
  <2>15. SumFunctionOnSet(p, u) = q + x
    <3>1. SumFunctionOnSet(p, u) = p[i] + SumFunctionOnSet(p, b)
      BY <2>5, <2>9
    <3> QED  BY <2>10, <2>11, <2>12, <3>1
  <2> QED  BY <1>5, <2>8, <2>14, <2>15
<1> QED  BY <1>4, <1>5, <1>6

-----------------------------------------------------------------------------
(* The split of a debit over the sources. *)

LEMMA SubFreeTyped ==
  ASSUME now \in Nat, NEW x \in SubRow
  PROVE  Wallet!SubFree(x) \in Nat /\ Wallet!Project(x) \in SubRow
<1> USE WalletAssumed DEF Wallet!WalletAssumption
<1>1. Wallet!Project(x) \in SubRow
  BY DEF SubRow, Wallet!Project
<1>2. Wallet!Project(x).used \in Int /\ Quota \in Nat
  BY <1>1 DEF SubRow
<1> QED  BY <1>1, <1>2 DEF Wallet!SubFree, Wallet!AtLeast0

LEMMA SeenTyped ==
  ASSUME WalletRows, NEW o, o.pack \in PackRows
  PROVE  /\ Wallet!PacksSeen(o) \in PackRows
         /\ \A i \in DOMAIN PackCents : Wallet!ActivePack(i) => Wallet!PacksSeen(o)[i] > 0
<1>1. \A i \in DOMAIN PackCents : o.pack[i] \in Nat /\ wallet.pack[i] \in Nat
  BY DEF WalletRows, WalletRow, PackRows
<1> QED  BY <1>1 DEF Wallet!PacksSeen, Wallet!ActivePack, PackRows

(* The sizes of the two sequences of sources. *)
LEMMA SourcesTyped ==
  ASSUME WalletRows
  PROVE  /\ \E n \in Nat : DOMAIN PackCents = 1..n
         /\ Len(wallet.credit) \in Nat /\ DOMAIN wallet.credit = 1..Len(wallet.credit)
         /\ Wallet!CreditLeft(wallet) \in Purses(Len(wallet.credit))
         /\ \A i \in DOMAIN wallet.credit :
              wallet.credit[i] \in Cents /\ Wallet!CreditLeft(wallet)[i] = wallet.credit[i].left
<1>1. PackCents \in Seq(Nat)
  BY WalletAssumed DEF Wallet!WalletAssumption
<1>2. DOMAIN PackCents = 1..Len(PackCents) /\ Len(PackCents) \in Nat
  BY <1>1
<1>3. wallet.credit \in Seq(Cents)
  BY DEF WalletRows, WalletRow
<1>4. Len(wallet.credit) \in Nat /\ DOMAIN wallet.credit = 1..Len(wallet.credit)
  BY <1>3
<1>5. \A i \in DOMAIN wallet.credit : wallet.credit[i] \in Cents
  BY <1>3, <1>4
<1>6. Wallet!CreditLeft(wallet) = [i \in DOMAIN wallet.credit |-> wallet.credit[i].left]
  BY DEF Wallet!CreditLeft
<1>7. \A i \in DOMAIN wallet.credit : wallet.credit[i].left \in Nat
  BY <1>5 DEF Cents
<1>8. Wallet!CreditLeft(wallet) \in Purses(Len(wallet.credit))
  BY <1>4, <1>6, <1>7 DEF Purses
<1>9. \E n \in Nat : DOMAIN PackCents = 1..n
  BY <1>1, SeqPlaces, Zenon
<1>10. \A i \in DOMAIN wallet.credit : Wallet!CreditLeft(wallet)[i] = wallet.credit[i].left
  BY <1>6
<1> QED  BY <1>4, <1>5, <1>8, <1>9, <1>10, Zenon

LEMMA SplitInOrder ==
  ASSUME WalletRows, NEW o, o.sub \in SubRow, o.pack \in PackRows, NEW amount \in Nat,
         NEW d, d = Wallet!Split(o, amount)
  PROVE  /\ d \in Debits /\ Len(d.credit) = Len(wallet.credit) /\ DOMAIN d.credit = DOMAIN wallet.credit
         /\ \A i \in DOMAIN PackCents : d.pack[i] <= Wallet!PacksSeen(o)[i]
         /\ \A i \in DOMAIN wallet.credit : d.credit[i] <= wallet.credit[i].left
         /\ \A k, i \in DOMAIN wallet.credit :
              d.credit[k] > 0 /\ i < k => d.credit[i] = wallet.credit[i].left
         /\ (d.legacy > 0 \/ \E k \in DOMAIN wallet.credit : d.credit[k] > 0) =>
              \A i \in DOMAIN PackCents : d.pack[i] = Wallet!PacksSeen(o)[i]
         /\ d.legacy > 0 => \A k \in DOMAIN wallet.credit : d.credit[k] = wallet.credit[k].left
<1>1. PICK n \in Nat : DOMAIN PackCents = 1..n
  BY SourcesTyped
<1>2. PICK m \in Nat : m = Len(wallet.credit) /\ DOMAIN wallet.credit = 1..m
  BY SourcesTyped
<1>3. PICK seen \in Purses(n) : seen = Wallet!PacksSeen(o)
  BY <1>1, SeenTyped DEF PackRows, Purses
<1>4. PICK left \in Purses(m) :
        left = Wallet!CreditLeft(wallet) /\ \A i \in 1..m : left[i] = wallet.credit[i].left
  BY <1>2, SourcesTyped
<1>5. PICK s \in Int : s = Wallet!AtMost(Wallet!SubFree(o.sub), amount)
  <2>1. now \in Nat
    BY DEF WalletRows, WalletRow
  <2>2. Wallet!SubFree(o.sub) \in Nat
    BY <2>1, SubFreeTyped
  <2> QED  BY <2>2 DEF Wallet!AtMost
<1>6. PICK p : p = Wallet!TakeInOrder(seen, amount - s)
  OBVIOUS
<1>7. PICK A : A = amount - s - Wallet!SumFunction(p)
  OBVIOUS
<1>8. PICK c : c = Wallet!TakeInOrder(left, A)
  OBVIOUS
<1>9. d = [sub |-> s, pack |-> p, credit |-> c, legacy |-> A - Wallet!SumFunction(c), at |-> now]
  BY <1>3, <1>4, <1>5, <1>6, <1>7, <1>8 DEF Wallet!Split
<1>10. /\ p \in Purses(n) /\ \A i \in 1..n : p[i] <= seen[i]
       /\ Wallet!SumFunction(p) \in Nat
       /\ (\E i \in 1..n : p[i] # seen[i]) => Wallet!SumFunction(p) >= amount - s
  <2>1. amount - s \in Int
    OBVIOUS
  <2>2. PICK B \in Int : B = amount - s
    BY <2>1
  <2>3. p = Wallet!TakeInOrder(seen, B)
    BY <1>6, <2>2
  <2>4. p \in Purses(n) /\ \A i \in 1..n : p[i] <= seen[i]
    BY <2>3, TakesWithin DEF TakenFrom
  <2>5. Wallet!SumFunction(p) \in Nat /\ ((\E i \in 1..n : p[i] # seen[i]) => Wallet!SumFunction(p) >= B)
    BY <2>3, TakesEnough
  <2> QED  BY <2>2, <2>4, <2>5
<1>11. A \in Int /\ (A > 0 => \A i \in 1..n : p[i] = seen[i])
  <2>1. PICK S \in Nat : S = Wallet!SumFunction(p)
    BY <1>10
  <2>2. A = amount - s - S
    BY <1>7, <2>1
  <2>3. (\E i \in 1..n : p[i] # seen[i]) => A <= 0
    BY <1>10, <2>1, <2>2
  <2> QED  BY <2>2, <2>3
<1>12. TakenFrom(c, m, left, A)
  BY <1>8, <1>11, TakesWithin
<1>13. /\ Wallet!SumFunction(c) \in Nat
       /\ (\E i \in 1..m : c[i] # left[i]) => Wallet!SumFunction(c) >= A
  BY <1>8, <1>11, TakesEnough
<1>14. \A k, i \in 1..m : c[k] > 0 /\ i < k => c[i] = left[i]
  BY <1>8, <1>11, TakesFirstFirst
<1>15. ASSUME NEW k \in 1..m, c[k] > 0 PROVE A > 0
  <2>1. PICK x \in Nat, l \in Nat : x = Before(left, k) /\ l = left[k]
    BY <1>12 DEF TakenFrom, Purses
  <2>2. c[k] = Wallet!AtMost(l, Wallet!AtLeast0(A - x))
    BY <1>12, <2>1 DEF TakenFrom
  <2> QED  BY <1>11, <1>15, <2>2 DEF Wallet!AtMost, Wallet!AtLeast0
<1>16. d.legacy > 0 => A > 0 /\ \A i \in 1..m : c[i] = left[i]
  <2>1. d.legacy = A - Wallet!SumFunction(c)
    BY <1>9
  <2>2. PICK S \in Nat : S = Wallet!SumFunction(c)
    BY <1>13
  <2>3. d.legacy = A - S /\ ((\E i \in 1..m : c[i] # left[i]) => S >= A)
    BY <1>13, <2>1, <2>2
  <2> QED  BY <1>11, <2>3
<1>17. c \in Seq(Nat) /\ Len(c) = m /\ DOMAIN c = 1..m
  <2>1. c \in [1..m -> Nat]
    BY <1>12 DEF TakenFrom, Purses
  <2> QED  BY <2>1
<1>18. d \in Debits
  BY <1>1, <1>9, <1>10, <1>11, <1>13, <1>17 DEF Debits, PackRows, WalletRows, WalletRow, Purses
<1>19. d.pack = p /\ d.credit = c
  BY <1>9
<1> QED  BY <1>1, <1>2, <1>3, <1>4, <1>10, <1>11, <1>12, <1>14, <1>15, <1>16, <1>17, <1>18, <1>19 DEF TakenFrom

(* What a debit leaves. *)
LEMMA DebitInOrder ==
  ASSUME WalletRows, NEW o, o.sub \in SubRow, o.pack \in PackRows, o.balance \in Int, NEW amount \in Nat,
         NEW d, d = Wallet!Split(o, amount), NEW w, w = Wallet!Debit(o, d)
  PROVE  /\ w \in WalletRow
         /\ DOMAIN w.credit = DOMAIN wallet.credit /\ Len(w.credit) = Len(wallet.credit)
         /\ \A i \in DOMAIN wallet.credit : /\ w.credit[i].original = wallet.credit[i].original
                                            /\ w.credit[i].left = wallet.credit[i].left - d.credit[i]
         /\ Wallet!ObjectsAfter(o, d) \in [sub : SubRow, pack : PackRows, balance : Int]
<1>1. /\ d \in Debits /\ Len(d.credit) = Len(wallet.credit) /\ DOMAIN d.credit = DOMAIN wallet.credit
      /\ \A i \in DOMAIN PackCents : d.pack[i] <= Wallet!PacksSeen(o)[i]
      /\ \A i \in DOMAIN wallet.credit : d.credit[i] <= wallet.credit[i].left
  BY SplitInOrder
<1>2. /\ d.sub \in Int /\ d.legacy \in Int
      /\ \A i \in DOMAIN PackCents : d.pack[i] \in Nat
      /\ \A i \in DOMAIN wallet.credit : d.credit[i] \in Nat
  BY <1>1 DEF Debits, PackRows
<1>3. Wallet!SubAfter(o, d) \in SubRow
  <2>1. now \in Nat
    BY DEF WalletRows, WalletRow
  <2>2. Wallet!Project(o.sub) \in SubRow
    BY <2>1, SubFreeTyped
  <2> QED  BY <1>2, <2>2 DEF Wallet!SubAfter, SubRow
<1>4. w.sub \in SubRow
  <2>1. w.sub = [start |-> Wallet!Written(wallet.sub.start, o.sub.start, Wallet!SubAfter(o, d).start),
                 used |-> Wallet!Written(wallet.sub.used, o.sub.used, Wallet!SubAfter(o, d).used)]
    BY DEF Wallet!Debit
  <2> QED  BY <1>3, <2>1 DEF Wallet!Written, SubRow, WalletRows, WalletRow
<1>5. \A i \in DOMAIN PackCents : Wallet!PacksSeen(o)[i] \in Nat /\ wallet.pack[i] \in Nat
  BY SeenTyped DEF PackRows, WalletRows, WalletRow
<1>6. w.pack \in PackRows
  <2>1. w.pack = [i \in DOMAIN PackCents |->
                    IF d.pack[i] > 0 THEN Wallet!PacksSeen(o)[i] - d.pack[i] ELSE wallet.pack[i]]
    BY DEF Wallet!Debit
  <2> QED  BY <1>1, <1>2, <1>5, <2>1 DEF PackRows
<1>7. w.balance \in Int
  BY <1>2 DEF Wallet!Debit, WalletRows, WalletRow
<1>8. w.credit = [i \in DOMAIN wallet.credit |->
                    [wallet.credit[i] EXCEPT !.left = wallet.credit[i].left - d.credit[i]]]
  BY DEF Wallet!Debit
<1>9. ASSUME NEW i \in DOMAIN wallet.credit
      PROVE  /\ w.credit[i] \in Cents /\ w.credit[i].original = wallet.credit[i].original
             /\ w.credit[i].left = wallet.credit[i].left - d.credit[i]
  <2>1. PICK x \in Cents : x = wallet.credit[i]
    BY SourcesTyped
  <2>2. w.credit[i] = [x EXCEPT !.left = x.left - d.credit[i]]
    BY <1>8, <2>1
  <2>3. d.credit[i] \in Nat /\ d.credit[i] <= x.left /\ x.left \in Nat /\ x.original \in Nat
    BY <1>1, <1>2, <2>1 DEF Cents
  <2> QED  BY <2>1, <2>2, <2>3 DEF Cents
<1>10. w.credit \in Seq(Cents) /\ Len(w.credit) = Len(wallet.credit) /\ DOMAIN w.credit = DOMAIN wallet.credit
  <2>1. wallet.credit \in Seq(Cents)
    BY DEF WalletRows, WalletRow
  <2>2. w.credit = [i \in DOMAIN wallet.credit |-> w.credit[i]]
    BY <1>8
  <2>3. \A i \in DOMAIN wallet.credit : w.credit[i] \in Cents
    BY <1>9
  <2> QED  BY <2>1, <2>2, <2>3, SameLength
<1>11. w = [sub |-> w.sub, pack |-> w.pack, credit |-> w.credit, balance |-> w.balance]
  BY DEF Wallet!Debit
<1>12. w \in WalletRow
  BY <1>4, <1>6, <1>7, <1>10, <1>11 DEF WalletRow
<1>13. Wallet!ObjectsAfter(o, d) \in [sub : SubRow, pack : PackRows, balance : Int]
  BY <1>1, <1>2, <1>3, <1>5 DEF Wallet!ObjectsAfter, PackRows
<1> QED  BY <1>9, <1>10, <1>12, <1>13

-----------------------------------------------------------------------------
(* The allocations of jobs. *)

Allocations(i) == Wallet!SumFunction([j \in Jobs |-> Wallet!Allocated(j, i)])

(* What a row has allocated of batch i. *)
AllocatedIn(y, i) ==
  IF y.state # "none" /\ y.refunded = 0 /\ i \in DOMAIN y.debit.credit THEN y.debit.credit[i] ELSE 0

LEMMA AllocatedIs ==
  ASSUME NEW j \in Jobs, NEW i
  PROVE  /\ Wallet!Allocated(j, i) = AllocatedIn(job[j], i)
         /\ Wallet!Allocated(j, i)' = AllocatedIn(job'[j], i)
BY Zenon DEF Wallet!Allocated, Wallet!Stored, AllocatedIn

LEMMA AllocationTyped ==
  ASSUME NEW n \in Nat, NEW j \in Jobs, NEW y, JobRow(y, j, n), NEW i \in Nat
  PROVE  AllocatedIn(y, i) \in Nat /\ (i > n => AllocatedIn(y, i) = 0)
<1>1. CASE y = Wallet!NoJob
  BY <1>1 DEF AllocatedIn, Wallet!NoJob
<1>2. CASE y \in StoredJob(j) /\ Len(y.debit.credit) <= n
  <2>1. PICK c \in Seq(Nat) : c = y.debit.credit
    BY <1>2 DEF StoredJob, Debits
  <2>2. AllocatedIn(y, i) \in {0} \cup (IF i \in DOMAIN c THEN {c[i]} ELSE {})
    BY <2>1 DEF AllocatedIn
  <2>3. PICK lc \in Nat : lc = Len(c) /\ DOMAIN c = 1..lc
    BY SeqPlaces, Zenon
  <2>4. lc <= n
    BY <1>2, <2>1, <2>3
  <2>5. \A k \in 1..lc : c[k] \in Nat
    BY <2>3, SeqPlaces, Zenon
  <2>6. AllocatedIn(y, i) \in {0} \cup (IF i \in 1..lc THEN {c[i]} ELSE {})
    BY <2>2, <2>3
  <2>7. i > n => ~ (i \in 1..lc)
    BY <2>4
  <2> HIDE <2>1
  <2> QED  BY <2>5, <2>6, <2>7
<1> QED  BY <1>1, <1>2 DEF JobRow

LEMMA AllocationsAre ==
  ASSUME NEW f, f = [j \in Jobs |-> f[j]]
  PROVE  Wallet!SumFunction(f) = SumFunctionOnSet(f, Jobs)
<1>1. DOMAIN f = Jobs
  OBVIOUS
<1> QED  BY <1>1, WalletSums, Zenon DEF Wallet!SumFunction

LEMMA JobsFinite == IsFiniteSet(Jobs)
BY WalletAssumed DEF Wallet!WalletAssumption, Wallet!IsFiniteSet, IsFiniteSet

LEMMA AllocationsTyped ==
  ASSUME WalletRows, JobRows, NEW i \in Nat
  PROVE  /\ Allocations(i) \in Nat
         /\ i > Len(wallet.credit) => Allocations(i) = 0
<1>1. PICK f : f = [j \in Jobs |-> Wallet!Allocated(j, i)]
  OBVIOUS
<1>2. f = [j \in Jobs |-> f[j]] /\ \A j \in Jobs : f[j] = Wallet!Allocated(j, i)
  BY <1>1
<1>3. Allocations(i) = SumFunctionOnSet(f, Jobs)
  <2>1. Allocations(i) = Wallet!SumFunction(f)
    BY <1>1, Zenon DEF Allocations
  <2> QED  BY <1>2, <2>1, AllocationsAre
<1>4. \A j \in Jobs : f[j] \in Nat /\ (i > Len(wallet.credit) => f[j] = 0)
  <2>1. PICK n \in Nat : n = Len(wallet.credit)
    BY SourcesTyped, Zenon
  <2>2. \A j \in Jobs : AllocatedIn(job[j], i) \in Nat /\ (i > n => AllocatedIn(job[j], i) = 0)
    BY <2>1, AllocationTyped DEF JobRows
  <2> QED  BY <1>2, <2>1, <2>2, AllocatedIs
<1>5. IsFiniteSet(Jobs)
  BY JobsFinite
<1> HIDE <1>1
<1>6. SumFunctionOnSet(f, Jobs) \in Nat
  BY <1>4, <1>5, SumType
<1>7. i > Len(wallet.credit) => SumFunctionOnSet(f, Jobs) = 0
  BY <1>4, <1>5, SumZero
<1> QED  BY <1>3, <1>6, <1>7

(* Only the job x changes. *)
LEMMA AllocationsChange ==
  ASSUME WalletRows, JobRows, WalletRows', JobRows', NEW i \in Nat,
         NEW x \in Jobs, \A j \in Jobs \ {x} : job'[j] = job[j]
  PROVE  Allocations(i)' = Allocations(i) + Wallet!Allocated(x, i)' - Wallet!Allocated(x, i)
<1>1. PICK f, g : f = [j \in Jobs |-> Wallet!Allocated(j, i)] /\ g = [j \in Jobs |-> Wallet!Allocated(j, i)']
  OBVIOUS
<1>2. /\ f = [j \in Jobs |-> f[j]] /\ \A j \in Jobs : f[j] = Wallet!Allocated(j, i)
      /\ g = [j \in Jobs |-> g[j]] /\ \A j \in Jobs : g[j] = Wallet!Allocated(j, i)'
  BY <1>1
<1>3. Allocations(i) = SumFunctionOnSet(f, Jobs) /\ Allocations(i)' = SumFunctionOnSet(g, Jobs)
  <2>1. Allocations(i) = Wallet!SumFunction(f)
    BY <1>1, Zenon DEF Allocations
  <2>2. Allocations(i)' = Wallet!SumFunction(g)
    BY <1>1, Zenon DEF Allocations
  <2> QED  BY <1>2, <2>1, <2>2, AllocationsAre
<1>4. \A j \in Jobs : f[j] \in Int /\ g[j] \in Int
  <2>1. PICK n \in Nat, m \in Nat : n = Len(wallet.credit) /\ m = Len(wallet'.credit)
    <3>1. wallet.credit \in Seq(Cents) /\ wallet'.credit \in Seq(Cents)
      BY DEF WalletRows, WalletRow
    <3> QED  BY <3>1, SeqPlaces, Zenon
  <2>2. \A j \in Jobs : AllocatedIn(job[j], i) \in Nat /\ AllocatedIn(job'[j], i) \in Nat
    BY <2>1, AllocationTyped DEF JobRows
  <2> QED  BY <1>2, <2>2, AllocatedIs
<1>5. \A j \in Jobs \ {x} : f[j] = g[j]
  <2>1. \A j \in Jobs \ {x} : Wallet!Allocated(j, i)' = Wallet!Allocated(j, i)
    BY AllocatedIs
  <2> QED  BY <1>2, <2>1
<1>6. IsFiniteSet(Jobs)
  BY JobsFinite
<1>7. f[x] = Wallet!Allocated(x, i) /\ g[x] = Wallet!Allocated(x, i)'
  BY <1>2
<1> HIDE <1>1
<1>8. SumFunctionOnSet(g, Jobs) = SumFunctionOnSet(f, Jobs) + g[x] - f[x]
  BY <1>4, <1>5, <1>6, SumChanges
<1> QED  BY <1>3, <1>7, <1>8

(* The equation of batch i. *)
LEMMA BatchBooks ==
  ASSUME NEW i
  PROVE  /\ Wallet!CreditConserved => \A k \in DOMAIN wallet.credit :
              wallet.credit[k].original = wallet.credit[k].left + spent[k] + Allocations(k)
         /\ (\A k \in DOMAIN wallet'.credit :
                 wallet'.credit[k].original = wallet'.credit[k].left + spent'[k] + Allocations(k)')
              => Wallet!CreditConserved'
BY Zenon DEF Wallet!CreditConserved, Allocations

LEMMA BooksKept ==
  ASSUME WalletRows, JobRows, WalletRows', JobRows', Wallet!CreditConserved,
         NEW x \in Jobs, \A j \in Jobs \ {x} : job'[j] = job[j],
         NEW n \in Nat, n = Len(wallet.credit), DOMAIN wallet.credit \subseteq DOMAIN wallet'.credit,
         \A i \in DOMAIN wallet.credit :
           /\ wallet'.credit[i].original = wallet.credit[i].original
           /\ wallet'.credit[i].left + spent'[i] + AllocatedIn(job'[x], i) =
                wallet.credit[i].left + spent[i] + AllocatedIn(job[x], i),
         \A i \in DOMAIN wallet'.credit : i > n =>
           wallet'.credit[i].original = wallet'.credit[i].left + spent'[i] + AllocatedIn(job'[x], i)
  PROVE  Wallet!CreditConserved'
<1>1. SUFFICES ASSUME NEW i \in DOMAIN wallet'.credit
               PROVE  wallet'.credit[i].original = wallet'.credit[i].left + spent'[i] + Allocations(i)'
  BY BatchBooks
<1>2. PICK m \in Nat : m = Len(wallet'.credit) /\ DOMAIN wallet'.credit = 1..m
  <2>1. wallet'.credit \in Seq(Cents)
    BY DEF WalletRows, WalletRow
  <2> QED  BY <2>1, SeqPlaces, Zenon
<1>3. i \in Nat /\ DOMAIN wallet.credit = 1..n
  <2>1. wallet.credit \in Seq(Cents)
    BY DEF WalletRows, WalletRow
  <2>2. DOMAIN wallet.credit = 1..n
    BY <2>1, SeqPlaces, Zenon
  <2> QED  BY <1>2, <2>2
<1>4. PICK A \in Nat, a \in Nat, b \in Nat :
        /\ A = Allocations(i) /\ a = AllocatedIn(job[x], i) /\ b = AllocatedIn(job'[x], i)
        /\ i > n => A = 0 /\ a = 0
  <2>1. Allocations(i) \in Nat /\ (i > n => Allocations(i) = 0)
    BY <1>3, AllocationsTyped
  <2>2. AllocatedIn(job[x], i) \in Nat /\ (i > n => AllocatedIn(job[x], i) = 0)
    BY <1>3, AllocationTyped DEF JobRows
  <2>3. AllocatedIn(job'[x], i) \in Nat
    BY <1>2, <1>3, AllocationTyped DEF JobRows
  <2> QED  BY <2>1, <2>2, <2>3
<1>5. Allocations(i)' = A + b - a
  BY <1>3, <1>4, AllocationsChange, AllocatedIs
<1>6. wallet'.credit[i] \in Cents /\ spent'[i] \in Nat
  BY SeqPlaces DEF WalletRows, WalletRow
<1>7. PICK l \in Nat, p \in Nat : l = wallet'.credit[i].left /\ p = spent'[i]
  BY <1>6 DEF Cents
<1>8. CASE i > n
  BY <1>4, <1>5, <1>7, <1>8
<1>9. CASE i <= n
  <2>1. i \in DOMAIN wallet.credit
    BY <1>2, <1>3, <1>9
  <2>2. wallet.credit[i] \in Cents /\ spent[i] \in Nat
    BY <2>1, SeqPlaces DEF WalletRows, WalletRow
  <2>3. PICK h \in Nat, q \in Nat, g \in Nat :
          h = wallet.credit[i].left /\ q = spent[i] /\ g = wallet.credit[i].original
    BY <2>2 DEF Cents
  <2>4. g = h + q + A
    BY <1>4, <2>1, <2>3, BatchBooks
  <2>5. l + p + b = h + q + a
    BY <1>4, <1>7, <2>1, <2>3
  <2>6. wallet'.credit[i].original = g
    BY <2>1, <2>3
  <2>7. PICK v \in Int : v = Allocations(i)'
    BY <1>5
  <2>8. g = l + p + v
    <3>1. v = A + b - a
      BY <1>5, <2>7
    <3> HIDE <1>4, <1>5, <1>7, <2>3, <2>7
    <3> QED  BY <2>4, <2>5, <3>1
  <2> QED  BY <1>7, <2>6, <2>7, <2>8
<1> QED  BY <1>2, <1>3, <1>8, <1>9

(* No job changes. *)
LEMMA BooksKeptOfJobs ==
  ASSUME WalletRows, JobRows, WalletRows', Wallet!CreditConserved, job' = job,
         DOMAIN wallet'.credit = DOMAIN wallet.credit,
         \A i \in DOMAIN wallet.credit :
           /\ wallet'.credit[i].original = wallet.credit[i].original
           /\ wallet'.credit[i].left + spent'[i] = wallet.credit[i].left + spent[i]
  PROVE  Wallet!CreditConserved'
<1>1. SUFFICES ASSUME NEW i \in DOMAIN wallet'.credit
               PROVE  wallet'.credit[i].original = wallet'.credit[i].left + spent'[i] + Allocations(i)'
  BY BatchBooks
<1>2. i \in DOMAIN wallet.credit /\ i \in Nat
  BY SourcesTyped
<1>3. Allocations(i)' = Allocations(i)
  <2>1. \A j \in Jobs : Wallet!Allocated(j, i)' = Wallet!Allocated(j, i)
    BY AllocatedIs
  <2>2. [j \in Jobs |-> Wallet!Allocated(j, i)'] = [j \in Jobs |-> Wallet!Allocated(j, i)]
    BY <2>1
  <2> QED  BY <2>2, Zenon DEF Allocations
<1>4. wallet.credit[i] \in Cents /\ spent[i] \in Nat /\ wallet'.credit[i] \in Cents /\ spent'[i] \in Nat
  BY <1>2, SeqPlaces DEF WalletRows, WalletRow
<1>5. PICK l \in Nat, p \in Nat, h \in Nat, q \in Nat, A \in Nat :
        /\ l = wallet'.credit[i].left /\ p = spent'[i] /\ h = wallet.credit[i].left /\ q = spent[i]
        /\ A = Allocations(i)
  BY <1>2, <1>4, AllocationsTyped DEF Cents
<1>6. wallet.credit[i].original = h + q + A
  BY <1>2, <1>5, BatchBooks
<1>7. l + p = h + q /\ wallet'.credit[i].original = wallet.credit[i].original
  BY <1>2, <1>5
<1> QED  BY <1>3, <1>5, <1>6, <1>7

(* What a refund of d leaves of n batches. *)
Restores(r, w, d, n) ==
  /\ r \in WalletRow /\ Len(r.credit) >= n /\ DOMAIN w.credit \subseteq DOMAIN r.credit
  /\ \A i \in DOMAIN w.credit :
       /\ r.credit[i].original = w.credit[i].original
       /\ r.credit[i].left = w.credit[i].left + (IF i \in DOMAIN d.credit THEN d.credit[i] ELSE 0)
  /\ \A i \in DOMAIN r.credit : i > n => r.credit[i].original = r.credit[i].left

LEMMA RefundRows ==
  ASSUME now \in Nat, NEW w \in WalletRow, NEW o, o.sub \in SubRow, o.pack \in PackRows,
         o.balance \in Int, NEW d \in Debits, NEW n \in Nat, n = Len(w.credit), Len(d.credit) <= n,
         NEW r, r = Wallet!Refund(w, o, d)
  PROVE  Restores(r, w, d, n)
<1>1. PICK c \in Seq(Cents) : c = w.credit
  BY DEF WalletRow
<1>2. PICK e \in Seq(Nat) : e = d.credit
  BY DEF Debits
<1>3. PICK z : z = Wallet!Restored(c, d)
  OBVIOUS
<1>4. Len(c) = n /\ DOMAIN c = 1..n /\ \A i \in 1..n : c[i] \in Cents
  BY <1>1, SeqPlaces, Zenon
<1>5. \A i \in DOMAIN e : e[i] \in Nat
  BY SeqPlaces, Zenon
<1>6. z = [i \in 1..n |-> IF i \in DOMAIN e THEN [c[i] EXCEPT !.left = c[i].left + e[i]] ELSE c[i]]
  BY <1>2, <1>3, <1>4 DEF Wallet!Restored
<1>7. ASSUME NEW i \in 1..n
      PROVE  /\ z[i] \in Cents /\ z[i].original = c[i].original
             /\ z[i].left = c[i].left + (IF i \in DOMAIN e THEN e[i] ELSE 0)
  <2>1. PICK y \in Cents : y = c[i]
    BY <1>4
  <2>2. z[i] = IF i \in DOMAIN e THEN [y EXCEPT !.left = y.left + e[i]] ELSE y
    BY <1>6, <2>1
  <2>3. y.left \in Nat /\ y.original \in Nat
    BY DEF Cents
  <2>4. CASE i \in DOMAIN e
    <3>1. e[i] \in Nat /\ z[i] = [y EXCEPT !.left = y.left + e[i]]
      BY <1>5, <2>2, <2>4
    <3>2. PICK k \in Nat : k = e[i]
      BY <3>1
    <3>3. z[i] = [y EXCEPT !.left = y.left + k]
      BY <3>1, <3>2
    <3>4. z[i] \in Cents
      <4>1. PICK l \in Nat : l = y.left + k
        BY <2>3
      <4>2. [y EXCEPT !.left = l] \in Cents
        BY DEF Cents
      <4> QED  BY <3>3, <4>1, <4>2
    <3>5. z[i].original = y.original /\ z[i].left = y.left + k
      BY <2>3, <3>3 DEF Cents
    <3> QED  BY <2>1, <2>4, <3>2, <3>4, <3>5
  <2>5. CASE i \notin DOMAIN e
    BY <2>1, <2>2, <2>3, <2>5
  <2> QED  BY <2>4, <2>5
<1>8. z \in Seq(Cents) /\ Len(z) = n /\ DOMAIN z = 1..n
  <2>1. z = [i \in DOMAIN c |-> z[i]] /\ \A i \in DOMAIN c : z[i] \in Cents
    BY <1>4, <1>6, <1>7
  <2>2. z \in Seq(Cents) /\ Len(z) = Len(c) /\ DOMAIN z = DOMAIN c
    BY <2>1, SameLength
  <2> QED  BY <1>4, <2>2
<1> DEFINE gone == d.sub > 0 /\ Wallet!PoolGone(o.sub, d.at)
           added == [original |-> d.sub, left |-> d.sub]
<1>9. r.credit = IF gone THEN Append(z, added) ELSE z
  BY <1>1, <1>3 DEF Wallet!Refund
<1>10. gone => added \in Cents
  BY DEF Cents, Debits
<1> HIDE DEF gone, added
<1>11. /\ r.credit \in Seq(Cents) /\ Len(r.credit) \in Nat /\ Len(r.credit) >= n
       /\ DOMAIN r.credit = 1..Len(r.credit) /\ Len(r.credit) \in {n, n + 1}
       /\ \A i \in 1..n : r.credit[i] = z[i]
       /\ gone => r.credit[n + 1] = added
       /\ ~ gone => Len(r.credit) = n
  <2>1. CASE gone
    <3>1. PICK y \in Cents : y = added
      BY <1>10, <2>1
    <3>2. r.credit = Append(z, y)
      BY <1>9, <2>1, <3>1
    <3>3. /\ Append(z, y) \in Seq(Cents) /\ Len(Append(z, y)) = n + 1 /\ Append(z, y)[n + 1] = y
          /\ DOMAIN Append(z, y) = 1..(n + 1) /\ \A i \in 1..n : Append(z, y)[i] = z[i]
      BY <1>8
    <3> QED  BY <2>1, <3>1, <3>2, <3>3
  <2>2. CASE ~ gone
    BY <1>8, <1>9, <2>2
  <2> QED  BY <2>1, <2>2
<1>12. /\ d.sub \in Int /\ d.legacy \in Int /\ \A i \in DOMAIN PackCents : d.pack[i] \in Nat
       /\ \A i \in DOMAIN PackCents : o.pack[i] \in Nat /\ w.pack[i] \in Nat
       /\ w.sub \in SubRow /\ w.balance \in Int
  BY DEF Debits, PackRows, WalletRow
<1>13. r.pack \in PackRows
  <2>1. r.pack = [i \in DOMAIN PackCents |-> IF d.pack[i] > 0 THEN o.pack[i] + d.pack[i] ELSE w.pack[i]]
    BY DEF Wallet!Refund
  <2> QED  BY <1>12, <2>1 DEF PackRows
<1>14. r.sub \in SubRow
  <2>1. r.sub \in {w.sub, [w.sub EXCEPT !.used = Wallet!AtLeast0(o.sub.used - d.sub)]}
    BY DEF Wallet!Refund
  <2>2. PICK u \in Int : u = Wallet!AtLeast0(o.sub.used - d.sub)
    <3>1. o.sub.used \in Int
      BY DEF SubRow
    <3> QED  BY <1>12, <3>1 DEF Wallet!AtLeast0
  <2> QED  BY <1>12, <2>1, <2>2 DEF SubRow
<1>15. r.balance \in Int
  <2>1. r.balance \in {w.balance, o.balance + d.legacy}
    BY DEF Wallet!Refund
  <2>2. o.balance + d.legacy \in Int
    BY <1>12
  <2> QED  BY <1>12, <2>1, <2>2
<1>16. r = [sub |-> r.sub, pack |-> r.pack, credit |-> r.credit, balance |-> r.balance]
  BY DEF Wallet!Refund
<1>17. r \in WalletRow
  BY <1>11, <1>13, <1>14, <1>15, <1>16 DEF WalletRow
<1>18. \A i \in DOMAIN w.credit :
         /\ r.credit[i].original = w.credit[i].original
         /\ r.credit[i].left = w.credit[i].left + (IF i \in DOMAIN d.credit THEN d.credit[i] ELSE 0)
  BY <1>1, <1>2, <1>4, <1>7, <1>11
<1>19. \A i \in DOMAIN r.credit : i > n => r.credit[i].original = r.credit[i].left
  <2>1. \A i \in DOMAIN r.credit : i > n => gone /\ i = n + 1
    BY <1>11
  <2>2. added.original = added.left
    BY DEF added
  <2> QED  BY <1>11, <2>1, <2>2
<1>20. DOMAIN w.credit \subseteq DOMAIN r.credit
  BY <1>1, <1>4, <1>11
<1> QED  BY <1>11, <1>17, <1>18, <1>19, <1>20 DEF Restores

-----------------------------------------------------------------------------
(* The steps. *)

LEMMA SessionMoves ==
  ASSUME SessionRows, JobsApart, NEW s \in Sessions, NEW x, SessionRow(x),
         sess' = [sess EXCEPT ![s] = x],
         \A t \in Sessions \ {s} : sess[t].job # None =>
           (job'[sess[t].job].state = "none" <=> job[sess[t].job].state = "none"),
         x.job # None =>
           /\ x.pc = "querying" <=> job'[x.job].state # "none"
           /\ x.pc # "querying" => \A t \in Sessions \ {s} : sess[t].job # x.job
  PROVE  SessionRows' /\ JobsApart'
<1>1. sess'[s] = x /\ \A t \in Sessions \ {s} : sess'[t] = sess[t]
  BY DEF SessionRows
<1>2. SessionRows'
  <2>1. sess' = [t \in Sessions |-> sess'[t]]
    BY DEF SessionRows
  <2>2. \A t \in Sessions : SessionRow(sess'[t])
    BY <1>1 DEF SessionRows
  <2> QED  BY <2>1, <2>2 DEF SessionRows
<1>3. ASSUME NEW t \in Sessions, sess'[t].job # None
      PROVE  /\ sess'[t].pc = "querying" <=> job'[sess'[t].job].state # "none"
             /\ sess'[t].pc # "querying" => \A u \in Sessions \ {t} : sess'[u].job # sess'[t].job
  <2>1. CASE t = s
    BY <1>1, <1>3, <2>1
  <2>2. CASE t # s
    <3>1. sess'[t] = sess[t] /\ sess[t].job # None
      BY <1>1, <1>3, <2>2
    <3>2. sess[t].pc = "querying" <=> job'[sess[t].job].state # "none"
      BY <2>2, <3>1 DEF JobsApart
    <3>3. ASSUME sess[t].pc # "querying", NEW u \in Sessions \ {t} PROVE sess'[u].job # sess[t].job
      <4>1. CASE u # s
        BY <1>1, <3>1, <3>3, <4>1 DEF JobsApart
      <4>2. CASE u = s
        BY <1>1, <2>2, <3>1, <3>2, <3>3, <4>2
      <4> QED  BY <4>1, <4>2
    <3> QED  BY <3>1, <3>2, <3>3
  <2> QED  BY <2>1, <2>2
<1>4. JobsApart'
  BY <1>3 DEF JobsApart
<1> QED  BY <1>2, <1>4

(* Neither sessions nor jobs change. *)
LEMMA SessionsStay ==
  ASSUME SessionRows, JobsApart, UNCHANGED <<sess, job>>
  PROVE  SessionRows' /\ JobsApart'
BY DEF SessionRows, JobsApart

(* The batches before and after a step. *)
LEMMA Lengths ==
  ASSUME WalletRows, WalletRows'
  PROVE  \E n \in Nat, m \in Nat : /\ n = Len(wallet.credit) /\ DOMAIN wallet.credit = 1..n
                                  /\ m = Len(wallet'.credit) /\ DOMAIN wallet'.credit = 1..m
<1>1. wallet.credit \in Seq(Cents) /\ wallet'.credit \in Seq(Cents)
  BY DEF WalletRows, WalletRow
<1> QED  BY <1>1, SeqPlaces, Zenon

(* The jobs do not change, and no batch goes. *)
LEMMA JobsStay ==
  ASSUME WalletRows, WalletRows', JobRows, Wallet!RefundedExactly, job' = job,
         Len(wallet'.credit) >= Len(wallet.credit)
  PROVE  JobRows' /\ Wallet!RefundedExactly'
<1>1. Wallet!RefundedExactly'
  BY DEF Wallet!RefundedExactly, Wallet!Stored
<1>2. PICK n \in Nat, m \in Nat : n = Len(wallet.credit) /\ m = Len(wallet'.credit)
  BY Lengths
<1>3. ASSUME NEW j \in Jobs PROVE JobRow(job'[j], j, m)
  <2>1. JobRow(job[j], j, n) /\ job'[j] = job[j] /\ n <= m
    BY <1>2 DEF JobRows
  <2>2. CASE job[j] \in StoredJob(j) /\ Len(job[j].debit.credit) <= n
    <3>1. Len(job[j].debit.credit) \in Nat
      <4>1. job[j].debit.credit \in Seq(Nat)
        BY <2>2 DEF StoredJob, Debits
      <4> QED  BY <4>1, SeqPlaces, Zenon
    <3>2. Len(job[j].debit.credit) <= m
      BY <2>1, <2>2, <3>1
    <3> QED  BY <2>1, <2>2, <3>2 DEF JobRow
  <2> QED  BY <2>1, <2>2 DEF JobRow
<1> QED  BY <1>1, <1>2, <1>3 DEF JobRows

(* One job gets a row y; the others stay. *)
LEMMA JobMoves ==
  ASSUME WalletRows, WalletRows', JobRows, Wallet!RefundedExactly, NEW x \in Jobs, NEW y \in StoredJob(x),
         Len(y.debit.credit) <= Len(wallet'.credit), job' = [job EXCEPT ![x] = y],
         Len(wallet'.credit) >= Len(wallet.credit),
         y.refunded = IF y.state = "failed" THEN Price[x] ELSE 0
  PROVE  /\ JobRows' /\ Wallet!RefundedExactly'
         /\ job'[x] = y /\ \A j \in Jobs \ {x} : job'[j] = job[j]
<1>1. job'[x] = y /\ \A j \in Jobs \ {x} : job'[j] = job[j]
  BY DEF JobRows
<1>2. PICK n \in Nat, m \in Nat : n = Len(wallet.credit) /\ m = Len(wallet'.credit)
  BY Lengths
<1>3. ASSUME NEW j \in Jobs PROVE JobRow(job'[j], j, m)
  <2>1. CASE j = x
    BY <1>1, <1>2, <2>1 DEF JobRow
  <2>2. CASE j # x
    <3>1. JobRow(job[j], j, n) /\ job'[j] = job[j] /\ n <= m
      BY <1>1, <1>2, <2>2 DEF JobRows
    <3>2. CASE job[j] \in StoredJob(j) /\ Len(job[j].debit.credit) <= n
      <4>1. Len(job[j].debit.credit) \in Nat
        <5>1. job[j].debit.credit \in Seq(Nat)
          BY <3>2 DEF StoredJob, Debits
        <5> QED  BY <5>1, SeqPlaces, Zenon
      <4>2. Len(job[j].debit.credit) <= m
        BY <3>1, <3>2, <4>1
      <4> QED  BY <3>1, <3>2, <4>2 DEF JobRow
    <3> QED  BY <3>1, <3>2 DEF JobRow
  <2> QED  BY <2>1, <2>2
<1>4. JobRows'
  <2>1. job' = [j \in Jobs |-> job'[j]]
    BY DEF JobRows
  <2> QED  BY <1>2, <1>3, <2>1 DEF JobRows
<1>5. Wallet!RefundedExactly'
  <2>1. ASSUME NEW j \in Jobs, job'[j].state # "none"
        PROVE  job'[j].refunded = IF job'[j].state = "failed" THEN Price[j] ELSE 0
    <3>1. CASE j = x
      BY <1>1, <3>1
    <3>2. CASE j # x
      BY <1>1, <2>1, <3>2 DEF Wallet!RefundedExactly, Wallet!Stored
    <3> QED  BY <3>1, <3>2
  <2> QED  BY <2>1 DEF Wallet!RefundedExactly, Wallet!Stored
<1> QED  BY <1>1, <1>4, <1>5

(* Nothing happens to the rows. *)
LEMMA RowsStay ==
  ASSUME WalletRows, JobRows, Wallet!CreditConserved, Wallet!RefundedExactly, now' \in Nat,
         UNCHANGED <<wallet, spent, job>>
  PROVE  WalletRows' /\ JobRows' /\ Wallet!CreditConserved' /\ Wallet!RefundedExactly'
<1>1. WalletRows'
  BY DEF WalletRows
<1>2. JobRows'
  BY DEF JobRows
<1>3. Wallet!RefundedExactly'
  BY DEF Wallet!RefundedExactly, Wallet!Stored
<1>4. Wallet!CreditConserved'
  <2>1. \A i \in DOMAIN wallet.credit : wallet.credit[i].left + spent[i] = wallet.credit[i].left + spent[i]
    OBVIOUS
  <2> QED  BY <1>1, BooksKeptOfJobs
<1> QED  BY <1>1, <1>2, <1>3, <1>4

(* The rows as a debit takes them are typed. *)
LEMMA RowsNow ==
  ASSUME WalletRows
  PROVE  Wallet!Rows.sub \in SubRow /\ Wallet!Rows.pack \in PackRows /\ Wallet!Rows.balance \in Int
BY DEF WalletRows, WalletRow, Wallet!Rows

(* Time passes. *)
LEMMA TickKeeps ==
  ASSUME WalletInv, Wallet!Tick
  PROVE  WalletInv'
<1>1. now' \in Nat /\ UNCHANGED <<wallet, spent, job, sess>>
  BY DEF Wallet!Tick, WalletInv, WalletRows
<1> QED  BY <1>1, RowsStay, SessionsStay DEF WalletInv

(* A flush debits the cost of requests. *)
LEMMA FlushKeeps ==
  ASSUME WalletInv, NEW c \in Costs, Wallet!Flush(c)
  PROVE  WalletInv'
<1> USE DEF WalletInv
<1>1. c \in Nat
  BY WalletAssumed DEF Wallet!WalletAssumption
<1>2. PICK d : d = Wallet!Split(Wallet!Rows, c)
  OBVIOUS
<1>3. /\ wallet' = Wallet!Debit(Wallet!Rows, d) /\ UNCHANGED <<now, job, sess>>
      /\ spent' = [i \in DOMAIN spent |-> spent[i] + d.credit[i]]
  BY <1>2 DEF Wallet!Flush
<1>4. /\ wallet' \in WalletRow /\ DOMAIN wallet'.credit = DOMAIN wallet.credit
      /\ Len(wallet'.credit) = Len(wallet.credit)
      /\ \A i \in DOMAIN wallet.credit : /\ wallet'.credit[i].original = wallet.credit[i].original
                                         /\ wallet'.credit[i].left = wallet.credit[i].left - d.credit[i]
  BY <1>1, <1>2, <1>3, RowsNow, DebitInOrder
<1>5. d \in Debits /\ DOMAIN d.credit = DOMAIN wallet.credit
  BY <1>1, <1>2, RowsNow, SplitInOrder
<1>6. \A i \in DOMAIN wallet.credit : d.credit[i] \in Nat /\ spent[i] \in Nat /\ wallet.credit[i].left \in Nat
  <2>1. d.credit \in Seq(Nat) /\ spent \in [DOMAIN wallet.credit -> Nat]
    BY <1>5 DEF Debits, WalletRows
  <2>2. \A i \in DOMAIN d.credit : d.credit[i] \in Nat
    BY <2>1, SeqPlaces, Zenon
  <2>3. \A i \in DOMAIN wallet.credit : wallet.credit[i] \in Cents
    BY SourcesTyped
  <2> QED  BY <1>5, <2>1, <2>2, <2>3 DEF Cents
<1>7. DOMAIN spent = DOMAIN wallet.credit
  BY DEF WalletRows
<1>8. spent' \in [DOMAIN wallet'.credit -> Nat]
  BY <1>3, <1>4, <1>6, <1>7
<1>9. WalletRows'
  BY <1>3, <1>4, <1>8 DEF WalletRows
<1>10. JobRows' /\ Wallet!RefundedExactly'
  <2>1. Len(wallet'.credit) >= Len(wallet.credit)
    BY <1>4, SourcesTyped
  <2> QED  BY <1>3, <1>9, <2>1, JobsStay
<1>11. \A i \in DOMAIN wallet.credit :
         wallet'.credit[i].left + spent'[i] = wallet.credit[i].left + spent[i]
  BY <1>3, <1>4, <1>6, <1>7
<1>12. Wallet!CreditConserved'
  BY <1>3, <1>4, <1>9, <1>11, BooksKeptOfJobs
<1> QED  BY <1>3, <1>9, <1>10, <1>12, SessionsStay

(* A session loads the rows. *)
LEMMA LoadKeeps ==
  ASSUME WalletInv, NEW s \in Sessions, NEW j \in Jobs \cup {None}, Wallet!Load(s, j)
  PROVE  WalletInv'
<1> USE DEF WalletInv
<1>1. UNCHANGED <<now, wallet, spent, job>>
  BY DEF Wallet!Load
<1>2. PICK x : x = [pc |-> "loaded", job |-> j, balance |-> wallet.balance,
                    sub |-> wallet.sub, normal |-> Wallet!Project(wallet.sub)]
  OBVIOUS
<1>3. sess' = [sess EXCEPT ![s] = x]
  BY <1>2 DEF Wallet!Load
<1>4. SessionRow(x)
  <2>1. wallet.sub \in SubRow /\ wallet.balance \in Int /\ now \in Nat
    BY DEF WalletRows, WalletRow
  <2>2. Wallet!Project(wallet.sub) \in SubRow
    BY <2>1, SubFreeTyped
  <2> QED  BY <1>2, <2>1, <2>2 DEF SessionRow
<1>5. x.job # None => job[j].state = "none" /\ \A t \in Sessions : sess[t].job # j
  BY <1>2 DEF Wallet!Load
<1>6. x.job = j /\ x.pc = "loaded"
  BY <1>2
<1>7. SessionRows' /\ JobsApart'
  BY <1>1, <1>3, <1>4, <1>5, <1>6, SessionMoves
<1>8. now' \in Nat
  BY <1>1 DEF WalletRows
<1> QED  BY <1>1, <1>7, <1>8, RowsStay

(* A session that has ended is typed, and has no job. *)
LEMMA IdleRow == SessionRow(Wallet!Idle) /\ Wallet!Idle.job = None
BY DEF SessionRow, Wallet!Idle

(* A request is authorized: the normalized subscription is stored. *)
LEMMA AuthorizeKeeps ==
  ASSUME WalletInv, NEW s \in Sessions, Wallet!Authorize(s)
  PROVE  WalletInv'
<1> USE DEF WalletInv
<1>1. PICK o : o = sess[s]
  OBVIOUS
<1>2. /\ o.pc = "loaded" /\ UNCHANGED <<now, spent, job>>
      /\ wallet' = [wallet EXCEPT !.sub =
                      [start |-> Wallet!Written(wallet.sub.start, o.sub.start, o.normal.start),
                       used |-> Wallet!Written(wallet.sub.used, o.sub.used, o.normal.used)]]
      /\ IF o.job = None THEN sess' = [sess EXCEPT ![s] = Wallet!Idle]
           ELSE sess' = [sess EXCEPT ![s] = [pc |-> "authorized", job |-> o.job, balance |-> o.balance]]
  BY <1>1 DEF Wallet!Authorize, Wallet!Close
<1>3. o \in [pc : {"loaded"}, job : Jobs \cup {None}, balance : Int, sub : SubRow, normal : SubRow]
  BY <1>1, <1>2 DEF SessionRows, SessionRow, Wallet!Idle
<1>4. wallet' \in WalletRow /\ wallet'.credit = wallet.credit
  <2>1. PICK v \in SubRow : v = [start |-> Wallet!Written(wallet.sub.start, o.sub.start, o.normal.start),
                                 used |-> Wallet!Written(wallet.sub.used, o.sub.used, o.normal.used)]
    BY <1>3 DEF Wallet!Written, SubRow, WalletRows, WalletRow
  <2> QED  BY <1>2, <2>1 DEF WalletRows, WalletRow
<1>5. WalletRows'
  BY <1>2, <1>4 DEF WalletRows
<1>6. JobRows' /\ Wallet!RefundedExactly'
  <2>1. Len(wallet'.credit) >= Len(wallet.credit)
    BY <1>4, SourcesTyped
  <2> QED  BY <1>2, <1>5, <2>1, JobsStay
<1>7. Wallet!CreditConserved'
  <2>1. \A i \in DOMAIN wallet.credit :
          /\ wallet'.credit[i].original = wallet.credit[i].original
          /\ wallet'.credit[i].left + spent'[i] = wallet.credit[i].left + spent[i]
    BY <1>2, <1>4
  <2> QED  BY <1>2, <1>4, <1>5, <2>1, BooksKeptOfJobs
<1>8. SessionRows' /\ JobsApart'
  <2>1. CASE o.job = None
    BY <1>2, <2>1, IdleRow, SessionMoves
  <2>2. CASE o.job # None
    <3>1. PICK x : x = [pc |-> "authorized", job |-> o.job, balance |-> o.balance]
      OBVIOUS
    <3>2. SessionRow(x) /\ x.job = o.job /\ x.pc = "authorized"
      BY <1>3, <2>2, <3>1 DEF SessionRow
    <3>3. /\ job[o.job].state = "none"
          /\ \A t \in Sessions \ {s} : sess[t].job # o.job
      BY <1>1, <1>2, <2>2 DEF JobsApart
    <3>4. sess' = [sess EXCEPT ![s] = x]
      BY <1>2, <2>2, <3>1
    <3> QED  BY <1>2, <3>2, <3>3, <3>4, SessionMoves
  <2> QED  BY <2>1, <2>2
<1> QED  BY <1>5, <1>6, <1>7, <1>8

(* The upstream is asked for a new job. *)
LEMMA AskKeeps ==
  ASSUME WalletInv, NEW s \in Sessions, Wallet!Ask(s)
  PROVE  WalletInv'
<1> USE DEF WalletInv
<1>1. UNCHANGED <<now, wallet, spent, job>> /\ sess[s].pc = "authorized"
  BY DEF Wallet!Ask
<1>2. PICK x : x = [pc |-> "asking", job |-> sess[s].job, balance |-> sess[s].balance, sub |-> wallet.sub,
                    pack |-> [i \in DOMAIN PackCents |-> IF Wallet!ActivePack(i) THEN wallet.pack[i] ELSE 0]]
  OBVIOUS
<1>3. sess' = [sess EXCEPT ![s] = x]
  BY <1>2 DEF Wallet!Ask
<1>4. sess[s] \in [pc : {"authorized", "querying"}, job : Jobs, balance : Int]
  BY <1>1 DEF SessionRows, SessionRow, Wallet!Idle
<1>5. SessionRow(x) /\ x.job = sess[s].job /\ x.pc = "asking" /\ sess[s].job # None
  <2>1. wallet.sub \in SubRow /\ wallet.pack \in PackRows
    BY DEF WalletRows, WalletRow
  <2>2. x.pack \in PackRows
    BY <1>2, <2>1 DEF PackRows
  <2>3. sess[s].job \in Jobs /\ sess[s].balance \in Int
    BY <1>4
  <2>4. None \notin Jobs
    BY WalletAssumed DEF Wallet!WalletAssumption
  <2> QED  BY <1>2, <2>1, <2>2, <2>3, <2>4 DEF SessionRow
<1>6. /\ job[x.job].state = "none"
      /\ \A t \in Sessions \ {s} : sess[t].job # x.job
  BY <1>1, <1>5 DEF JobsApart
<1>7. SessionRows' /\ JobsApart'
  BY <1>1, <1>3, <1>5, <1>6, SessionMoves
<1>8. now' \in Nat
  BY <1>1 DEF WalletRows
<1> QED  BY <1>1, <1>7, <1>8, RowsStay

(* The upstream refuses it. *)
LEMMA RefuseKeeps ==
  ASSUME WalletInv, NEW s \in Sessions, Wallet!Refuse(s)
  PROVE  WalletInv'
<1> USE DEF WalletInv
<1>1. UNCHANGED <<now, wallet, spent, job>> /\ sess' = [sess EXCEPT ![s] = Wallet!Idle]
  BY DEF Wallet!Refuse, Wallet!Close
<1>2. SessionRows' /\ JobsApart'
  BY <1>1, IdleRow, SessionMoves
<1>3. now' \in Nat
  BY <1>1 DEF WalletRows
<1> QED  BY <1>1, <1>2, <1>3, RowsStay

(* A stored job is loaded, to be polled. *)
LEMMA QueryKeeps ==
  ASSUME WalletInv, NEW s \in Sessions, NEW j \in Jobs, Wallet!Query(s, j)
  PROVE  WalletInv'
<1> USE DEF WalletInv
<1>1. UNCHANGED <<now, wallet, spent, job>> /\ job[j].state = "open"
  BY DEF Wallet!Query
<1>2. PICK x : x = [pc |-> "querying", job |-> j, balance |-> wallet.balance]
  OBVIOUS
<1>3. sess' = [sess EXCEPT ![s] = x]
  BY <1>2 DEF Wallet!Query
<1>4. SessionRow(x) /\ x.job = j /\ x.pc = "querying"
  <2>1. wallet.balance \in Int
    BY DEF WalletRows, WalletRow
  <2> QED  BY <1>2, <2>1 DEF SessionRow
<1>5. SessionRows' /\ JobsApart'
  BY <1>1, <1>3, <1>4, SessionMoves
<1>6. now' \in Nat
  BY <1>1 DEF WalletRows
<1> QED  BY <1>1, <1>5, <1>6, RowsStay

(* The job of a session that has asked the upstream is stored. *)
LEMMA AskedJob ==
  ASSUME WalletInv, NEW s \in Sessions, sess[s].pc = "querying"
  PROVE  /\ sess[s].job \in Jobs /\ sess[s].balance \in Int /\ job[sess[s].job] \in StoredJob(sess[s].job)
         /\ Len(job[sess[s].job].debit.credit) <= Len(wallet.credit)
         /\ ~ Wallet!Terminal(sess[s].job) =>
              job[sess[s].job].state = "open" /\ job[sess[s].job].refunded = 0
<1>1. sess[s] \in [pc : {"authorized", "querying"}, job : Jobs, balance : Int]
  BY DEF WalletInv, SessionRows, SessionRow, Wallet!Idle
<1>2. PICK j \in Jobs : j = sess[s].job
  BY <1>1
<1>3. j # None
  BY WalletAssumed DEF Wallet!WalletAssumption
<1>4. job[j].state # "none"
  BY <1>2, <1>3 DEF WalletInv, JobsApart
<1>5. job[j] \in StoredJob(j) /\ Len(job[j].debit.credit) <= Len(wallet.credit)
  <2>1. JobRow(job[j], j, Len(wallet.credit))
    BY DEF WalletInv, JobRows
  <2> QED  BY <1>4, <2>1 DEF JobRow, Wallet!NoJob
<1>6. job[j].state \in {"open", "completed", "failed"}
  BY <1>5 DEF StoredJob
<1>7. ~ Wallet!Terminal(j) => job[j].state = "open"
  BY <1>6 DEF Wallet!Terminal
<1>8. job[j].state = "open" => job[j].refunded = 0
  BY DEF WalletInv, Wallet!RefundedExactly, Wallet!Stored
<1> QED  BY <1>1, <1>2, <1>5, <1>7, <1>8

(* The upstream answers the poll. *)
LEMMA AnsweredKeeps ==
  ASSUME WalletInv, NEW s \in Sessions, NEW state \in {"open", "completed"}, Wallet!Answered(s, state)
  PROVE  WalletInv'
<1> USE DEF WalletInv
<1>1. PICK j \in Jobs : j = sess[s].job
  BY AskedJob DEF Wallet!Answered
<1>2. /\ UNCHANGED <<now, wallet, spent>> /\ sess[s].pc = "querying"
      /\ sess' = [sess EXCEPT ![s] = Wallet!Idle]
      /\ job' = IF Wallet!Terminal(j) THEN job ELSE [job EXCEPT ![j].state = state]
  BY <1>1 DEF Wallet!Answered, Wallet!Close
<1>3. CASE Wallet!Terminal(j)
  <2>1. UNCHANGED <<now, wallet, spent, job>>
    BY <1>2, <1>3
  <2>2. SessionRows' /\ JobsApart'
    BY <1>2, <2>1, IdleRow, SessionMoves
  <2>3. now' \in Nat
    BY <1>2 DEF WalletRows
  <2> QED  BY <2>1, <2>2, <2>3, RowsStay
<1>4. CASE ~ Wallet!Terminal(j)
  <2>1. /\ job[j] \in StoredJob(j) /\ Len(job[j].debit.credit) <= Len(wallet.credit)
        /\ job[j].state = "open" /\ job[j].refunded = 0
    BY <1>1, <1>2, <1>4, AskedJob
  <2>2. PICK y : y = [job[j] EXCEPT !.state = state]
    OBVIOUS
  <2>3. y \in StoredJob(j) /\ y.state = state /\ y.debit = job[j].debit /\ y.refunded = 0
    BY <2>1, <2>2 DEF StoredJob
  <2>4. job' = [job EXCEPT ![j] = y]
    BY <1>2, <1>4, <2>2
  <2>5. WalletRows'
    BY <1>2 DEF WalletRows
  <2>6. PICK n \in Nat : n = Len(wallet.credit) /\ DOMAIN wallet.credit = 1..n
    BY Lengths, <2>5
  <2>7. /\ JobRows' /\ Wallet!RefundedExactly'
        /\ job'[j] = y /\ \A k \in Jobs \ {j} : job'[k] = job[k]
    <3>1. Len(y.debit.credit) <= Len(wallet'.credit) /\ Len(wallet'.credit) >= Len(wallet.credit)
      BY <1>2, <2>1, <2>3, <2>6
    <3>2. y.refunded = IF y.state = "failed" THEN Price[j] ELSE 0
      BY <2>3
    <3> QED  BY <2>3, <2>4, <2>5, <3>1, <3>2, JobMoves
  <2>8. \A i \in DOMAIN wallet.credit : AllocatedIn(y, i) = AllocatedIn(job[j], i)
    BY <2>1, <2>3 DEF AllocatedIn
  <2>9. Wallet!CreditConserved'
    <3>1. /\ DOMAIN wallet.credit \subseteq DOMAIN wallet'.credit
          /\ \A i \in DOMAIN wallet.credit :
               /\ wallet'.credit[i].original = wallet.credit[i].original
               /\ wallet'.credit[i].left + spent'[i] + AllocatedIn(job'[j], i) =
                    wallet.credit[i].left + spent[i] + AllocatedIn(job[j], i)
      BY <1>2, <2>7, <2>8
    <3>2. \A i \in DOMAIN wallet'.credit : ~ (i > n)
      BY <1>2, <2>6
    <3> QED  BY <2>5, <2>6, <2>7, <3>1, <3>2, BooksKept
  <2>10. SessionRows' /\ JobsApart'
    <3>1. \A t \in Sessions \ {s} : sess[t].job # None =>
            (job'[sess[t].job].state = "none" <=> job[sess[t].job].state = "none")
      <4>1. \A t \in Sessions : sess[t].job # None => sess[t].job \in Jobs
        BY DEF SessionRows, SessionRow, Wallet!Idle
      <4> QED  BY <2>1, <2>3, <2>7, <4>1
    <3> QED  BY <1>2, <3>1, IdleRow, SessionMoves
  <2> QED  BY <2>5, <2>7, <2>9, <2>10
<1> QED  BY <1>3, <1>4

(* The job failed: its debit is refunded once. *)
LEMMA FailedKeeps ==
  ASSUME WalletInv, NEW s \in Sessions, Wallet!Failed(s)
  PROVE  WalletInv'
<1> USE DEF WalletInv
<1>1. PICK j \in Jobs : j = sess[s].job
  BY AskedJob DEF Wallet!Failed
<1>2. PICK d, o, r : /\ d = job[j].debit /\ o = [Wallet!Rows EXCEPT !.balance = sess[s].balance]
                     /\ r = Wallet!Refund(wallet, o, d)
  OBVIOUS
<1>3. /\ UNCHANGED now /\ sess[s].pc = "querying"
      /\ sess' = [sess EXCEPT ![s] = Wallet!Idle]
      /\ \/ UNCHANGED <<wallet, spent, job>>
         \/ /\ ~ Wallet!Terminal(j)
            /\ wallet' = r /\ spent' = Wallet!Extended(spent, r)
            /\ job' = [job EXCEPT ![j].state = "failed", ![j].refunded = @ + Price[j]]
  BY <1>1, <1>2 DEF Wallet!Failed, Wallet!Close
<1>4. CASE UNCHANGED <<wallet, spent, job>>
  <2>1. SessionRows' /\ JobsApart'
    BY <1>3, <1>4, IdleRow, SessionMoves
  <2>2. now' \in Nat
    BY <1>3 DEF WalletRows
  <2> QED  BY <1>4, <2>1, <2>2, RowsStay
<1>5. CASE /\ ~ Wallet!Terminal(j)
           /\ wallet' = r /\ spent' = Wallet!Extended(spent, r)
           /\ job' = [job EXCEPT ![j].state = "failed", ![j].refunded = @ + Price[j]]
  <2>1. /\ job[j] \in StoredJob(j) /\ Len(job[j].debit.credit) <= Len(wallet.credit)
        /\ job[j].state = "open" /\ job[j].refunded = 0 /\ sess[s].balance \in Int
    BY <1>1, <1>3, <1>5, AskedJob
  <2>2. PICK y : y = [job[j] EXCEPT !.state = "failed", !.refunded = Price[j]]
    OBVIOUS
  <2>3. Price[j] \in Nat \ {0}
    BY WalletAssumed DEF Wallet!WalletAssumption
  <2>4. y \in StoredJob(j) /\ y.state = "failed" /\ y.debit = job[j].debit /\ y.refunded = Price[j]
    BY <2>1, <2>2, <2>3 DEF StoredJob
  <2>5. job' = [job EXCEPT ![j] = y]
    <3>1. PICK p \in Nat : p = Price[j]
      BY <2>3
    <3>2. job[j].refunded + p = p
      BY <2>1
    <3>3. job = [k \in Jobs |-> job[k]]
      BY DEF JobRows
    <3>4. job' = [job EXCEPT ![j] = [job[j] EXCEPT !.state = "failed", !.refunded = job[j].refunded + p]]
      BY <1>5, <3>1, <3>3
    <3> QED  BY <2>2, <3>1, <3>2, <3>4
  <2>6. PICK n \in Nat : n = Len(wallet.credit) /\ DOMAIN wallet.credit = 1..n
    BY SourcesTyped
  <2>7. o.sub \in SubRow /\ o.pack \in PackRows /\ o.balance \in Int
    BY <1>2, <2>1, RowsNow DEF Wallet!Rows
  <2>8. d \in Debits /\ Len(d.credit) <= n
    BY <1>2, <2>1, <2>6 DEF StoredJob
  <2>9. /\ wallet' \in WalletRow /\ Len(wallet'.credit) >= n /\ DOMAIN wallet.credit \subseteq DOMAIN wallet'.credit
        /\ \A i \in DOMAIN wallet.credit :
             /\ wallet'.credit[i].original = wallet.credit[i].original
             /\ wallet'.credit[i].left = wallet.credit[i].left + (IF i \in DOMAIN d.credit THEN d.credit[i] ELSE 0)
        /\ \A i \in DOMAIN wallet'.credit : i > n => wallet'.credit[i].original = wallet'.credit[i].left
    <3>1. now \in Nat /\ wallet \in WalletRow
      BY DEF WalletRows
    <3>2. n = Len(wallet.credit) /\ DOMAIN wallet.credit = 1..n
      BY <2>6
    <3>3. Restores(r, wallet, d, n)
      BY <1>2, <2>7, <2>8, <3>1, <3>2, RefundRows
    <3> QED  BY <1>5, <3>3 DEF Restores
  <2>10. spent' = [i \in DOMAIN wallet'.credit |-> IF i \in DOMAIN wallet.credit THEN spent[i] ELSE 0]
    BY <1>5 DEF Wallet!Extended, WalletRows
  <2>11. WalletRows'
    <3>1. spent' \in [DOMAIN wallet'.credit -> Nat]
      BY <2>10 DEF WalletRows
    <3> QED  BY <1>3, <2>9, <3>1 DEF WalletRows
  <2>12. /\ JobRows' /\ Wallet!RefundedExactly'
         /\ job'[j] = y /\ \A k \in Jobs \ {j} : job'[k] = job[k]
    <3>1. PICK m \in Nat : m = Len(wallet'.credit)
      BY <2>11, Lengths
    <3>2. Len(y.debit.credit) <= Len(wallet'.credit) /\ Len(wallet'.credit) >= Len(wallet.credit)
      <4>1. PICK k \in Nat : k = Len(y.debit.credit)
        <5>1. y.debit.credit \in Seq(Nat)
          BY <2>4 DEF StoredJob, Debits
        <5> QED  BY <5>1, SeqPlaces, Zenon
      <4>2. k <= n /\ n <= m
        BY <2>1, <2>4, <2>6, <2>9, <3>1, <4>1
      <4> QED  BY <2>6, <3>1, <4>1, <4>2
    <3>3. y.refunded = IF y.state = "failed" THEN Price[j] ELSE 0
      BY <2>4
    <3> QED  BY <2>4, <2>5, <2>11, <3>2, <3>3, JobMoves
  <2>13. \A i : /\ AllocatedIn(y, i) = 0
                /\ AllocatedIn(job[j], i) = IF i \in DOMAIN d.credit THEN d.credit[i] ELSE 0
    <3>1. y.refunded # 0 /\ job[j].state # "none" /\ job[j].refunded = 0 /\ d = job[j].debit
      BY <1>2, <2>1, <2>3, <2>4
    <3> QED  BY <3>1, Zenon DEF AllocatedIn
  <2>14. Wallet!CreditConserved'
    <3>1. ASSUME NEW i \in DOMAIN wallet.credit
          PROVE  /\ wallet'.credit[i].original = wallet.credit[i].original
                 /\ wallet'.credit[i].left + spent'[i] + AllocatedIn(job'[j], i) =
                      wallet.credit[i].left + spent[i] + AllocatedIn(job[j], i)
      <4>1. PICK a \in Nat : a = AllocatedIn(job[j], i)
        <5>1. JobRow(job[j], j, n) /\ i \in Nat
          BY <2>6 DEF JobRows
        <5> QED  BY <5>1, AllocationTyped
      <4>2. wallet.credit[i].left \in Nat /\ spent[i] \in Nat
        <5>1. wallet.credit[i] \in Cents
          BY SourcesTyped
        <5> QED  BY <5>1 DEF Cents, WalletRows
      <4>3. wallet'.credit[i].left = wallet.credit[i].left + a /\ spent'[i] = spent[i]
        BY <2>9, <2>10, <2>13, <4>1
      <4>4. AllocatedIn(job'[j], i) = 0 /\ wallet'.credit[i].original = wallet.credit[i].original
        BY <2>9, <2>12, <2>13
      <4> QED  BY <4>1, <4>2, <4>3, <4>4
    <3>2. ASSUME NEW i \in DOMAIN wallet'.credit, i > n
          PROVE  wallet'.credit[i].original = wallet'.credit[i].left + spent'[i] + AllocatedIn(job'[j], i)
      <4>1. i \notin DOMAIN wallet.credit
        BY <2>6, <3>2
      <4>2. spent'[i] = 0 /\ AllocatedIn(job'[j], i) = 0
        BY <2>10, <2>12, <2>13, <4>1
      <4>3. wallet'.credit[i] \in Cents /\ wallet'.credit[i].original = wallet'.credit[i].left
        BY <2>9, <3>2, SeqPlaces DEF WalletRow
      <4>4. PICK l \in Nat : l = wallet'.credit[i].left
        BY <4>3 DEF Cents
      <4> QED  BY <4>2, <4>3, <4>4
    <3> QED  BY <2>6, <2>9, <2>11, <2>12, <3>1, <3>2, BooksKept
  <2>15. SessionRows' /\ JobsApart'
    <3>1. \A t \in Sessions \ {s} : sess[t].job # None =>
            (job'[sess[t].job].state = "none" <=> job[sess[t].job].state = "none")
      <4>1. \A t \in Sessions : sess[t].job # None => sess[t].job \in Jobs
        BY DEF SessionRows, SessionRow, Wallet!Idle
      <4> QED  BY <2>1, <2>4, <2>12, <4>1
    <3> QED  BY <1>3, <3>1, IdleRow, SessionMoves
  <2> QED  BY <2>11, <2>12, <2>14, <2>15
<1> QED  BY <1>3, <1>4, <1>5

(* The job is charged and stored in one transaction. *)
LEMMA ChargeKeeps ==
  ASSUME WalletInv, NEW s \in Sessions, NEW state \in {"open", "completed", "failed"}, Wallet!Charge(s, state)
  PROVE  WalletInv'
<1> USE DEF WalletInv
<1>1. PICK o, d, c, r : /\ o = sess[s] /\ d = Wallet!Split(o, Price[o.job]) /\ c = Wallet!Debit(o, d)
                        /\ r = IF state = "failed" THEN Wallet!Refund(c, Wallet!ObjectsAfter(o, d), d) ELSE c
  OBVIOUS
<1>2. PICK y : y = [state |-> state, debit |-> d,
                    refunded |-> IF state = "failed" THEN Price[o.job] ELSE 0]
  OBVIOUS
<1>3. /\ o.pc = "asking" /\ UNCHANGED now /\ wallet' = r /\ spent' = Wallet!Extended(spent, r)
      /\ job' = [job EXCEPT ![o.job] = y] /\ sess' = [sess EXCEPT ![s] = Wallet!Idle]
  BY <1>1, <1>2 DEF Wallet!Charge, Wallet!ChargeOnce, Wallet!Close
<1>4. o \in [pc : {"asking"}, job : Jobs, balance : Int, sub : SubRow, pack : PackRows]
  BY <1>1, <1>3 DEF SessionRows, SessionRow, Wallet!Idle
<1>5. PICK j \in Jobs : j = o.job
  BY <1>4
<1>6. Price[j] \in Nat \ {0} /\ j # None
  BY WalletAssumed DEF Wallet!WalletAssumption
<1>7. job[j].state = "none" /\ \A t \in Sessions \ {s} : sess[t].job # j
  BY <1>1, <1>3, <1>5, <1>6 DEF JobsApart
<1>8. PICK n \in Nat : n = Len(wallet.credit) /\ DOMAIN wallet.credit = 1..n
  BY SourcesTyped
<1>9. o.sub \in SubRow /\ o.pack \in PackRows /\ o.balance \in Int /\ Price[o.job] \in Nat
  BY <1>4, <1>5, <1>6
<1>10. d \in Debits /\ Len(d.credit) = n /\ DOMAIN d.credit = 1..n
  BY <1>1, <1>8, <1>9, SplitInOrder
<1>11. /\ c \in WalletRow /\ DOMAIN c.credit = 1..n /\ Len(c.credit) = n
       /\ \A i \in 1..n : c.credit[i].original = wallet.credit[i].original
       /\ \A i \in 1..n : c.credit[i].left = wallet.credit[i].left - d.credit[i]
       /\ Wallet!ObjectsAfter(o, d) \in [sub : SubRow, pack : PackRows, balance : Int]
  BY <1>1, <1>8, <1>9, DebitInOrder
<1>12. \A i \in 1..n : d.credit[i] \in Nat /\ wallet.credit[i].left \in Nat /\ spent[i] \in Nat
  <2>1. d.credit \in Seq(Nat) /\ spent \in [DOMAIN wallet.credit -> Nat]
    BY <1>10 DEF Debits, WalletRows
  <2>2. \A i \in DOMAIN d.credit : d.credit[i] \in Nat
    BY <2>1, SeqPlaces, Zenon
  <2>3. \A i \in DOMAIN wallet.credit : wallet.credit[i] \in Cents
    BY SourcesTyped
  <2> QED  BY <1>8, <1>10, <2>1, <2>2, <2>3 DEF Cents
<1>13. y \in StoredJob(j) /\ y.state = state /\ y.debit = d /\ y.state # "none"
       /\ y.refunded = (IF state = "failed" THEN Price[j] ELSE 0)
  BY <1>2, <1>5, <1>6, <1>10 DEF StoredJob
<1>14. \A i : AllocatedIn(y, i) = IF state # "failed" /\ i \in 1..n THEN d.credit[i] ELSE 0
  <2>1. CASE state = "failed"
    <3>1. y.refunded # 0
      BY <1>6, <1>13, <2>1
    <3> QED  BY <2>1, <3>1 DEF AllocatedIn
  <2>2. CASE state # "failed"
    BY <1>10, <1>13, <2>2 DEF AllocatedIn
  <2> QED  BY <2>1, <2>2
<1>15. /\ r \in WalletRow /\ Len(r.credit) >= n /\ 1..n \subseteq DOMAIN r.credit
       /\ \A i \in 1..n : /\ r.credit[i].original = wallet.credit[i].original
                           /\ r.credit[i].left + AllocatedIn(y, i) = wallet.credit[i].left
       /\ \A i \in DOMAIN r.credit : i > n => r.credit[i].original = r.credit[i].left
  <2>1. CASE state = "failed"
    <3>1. r = Wallet!Refund(c, Wallet!ObjectsAfter(o, d), d)
      BY <1>1, <2>1
    <3>2. PICK a : a = Wallet!ObjectsAfter(o, d)
      OBVIOUS
    <3>3. a.sub \in SubRow /\ a.pack \in PackRows /\ a.balance \in Int
      BY <1>11, <3>2
    <3>4. Restores(r, c, d, n)
      <4>1. now \in Nat /\ n = Len(c.credit) /\ Len(d.credit) <= n /\ c \in WalletRow
        BY <1>10, <1>11 DEF WalletRows
      <4>2. r = Wallet!Refund(c, a, d)
        BY <3>1, <3>2
      <4> HIDE <1>1, <3>1, <3>2
      <4> QED  BY <1>10, <3>3, <4>1, <4>2, RefundRows
    <3>5. \A i \in 1..n : /\ r.credit[i].original = c.credit[i].original
                          /\ r.credit[i].left = c.credit[i].left + d.credit[i]
      BY <1>10, <1>11, <3>4 DEF Restores
    <3>6. \A i \in 1..n : r.credit[i].left + AllocatedIn(y, i) = wallet.credit[i].left
      BY <1>11, <1>12, <1>14, <2>1, <3>5
    <3> QED  BY <1>11, <3>4, <3>5, <3>6 DEF Restores
  <2>2. CASE state # "failed"
    <3>1. r = c
      BY <1>1, <2>2
    <3>2. ASSUME NEW i \in 1..n
          PROVE  r.credit[i].left + AllocatedIn(y, i) = wallet.credit[i].left
      <4>1. PICK a \in Nat, h \in Nat : a = d.credit[i] /\ h = wallet.credit[i].left
        BY <1>12
      <4>2. AllocatedIn(y, i) = a /\ r.credit[i].left = h - a
        BY <1>11, <1>14, <2>2, <3>1, <4>1
      <4> QED  BY <4>1, <4>2
    <3>3. Len(r.credit) >= n
      BY <1>11, <3>1
    <3> QED  BY <1>11, <3>1, <3>2, <3>3
  <2> QED  BY <2>1, <2>2
<1>16. spent' = [i \in DOMAIN wallet'.credit |-> IF i \in DOMAIN wallet.credit THEN spent[i] ELSE 0]
  BY <1>3 DEF Wallet!Extended, WalletRows
<1>17. WalletRows'
  <2>1. spent' \in [DOMAIN wallet'.credit -> Nat]
    BY <1>16 DEF WalletRows
  <2> QED  BY <1>3, <1>15, <2>1 DEF WalletRows
<1>18. /\ JobRows' /\ Wallet!RefundedExactly'
       /\ job'[j] = y /\ \A k \in Jobs \ {j} : job'[k] = job[k]
  <2>1. job' = [job EXCEPT ![j] = y]
    BY <1>3, <1>5
  <2>2. Len(y.debit.credit) <= Len(wallet'.credit) /\ Len(wallet'.credit) >= Len(wallet.credit)
    BY <1>3, <1>8, <1>10, <1>13, <1>15
  <2>3. y.refunded = IF y.state = "failed" THEN Price[j] ELSE 0
    BY <1>13
  <2> QED  BY <1>13, <1>17, <2>1, <2>2, <2>3, JobMoves
<1>19. Wallet!CreditConserved'
  <2>1. \A i : AllocatedIn(job[j], i) = 0
    BY <1>7 DEF AllocatedIn
  <2>2. ASSUME NEW i \in DOMAIN wallet.credit
        PROVE  /\ wallet'.credit[i].original = wallet.credit[i].original
               /\ wallet'.credit[i].left + spent'[i] + AllocatedIn(job'[j], i) =
                    wallet.credit[i].left + spent[i] + AllocatedIn(job[j], i)
    <3>1. i \in 1..n /\ i \in DOMAIN wallet'.credit
      BY <1>3, <1>8, <1>15
    <3>2. spent'[i] = spent[i]
      BY <1>16, <3>1
    <3>3. PICK p \in Nat, l \in Nat, h \in Nat, a \in Nat :
            /\ p = spent[i] /\ l = wallet'.credit[i].left /\ h = wallet.credit[i].left
            /\ a = AllocatedIn(y, i)
      <4>1. wallet'.credit[i] \in Cents
        BY <3>1, <1>17, SeqPlaces DEF WalletRows, WalletRow
      <4>2. AllocatedIn(y, i) \in Nat
        BY <1>12, <1>14, <3>1
      <4> QED  BY <1>12, <3>1, <4>1, <4>2 DEF Cents
    <3>4. l + a = h
      BY <1>3, <1>15, <3>1, <3>3
    <3>5. wallet'.credit[i].original = wallet.credit[i].original
      BY <1>3, <1>15, <3>1
    <3>6. AllocatedIn(job'[j], i) = a /\ AllocatedIn(job[j], i) = 0
      BY <1>18, <2>1, <3>3
    <3> QED  BY <3>2, <3>3, <3>4, <3>5, <3>6
  <2>3. ASSUME NEW i \in DOMAIN wallet'.credit, i > n
        PROVE  wallet'.credit[i].original = wallet'.credit[i].left + spent'[i] + AllocatedIn(job'[j], i)
    <3>1. i \notin 1..n
      BY <2>3
    <3>2. spent'[i] = 0 /\ AllocatedIn(job'[j], i) = 0
      BY <1>8, <1>14, <1>16, <1>18, <3>1
    <3>3. wallet'.credit[i] \in Cents /\ wallet'.credit[i].original = wallet'.credit[i].left
      BY <1>3, <1>15, <2>3, SeqPlaces DEF WalletRow
    <3>4. PICK l \in Nat : l = wallet'.credit[i].left
      BY <3>3 DEF Cents
    <3> QED  BY <3>2, <3>3, <3>4
  <2>4. DOMAIN wallet.credit \subseteq DOMAIN wallet'.credit
    BY <1>3, <1>8, <1>15
  <2> QED  BY <1>8, <1>17, <1>18, <2>2, <2>3, <2>4, BooksKept
<1>20. SessionRows' /\ JobsApart'
  <2>1. \A t \in Sessions \ {s} : sess[t].job # None =>
          (job'[sess[t].job].state = "none" <=> job[sess[t].job].state = "none")
    <3>1. \A t \in Sessions : sess[t].job # None => sess[t].job \in Jobs
      BY DEF SessionRows, SessionRow, Wallet!Idle
    <3> QED  BY <1>7, <1>18, <3>1
  <2> QED  BY <1>3, <2>1, IdleRow, SessionMoves
<1> QED  BY <1>17, <1>18, <1>19, <1>20

(* The invariant holds at the start. *)
LEMMA WalletStarts ==
  ASSUME Wallet!Init
  PROVE  WalletInv
<1> USE WalletAssumed DEF Wallet!Init, Wallet!WalletAssumption
<1>1. PICK c \in Seq(Nat) : c = OpeningCredit
  OBVIOUS
<1>2. wallet.credit = [i \in DOMAIN c |-> [original |-> c[i], left |-> c[i]]]
  BY <1>1
<1>3. /\ wallet.credit \in Seq(Cents) /\ DOMAIN wallet.credit = DOMAIN c
      /\ \A i \in DOMAIN c : wallet.credit[i] = [original |-> c[i], left |-> c[i]] /\ c[i] \in Nat
  <2>1. \A i \in DOMAIN c : c[i] \in Nat
    BY SeqPlaces, Zenon
  <2>2. \E m \in Nat : m = Len(c) /\ DOMAIN c = 1..m
    BY SeqPlaces, Zenon
  <2>3. wallet.credit \in Seq(Cents)
    BY <1>2, <2>1, <2>2 DEF Cents
  <2> QED  BY <1>2, <2>1, <2>3
<1>4. WalletRows
  <2>1. PackCents \in PackRows
    BY DEF PackRows
  <2>2. spent \in [DOMAIN wallet.credit -> Nat]
    BY <1>1, <1>3
  <2> QED  BY <1>3, <2>1, <2>2 DEF WalletRows, WalletRow, SubRow
<1>5. JobRows /\ Wallet!RefundedExactly
  BY DEF JobRows, JobRow, Wallet!NoJob, Wallet!RefundedExactly, Wallet!Stored
<1>6. SessionRows /\ JobsApart
  BY DEF SessionRows, SessionRow, Wallet!Idle, JobsApart
<1>7. Wallet!CreditConserved
  <2>1. ASSUME NEW i \in DOMAIN wallet.credit PROVE Allocations(i) = 0
    <3>1. PICK f : f = [j \in Jobs |-> Wallet!Allocated(j, i)]
      OBVIOUS
    <3>2. f = [j \in Jobs |-> f[j]] /\ \A j \in Jobs : f[j] = 0
      BY <3>1 DEF Wallet!Allocated, Wallet!Stored, Wallet!NoJob
    <3>3. Allocations(i) = Wallet!SumFunction(f)
      BY <3>1, Zenon DEF Allocations
    <3>4. SumFunctionOnSet(f, Jobs) = 0
      BY <3>2, JobsFinite, SumZero
    <3> QED  BY <3>2, <3>3, <3>4, AllocationsAre
  <2>2. \A i \in DOMAIN wallet.credit :
          wallet.credit[i].original = wallet.credit[i].left + spent[i] + Allocations(i)
    BY <1>1, <1>3, <2>1
  <2> QED  BY <2>2, Zenon DEF Wallet!CreditConserved, Allocations
<1> QED  BY <1>4, <1>5, <1>6, <1>7 DEF WalletInv

(* Every step of the wallet keeps it. *)
LEMMA WalletSteps ==
  ASSUME WalletInv, [Wallet!Next]_(Wallet!vars)
  PROVE  WalletInv'
<1>1. CASE Wallet!Next
  <2> USE <1>1 DEF Wallet!Next
  <2>1. CASE Wallet!Tick
    BY <2>1, TickKeeps
  <2>2. ASSUME NEW c \in Costs, Wallet!Flush(c) PROVE WalletInv'
    BY <2>2, FlushKeeps
  <2>3. ASSUME NEW s \in Sessions, NEW j \in Jobs \cup {None}, Wallet!Load(s, j) PROVE WalletInv'
    BY <2>3, LoadKeeps
  <2>4. ASSUME NEW s \in Sessions, NEW j \in Jobs, Wallet!Query(s, j) PROVE WalletInv'
    BY <2>4, QueryKeeps
  <2>5. ASSUME NEW s \in Sessions,
               Wallet!Authorize(s) \/ Wallet!Ask(s) \/ Wallet!Refuse(s) \/ Wallet!Failed(s)
        PROVE  WalletInv'
    BY <2>5, AuthorizeKeeps, AskKeeps, RefuseKeeps, FailedKeeps
  <2>6. ASSUME NEW s \in Sessions, NEW state \in {"open", "completed", "failed"}, Wallet!Charge(s, state)
        PROVE  WalletInv'
    BY <2>6, ChargeKeeps
  <2>7. ASSUME NEW s \in Sessions, NEW state \in {"open", "completed"}, Wallet!Answered(s, state)
        PROVE  WalletInv'
    BY <2>7, AnsweredKeeps
  <2> QED  BY <2>1, <2>2, <2>3, <2>4, <2>5, <2>6, <2>7
<1>2. CASE UNCHANGED Wallet!vars
  <2>1. now' \in Nat /\ UNCHANGED <<wallet, spent, job, sess>>
    BY <1>2 DEF Wallet!vars, WalletInv, WalletRows
  <2> QED  BY <2>1, RowsStay, SessionsStay DEF WalletInv
<1> QED  BY <1>1, <1>2

-----------------------------------------------------------------------------
(* The order of the sources. *)

(* DebitOrder, of one step. *)
SourcesStep ==
  /\ \A k \in DOMAIN wallet.credit :
       wallet'.credit[k].left < wallet.credit[k].left => Wallet!Drained(1 .. k - 1)
  /\ wallet'.balance < wallet.balance /\ ~ Wallet!Refunding => Wallet!Drained(DOMAIN wallet.credit)

(* RefundSparesNewPeriod, of one step. *)
SparesNewPeriod ==
  \A j \in Wallet!Stored :
    job'[j].refunded > job[j].refunded /\ job[j].debit.at < now => wallet'.sub = wallet.sub

(* A debit takes from a batch only when the older ones are empty. *)
LEMMA DebitDrains ==
  ASSUME WalletRows, NEW o, o.sub \in SubRow, o.pack \in PackRows, o.balance \in Int, NEW amount \in Nat,
         NEW d, d = Wallet!Split(o, amount), wallet' = Wallet!Debit(o, d)
  PROVE  SourcesStep
<1>1. PICK w : w = Wallet!Debit(o, d)
  OBVIOUS
<1>2. /\ d \in Debits /\ DOMAIN d.credit = DOMAIN wallet.credit
      /\ \A k, i \in DOMAIN wallet.credit :
           d.credit[k] > 0 /\ i < k => d.credit[i] = wallet.credit[i].left
      /\ (d.legacy > 0 \/ \E k \in DOMAIN wallet.credit : d.credit[k] > 0) =>
           \A i \in DOMAIN PackCents : d.pack[i] = Wallet!PacksSeen(o)[i]
      /\ d.legacy > 0 => \A k \in DOMAIN wallet.credit : d.credit[k] = wallet.credit[k].left
  BY SplitInOrder
<1>3. \A i \in DOMAIN wallet.credit : w.credit[i].left = wallet.credit[i].left - d.credit[i]
  BY <1>1, DebitInOrder
<1>4. \A i \in DOMAIN wallet.credit : d.credit[i] \in Nat /\ wallet.credit[i].left \in Nat /\ i \in Nat
  <2>1. d.credit \in Seq(Nat)
    BY <1>2 DEF Debits
  <2>2. \A i \in DOMAIN d.credit : d.credit[i] \in Nat
    BY <2>1, SeqPlaces, Zenon
  <2>3. \A i \in DOMAIN wallet.credit : wallet.credit[i] \in Cents /\ i \in Nat
    BY SourcesTyped
  <2> QED  BY <1>2, <2>2, <2>3 DEF Cents
<1>5. \A i \in DOMAIN PackCents :
        Wallet!ActivePack(i) /\ d.pack[i] = Wallet!PacksSeen(o)[i] => w.pack[i] = 0
  <2>1. w.pack = [i \in DOMAIN PackCents |->
                    IF d.pack[i] > 0 THEN Wallet!PacksSeen(o)[i] - d.pack[i] ELSE wallet.pack[i]]
    BY <1>1 DEF Wallet!Debit
  <2>2. \A i \in DOMAIN PackCents :
          Wallet!PacksSeen(o)[i] \in Nat /\ (Wallet!ActivePack(i) => Wallet!PacksSeen(o)[i] > 0)
    BY SeenTyped DEF PackRows
  <2> QED  BY <2>1, <2>2
<1>6. wallet' = w
  BY <1>1
<1> HIDE <1>1
<1>7. ASSUME NEW k \in DOMAIN wallet.credit, w.credit[k].left < wallet.credit[k].left
      PROVE  Wallet!Drained(1 .. k - 1)
  <2>1. d.credit[k] > 0
    BY <1>3, <1>4, <1>7
  <2>2. ASSUME NEW i \in 1 .. k - 1 PROVE w.credit[i].left = 0
    <3>1. i \in DOMAIN wallet.credit /\ i < k
      <4>1. PICK n \in Nat : DOMAIN wallet.credit = 1..n
        BY SourcesTyped
      <4> QED  BY <4>1
    <3>2. d.credit[i] = wallet.credit[i].left
      BY <1>2, <2>1, <3>1
    <3> QED  BY <1>3, <1>4, <3>1, <3>2
  <2>3. \A i \in DOMAIN PackCents : Wallet!ActivePack(i) => w.pack[i] = 0
    BY <1>2, <1>5, <2>1
  <2> QED  BY <1>6, <2>2, <2>3 DEF Wallet!Drained
<1>8. ASSUME w.balance < wallet.balance PROVE Wallet!Drained(DOMAIN wallet.credit)
  <2>1. d.legacy > 0
    <3>1. w.balance = IF d.legacy > 0 THEN o.balance - d.legacy ELSE wallet.balance
      BY <1>6 DEF Wallet!Debit
    <3>2. wallet.balance \in Int
      BY DEF WalletRows, WalletRow
    <3> QED  BY <1>8, <3>1, <3>2
  <2>2. \A i \in DOMAIN wallet.credit : w.credit[i].left = 0
    BY <1>2, <1>3, <1>4, <2>1
  <2>3. \A i \in DOMAIN PackCents : Wallet!ActivePack(i) => w.pack[i] = 0
    BY <1>2, <1>5, <2>1
  <2> QED  BY <1>6, <2>2, <2>3 DEF Wallet!Drained
<1> QED  BY <1>6, <1>7, <1>8 DEF SourcesStep

(* Nothing is taken. *)
LEMMA NothingTaken ==
  ASSUME WalletInv, wallet'.credit = wallet.credit, wallet'.balance = wallet.balance
  PROVE  SourcesStep
<1>1. \A k \in DOMAIN wallet.credit : wallet.credit[k].left \in Nat
  BY SourcesTyped DEF WalletInv, Cents
<1>2. wallet.balance \in Int
  BY DEF WalletInv, WalletRows, WalletRow
<1> QED  BY <1>1, <1>2 DEF SourcesStep

(* A step that leaves the jobs alone refunds none. *)
LEMMA NothingRefunded ==
  ASSUME WalletInv, \A j \in Wallet!Stored : job'[j].refunded = job[j].refunded
  PROVE  SparesNewPeriod
<1>1. \A j \in Wallet!Stored : job[j].refunded \in Nat
  <2>1. \A j \in Jobs : Price[j] \in Nat
    BY WalletAssumed DEF Wallet!WalletAssumption
  <2> QED  BY <2>1 DEF WalletInv, JobRows, JobRow, StoredJob, Wallet!Stored, Wallet!NoJob
<1> QED  BY <1>1 DEF SparesNewPeriod

(* A flush takes in order. *)
LEMMA FlushInOrder ==
  ASSUME WalletInv, NEW c \in Costs, Wallet!Flush(c)
  PROVE  SourcesStep /\ SparesNewPeriod
<1> USE DEF WalletInv
<1>1. c \in Nat
  BY WalletAssumed DEF Wallet!WalletAssumption
<1>2. PICK d : d = Wallet!Split(Wallet!Rows, c)
  OBVIOUS
<1>3. wallet' = Wallet!Debit(Wallet!Rows, d) /\ job' = job
  BY <1>2 DEF Wallet!Flush
<1>4. SourcesStep
  BY <1>1, <1>2, <1>3, RowsNow, DebitDrains
<1> QED  BY <1>3, <1>4, NothingRefunded

(* So does the charge of a job. *)
LEMMA ChargeInOrder ==
  ASSUME WalletInv, NEW s \in Sessions, NEW state \in {"open", "completed", "failed"}, Wallet!Charge(s, state)
  PROVE  SourcesStep /\ SparesNewPeriod
<1> USE DEF WalletInv
<1>1. PICK o, d : o = sess[s] /\ d = Wallet!Split(o, Price[o.job])
  OBVIOUS
<1>2. o \in [pc : {"asking"}, job : Jobs, balance : Int, sub : SubRow, pack : PackRows]
  BY <1>1 DEF SessionRows, SessionRow, Wallet!Idle, Wallet!Charge
<1>3. PICK j \in Jobs : j = o.job
  BY <1>2
<1>4. Price[j] \in Nat \ {0} /\ j # None
  BY WalletAssumed DEF Wallet!WalletAssumption
<1>5. job[j].state = "none"
  BY <1>1, <1>2, <1>3, <1>4 DEF JobsApart
<1>6. o.sub \in SubRow /\ o.pack \in PackRows /\ o.balance \in Int /\ Price[o.job] \in Nat
  BY <1>2, <1>3, <1>4
<1>7. \A k \in Jobs \ {j} : job'[k] = job[k]
  BY <1>1, <1>3 DEF Wallet!Charge, JobRows
<1>8. SparesNewPeriod
  BY <1>5, <1>7, NothingRefunded DEF Wallet!Stored
<1>9. CASE state # "failed"
  <2>1. wallet' = Wallet!Debit(o, d)
    BY <1>1, <1>9 DEF Wallet!Charge, Wallet!ChargeOnce
  <2> QED  BY <1>1, <1>6, <1>8, <2>1, DebitDrains
<1>10. CASE state = "failed"
  <2>1. PICK c, a : c = Wallet!Debit(o, d) /\ a = Wallet!ObjectsAfter(o, d)
    OBVIOUS
  <2>2. wallet' = Wallet!Refund(c, a, d)
    BY <1>1, <1>10, <2>1 DEF Wallet!Charge, Wallet!ChargeOnce
  <2>3. PICK n \in Nat : n = Len(wallet.credit) /\ DOMAIN wallet.credit = 1..n
    BY SourcesTyped
  <2>4. d \in Debits /\ Len(d.credit) = n /\ DOMAIN d.credit = 1..n
    BY <1>1, <1>6, <2>3, SplitInOrder
  <2>5. /\ c \in WalletRow /\ DOMAIN c.credit = 1..n /\ Len(c.credit) = n
        /\ \A i \in 1..n : c.credit[i].left = wallet.credit[i].left - d.credit[i]
        /\ a.sub \in SubRow /\ a.pack \in PackRows /\ a.balance \in Int
    <3>1. a \in [sub : SubRow, pack : PackRows, balance : Int]
      BY <1>1, <1>6, <2>1, DebitInOrder
    <3>2. /\ c \in WalletRow /\ DOMAIN c.credit = 1..n /\ Len(c.credit) = n
          /\ \A i \in 1..n : c.credit[i].left = wallet.credit[i].left - d.credit[i]
      BY <1>1, <1>6, <2>1, <2>3, DebitInOrder
    <3> QED  BY <3>1, <3>2
  <2>6. PICK r : r = Wallet!Refund(c, a, d)
    OBVIOUS
  <2>7. Restores(r, c, d, n)
    <3>1. now \in Nat /\ n = Len(c.credit) /\ Len(d.credit) <= n
      BY <2>4, <2>5 DEF WalletRows
    <3> HIDE <1>1, <2>1
    <3> QED  BY <2>4, <2>5, <2>6, <3>1, RefundRows
  <2>8. \A i \in 1..n : d.credit[i] \in Nat /\ wallet.credit[i].left \in Nat
    <3>1. d.credit \in Seq(Nat)
      BY <2>4 DEF Debits
    <3>2. \A i \in DOMAIN d.credit : d.credit[i] \in Nat
      BY <3>1, SeqPlaces, Zenon
    <3>3. \A i \in DOMAIN wallet.credit : wallet.credit[i] \in Cents
      BY SourcesTyped
    <3> QED  BY <2>3, <2>4, <3>2, <3>3 DEF Cents
  <2>9. ASSUME NEW i \in 1..n PROVE r.credit[i].left = wallet.credit[i].left
    <3>1. r.credit[i].left = c.credit[i].left + d.credit[i]
      BY <2>4, <2>5, <2>7 DEF Restores
    <3> QED  BY <2>5, <2>8, <3>1
  <2>10. Wallet!Refunding
    <3>1. job'[j].state = "failed"
      BY <1>1, <1>3, <1>10 DEF Wallet!Charge, JobRows
    <3> QED  BY <1>5, <3>1 DEF Wallet!Refunding
  <2>11. \A i \in DOMAIN wallet.credit : wallet'.credit[i].left = wallet.credit[i].left
    BY <2>2, <2>3, <2>6, <2>9
  <2>12. SourcesStep
    BY <2>3, <2>8, <2>10, <2>11 DEF SourcesStep
  <2> QED  BY <1>8, <2>12
<1> QED  BY <1>9, <1>10

(* A refund gives back to the period that paid. *)
LEMMA FailedInOrder ==
  ASSUME WalletInv, NEW s \in Sessions, Wallet!Failed(s)
  PROVE  SourcesStep /\ SparesNewPeriod
<1> USE DEF WalletInv
<1>1. PICK j \in Jobs : j = sess[s].job
  BY AskedJob DEF Wallet!Failed
<1>2. PICK d, o, r : /\ d = job[j].debit /\ o = [Wallet!Rows EXCEPT !.balance = sess[s].balance]
                     /\ r = Wallet!Refund(wallet, o, d)
  OBVIOUS
<1>3. /\ sess[s].pc = "querying"
      /\ \/ UNCHANGED <<wallet, spent, job>>
         \/ /\ ~ Wallet!Terminal(j)
            /\ wallet' = r
            /\ job' = [job EXCEPT ![j].state = "failed", ![j].refunded = @ + Price[j]]
  BY <1>1, <1>2 DEF Wallet!Failed
<1>4. CASE UNCHANGED <<wallet, spent, job>>
  BY <1>4, NothingTaken, NothingRefunded
<1>5. CASE /\ ~ Wallet!Terminal(j)
           /\ wallet' = r
           /\ job' = [job EXCEPT ![j].state = "failed", ![j].refunded = @ + Price[j]]
  <2>1. /\ job[j] \in StoredJob(j) /\ Len(job[j].debit.credit) <= Len(wallet.credit)
        /\ job[j].state = "open" /\ job[j].refunded = 0 /\ sess[s].balance \in Int
    BY <1>1, <1>3, <1>5, AskedJob
  <2>2. PICK n \in Nat : n = Len(wallet.credit) /\ DOMAIN wallet.credit = 1..n
    BY SourcesTyped
  <2>3. o.sub \in SubRow /\ o.pack \in PackRows /\ o.balance \in Int /\ o.sub = wallet.sub
    BY <1>2, <2>1, RowsNow DEF Wallet!Rows
  <2>4. d \in Debits /\ Len(d.credit) <= n
    BY <1>2, <2>1, <2>2 DEF StoredJob
  <2>5. Restores(r, wallet, d, n)
    <3>1. now \in Nat /\ wallet \in WalletRow
      BY DEF WalletRows
    <3> QED  BY <1>2, <2>2, <2>3, <2>4, <3>1, RefundRows
  <2>6. ASSUME NEW i \in DOMAIN wallet.credit
        PROVE  wallet'.credit[i].left >= wallet.credit[i].left /\ wallet'.credit[i].left \in Nat
                 /\ wallet.credit[i].left \in Nat
    <3>1. PICK e \in Seq(Nat) : e = d.credit
      BY <2>4 DEF Debits
    <3>2. \A k \in DOMAIN e : e[k] \in Nat
      BY SeqPlaces, Zenon
    <3>3. PICK a \in Nat : a = IF i \in DOMAIN e THEN e[i] ELSE 0
      BY <3>2
    <3>4. wallet'.credit[i].left = wallet.credit[i].left + a
      BY <1>5, <2>5, <3>1, <3>3 DEF Restores
    <3>5. wallet.credit[i].left \in Nat
      BY SourcesTyped DEF Cents
    <3> QED  BY <3>4, <3>5
  <2>7. job'[j].state = "failed" /\ \A k \in Jobs \ {j} : job'[k] = job[k]
    BY <1>5, <2>1 DEF JobRows, StoredJob
  <2>8. Wallet!Refunding
    BY <2>1, <2>7 DEF Wallet!Refunding
  <2>9. SourcesStep
    BY <2>6, <2>8 DEF SourcesStep
  <2>10. ASSUME d.at < now PROVE wallet'.sub = wallet.sub
    <3>1. PICK x \in Int, t \in Nat, m \in Nat : x = o.sub.start /\ t = d.at /\ m = now
      BY <2>3, <2>4 DEF SubRow, Debits, WalletRows
    <3>2. Wallet!PoolGone(o.sub, d.at)
      BY <2>10, <3>1 DEF Wallet!PoolGone
    <3>3. r.sub = wallet.sub
      BY <1>2, <3>2 DEF Wallet!Refund
    <3> QED  BY <1>5, <3>3
  <2>11. ASSUME NEW k \in Wallet!Stored, job'[k].refunded > job[k].refunded, job[k].debit.at < now
         PROVE  wallet'.sub = wallet.sub
    <3>1. CASE k = j
      BY <1>2, <2>10, <2>11, <3>1
    <3>2. CASE k # j
      <4>1. job'[k] = job[k]
        BY <2>7, <3>2 DEF Wallet!Stored
      <4>2. job[k].refunded \in Nat
        <5>1. \A i \in Jobs : Price[i] \in Nat
          BY WalletAssumed DEF Wallet!WalletAssumption
        <5> QED  BY <5>1 DEF JobRows, JobRow, StoredJob, Wallet!Stored, Wallet!NoJob
      <4> QED  BY <2>11, <4>1, <4>2
    <3> QED  BY <3>1, <3>2
  <2> QED  BY <2>9, <2>11 DEF SparesNewPeriod
<1> QED  BY <1>3, <1>4, <1>5

(* Every step keeps both. *)
LEMMA StepsInOrder ==
  ASSUME WalletInv, [Wallet!Next]_(Wallet!vars)
  PROVE  SourcesStep /\ SparesNewPeriod
<1>1. CASE Wallet!Next
  <2> USE <1>1 DEF Wallet!Next
  <2>1. CASE Wallet!Tick
    <3>1. wallet' = wallet /\ job' = job
      BY <2>1 DEF Wallet!Tick
    <3> QED  BY <3>1, NothingTaken, NothingRefunded
  <2>2. ASSUME NEW c \in Costs, Wallet!Flush(c) PROVE SourcesStep /\ SparesNewPeriod
    BY <2>2, FlushInOrder
  <2>3. ASSUME NEW s \in Sessions, NEW j \in Jobs \cup {None}, Wallet!Load(s, j)
        PROVE  SourcesStep /\ SparesNewPeriod
    <3>1. wallet' = wallet /\ job' = job
      BY <2>3 DEF Wallet!Load
    <3> QED  BY <3>1, NothingTaken, NothingRefunded
  <2>4. ASSUME NEW s \in Sessions, NEW j \in Jobs, Wallet!Query(s, j) PROVE SourcesStep /\ SparesNewPeriod
    <3>1. wallet' = wallet /\ job' = job
      BY <2>4 DEF Wallet!Query
    <3> QED  BY <3>1, NothingTaken, NothingRefunded
  <2>5. ASSUME NEW s \in Sessions, Wallet!Authorize(s) PROVE SourcesStep /\ SparesNewPeriod
    <3>1. wallet'.credit = wallet.credit /\ wallet'.balance = wallet.balance /\ job' = job
      BY <2>5 DEF Wallet!Authorize, WalletInv, WalletRows, WalletRow
    <3> QED  BY <3>1, NothingTaken, NothingRefunded
  <2>6. ASSUME NEW s \in Sessions, Wallet!Ask(s) \/ Wallet!Refuse(s) PROVE SourcesStep /\ SparesNewPeriod
    <3>1. wallet' = wallet /\ job' = job
      BY <2>6 DEF Wallet!Ask, Wallet!Refuse
    <3> QED  BY <3>1, NothingTaken, NothingRefunded
  <2>7. ASSUME NEW s \in Sessions, Wallet!Failed(s) PROVE SourcesStep /\ SparesNewPeriod
    BY <2>7, FailedInOrder
  <2>8. ASSUME NEW s \in Sessions, NEW state \in {"open", "completed", "failed"}, Wallet!Charge(s, state)
        PROVE  SourcesStep /\ SparesNewPeriod
    BY <2>8, ChargeInOrder
  <2>9. ASSUME NEW s \in Sessions, NEW state \in {"open", "completed"}, Wallet!Answered(s, state)
        PROVE  SourcesStep /\ SparesNewPeriod
    <3>1. wallet' = wallet
      BY <2>9 DEF Wallet!Answered
    <3>2. \A j \in Wallet!Stored : job'[j].refunded = job[j].refunded
      <4>1. PICK j \in Jobs : j = sess[s].job /\ job[j] \in StoredJob(j)
        <5>1. sess[s].pc = "querying"
          BY <2>9 DEF Wallet!Answered
        <5>2. sess[s].job \in Jobs /\ job[sess[s].job] \in StoredJob(sess[s].job)
          BY <5>1, AskedJob
        <5> QED  BY <5>2
      <4>2. job' = job \/ job' = [job EXCEPT ![j].state = state]
        BY <2>9, <4>1 DEF Wallet!Answered
      <4>3. job'[j].refunded = job[j].refunded /\ \A k \in Jobs \ {j} : job'[k] = job[k]
        BY <4>1, <4>2 DEF WalletInv, JobRows, StoredJob
      <4> QED  BY <4>3 DEF Wallet!Stored
    <3> QED  BY <3>1, <3>2, NothingTaken, NothingRefunded
  <2> QED  BY <2>1, <2>2, <2>3, <2>4, <2>5, <2>6, <2>7, <2>8, <2>9
<1>2. CASE UNCHANGED Wallet!vars
  <2>1. wallet' = wallet /\ job' = job
    BY <1>2 DEF Wallet!vars
  <2> QED  BY <2>1, NothingTaken, NothingRefunded
<1> QED  BY <1>1, <1>2

(* So the invariant always holds, *)
LEMMA WalletInvariant == Wallet!Spec => []WalletInv
BY WalletStarts, WalletSteps, PTL DEF Wallet!Spec

(* and every step respects the order of the sources. *)
LEMMA WalletsInOrder == Wallet!Spec => Wallet!SourcesInOrder
<1>1. WalletInv /\ [Wallet!Next]_(Wallet!vars) => SourcesStep /\ SparesNewPeriod
  BY StepsInOrder
<1>2. SourcesStep => /\ \A k \in DOMAIN wallet.credit :
                         wallet'.credit[k].left < wallet.credit[k].left => Wallet!Drained(1 .. k - 1)
                     /\ wallet'.balance < wallet.balance /\ ~ Wallet!Refunding =>
                         Wallet!Drained(DOMAIN wallet.credit)
  BY DEF SourcesStep
<1>3. SparesNewPeriod => \A j \in Wallet!Stored :
        job'[j].refunded > job[j].refunded /\ job[j].debit.at < now => wallet'.sub = wallet.sub
  BY DEF SparesNewPeriod
<1>4. Wallet!Spec => Wallet!DebitOrder
  BY <1>1, <1>2, WalletInvariant, PTL DEF Wallet!Spec, Wallet!DebitOrder
<1>5. Wallet!Spec => Wallet!RefundSparesNewPeriod
  BY <1>1, <1>3, WalletInvariant, PTL DEF Wallet!Spec, Wallet!RefundSparesNewPeriod
<1> QED  BY <1>4, <1>5 DEF Wallet!SourcesInOrder

-----------------------------------------------------------------------------
(* CreditMigration.  The invariant types the rows and the runs, and says   *)
(* what the row locks are for: while a run holds them, what it has read of *)
(* the users and packs, and the amounts of its plan, are what the rows     *)
(* hold; what it has written stays in the credits.                         *)

(* The rows, typed. *)
TrafficPackRow == [left : Int, status : {"active", "depleted", "disabled", "migrated"}]
(* A batch of permanent credit. *)
CreditRow == [original : Int, left : Int]

(* A balance is named by its user. *)
AllSources == Payers \cup Packs

(* The rows of users, packs and credits. *)
MigratedRows ==
  /\ balance \in [Payers -> Int]
  /\ pack \in [Packs -> TrafficPackRow]
  /\ DOMAIN credit \subseteq AllSources
  /\ credit \in [DOMAIN credit -> CreditRow]

(* What a video request holds of its user and of the packs. *)
VideoRow(x) ==
  /\ x \in [pc : {"idle", "loaded", "asking", "querying"}, user : Payers \cup {None},
            cents : Int, balance : Int, left : [Packs -> Int]]
  /\ x.pc # "idle" => x.user \in Payers

(* What the model counts, the refund that is owed, the recharge, the video *)
(* request and the lock.                                                   *)
Accounts ==
  /\ flow \in [Payers -> Int]
  /\ surplus \in [Payers -> Int]
  /\ owed \in [AllSources -> Nat]
  /\ recharge \in [user : Payers \cup {None}, read : Int]
  /\ VideoRow(video)
  /\ holder \in Runs \cup {None}

(* A video job took from the sources of one user, the one who asks for it. *)
OwedToOne ==
  /\ \A s, r \in AllSources :
       owed[s] # 0 /\ owed[r] # 0 => Migration!UserOf(s) = Migration!UserOf(r)
  /\ video.pc = "querying" => \A s \in AllSources : owed[s] # 0 => Migration!UserOf(s) = video.user

(* A run of the script. *)
RunShape(x) ==
  /\ x = [pc |-> x.pc, phase |-> x.phase, apply |-> x.apply, asof |-> x.asof, seen |-> x.seen,
          plan |-> x.plan, first |-> x.first, mode |-> x.mode, wrote |-> x.wrote]
  /\ x.seen = [balance |-> x.seen.balance, pack |-> x.seen.pack, credit |-> x.seen.credit]

(* A plan that may be applied. *)
WithinPlanLimit(p) == Migration!Cardinality(DOMAIN p.items) <= MaxPlanned

(* Where a run may be, and what it has come to. *)
RunRow(x) ==
  /\ RunShape(x)
  /\ x.pc \in {"idle", "users", "packs", "credits", "transfer", "done"}
  /\ x.phase \in {"plan", "locked", "post"}
  /\ x.apply \in BOOLEAN /\ x.wrote \in BOOLEAN
  /\ x.phase = "post" => x.wrote
  /\ x.wrote => (x.phase = "post" \/ x.pc = "done") /\ x.plan = x.first
  /\ x.phase # "plan" \/ x.wrote => x.apply /\ WithinPlanLimit(x.first)
  /\ x.pc = "transfer" => x.phase = "locked" /\ x.plan = x.first
  /\ x.pc # "done" => x.mode = "none"
  /\ x.wrote => x.mode \in {"none", "apply", "apply_indeterminate"}
  /\ x.mode = "apply" => x.wrote

(* Items to be moved, as they stand in the rows. *)
ItemsCurrent(items, b, p, c) ==
  /\ DOMAIN items \subseteq AllSources \ DOMAIN c
  /\ \A s \in DOMAIN items : items[s] = IF s \in Payers THEN b[s] ELSE p[s].left

(* What a run has read under its locks still holds. *)
LocksHold(x, m, h, b, p, c) ==
  x.phase = "locked" =>
    /\ x.pc \in {"packs", "credits", "transfer"} => h = m
    /\ x.pc \in {"packs", "credits"} => x.seen.balance = b
    /\ x.pc = "credits" => x.seen.pack = p
    /\ x.pc = "transfer" => ItemsCurrent(x.plan.items, b, p, c)

(* There is a credit of each item, of its amount. *)
HasOriginals(items, c) == \A s \in DOMAIN items : s \in DOMAIN c /\ c[s].original = items[s]

(* What a run has written is there. *)
StaysWritten(x, c) == x.wrote => HasOriginals(x.plan.items, c)

(* All of this for every run. *)
RunsKnow ==
  /\ run = [m \in Runs |-> run[m]]
  /\ \A m \in Runs : RunRow(run[m])
  /\ \A m \in Runs : LocksHold(run[m], m, holder, balance, pack, credit) /\ StaysWritten(run[m], credit)

(* The invariant. *)
MigrationInv ==
  MigratedRows /\ Accounts /\ OwedToOne /\ RunsKnow /\ Migration!ValueConserved

(* The sums of the instance are those of the lemmas above. *)
LEMMA MigrationSums ==
  ASSUME NEW f, NEW S
  PROVE  Migration!SumFunctionOnSet(f, S) = SumFunctionOnSet(f, S)
BY DEF SumFunctionOnSet, FoldFunctionOnSet, MapThenFoldSet,
       Migration!SumFunctionOnSet, Migration!FoldFunctionOnSet, Migration!MapThenFoldSet

(* Users and packs are finitely many. *)
LEMMA SourcesFinite ==
  IsFiniteSet(Payers) /\ IsFiniteSet(Packs) /\ IsFiniteSet(AllSources) /\ Payers \cap Packs = {}
<1>1. IsFiniteSet(Payers) /\ IsFiniteSet(Packs) /\ Payers \cap Packs = {}
  BY MigrationAssumed DEF Migration!MigrationAssumption, Migration!IsFiniteSet, IsFiniteSet
<1> QED  BY <1>1, FS_Union DEF AllSources

(* Whose a source is. *)
LEMMA SourceOwners ==
  /\ Owner \in [Packs -> Payers]
  /\ Migration!Sources = AllSources
  /\ \A s \in AllSources : Migration!UserOf(s) = (IF s \in Packs THEN Owner[s] ELSE s)
  /\ None \notin Runs /\ None \notin Payers /\ Amounts \subseteq Nat \ {0}
BY MigrationAssumed DEF Migration!MigrationAssumption, Migration!Sources, AllSources, Migration!UserOf

(* A user's packs, and all sources that are the user's. *)
PacksOf(u) == {q \in Packs : Owner[q] = u}
SourcesOf(u) == {s \in AllSources : Migration!UserOf(s) = u}

(* What a user holds, of balances b, packs f and credits g. *)
HeldOf(b, f, g, u) ==
  b[u] + SumFunctionOnSet(f, PacksOf(u)) + SumFunctionOnSet(g, SourcesOf(u) \cap DOMAIN g)

(* What is left on packs, and on credits. *)
LeftsOf(p) == [q \in Packs |-> p[q].left]
CreditLefts(c) == [s \in DOMAIN c |-> c[s].left]

(* Held, of the rows before and after a step. *)
LEMMA HeldIs ==
  ASSUME NEW u \in Payers
  PROVE  /\ Migration!Held(u) = HeldOf(balance, LeftsOf(pack), CreditLefts(credit), u)
         /\ Migration!Held(u)' = HeldOf(balance', LeftsOf(pack'), CreditLefts(credit'), u)
<1>1. {s \in Migration!Sources : Migration!UserOf(s) = u} = SourcesOf(u)
  BY SourceOwners DEF SourcesOf
<1>2. SourcesOf(u) \cap Packs = PacksOf(u)
  BY SourceOwners DEF SourcesOf, PacksOf, AllSources
<1>3. ASSUME NEW c PROVE DOMAIN CreditLefts(c) = DOMAIN c
  BY DEF CreditLefts
<1>4. Migration!Held(u) = balance[u] + SumFunctionOnSet(LeftsOf(pack), SourcesOf(u) \cap Packs)
                            + SumFunctionOnSet(CreditLefts(credit), SourcesOf(u) \cap DOMAIN credit)
  BY <1>1, MigrationSums, Zenon DEF Migration!Held, LeftsOf, CreditLefts
<1>5. Migration!Held(u)' = balance'[u] + SumFunctionOnSet(LeftsOf(pack'), SourcesOf(u) \cap Packs)
                            + SumFunctionOnSet(CreditLefts(credit'), SourcesOf(u) \cap DOMAIN credit')
  BY <1>1, MigrationSums, Zenon DEF Migration!Held, LeftsOf, CreditLefts
<1> QED  BY <1>2, <1>3, <1>4, <1>5, Zenon DEF HeldOf

(* The steps of a run. *)

(* A step of a run that writes no row: the others know what they knew. *)
LEMMA RunStep ==
  ASSUME MigrationInv, NEW m \in Runs, NEW x, RunRow(x),
         LocksHold(x, m, holder', balance, pack, credit), StaysWritten(x, credit),
         run' = [run EXCEPT ![m] = x], holder' \in Runs \cup {None},
         \A n \in Runs \ {m} : holder = n => holder' = n,
         UNCHANGED <<balance, pack, credit, recharge, video, owed, flow, surplus>>
  PROVE  MigrationInv'
<1>1. MigratedRows' /\ Accounts' /\ OwedToOne'
  <2>1. MigratedRows /\ Accounts /\ OwedToOne
    BY DEF MigrationInv
  <2>2. MigratedRows'
    BY <2>1 DEF MigratedRows
  <2>3. Accounts'
    BY <2>1 DEF Accounts
  <2>4. OwedToOne'
    BY <2>1 DEF OwedToOne, Migration!UserOf
  <2> QED  BY <2>2, <2>3, <2>4
<1>2. RunsKnow'
  <2>1. run = [n \in Runs |-> run[n]]
    BY DEF MigrationInv, RunsKnow
  <2>2. run' = [n \in Runs |-> run'[n]] /\ run'[m] = x /\ \A n \in Runs \ {m} : run'[n] = run[n]
    BY <2>1
  <2>3. ASSUME NEW n \in Runs
        PROVE  /\ RunRow(run'[n]) /\ StaysWritten(run'[n], credit)
               /\ LocksHold(run'[n], n, holder', balance, pack, credit)
    <3>1. CASE n = m
      BY <2>2, <3>1
    <3>2. CASE n # m
      <4>1. run'[n] = run[n] /\ (holder = n => holder' = n)
        BY <2>2, <3>2
      <4>2. /\ RunRow(run[n]) /\ StaysWritten(run[n], credit)
            /\ LocksHold(run[n], n, holder, balance, pack, credit)
        BY DEF MigrationInv, RunsKnow
      <4>3. LocksHold(run[n], n, holder', balance, pack, credit)
        BY <4>1, <4>2 DEF LocksHold
      <4> QED  BY <4>1, <4>2, <4>3
    <3> QED  BY <3>1, <3>2
  <2>4. ASSUME NEW n \in Runs
        PROVE  LocksHold(run'[n], n, holder', balance', pack', credit') /\ StaysWritten(run'[n], credit')
    BY <2>3
  <2> QED  BY <2>2, <2>3, <2>4 DEF RunsKnow
<1>3. Migration!ValueConserved'
  <2>1. Migration!ValueConserved
    BY DEF MigrationInv
  <2> QED  BY <2>1 DEF Migration!ValueConserved, Migration!Held, Migration!UserOf, Migration!Sources
<1> QED  BY <1>1, <1>2, <1>3 DEF MigrationInv

(* A new run. *)
LEMMA FreshRow == RunRow(Migration!Fresh)
BY DEF Migration!Fresh, Migration!Unread, RunRow, RunShape

(* A report, the run being in phase x.phase. *)
LEMMA ReportRow ==
  ASSUME NEW m \in Runs, RunRow(run[m]), StaysWritten(run[m], credit), NEW md,
         run[m].pc # "idle",
         run[m].wrote => md \in {"apply", "apply_indeterminate"}, md = "apply" => run[m].wrote,
         NEW h
  PROVE  /\ RunRow(Migration!Report(m, md)) /\ Migration!Report(m, md).pc = "done"
         /\ LocksHold(Migration!Report(m, md), m, h, balance, pack, credit)
         /\ StaysWritten(Migration!Report(m, md), credit)
<1>1. PICK x : x = run[m]
  OBVIOUS
<1>2. CASE x.wrote
  <2>1. PICK y : y = [x EXCEPT !.pc = "done", !.mode = md, !.seen = Migration!Unread]
    OBVIOUS
  <2>2. Migration!Report(m, md) = y
    BY <1>1, <1>2, <2>1, Zenon DEF Migration!Report
  <2>3. RunShape(x)
    BY <1>1 DEF RunRow
  <2>4. /\ RunShape(y) /\ y.pc = "done" /\ y.mode = md /\ y.phase = x.phase /\ y.apply = x.apply
        /\ y.plan = x.plan /\ y.first = x.first /\ y.wrote = x.wrote
    BY <2>1, <2>3 DEF RunShape, Migration!Unread
  <2>5. RunRow(y)
    BY <1>1, <1>2, <2>4 DEF RunRow
  <2>6. LocksHold(y, m, h, balance, pack, credit)
    BY <2>4 DEF LocksHold
  <2>7. StaysWritten(y, credit)
    BY <1>1, <2>4 DEF StaysWritten
  <2> QED  BY <2>2, <2>4, <2>5, <2>6, <2>7
<1>3. CASE ~ x.wrote
  <2>1. PICK y : y = [Migration!Fresh EXCEPT !.pc = "done", !.mode = md]
    OBVIOUS
  <2>2. Migration!Report(m, md) = y
    BY <1>1, <1>3, <2>1, Zenon DEF Migration!Report
  <2>3. /\ RunShape(y) /\ y.pc = "done" /\ y.mode = md /\ y.phase = "plan" /\ y.apply = FALSE
        /\ y.wrote = FALSE
    BY <2>1 DEF RunShape, Migration!Fresh, Migration!Unread
  <2>4. md # "apply"
    BY <1>1, <1>3
  <2>5. RunRow(y)
    BY <2>3, <2>4 DEF RunRow
  <2> QED  BY <2>2, <2>3, <2>5 DEF LocksHold, StaysWritten
<1> QED  BY <1>2, <1>3

(* What the invariant says of one run. *)
LEMMA RunOf ==
  ASSUME MigrationInv, NEW m \in Runs
  PROVE  /\ RunRow(run[m]) /\ LocksHold(run[m], m, holder, balance, pack, credit)
         /\ StaysWritten(run[m], credit) /\ holder \in Runs \cup {None}
BY DEF MigrationInv, RunsKnow, Accounts

(* A run starts, to plan or to apply. *)
LEMMA StartStep ==
  ASSUME MigrationInv, NEW m \in Runs, Migration!Start(m)
  PROVE  MigrationInv'
<1>1. PICK a \in BOOLEAN :
        run' = [run EXCEPT ![m] = [Migration!Fresh EXCEPT !.pc = "users", !.apply = a, !.asof = clock]]
  BY Zenon DEF Migration!Start
<1>2. PICK x : x = [Migration!Fresh EXCEPT !.pc = "users", !.apply = a, !.asof = clock]
  OBVIOUS
<1>3. /\ RunShape(x) /\ x.pc = "users" /\ x.phase = "plan" /\ x.apply = a /\ x.mode = "none"
      /\ x.wrote = FALSE
  BY <1>2 DEF RunShape, Migration!Fresh, Migration!Unread
<1>4. RunRow(x) /\ LocksHold(x, m, holder, balance, pack, credit) /\ StaysWritten(x, credit)
  BY <1>3 DEF RunRow, LocksHold, StaysWritten
<1>5. UNCHANGED <<balance, pack, credit, recharge, video, owed, flow, surplus, holder>>
  BY DEF Migration!Start, Migration!rows, Migration!app
<1>6. run' = [run EXCEPT ![m] = x]
  BY <1>1, <1>2
<1>7. holder \in Runs \cup {None}
  BY RunOf
<1> QED  BY <1>4, <1>5, <1>6, <1>7, RunStep

(* It reads the users, under their locks the second time, *)
LEMMA ReadUsersStep ==
  ASSUME MigrationInv, NEW m \in Runs, Migration!ReadUsers(m)
  PROVE  MigrationInv'
<1>0. /\ RunRow(run[m]) /\ StaysWritten(run[m], credit) /\ holder \in Runs \cup {None}
      /\ run = [n \in Runs |-> run[n]] /\ None \notin Runs
  BY RunOf, SourceOwners DEF MigrationInv, RunsKnow
<1>1. PICK y : y = run[m]
  OBVIOUS
<1>2. PICK x : x = [y EXCEPT !.pc = "packs", !.seen.balance = balance]
  OBVIOUS
<1>3. RunShape(y) /\ y.pc = "users"
  BY <1>0, <1>1 DEF RunRow, Migration!ReadUsers
<1>4. /\ RunShape(x) /\ x.pc = "packs" /\ x.phase = y.phase /\ x.apply = y.apply /\ x.mode = y.mode
      /\ x.wrote = y.wrote /\ x.plan = y.plan /\ x.first = y.first /\ x.seen.balance = balance
  BY <1>2, <1>3 DEF RunShape
<1>5. RunRow(x) /\ StaysWritten(x, credit)
  BY <1>0, <1>1, <1>3, <1>4 DEF RunRow, StaysWritten
<1>6. /\ UNCHANGED <<balance, pack, credit, recharge, video, owed, flow, surplus>>
      /\ x.phase = "locked" => holder = None /\ holder' = m
      /\ x.phase # "locked" => holder' = holder
  BY <1>1, <1>4 DEF Migration!ReadUsers, Migration!rows, Migration!app, Migration!Locking
<1>7. LocksHold(x, m, holder', balance, pack, credit)
  BY <1>4, <1>6 DEF LocksHold
<1>8. run' = [run EXCEPT ![m] = x]
  <2>1. run' = [run EXCEPT ![m].pc = "packs", ![m].seen.balance = balance]
    BY Zenon DEF Migration!ReadUsers
  <2> QED  BY <1>0, <1>1, <1>2, <2>1
<1>9. holder' \in Runs \cup {None} /\ \A n \in Runs \ {m} : holder = n => holder' = n
  BY <1>0, <1>6
<1> QED  BY <1>5, <1>6, <1>7, <1>8, <1>9, RunStep

(* then the packs, *)
LEMMA ReadPacksStep ==
  ASSUME MigrationInv, NEW m \in Runs, Migration!ReadPacks(m)
  PROVE  MigrationInv'
<1>0. /\ RunRow(run[m]) /\ StaysWritten(run[m], credit) /\ holder \in Runs \cup {None}
      /\ run = [n \in Runs |-> run[n]] /\ LocksHold(run[m], m, holder, balance, pack, credit)
  BY RunOf DEF MigrationInv, RunsKnow
<1>1. PICK y : y = run[m]
  OBVIOUS
<1>2. PICK x : x = [y EXCEPT !.pc = "credits", !.seen.pack = pack]
  OBVIOUS
<1>3. RunShape(y) /\ y.pc = "packs"
  BY <1>0, <1>1 DEF RunRow, Migration!ReadPacks
<1>4. /\ RunShape(x) /\ x.pc = "credits" /\ x.phase = y.phase /\ x.apply = y.apply /\ x.mode = y.mode
      /\ x.wrote = y.wrote /\ x.plan = y.plan /\ x.first = y.first /\ x.seen.balance = y.seen.balance
      /\ x.seen.pack = pack
  BY <1>2, <1>3 DEF RunShape
<1>5. RunRow(x) /\ StaysWritten(x, credit)
  BY <1>0, <1>1, <1>3, <1>4 DEF RunRow, StaysWritten
<1>6. UNCHANGED <<balance, pack, credit, recharge, video, owed, flow, surplus, holder>>
  BY DEF Migration!ReadPacks, Migration!rows, Migration!app
<1>7. LocksHold(x, m, holder', balance, pack, credit)
  BY <1>0, <1>1, <1>3, <1>4, <1>6 DEF LocksHold
<1>8. run' = [run EXCEPT ![m] = x]
  <2>1. run' = [run EXCEPT ![m].pc = "credits", ![m].seen.pack = pack]
    BY Zenon DEF Migration!ReadPacks
  <2> QED  BY <1>0, <1>1, <1>2, <2>1
<1> QED  BY <1>0, <1>5, <1>6, <1>7, <1>8, RunStep

(* A run stops with a report, and lets go of its locks.                    *)
LEMMA StopStep ==
  ASSUME MigrationInv, NEW m \in Runs, NEW md, run[m].pc # "idle",
         run[m].wrote => md \in {"apply", "apply_indeterminate"}, md = "apply" => run[m].wrote,
         run' = [run EXCEPT ![m] = Migration!Report(m, md)],
         holder' = IF holder = m THEN None ELSE holder,
         UNCHANGED <<balance, pack, credit, recharge, video, owed, flow, surplus>>
  PROVE  MigrationInv'
<1>0. RunRow(run[m]) /\ StaysWritten(run[m], credit) /\ holder \in Runs \cup {None}
  BY RunOf
<1>1. PICK x : x = Migration!Report(m, md)
  OBVIOUS
<1>2. RunRow(x) /\ LocksHold(x, m, holder', balance, pack, credit) /\ StaysWritten(x, credit)
  BY <1>0, <1>1, ReportRow
<1>3. holder' \in Runs \cup {None} /\ \A n \in Runs \ {m} : holder = n => holder' = n
  BY <1>0
<1>4. run' = [run EXCEPT ![m] = x]
  BY <1>1
<1> QED  BY <1>2, <1>3, <1>4, RunStep

(* It fails: what it locked is free, what it wrote is not there. *)
LEMMA FailStep ==
  ASSUME MigrationInv, NEW m \in Runs, Migration!Fail(m)
  PROVE  MigrationInv'
<1>0. RunRow(run[m])
  BY RunOf
<1>1. PICK rolledBack \in BOOLEAN :
        run' = [run EXCEPT ![m] = Migration!Report(m,
                 IF ~ run[m].apply THEN "dry_run_failed"
                 ELSE IF run[m].phase = "post" \/ ~ rolledBack THEN "apply_indeterminate"
                 ELSE "apply_failed")]
  BY Zenon DEF Migration!Fail
<1>2. PICK md : md = IF ~ run[m].apply THEN "dry_run_failed"
                     ELSE IF run[m].phase = "post" \/ ~ rolledBack THEN "apply_indeterminate"
                     ELSE "apply_failed"
  OBVIOUS
<1>3. run' = [run EXCEPT ![m] = Migration!Report(m, md)]
  BY <1>1, <1>2
<1>4. /\ run[m].pc \in {"users", "packs", "credits", "transfer"}
      /\ holder' = IF holder = m THEN None ELSE holder
      /\ UNCHANGED <<balance, pack, credit, recharge, video, owed, flow, surplus>>
  BY DEF Migration!Fail, Migration!rows, Migration!app
<1>5. run[m].wrote => md = "apply_indeterminate"
  BY <1>0, <1>2, <1>4 DEF RunRow
<1>6. md # "apply" /\ run[m].pc # "idle"
  BY <1>2, <1>4
<1> QED  BY <1>3, <1>4, <1>5, <1>6, StopStep

(* A plan made of the rows as they stand moves what stands there.          *)
LEMMA PlanIsCurrent ==
  ASSUME NEW r, NEW asof, NEW p, p = Migration!Plan(r, asof)
  PROVE  ItemsCurrent(p.items, r.balance, r.pack, r.credit)
<1>1. PICK c : c = Migration!Candidates(r, asof)
  OBVIOUS
<1>2. p.items = [s \in c \ DOMAIN r.credit |-> Migration!Amount(r, s)]
  BY <1>1 DEF Migration!Plan
<1>3. c \subseteq AllSources
  BY <1>1 DEF Migration!Candidates, AllSources
<1>4. \A s : Migration!Amount(r, s) = IF s \in Payers THEN r.balance[s] ELSE r.pack[s].left
  BY DEF Migration!Amount
<1> QED  BY <1>2, <1>3, <1>4 DEF ItemsCurrent

(* then the credits, and decides: plan, apply, refuse or report. *)
LEMMA ReadCreditsStep ==
  ASSUME MigrationInv, NEW m \in Runs, Migration!ReadCredits(m)
  PROVE  MigrationInv'
<1>0. /\ RunRow(run[m]) /\ StaysWritten(run[m], credit) /\ holder \in Runs \cup {None}
      /\ LocksHold(run[m], m, holder, balance, pack, credit)
  BY RunOf
<1>1. PICK y : y = run[m]
  OBVIOUS
<1>2. PICK r : r = [y.seen EXCEPT !.credit = credit]
  OBVIOUS
<1>3. PICK p : p = Migration!Plan(r, y.asof)
  OBVIOUS
<1>4. PICK x : x = CASE y.phase = "plan" -> Migration!Planned(m, p)
                     [] y.phase = "locked" -> Migration!Rechecked(m, p)
                     [] y.phase = "post" -> Migration!Reconciled(m, p)
  OBVIOUS
<1>5. run' = [run EXCEPT ![m] = x] /\ holder' = Migration!Release(m, x)
  BY <1>1, <1>2, <1>3, <1>4, Zenon DEF Migration!ReadCredits
<1>6. UNCHANGED <<balance, pack, credit, recharge, video, owed, flow, surplus>> /\ y.pc = "credits"
  BY <1>1 DEF Migration!ReadCredits, Migration!rows, Migration!app
<1>7. RunShape(y) /\ y.phase \in {"plan", "locked", "post"}
  BY <1>0, <1>1 DEF RunRow
<1>8. r.balance = y.seen.balance /\ r.pack = y.seen.pack /\ r.credit = credit
  BY <1>2, <1>7 DEF RunShape
<1>9. ASSUME NEW md, x = Migration!Report(m, md), y.wrote => md \in {"apply", "apply_indeterminate"},
             md = "apply" => y.wrote
      PROVE  MigrationInv'
  <2>1. x.pc = "done"
    <3>1. run[m].pc # "idle"
      BY <1>1, <1>6
    <3> QED  BY <1>0, <1>1, <1>9, <3>1, ReportRow
  <2>2. holder' = IF holder = m THEN None ELSE holder
    BY <1>5, <2>1 DEF Migration!Release
  <2>3. run' = [run EXCEPT ![m] = Migration!Report(m, md)] /\ run[m].pc # "idle"
    BY <1>1, <1>5, <1>6, <1>9
  <2> QED  BY <1>1, <1>6, <1>9, <2>2, <2>3, StopStep
<1>10. ASSUME RunRow(x), LocksHold(x, m, holder, balance, pack, credit), StaysWritten(x, credit), x.pc # "done"
       PROVE  MigrationInv'
  <2>1. holder' = holder
    BY <1>5, <1>10 DEF Migration!Release
  <2> QED  BY <1>0, <1>5, <1>6, <1>10, <2>1, RunStep
<1>11. CASE y.phase = "plan"
  <2>1. x = Migration!Planned(m, p)
    BY <1>4, <1>11
  <2>2. ~ y.wrote
    BY <1>0, <1>1, <1>6, <1>11 DEF RunRow
  <2>3. CASE ~ y.apply
    BY <1>1, <1>9, <2>1, <2>2, <2>3 DEF Migration!Planned
  <2>4. CASE y.apply /\ ~ (Migration!WithinLimits(p) /\ Migration!Eligible(p))
    BY <1>1, <1>9, <2>1, <2>2, <2>4 DEF Migration!Planned
  <2>5. CASE y.apply /\ Migration!WithinLimits(p) /\ Migration!Eligible(p)
    <3>1. x = [y EXCEPT !.phase = "locked", !.pc = "users", !.seen = Migration!Unread, !.first = p]
      BY <1>1, <2>1, <2>5, Zenon DEF Migration!Planned
    <3>2. /\ RunShape(x) /\ x.phase = "locked" /\ x.pc = "users" /\ x.apply = y.apply
          /\ x.wrote = y.wrote /\ x.first = p /\ x.mode = y.mode
      BY <1>7, <3>1 DEF RunShape, Migration!Unread
    <3>3. WithinPlanLimit(p)
      BY <2>5 DEF Migration!WithinLimits, WithinPlanLimit
    <3>4. y.mode = "none" /\ y.apply \in BOOLEAN /\ y.wrote \in BOOLEAN
      BY <1>0, <1>1, <1>6 DEF RunRow
    <3>5. RunRow(x)
      BY <2>2, <2>5, <3>2, <3>3, <3>4 DEF RunRow
    <3>6. LocksHold(x, m, holder, balance, pack, credit) /\ StaysWritten(x, credit)
      BY <2>2, <3>2 DEF LocksHold, StaysWritten
    <3> QED  BY <1>10, <3>2, <3>5, <3>6
  <2> QED  BY <1>0, <1>1, <2>3, <2>4, <2>5 DEF RunRow
<1>12. CASE y.phase = "locked"
  <2>1. x = Migration!Rechecked(m, p)
    BY <1>4, <1>12
  <2>2. ~ y.wrote
    BY <1>0, <1>1, <1>6, <1>12 DEF RunRow
  <2>3. CASE ~ Migration!Unchanged(p, y.first)
    BY <1>1, <1>9, <2>1, <2>2, <2>3 DEF Migration!Rechecked
  <2>4. CASE Migration!Unchanged(p, y.first) /\ p.items = << >>
    BY <1>1, <1>9, <2>1, <2>2, <2>4 DEF Migration!Rechecked
  <2>5. CASE Migration!Unchanged(p, y.first) /\ p.items # << >>
    <3>1. x = [y EXCEPT !.pc = "transfer", !.seen = Migration!Unread, !.plan = p]
      BY <1>1, <2>1, <2>5, Zenon DEF Migration!Rechecked
    <3>2. /\ RunShape(x) /\ x.phase = "locked" /\ x.pc = "transfer" /\ x.apply = y.apply
          /\ x.wrote = y.wrote /\ x.first = y.first /\ x.plan = p /\ x.mode = y.mode
      BY <1>7, <1>12, <3>1 DEF RunShape, Migration!Unread
    <3>3. p = y.first
      BY <2>5 DEF Migration!Unchanged
    <3>4. RunRow(x)
      <4>1. RunRow(y)
        BY <1>0, <1>1
      <4> QED  BY <1>6, <1>12, <2>2, <3>2, <3>3, <4>1 DEF RunRow
    <3>5. ItemsCurrent(p.items, balance, pack, credit)
      <4>1. ItemsCurrent(p.items, r.balance, r.pack, r.credit)
        BY <1>3, PlanIsCurrent
      <4>2. y.seen.balance = balance /\ y.seen.pack = pack
        BY <1>0, <1>1, <1>6, <1>12 DEF LocksHold
      <4> QED  BY <1>8, <4>1, <4>2
    <3>6. holder = m
      BY <1>0, <1>1, <1>6, <1>12 DEF LocksHold
    <3>7. LocksHold(x, m, holder, balance, pack, credit) /\ StaysWritten(x, credit)
      BY <2>2, <3>2, <3>5, <3>6 DEF LocksHold, StaysWritten
    <3> QED  BY <1>10, <3>2, <3>4, <3>7
  <2> QED  BY <2>3, <2>4, <2>5
<1>13. CASE y.phase = "post"
  <2>1. x = Migration!Reconciled(m, p)
    BY <1>4, <1>13
  <2>2. y.wrote
    BY <1>0, <1>1, <1>13 DEF RunRow
  <2>3. PICK md : md = IF Migration!Verified(p, y.plan.items) THEN "apply" ELSE "apply_indeterminate"
    OBVIOUS
  <2>4. x = Migration!Report(m, md)
    BY <1>1, <2>1, <2>3, Zenon DEF Migration!Reconciled
  <2> QED  BY <1>9, <2>2, <2>3, <2>4
<1> QED  BY <1>7, <1>11, <1>12, <1>13

(* The transfer. *)

(* Sources are finite sets. *)
LEMMA SourceSets ==
  ASSUME NEW u \in Payers
  PROVE  /\ IsFiniteSet(SourcesOf(u)) /\ IsFiniteSet(PacksOf(u))
         /\ SourcesOf(u) = PacksOf(u) \cup {u} /\ u \notin PacksOf(u)
         /\ SourcesOf(u) \subseteq AllSources /\ PacksOf(u) \subseteq Packs
<1>1. SourcesOf(u) \subseteq AllSources /\ PacksOf(u) \subseteq Packs
  BY DEF SourcesOf, PacksOf
<1>2. IsFiniteSet(SourcesOf(u)) /\ IsFiniteSet(PacksOf(u))
  BY <1>1, SourcesFinite, FS_Subset
<1>3. SourcesOf(u) = PacksOf(u) \cup {u} /\ u \notin PacksOf(u)
  BY SourcesFinite, SourceOwners DEF SourcesOf, PacksOf, AllSources
<1> QED  BY <1>1, <1>2, <1>3

(* What a source is worth: its own value and that of its credit.           *)
Worth(b, f, g) ==
  [s \in AllSources |-> (IF s \in Packs THEN f[s] ELSE b[s]) + (IF s \in DOMAIN g THEN g[s] ELSE 0)]

(* A user holds what the sources are worth. *)
LEMMA HeldIsWorth ==
  ASSUME NEW b \in [Payers -> Int], NEW f \in [Packs -> Int], NEW g, DOMAIN g \subseteq AllSources,
         \A s \in DOMAIN g : g[s] \in Int, NEW u \in Payers
  PROVE  /\ \A s \in AllSources : Worth(b, f, g)[s] \in Int
         /\ HeldOf(b, f, g, u) = SumFunctionOnSet(Worth(b, f, g), SourcesOf(u))
<1>1. PICK S, P : S = SourcesOf(u) /\ P = PacksOf(u)
  OBVIOUS
<1>2. /\ IsFiniteSet(S) /\ IsFiniteSet(P) /\ S = P \cup {u} /\ u \notin P /\ S \subseteq AllSources
      /\ P \subseteq Packs /\ u \notin Packs
  BY <1>1, SourceSets, SourcesFinite
<1>3. PICK own, by, w : /\ own = [s \in AllSources |-> IF s \in Packs THEN f[s] ELSE b[s]]
                        /\ by = [s \in AllSources |-> IF s \in DOMAIN g THEN g[s] ELSE 0]
                        /\ w = Worth(b, f, g)
  OBVIOUS
<1>4. \A s \in AllSources : own[s] \in Int /\ by[s] \in Int /\ w[s] = own[s] + by[s]
  BY <1>3 DEF Worth, AllSources
<1>5. \A s \in AllSources : w[s] \in Int
  BY <1>4
<1>6. SumFunctionOnSet(w, S) = SumFunctionOnSet(own, S) + SumFunctionOnSet(by, S)
  <2>1. \A s \in S : own[s] \in Int /\ by[s] \in Int /\ w[s] = own[s] + by[s]
    BY <1>2, <1>4
  <2> QED  BY <1>2, <2>1, SumPlus
<1>7. SumFunctionOnSet(own, S) = b[u] + SumFunctionOnSet(f, P)
  <2>1. \A s \in P \cup {u} : own[s] \in Int
    BY <1>2, <1>4
  <2>2. SumFunctionOnSet(own, P \cup {u}) = own[u] + SumFunctionOnSet(own, P)
    BY <1>2, <2>1, SumAdd
  <2>3. \A s \in P : own[s] \in Int /\ own[s] = f[s]
    BY <1>2, <1>3, <1>4
  <2>4. SumFunctionOnSet(own, P) = SumFunctionOnSet(f, P)
    BY <1>2, <2>3, SumSame
  <2>5. own[u] = b[u]
    BY <1>2, <1>3
  <2> QED  BY <1>2, <2>2, <2>4, <2>5
<1>8. SumFunctionOnSet(by, S) = SumFunctionOnSet(g, S \cap DOMAIN g)
  <2>1. PICK T : T = S \cap DOMAIN g
    OBVIOUS
  <2>2. T \in SUBSET S /\ IsFiniteSet(T)
    BY <1>2, <2>1, FS_Subset
  <2>3. (\A s \in S : by[s] \in Int) /\ (\A s \in S \ T : by[s] = 0)
    BY <1>2, <1>3, <1>4, <2>1
  <2>4. SumFunctionOnSet(by, T) = SumFunctionOnSet(by, S)
    BY <1>2, <2>2, <2>3, SumNarrows
  <2>5. \A s \in T : by[s] \in Int /\ by[s] = g[s]
    BY <1>2, <1>3, <1>4, <2>1
  <2>6. SumFunctionOnSet(by, T) = SumFunctionOnSet(g, T)
    BY <2>2, <2>5, SumSame
  <2> QED  BY <2>1, <2>4, <2>6
<1>9. PICK x, y : x = SumFunctionOnSet(f, P) /\ y = SumFunctionOnSet(g, S \cap DOMAIN g)
  OBVIOUS
<1>10. HeldOf(b, f, g, u) = b[u] + x + y
  BY <1>1, <1>9 DEF HeldOf
<1>11. SumFunctionOnSet(w, S) = b[u] + x + y
  BY <1>6, <1>7, <1>8, <1>9
<1> QED  BY <1>1, <1>3, <1>5, <1>10, <1>11

(* What a transfer does to the rows: it leaves each source worth the same. *)
Transfers(items, b, p, c, ba, pa, ca) ==
  /\ ba = [u \in Payers |-> IF u \in DOMAIN items THEN 0 ELSE b[u]]
  /\ pa = [q \in Packs |-> IF q \in DOMAIN items THEN [left |-> 0, status |-> "migrated"] ELSE p[q]]
  /\ ca = [s \in DOMAIN c \cup DOMAIN items |->
             IF s \in DOMAIN items THEN [original |-> items[s], left |-> items[s]] ELSE c[s]]

(* MigratedRows, of any rows. *)
RowsTyped(b, p, c) ==
  /\ b \in [Payers -> Int] /\ p \in [Packs -> TrafficPackRow]
  /\ DOMAIN c \subseteq AllSources /\ c \in [DOMAIN c -> CreditRow]

(* What the transfer leaves: the credits there were, and one for each item. *)
Transferred(items, c, ba, pa, ca) ==
  /\ RowsTyped(ba, pa, ca) /\ HasOriginals(items, ca)
  /\ DOMAIN ca = DOMAIN c \cup DOMAIN items
  /\ \A s \in DOMAIN c : ca[s] = c[s]

(* A transfer leaves typed rows, and each item in a credit. *)
LEMMA TransferKeepsTypes ==
  ASSUME NEW items, NEW b, NEW p, NEW c, NEW ba, NEW pa, NEW ca,
         RowsTyped(b, p, c), ItemsCurrent(items, b, p, c), Transfers(items, b, p, c, ba, pa, ca)
  PROVE  Transferred(items, c, ba, pa, ca)
<1>1. \A s \in DOMAIN items : s \in AllSources /\ s \notin DOMAIN c /\ items[s] \in Int
  BY DEF RowsTyped, ItemsCurrent, TrafficPackRow, AllSources
<1>2. ba \in [Payers -> Int]
  BY DEF RowsTyped, Transfers
<1>3. pa \in [Packs -> TrafficPackRow]
  BY DEF RowsTyped, Transfers, TrafficPackRow
<1>4. DOMAIN ca = DOMAIN c \cup DOMAIN items
  BY DEF Transfers
<1>5. ASSUME NEW s \in DOMAIN ca
      PROVE  ca[s] \in CreditRow /\ (s \in DOMAIN items => ca[s].original = items[s])
    /\ (s \notin DOMAIN items => ca[s] = c[s])
  <2>1. CASE s \in DOMAIN items
    <3>1. ca[s] = [original |-> items[s], left |-> items[s]] /\ items[s] \in Int
      BY <1>1, <1>4, <2>1 DEF Transfers
    <3> QED  BY <2>1, <3>1 DEF CreditRow
  <2>2. CASE s \notin DOMAIN items
    <3>1. ca[s] = c[s] /\ s \in DOMAIN c
      BY <1>4, <2>2 DEF Transfers
    <3> QED  BY <2>2, <3>1 DEF RowsTyped
  <2> QED  BY <2>1, <2>2
<1>6. ca \in [DOMAIN ca -> CreditRow]
  <2>1. ca = [s \in DOMAIN ca |-> ca[s]]
    BY <1>4 DEF Transfers
  <2> QED  BY <1>5, <2>1
<1>7. DOMAIN ca \subseteq AllSources
  BY <1>1, <1>4 DEF RowsTyped
<1>8. HasOriginals(items, ca)
  BY <1>4, <1>5 DEF HasOriginals
<1>9. \A s \in DOMAIN c : ca[s] = c[s]
  BY <1>1, <1>4, <1>5
<1> QED  BY <1>2, <1>3, <1>4, <1>6, <1>7, <1>8, <1>9 DEF RowsTyped, Transferred

(* The worth of a source, of typed rows. *)
LEMMA WorthOfRows ==
  ASSUME NEW b, NEW p, NEW c, RowsTyped(b, p, c), NEW s \in AllSources
  PROVE  /\ LeftsOf(p) \in [Packs -> Int] /\ DOMAIN CreditLefts(c) = DOMAIN c
         /\ (\A r \in DOMAIN c : CreditLefts(c)[r] \in Int)
         /\ Worth(b, LeftsOf(p), CreditLefts(c))[s] =
               (IF s \in Packs THEN p[s].left ELSE b[s]) + (IF s \in DOMAIN c THEN c[s].left ELSE 0)
<1>1. LeftsOf(p) \in [Packs -> Int] /\ \A q \in Packs : LeftsOf(p)[q] = p[q].left
  BY DEF LeftsOf, RowsTyped, TrafficPackRow
<1>2. DOMAIN CreditLefts(c) = DOMAIN c /\ \A r \in DOMAIN c : CreditLefts(c)[r] = c[r].left
  BY DEF CreditLefts
<1>3. \A r \in DOMAIN c : c[r].left \in Int
  BY DEF RowsTyped, CreditRow
<1>4. Worth(b, LeftsOf(p), CreditLefts(c))[s] =
        (IF s \in Packs THEN p[s].left ELSE b[s]) + (IF s \in DOMAIN c THEN c[s].left ELSE 0)
  BY <1>1, <1>2, Zenon DEF Worth
<1> QED  BY <1>1, <1>2, <1>3, <1>4

(* A transfer leaves every user with the same value. *)
LEMMA TransferKeepsHeld ==
  ASSUME NEW items, NEW b, NEW p, NEW c, NEW ba, NEW pa, NEW ca,
         RowsTyped(b, p, c), ItemsCurrent(items, b, p, c), Transfers(items, b, p, c, ba, pa, ca),
         NEW u \in Payers
  PROVE  HeldOf(ba, LeftsOf(pa), CreditLefts(ca), u) = HeldOf(b, LeftsOf(p), CreditLefts(c), u)
<1>1. RowsTyped(ba, pa, ca) /\ DOMAIN ca = DOMAIN c \cup DOMAIN items
  <2>1. Transferred(items, c, ba, pa, ca)
    BY TransferKeepsTypes
  <2> QED  BY <2>1 DEF Transferred
<1>2. PICK w, w2 : w = Worth(b, LeftsOf(p), CreditLefts(c)) /\ w2 = Worth(ba, LeftsOf(pa), CreditLefts(ca))
  OBVIOUS
<1>3. /\ (\A s \in AllSources : w[s] \in Int)
      /\ HeldOf(b, LeftsOf(p), CreditLefts(c), u) = SumFunctionOnSet(w, SourcesOf(u))
  <2>1. u \in AllSources
    BY DEF AllSources
  <2>2. /\ b \in [Payers -> Int] /\ LeftsOf(p) \in [Packs -> Int] /\ DOMAIN CreditLefts(c) = DOMAIN c
        /\ DOMAIN c \subseteq AllSources /\ \A r \in DOMAIN c : CreditLefts(c)[r] \in Int
    BY <2>1, WorthOfRows DEF RowsTyped
  <2> QED  BY <1>2, <2>2, HeldIsWorth
<1>4. HeldOf(ba, LeftsOf(pa), CreditLefts(ca), u) = SumFunctionOnSet(w2, SourcesOf(u))
  <2>1. u \in AllSources
    BY DEF AllSources
  <2>2. /\ ba \in [Payers -> Int] /\ LeftsOf(pa) \in [Packs -> Int] /\ DOMAIN CreditLefts(ca) = DOMAIN ca
        /\ DOMAIN ca \subseteq AllSources /\ \A r \in DOMAIN ca : CreditLefts(ca)[r] \in Int
    BY <1>1, <2>1, WorthOfRows DEF RowsTyped
  <2> QED  BY <1>2, <2>2, HeldIsWorth
<1>5. ASSUME NEW s \in AllSources PROVE w[s] = w2[s]
  <2>1. /\ w[s] = (IF s \in Packs THEN p[s].left ELSE b[s]) + (IF s \in DOMAIN c THEN c[s].left ELSE 0)
        /\ w2[s] = (IF s \in Packs THEN pa[s].left ELSE ba[s]) + (IF s \in DOMAIN ca THEN ca[s].left ELSE 0)
    BY <1>1, <1>2, WorthOfRows
  <2>2. CASE s \in DOMAIN items
    <3>1. s \notin DOMAIN c /\ s \in DOMAIN ca /\ items[s] = IF s \in Payers THEN b[s] ELSE p[s].left
      BY <1>1, <2>2 DEF ItemsCurrent
    <3>2. ca[s].left = items[s]
      BY <2>2, <3>1 DEF Transfers
    <3>3. s \in Packs => pa[s].left = 0
      BY <2>2 DEF Transfers
    <3>4. s \notin Packs => s \in Payers /\ ba[s] = 0
      BY <2>2 DEF Transfers, AllSources
    <3>5. PICK v : v = IF s \in Packs THEN p[s].left ELSE b[s]
      OBVIOUS
    <3>6. v \in Int
      BY <3>5 DEF RowsTyped, TrafficPackRow, AllSources
    <3>7. items[s] = v
      BY <3>1, <3>4, <3>5, SourcesFinite
    <3> QED  BY <2>1, <3>1, <3>2, <3>3, <3>4, <3>5, <3>6, <3>7
  <2>3. CASE s \notin DOMAIN items
    <3>1. s \in DOMAIN c <=> s \in DOMAIN ca
      BY <1>1, <2>3
    <3>2. s \in DOMAIN c => ca[s] = c[s]
      BY <2>3, <3>1 DEF Transfers
    <3>3. s \in Packs => pa[s] = p[s]
      BY <2>3 DEF Transfers
    <3>4. s \notin Packs => ba[s] = b[s]
      BY <2>3 DEF Transfers, AllSources
    <3> QED  BY <2>1, <3>1, <3>2, <3>3, <3>4
  <2> QED  BY <2>2, <2>3
<1>6. SumFunctionOnSet(w, SourcesOf(u)) = SumFunctionOnSet(w2, SourcesOf(u))
  <2>1. IsFiniteSet(SourcesOf(u)) /\ \A s \in SourcesOf(u) : w[s] \in Int /\ w[s] = w2[s]
    BY <1>3, <1>5, SourceSets
  <2> QED  BY <2>1, SumSame
<1> QED  BY <1>3, <1>4, <1>6

(* What a user holds, of the rows. *)
HeldIn(b, p, c, u) == HeldOf(b, LeftsOf(p), CreditLefts(c), u)

(* ValueConserved, before and after a step. *)
LEMMA ConservedIs ==
  /\ Migration!ValueConserved <=>
       \A u \in Payers : HeldIn(balance, pack, credit, u) = flow[u] + surplus[u]
  /\ Migration!ValueConserved' <=>
       \A u \in Payers : HeldIn(balance', pack', credit', u) = flow'[u] + surplus'[u]
<1>1. \A u \in Payers : /\ Migration!Held(u) = HeldIn(balance, pack, credit, u)
                        /\ Migration!Held(u)' = HeldIn(balance', pack', credit', u)
  BY HeldIs, Zenon DEF HeldIn
<1>2. Migration!ValueConserved <=> \A u \in Payers : Migration!Held(u) = flow[u] + surplus[u]
  BY Zenon DEF Migration!ValueConserved
<1>3. Migration!ValueConserved' <=> \A u \in Payers : Migration!Held(u)' = flow'[u] + surplus'[u]
  BY Zenon DEF Migration!ValueConserved
<1> QED  BY <1>1, <1>2, <1>3, Zenon

(* The same predicate, before and after a step. *)
LEMMA RowsOf ==
  /\ MigratedRows <=> RowsTyped(balance, pack, credit)
  /\ MigratedRows' <=> RowsTyped(balance', pack', credit')
BY DEF MigratedRows, RowsTyped

(* A transfer that is applied. *)
LEMMA TransferStep ==
  ASSUME MigrationInv, NEW m \in Runs, run[m].pc = "transfer", Migration!Moved(run[m].plan.items),
         NEW x, RunRow(x), x.wrote, x.plan = run[m].plan, x.phase = "post" \/ x.pc = "done",
         run' = [run EXCEPT ![m] = x], holder' = None,
         UNCHANGED <<recharge, video, owed, flow, surplus>>
  PROVE  MigrationInv'
<1>1. PICK items : items = run[m].plan.items
  OBVIOUS
<1>2. /\ RunRow(run[m]) /\ LocksHold(run[m], m, holder, balance, pack, credit)
      /\ RowsTyped(balance, pack, credit) /\ Accounts /\ OwedToOne /\ Migration!ValueConserved
  BY RunOf, RowsOf DEF MigrationInv
<1>3. holder = m /\ ItemsCurrent(items, balance, pack, credit)
  BY <1>1, <1>2 DEF LocksHold, RunRow
<1>4. Transfers(items, balance, pack, credit, balance', pack', credit')
  BY <1>1, Zenon DEF Migration!Moved, Transfers
<1>5. /\ RowsTyped(balance', pack', credit') /\ HasOriginals(items, credit')
      /\ DOMAIN credit' = DOMAIN credit \cup DOMAIN items
      /\ \A s \in DOMAIN credit : credit'[s] = credit[s]
  <2>1. Transferred(items, credit, balance', pack', credit')
    BY <1>2, <1>3, <1>4, TransferKeepsTypes
  <2> QED  BY <2>1, Zenon DEF Transferred
<1>6. Accounts'
  BY <1>2 DEF Accounts
<1>7. OwedToOne'
  BY <1>2 DEF OwedToOne, Migration!UserOf
<1>8. RunsKnow'
  <2>1. run = [n \in Runs |-> run[n]]
    BY DEF MigrationInv, RunsKnow
  <2>2. run' = [n \in Runs |-> run'[n]] /\ run'[m] = x /\ \A n \in Runs \ {m} : run'[n] = run[n]
    BY <2>1
  <2>3. ASSUME NEW n \in Runs
        PROVE  /\ RunRow(run'[n]) /\ StaysWritten(run'[n], credit')
               /\ LocksHold(run'[n], n, holder', balance', pack', credit')
    <3>1. CASE n = m
      <4>1. x.phase = "locked" => x.pc = "done"
        OBVIOUS
      <4>2. LocksHold(x, n, holder', balance', pack', credit')
        BY <4>1 DEF LocksHold
      <4>3. StaysWritten(x, credit')
        BY <1>1, <1>5 DEF StaysWritten
      <4> QED  BY <2>2, <3>1, <4>2, <4>3
    <3>2. CASE n # m
      <4>1. run'[n] = run[n]
        BY <2>2, <3>2
      <4>2. /\ RunRow(run[n]) /\ StaysWritten(run[n], credit)
            /\ LocksHold(run[n], n, holder, balance, pack, credit)
        BY RunOf
      <4>3. LocksHold(run[n], n, holder', balance', pack', credit')
        BY <1>3, <3>2, <4>2 DEF LocksHold
      <4>4. StaysWritten(run[n], credit')
        BY <1>5, <4>2 DEF StaysWritten, HasOriginals
      <4> QED  BY <4>1, <4>2, <4>3, <4>4
    <3> QED  BY <3>1, <3>2
  <2> QED  BY <2>2, <2>3 DEF RunsKnow
<1>9. Migration!ValueConserved'
  <2>1. ASSUME NEW u \in Payers
        PROVE  HeldIn(balance', pack', credit', u) = flow'[u] + surplus'[u]
    <3>1. HeldIn(balance', pack', credit', u) = HeldIn(balance, pack, credit, u)
      BY <1>2, <1>3, <1>4, TransferKeepsHeld DEF HeldIn
    <3>2. HeldIn(balance, pack, credit, u) = flow[u] + surplus[u]
      BY <1>2, ConservedIs
    <3> QED  BY <3>1, <3>2
  <2> QED  BY <2>1, ConservedIs
<1> QED  BY <1>5, <1>6, <1>7, <1>8, <1>9, RowsOf DEF MigrationInv

(* The transfer is committed, *)
LEMMA CommitStep ==
  ASSUME MigrationInv, NEW m \in Runs, Migration!Commit(m)
  PROVE  MigrationInv'
<1>0. RunRow(run[m]) /\ run = [n \in Runs |-> run[n]]
  BY RunOf DEF MigrationInv, RunsKnow
<1>1. PICK y : y = run[m]
  OBVIOUS
<1>2. PICK x : x = [y EXCEPT !.phase = "post", !.pc = "users", !.wrote = TRUE]
  OBVIOUS
<1>3. RunShape(y) /\ RunRow(y) /\ y.pc = "transfer"
  BY <1>0, <1>1 DEF RunRow, Migration!Commit
<1>4. /\ RunShape(x) /\ x.pc = "users" /\ x.phase = "post" /\ x.apply = y.apply /\ x.mode = y.mode
      /\ x.wrote = TRUE /\ x.plan = y.plan /\ x.first = y.first
  BY <1>2, <1>3 DEF RunShape
<1>5. RunRow(x)
  BY <1>3, <1>4 DEF RunRow
<1>6. run' = [run EXCEPT ![m] = x]
  <2>1. run' = [run EXCEPT ![m].phase = "post", ![m].pc = "users", ![m].wrote = TRUE]
    BY Zenon DEF Migration!Commit
  <2> QED  BY <1>0, <1>1, <1>2, <2>1
<1>7. /\ Migration!Moved(run[m].plan.items) /\ holder' = None
      /\ UNCHANGED <<recharge, video, owed, flow, surplus>>
  BY Zenon DEF Migration!Commit, Migration!app
<1>8. run[m].pc = "transfer" /\ x.plan = run[m].plan /\ x.wrote /\ (x.phase = "post" \/ x.pc = "done")
  BY <1>1, <1>3, <1>4
<1> QED  BY <1>5, <1>6, <1>7, <1>8, TransferStep

(* or may be, the answer being lost. *)
LEMMA CommitRaisesStep ==
  ASSUME MigrationInv, NEW m \in Runs, Migration!CommitRaises(m)
  PROVE  MigrationInv'
<1>0. RunRow(run[m]) /\ run = [n \in Runs |-> run[n]] /\ LocksHold(run[m], m, holder, balance, pack, credit)
  BY RunOf DEF MigrationInv, RunsKnow
<1>1. PICK applied \in BOOLEAN :
        /\ run' = [run EXCEPT ![m] =
                     IF applied THEN [run[m] EXCEPT !.pc = "done", !.wrote = TRUE, !.mode = "apply_indeterminate"]
                     ELSE Migration!Report(m, "apply_indeterminate")]
        /\ IF applied THEN Migration!Moved(run[m].plan.items) ELSE UNCHANGED Migration!rows
  <2>1. \E applied \in BOOLEAN :
        /\ run' = [run EXCEPT ![m] =
                     IF applied THEN [@ EXCEPT !.pc = "done", !.wrote = TRUE, !.mode = "apply_indeterminate"]
                     ELSE Migration!Report(m, "apply_indeterminate")]
        /\ IF applied THEN Migration!Moved(run[m].plan.items) ELSE UNCHANGED Migration!rows
    BY Zenon DEF Migration!CommitRaises
  <2> QED  BY <2>1
<1>2. PICK y : y = run[m]
  OBVIOUS
<1>3. RunShape(y) /\ RunRow(y) /\ y.pc = "transfer" /\ y.phase = "locked" /\ ~ y.wrote
  BY <1>0, <1>2 DEF RunRow, Migration!CommitRaises
<1>4. holder = m
  BY <1>0, <1>2, <1>3 DEF LocksHold
<1>5. holder' = None /\ UNCHANGED <<recharge, video, owed, flow, surplus>>
  BY Zenon DEF Migration!CommitRaises, Migration!app
<1>6. CASE applied
  <2>1. PICK x : x = [y EXCEPT !.pc = "done", !.wrote = TRUE, !.mode = "apply_indeterminate"]
    OBVIOUS
  <2>2. /\ RunShape(x) /\ x.pc = "done" /\ x.phase = "locked" /\ x.apply = y.apply
        /\ x.mode = "apply_indeterminate" /\ x.wrote = TRUE /\ x.plan = y.plan /\ x.first = y.first
    BY <1>3, <2>1 DEF RunShape
  <2>3. RunRow(x)
    BY <1>3, <2>2 DEF RunRow
  <2>4. run' = [run EXCEPT ![m] = x] /\ Migration!Moved(run[m].plan.items)
    BY <1>1, <1>2, <1>6, <2>1
  <2>5. run[m].pc = "transfer" /\ x.plan = run[m].plan /\ x.wrote /\ (x.phase = "post" \/ x.pc = "done")
    BY <1>2, <1>3, <2>2
  <2> QED  BY <1>5, <2>3, <2>4, <2>5, TransferStep
<1>7. CASE ~ applied
  <2>1. /\ run' = [run EXCEPT ![m] = Migration!Report(m, "apply_indeterminate")]
        /\ UNCHANGED <<balance, pack, credit>>
    BY <1>1, <1>7 DEF Migration!rows
  <2>2. run[m].pc # "idle" /\ holder' = IF holder = m THEN None ELSE holder
    BY <1>2, <1>3, <1>4, <1>5
  <2> QED  BY <1>2, <1>3, <1>5, <2>1, <2>2, StopStep
<1> QED  BY <1>6, <1>7

(* The application. *)

(* What a user holds, in its parts. *)
InParts(b, p, c, u) ==
  \E x, y \in Int : /\ x = SumFunctionOnSet(LeftsOf(p), PacksOf(u))
                   /\ y = SumFunctionOnSet(CreditLefts(c), SourcesOf(u) \cap DOMAIN c)
                   /\ HeldIn(b, p, c, u) = b[u] + x + y

(* The parts are numbers, and add up. *)
LEMMA HeldParts ==
  ASSUME NEW b, NEW p, NEW c, RowsTyped(b, p, c), NEW u \in Payers
  PROVE  InParts(b, p, c, u)
<1>1. PICK S, P : S = SourcesOf(u) \cap DOMAIN c /\ P = PacksOf(u)
  OBVIOUS
<1>2. IsFiniteSet(S) /\ IsFiniteSet(P) /\ P \subseteq Packs /\ S \subseteq DOMAIN c
  BY <1>1, SourceSets, FS_Subset
<1>3. /\ LeftsOf(p) \in [Packs -> Int] /\ DOMAIN CreditLefts(c) = DOMAIN c
      /\ \A r \in DOMAIN c : CreditLefts(c)[r] \in Int
  <2>1. u \in AllSources
    BY DEF AllSources
  <2> QED  BY <2>1, WorthOfRows
<1>4. SumFunctionOnSet(LeftsOf(p), P) \in Int
  <2>1. \A q \in P : LeftsOf(p)[q] \in Int
    BY <1>2, <1>3
  <2> QED  BY <1>2, <2>1, SumType
<1>5. SumFunctionOnSet(CreditLefts(c), S) \in Int
  <2>1. \A s \in S : CreditLefts(c)[s] \in Int
    BY <1>2, <1>3
  <2> QED  BY <1>2, <2>1, SumType
<1>6. HeldIn(b, p, c, u) = b[u] + SumFunctionOnSet(LeftsOf(p), P) + SumFunctionOnSet(CreditLefts(c), S)
  BY <1>1, <1>3, Zenon DEF HeldIn, HeldOf
<1> QED  BY <1>1, <1>4, <1>5, <1>6 DEF InParts

(* A step of the application keeps the books, and does not disturb a run   *)
(* that has locked the rows.                                               *)
LEMMA ApplicationStep ==
  ASSUME MigrationInv, RowsTyped(balance', pack', credit'), Accounts', OwedToOne',
         run' = run, holder' = holder, DOMAIN credit' = DOMAIN credit,
         \A s \in DOMAIN credit : credit'[s].original = credit[s].original,
         \/ holder = None
         \/ /\ balance' = balance /\ credit' = credit
            /\ pack' = pack \/ run[holder].pc = "packs",
         \A u \in Payers : HeldIn(balance', pack', credit', u) =
            HeldIn(balance, pack, credit, u) + (flow'[u] - flow[u]) + (surplus'[u] - surplus[u])
  PROVE  MigrationInv'
<1>1. RunsKnow'
  <2>1. run' = [n \in Runs |-> run'[n]]
    BY DEF MigrationInv, RunsKnow
  <2>2. ASSUME NEW n \in Runs
        PROVE  /\ RunRow(run'[n]) /\ StaysWritten(run'[n], credit')
               /\ LocksHold(run'[n], n, holder', balance', pack', credit')
    <3>1. /\ RunRow(run[n]) /\ StaysWritten(run[n], credit)
          /\ LocksHold(run[n], n, holder, balance, pack, credit)
      BY RunOf
    <3>2. StaysWritten(run[n], credit')
      BY <3>1 DEF StaysWritten, HasOriginals
    <3>3. CASE holder = None
      BY <3>1, <3>2, <3>3, SourceOwners DEF LocksHold
    <3>4. CASE holder # None
      BY <3>1, <3>2, <3>4 DEF LocksHold
    <3> QED  BY <3>3, <3>4
  <2> QED  BY <2>1, <2>2 DEF RunsKnow
<1>2. Migration!ValueConserved'
  <2>1. ASSUME NEW u \in Payers
        PROVE  HeldIn(balance', pack', credit', u) = flow'[u] + surplus'[u]
    <3>1. HeldIn(balance, pack, credit, u) = flow[u] + surplus[u]
      BY ConservedIs DEF MigrationInv
    <3>2. flow[u] \in Int /\ surplus[u] \in Int /\ flow'[u] \in Int /\ surplus'[u] \in Int
      BY DEF MigrationInv, Accounts
    <3> QED  BY <3>1, <3>2
  <2> QED  BY <2>1, ConservedIs
<1> QED  BY <1>1, <1>2, RowsOf DEF MigrationInv

(* The conjuncts of the invariant. *)
LEMMA InvParts ==
  ASSUME MigrationInv
  PROVE  /\ RowsTyped(balance, pack, credit) /\ Accounts /\ OwedToOne
         /\ \A u \in Payers : HeldIn(balance, pack, credit, u) \in Int
<1>1. RowsTyped(balance, pack, credit) /\ Accounts /\ OwedToOne
  BY RowsOf DEF MigrationInv
<1>2. ASSUME NEW u \in Payers PROVE HeldIn(balance, pack, credit, u) \in Int
  <2>1. PICK x, y \in Int : HeldIn(balance, pack, credit, u) = balance[u] + x + y
    <3>1. InParts(balance, pack, credit, u)
      BY <1>1, HeldParts
    <3> QED  BY <3>1 DEF InParts
  <2>2. balance[u] \in Int
    BY <1>1 DEF RowsTyped
  <2> QED  BY <2>1, <2>2
<1> QED  BY <1>1, <1>2

(* A balance changes alone. *)
Shifts(b, ba, p, c, u) == HeldIn(ba, p, c, u) = HeldIn(b, p, c, u) + (ba[u] - b[u])

(* A change of one balance changes what that user holds by as much. *)
LEMMA BalanceChanges ==
  ASSUME NEW b, NEW p, NEW c, NEW ba, RowsTyped(b, p, c), ba \in [Payers -> Int], NEW u \in Payers
  PROVE  Shifts(b, ba, p, c, u)
<1>1. RowsTyped(ba, p, c)
  BY DEF RowsTyped
<1>2. PICK x, y \in Int : /\ x = SumFunctionOnSet(LeftsOf(p), PacksOf(u))
                         /\ y = SumFunctionOnSet(CreditLefts(c), SourcesOf(u) \cap DOMAIN c)
                         /\ HeldIn(b, p, c, u) = b[u] + x + y
  <2>1. InParts(b, p, c, u)
    BY HeldParts
  <2> QED  BY <2>1 DEF InParts
<1>3. HeldIn(ba, p, c, u) = ba[u] + x + y
  <2>1. PICK x1, y1 \in Int : /\ x1 = SumFunctionOnSet(LeftsOf(p), PacksOf(u))
                         /\ y1 = SumFunctionOnSet(CreditLefts(c), SourcesOf(u) \cap DOMAIN c)
                         /\ HeldIn(ba, p, c, u) = ba[u] + x1 + y1
    <3>1. InParts(ba, p, c, u)
      BY <1>1, HeldParts
    <3> QED  BY <3>1 DEF InParts
  <2> QED  BY <1>2, <2>1
<1>4. b[u] \in Int /\ ba[u] \in Int
  BY DEF RowsTyped
<1> QED  BY <1>2, <1>3, <1>4 DEF Shifts

(* A step that leaves the rows and the counts alone. *)
LEMMA AccountsStep ==
  ASSUME MigrationInv, UNCHANGED <<balance, pack, credit, flow, surplus, holder, run>>,
         Accounts', OwedToOne'
  PROVE  MigrationInv'
<1>1. RowsTyped(balance', pack', credit')
  BY InvParts
<1>2. ASSUME NEW w \in Payers
      PROVE  HeldIn(balance', pack', credit', w) =
               HeldIn(balance, pack, credit, w) + (flow'[w] - flow[w]) + (surplus'[w] - surplus[w])
  <2>1. HeldIn(balance', pack', credit', w) = HeldIn(balance, pack, credit, w)
    OBVIOUS
  <2>2. HeldIn(balance, pack, credit, w) \in Int /\ flow'[w] - flow[w] = 0 /\ surplus'[w] - surplus[w] = 0
    BY InvParts DEF Accounts
  <2> QED  BY <2>1, <2>2
<1> QED  BY <1>1, <1>2, ApplicationStep

(* A recharge reads the balance without a lock, *)
LEMMA ReadForRechargeStep ==
  ASSUME MigrationInv, NEW u \in Payers, Migration!ReadForRecharge(u)
  PROVE  MigrationInv'
<1>0. RowsTyped(balance, pack, credit) /\ Accounts /\ OwedToOne
  BY InvParts
<1>1. recharge' = [user |-> u, read |-> balance[u]] /\ balance[u] \in Int
  BY <1>0 DEF Migration!ReadForRecharge, RowsTyped
<1>2. UNCHANGED <<balance, pack, credit, video, owed, flow, surplus, holder, run>>
  BY DEF Migration!ReadForRecharge, Migration!Changes, Migration!rows
<1>3. Accounts'
  BY <1>0, <1>1, <1>2 DEF Accounts, VideoRow
<1>4. OwedToOne'
  BY <1>0, <1>2 DEF OwedToOne, Migration!UserOf
<1> QED  BY <1>2, <1>3, <1>4, AccountsStep

(* and writes it; what was migrated in between is surplus. *)
LEMMA WriteRechargeStep ==
  ASSUME MigrationInv, Migration!WriteRecharge
  PROVE  MigrationInv'
<1>0. RowsTyped(balance, pack, credit) /\ Accounts /\ OwedToOne
  BY InvParts
<1>1. PICK u : u = recharge.user
  OBVIOUS
<1>2. PICK a \in Amounts : \E d \in {a, -a} :
        /\ balance' = [balance EXCEPT ![u] = recharge.read + d]
        /\ flow' = [flow EXCEPT ![u] = @ + d]
        /\ surplus' = [surplus EXCEPT ![u] = @ + recharge.read - balance[u]]
  BY <1>1, Zenon DEF Migration!WriteRecharge
<1>a. PICK c \in {a, -a} : /\ balance' = [balance EXCEPT ![u] = recharge.read + c]
                          /\ flow' = [flow EXCEPT ![u] = @ + c]
                          /\ surplus' = [surplus EXCEPT ![u] = @ + recharge.read - balance[u]]
  BY <1>2
<1>3. PICK r : r = recharge.read
  OBVIOUS
<1>4. c \in Int /\ r \in Int /\ u \in Payers
  BY <1>0, <1>1, <1>3, SourceOwners DEF Accounts, Migration!WriteRecharge
<1>5. UNCHANGED <<pack, credit, video, owed, holder, run>> /\ holder = None
  BY DEF Migration!WriteRecharge, Migration!Unlocked
<1>6. balance \in [Payers -> Int] /\ flow \in [Payers -> Int] /\ surplus \in [Payers -> Int]
  BY <1>0 DEF RowsTyped, Accounts
<1>7. balance' \in [Payers -> Int] /\ flow' \in [Payers -> Int] /\ surplus' \in [Payers -> Int]
  BY <1>a, <1>3, <1>4, <1>6
<1>8. Accounts'
  <2>1. recharge' = [user |-> None, read |-> 0]
    BY DEF Migration!WriteRecharge
  <2> QED  BY <1>0, <1>5, <1>7, <2>1 DEF Accounts, VideoRow
<1>9. OwedToOne'
  BY <1>0, <1>5 DEF OwedToOne, Migration!UserOf
<1>10. RowsTyped(balance', pack', credit')
  BY <1>0, <1>5, <1>7 DEF RowsTyped
<1>11. ASSUME NEW w \in Payers
       PROVE  HeldIn(balance', pack', credit', w) =
                HeldIn(balance, pack, credit, w) + (flow'[w] - flow[w]) + (surplus'[w] - surplus[w])
  <2>1. HeldIn(balance', pack, credit, w) = HeldIn(balance, pack, credit, w) + (balance'[w] - balance[w])
    <3>1. Shifts(balance, balance', pack, credit, w)
      BY <1>0, <1>7, BalanceChanges
    <3> QED  BY <3>1 DEF Shifts
  <2>2. /\ balance'[w] - balance[w] = (flow'[w] - flow[w]) + (surplus'[w] - surplus[w])
        /\ flow'[w] - flow[w] \in Int /\ surplus'[w] - surplus[w] \in Int
    BY <1>a, <1>3, <1>4, <1>6
  <2>3. HeldIn(balance, pack, credit, w) \in Int
    BY InvParts
  <2> QED  BY <1>5, <2>1, <2>2, <2>3
<1> QED  BY <1>5, <1>8, <1>9, <1>10, <1>11, ApplicationStep

(* An operator changes the status of a pack. *)
LEMMA SetStatusStep ==
  ASSUME MigrationInv, NEW q \in Packs, Migration!SetStatus(q)
  PROVE  MigrationInv'
<1>0. RowsTyped(balance, pack, credit) /\ Accounts /\ OwedToOne
  BY InvParts
<1>1. PICK st \in {"active", "disabled"} : pack' = [pack EXCEPT ![q].status = st]
  BY Zenon DEF Migration!SetStatus
<1>2. /\ UNCHANGED <<balance, credit, recharge, video, owed, flow, surplus, holder, run>>
      /\ holder # None => run[holder].pc = "packs"
  BY DEF Migration!SetStatus, Migration!Changes, Migration!app, Migration!PacksUnlocked
<1>3. pack \in [Packs -> TrafficPackRow]
  BY <1>0 DEF RowsTyped
<1>4. pack' \in [Packs -> TrafficPackRow] /\ \A r \in Packs : pack'[r].left = pack[r].left
  <2>1. PICK row : row = [pack[q] EXCEPT !.status = st]
    OBVIOUS
  <2>2. pack[q] \in TrafficPackRow
    BY <1>3
  <2>3. row \in TrafficPackRow /\ row.left = pack[q].left
    BY <2>1, <2>2 DEF TrafficPackRow
  <2>4. pack' = [pack EXCEPT ![q] = row]
    BY <1>1, <2>1
  <2> QED  BY <1>3, <2>3, <2>4
<1>5. Accounts'
  BY <1>0, <1>2 DEF Accounts
<1>6. OwedToOne'
  BY <1>0, <1>2 DEF OwedToOne, Migration!UserOf
<1>7. RowsTyped(balance', pack', credit')
  BY <1>0, <1>2, <1>4 DEF RowsTyped
<1>8. LeftsOf(pack') = LeftsOf(pack)
  BY <1>4 DEF LeftsOf
<1>9. ASSUME NEW w \in Payers
      PROVE  HeldIn(balance', pack', credit', w) =
               HeldIn(balance, pack, credit, w) + (flow'[w] - flow[w]) + (surplus'[w] - surplus[w])
  <2>1. HeldIn(balance', pack', credit', w) = HeldIn(balance, pack, credit, w)
    BY <1>2, <1>8, Zenon DEF HeldIn
  <2>2. HeldIn(balance, pack, credit, w) \in Int /\ flow'[w] - flow[w] = 0 /\ surplus'[w] - surplus[w] = 0
    BY <1>0, <1>2, InvParts DEF Accounts
  <2> QED  BY <2>1, <2>2
<1> QED  BY <1>2, <1>5, <1>6, <1>7, <1>9, ApplicationStep

(* Numbers t on a set D, nothing outside its subset T. *)
OnlyOn(t, D, T) == t \in [D -> Int] /\ T \subseteq D /\ \A s \in D \ T : t[s] = 0

(* Such a sum is that of its part. *)
LEMMA OnlyOnSum ==
  ASSUME NEW t, NEW D, IsFiniteSet(D), NEW T, OnlyOn(t, D, T)
  PROVE  /\ Migration!SumFunction(t) \in Int
         /\ Migration!SumFunction(t) = SumFunctionOnSet(t, T)
<1>1. DOMAIN t = D /\ (\A s \in D : t[s] \in Int) /\ T \in SUBSET D /\ \A s \in D \ T : t[s] = 0
  BY DEF OnlyOn
<1>2. Migration!SumFunction(t) = SumFunctionOnSet(t, D)
  BY <1>1, MigrationSums, Zenon DEF Migration!SumFunction
<1>3. SumFunctionOnSet(t, D) \in Int
  BY <1>1, SumType
<1>4. SumFunctionOnSet(t, T) = SumFunctionOnSet(t, D)
  BY <1>1, SumNarrows
<1> QED  BY <1>2, <1>3, <1>4

(* What one user gives up: x of the balance, t of packs and k of credits.  *)
GivesUp(u, b, p, c, ba, pa, ca, x, t, k) ==
  /\ RowsTyped(b, p, c) /\ RowsTyped(ba, pa, ca) /\ DOMAIN ca = DOMAIN c
  /\ x \in Int /\ OnlyOn(t, Packs, PacksOf(u)) /\ OnlyOn(k, DOMAIN c, SourcesOf(u) \cap DOMAIN c)
  /\ \A w \in Payers : b[w] = ba[w] + IF w = u THEN x ELSE 0
  /\ \A q \in Packs : p[q].left = pa[q].left + t[q]
  /\ \A s \in DOMAIN c : c[s].left = ca[s].left + k[s]

(* So that a user holds less by what was taken, and another as much as before. *)
LosesValue(u, b, p, c, ba, pa, ca, w, y) ==
  HeldIn(b, p, c, w) = HeldIn(ba, pa, ca, w) + IF w = u THEN y ELSE 0

(* Giving up is losing that value. *)
LEMMA GivesLoses ==
  ASSUME NEW u \in Payers, NEW w \in Payers, NEW b, NEW p, NEW c, NEW ba, NEW pa, NEW ca,
         NEW x, NEW t, NEW k, GivesUp(u, b, p, c, ba, pa, ca, x, t, k),
         NEW y, y = x + Migration!SumFunction(t) + Migration!SumFunction(k)
  PROVE  LosesValue(u, b, p, c, ba, pa, ca, w, y)
<1>1. PICK S, P, D : S = SourcesOf(w) \cap DOMAIN c /\ P = PacksOf(w) /\ D = DOMAIN c
  OBVIOUS
<1>2. /\ RowsTyped(b, p, c) /\ RowsTyped(ba, pa, ca) /\ DOMAIN ca = D /\ D \subseteq AllSources
      /\ OnlyOn(t, Packs, PacksOf(u)) /\ OnlyOn(k, D, SourcesOf(u) \cap D)
  BY <1>1 DEF GivesUp, RowsTyped
<1>3. /\ IsFiniteSet(S) /\ IsFiniteSet(P) /\ IsFiniteSet(D) /\ IsFiniteSet(Packs)
      /\ P \subseteq Packs /\ S \subseteq D
  BY <1>1, <1>2, SourceSets, SourcesFinite, FS_Subset
<1>4. PICK f, fa, g, ga : /\ f = LeftsOf(p) /\ fa = LeftsOf(pa)
                          /\ g = CreditLefts(c) /\ ga = CreditLefts(ca)
  OBVIOUS
<1>5. \A q \in Packs : f[q] \in Int /\ fa[q] \in Int /\ t[q] \in Int /\ f[q] = fa[q] + t[q]
  BY <1>2, <1>4 DEF LeftsOf, RowsTyped, TrafficPackRow, GivesUp, OnlyOn
<1>6. \A s \in D : g[s] \in Int /\ ga[s] \in Int /\ k[s] \in Int /\ g[s] = ga[s] + k[s]
  BY <1>1, <1>2, <1>4 DEF CreditLefts, RowsTyped, CreditRow, GivesUp, OnlyOn
<1>7. SumFunctionOnSet(f, P) = SumFunctionOnSet(fa, P) + SumFunctionOnSet(t, P)
  <2>1. \A q \in P : fa[q] \in Int /\ t[q] \in Int /\ f[q] = fa[q] + t[q]
    BY <1>3, <1>5
  <2> QED  BY <1>3, <2>1, SumPlus
<1>8. SumFunctionOnSet(g, S) = SumFunctionOnSet(ga, S) + SumFunctionOnSet(k, S)
  <2>1. \A s \in S : ga[s] \in Int /\ k[s] \in Int /\ g[s] = ga[s] + k[s]
    BY <1>3, <1>6
  <2> QED  BY <1>3, <2>1, SumPlus
<1>9. PICK m, n \in Int : m = Migration!SumFunction(t) /\ n = Migration!SumFunction(k)
  BY <1>2, <1>3, OnlyOnSum
<1>10. /\ SumFunctionOnSet(t, P) = IF w = u THEN m ELSE 0
       /\ SumFunctionOnSet(k, S) = IF w = u THEN n ELSE 0
  <2>1. CASE w = u
    <3>1. SumFunctionOnSet(t, P) = m
      BY <1>1, <1>2, <1>3, <1>9, <2>1, OnlyOnSum
    <3>2. SumFunctionOnSet(k, S) = n
      BY <1>1, <1>2, <1>3, <1>9, <2>1, OnlyOnSum
    <3> QED  BY <2>1, <3>1, <3>2
  <2>2. CASE w # u
    <3>1. \A q \in P : t[q] = 0
      BY <1>1, <1>2, <2>2 DEF OnlyOn, PacksOf
    <3>2. \A s \in S : k[s] = 0
      BY <1>1, <1>2, <2>2 DEF OnlyOn, SourcesOf
    <3> QED  BY <1>3, <2>2, <3>1, <3>2, SumZero
  <2> QED  BY <2>1, <2>2
<1>11. PICK v, z \in Int : /\ v = SumFunctionOnSet(fa, P) /\ z = SumFunctionOnSet(ga, S)
                          /\ HeldIn(ba, pa, ca, w) = ba[w] + v + z
  <2>1. InParts(ba, pa, ca, w)
    BY <1>2, HeldParts
  <2> QED  BY <1>1, <1>2, <1>4, <2>1, Zenon DEF InParts
<1>12. HeldIn(b, p, c, w) = b[w] + SumFunctionOnSet(f, P) + SumFunctionOnSet(g, S)
  <2>1. InParts(b, p, c, w)
    BY <1>2, HeldParts
  <2>2. PICK v0, z0 \in Int : /\ v0 = SumFunctionOnSet(LeftsOf(p), PacksOf(w))
                             /\ z0 = SumFunctionOnSet(CreditLefts(c), SourcesOf(w) \cap DOMAIN c)
                             /\ HeldIn(b, p, c, w) = b[w] + v0 + z0
    BY <2>1, Zenon DEF InParts
  <2> QED  BY <1>1, <1>4, <2>2
<1>13. b[w] = ba[w] + (IF w = u THEN x ELSE 0) /\ ba[w] \in Int /\ x \in Int
  BY <1>2 DEF GivesUp, RowsTyped
<1>14. HeldIn(b, p, c, w) = b[w] + (v + IF w = u THEN m ELSE 0) + (z + IF w = u THEN n ELSE 0)
  BY <1>7, <1>8, <1>10, <1>11, <1>12
<1>15. CASE w = u
  <2>1. y = x + m + n
    BY <1>9
  <2> QED  BY <1>11, <1>13, <1>14, <1>15, <2>1 DEF LosesValue
<1>16. CASE w # u
  BY <1>11, <1>13, <1>14, <1>16 DEF LosesValue
<1> QED  BY <1>15, <1>16

(* What a debit takes is taken from sources of the user. *)
LEMMA TakenOnlyOn ==
  ASSUME NEW left, NEW D, DOMAIN left = D, NEW T, T \subseteq D, \A s \in D \ T : left[s] = 0,
         NEW c \in Int, NEW t \in Migration!Takes(left, c)
  PROVE  OnlyOn(t, D, T)
<1>1. t \in [D -> 0..c] /\ \A s \in D : t[s] <= left[s]
  BY DEF Migration!Takes
<1>2. t \in [D -> Int] /\ \A s \in D : t[s] \in Int /\ t[s] >= 0
  BY <1>1
<1>3. \A s \in D \ T : t[s] = 0
  <2>1. ASSUME NEW s \in D \ T PROVE t[s] = 0
    <3>1. t[s] <= 0
      BY <1>1
    <3> QED  BY <1>2, <3>1
  <2> QED  BY <2>1
<1> QED  BY <1>2, <1>3 DEF OnlyOn

(* The rows before and after a debit. *)
DebitedRows(u, b, p, c, ba, pa, ca, x, t, k) ==
  /\ RowsTyped(ba, pa, ca) /\ DOMAIN ca = DOMAIN c
  /\ (\A w \in Payers : b[w] = ba[w] + IF w = u THEN x ELSE 0)
  /\ (\A q \in Packs : p[q].left = pa[q].left + t[q])
  /\ \A s \in DOMAIN c : c[s].left = ca[s].left + k[s] /\ ca[s].original = c[s].original

(* What a debit writes is less by what it takes, and typed. *)
LEMMA DebitRows ==
  ASSUME NEW b, NEW p, NEW c, RowsTyped(b, p, c), NEW ba, NEW pa, NEW ca, NEW u \in Payers,
         NEW x \in Int, NEW t \in [Packs -> Int], NEW k \in [DOMAIN c -> Int], NEW emptied,
         ba = [b EXCEPT ![u] = @ - x],
         \A q \in Packs : pa[q] = [left |-> p[q].left - t[q],
                                   status |-> IF q \in emptied THEN "depleted" ELSE p[q].status],
         pa = [q \in Packs |-> pa[q]],
         ca = [s \in DOMAIN c |-> [c[s] EXCEPT !.left = @ - k[s]]]
  PROVE  DebitedRows(u, b, p, c, ba, pa, ca, x, t, k)
<1>1. /\ b \in [Payers -> Int] /\ p \in [Packs -> TrafficPackRow]
      /\ DOMAIN c \subseteq AllSources /\ c \in [DOMAIN c -> CreditRow]
  BY DEF RowsTyped
<1>2. ba \in [Payers -> Int] /\ (\A w \in Payers : b[w] = ba[w] + IF w = u THEN x ELSE 0)
  BY <1>1
<1>3. ASSUME NEW q \in Packs PROVE pa[q] \in TrafficPackRow /\ p[q].left = pa[q].left + t[q]
  <2>1. /\ p[q].left \in Int /\ t[q] \in Int
        /\ p[q].status \in {"active", "depleted", "disabled", "migrated"}
    BY <1>1 DEF TrafficPackRow
  <2>2. PICK l, st : /\ l = p[q].left - t[q]
                     /\ st = IF q \in emptied THEN "depleted" ELSE p[q].status
    OBVIOUS
  <2>3. pa[q] = [left |-> l, status |-> st]
    BY <2>2
  <2>4. l \in Int /\ st \in {"active", "depleted", "disabled", "migrated"} /\ p[q].left = l + t[q]
    BY <2>1, <2>2
  <2> QED  BY <2>3, <2>4 DEF TrafficPackRow
<1>4. pa \in [Packs -> TrafficPackRow]
  BY <1>3
<1>5. ASSUME NEW s \in DOMAIN c
      PROVE  ca[s] \in CreditRow /\ c[s].left = ca[s].left + k[s] /\ ca[s].original = c[s].original
  <2>1. c[s] \in CreditRow /\ k[s] \in Int
    BY <1>1
  <2>2. PICK l : l = c[s].left - k[s]
    OBVIOUS
  <2>3. l \in Int /\ c[s].left = l + k[s]
    BY <2>1, <2>2 DEF CreditRow
  <2>4. ca[s] = [c[s] EXCEPT !.left = l]
    BY <2>2
  <2> QED  BY <2>1, <2>3, <2>4 DEF CreditRow
<1>6. DOMAIN ca = DOMAIN c /\ ca \in [DOMAIN c -> CreditRow]
  BY <1>5
<1> QED  BY <1>1, <1>2, <1>3, <1>4, <1>5, <1>6 DEF RowsTyped, DebitedRows

(* What a session holds of the packs: nothing of other users' packs. *)
PacksHeld(u, left) ==
  /\ DOMAIN left = Packs
  /\ \A q \in Packs : left[q] \in Int
  /\ \A q \in Packs \ PacksOf(u) : left[q] = 0

(* The usable packs of a user are such. *)
LEMMA UsableHeld ==
  ASSUME MigrationInv, NEW u \in Payers
  PROVE  PacksHeld(u, Migration!Usable(u)) /\ Migration!Usable(u) \in [Packs -> Int]
<1>1. pack \in [Packs -> TrafficPackRow]
  BY InvParts DEF RowsTyped
<1>2. \A q \in Packs : pack[q].left \in Int
  BY <1>1 DEF TrafficPackRow
<1> QED  BY <1>2 DEF PacksHeld, Migration!Usable, PacksOf

(* What was in the rows and not seen by a debit that writes over them. *)
Over(p, left) == [q \in Packs |-> IF p[q] > 0 THEN left[q] - pack[q].left ELSE 0]

(* A debit of c cents, p from the packs and k from the credits.            *)
SpendWith(u, c, held, left, stored, p, k) ==
  LET b == c - Migration!SumFunction(p) - Migration!SumFunction(k)
      unseen == Migration!SumFunction(Over(p, left)) + IF b > 0 THEN held - balance[u] ELSE 0
  IN  /\ stored => owed = [s \in Migration!Sources |-> 0] /\ Migration!SumFunction(k) = 0
      /\ pack' = [q \in Packs |->
                    [left |-> pack[q].left + Over(p, left)[q] - p[q],
                     status |-> IF p[q] > 0 /\ p[q] = left[q] THEN "depleted"
                                ELSE pack[q].status]]
      /\ credit' = [s \in DOMAIN credit |-> [credit[s] EXCEPT !.left = @ - k[s]]]
      /\ balance' = IF b > 0 THEN [balance EXCEPT ![u] = held - b] ELSE balance
      /\ flow' = [flow EXCEPT ![u] = @ - c]
      /\ surplus' = [surplus EXCEPT ![u] = @ + unseen]
      /\ owed' = IF ~ stored THEN owed
                 ELSE [s \in Migration!Sources |-> IF s = u THEN b ELSE IF s \in Packs THEN p[s] ELSE 0]

(* A debit, of a usage flush or of a video job: what it writes over is in  *)
(* the surplus.                                                            *)
LEMMA SpendStep ==
  ASSUME MigrationInv, NEW u \in Payers, NEW c \in Int, NEW held \in Int, NEW left, PacksHeld(u, left),
         NEW stored \in BOOLEAN, Migration!Spend(u, c, held, left, stored),
         UNCHANGED <<recharge, holder, run>>, holder = None, VideoRow(video'),
         \/ video'.pc # "querying"
         \/ ~ stored /\ video' = video
  PROVE  MigrationInv'
<1>0. RowsTyped(balance, pack, credit) /\ Accounts /\ OwedToOne /\ DOMAIN credit \subseteq AllSources
  BY InvParts DEF RowsTyped
<1>1. PICK p \in Migration!Takes(left, c) :
        \E k \in Migration!Takes(Migration!Spendable(u), c - Migration!SumFunction(p)) :
          SpendWith(u, c, held, left, stored, p, k)
  BY Zenon DEF Migration!Spend, SpendWith, Over
<1>2. PICK k \in Migration!Takes(Migration!Spendable(u), c - Migration!SumFunction(p)) :
        SpendWith(u, c, held, left, stored, p, k)
  BY <1>1, Zenon
<1>3. IsFiniteSet(Packs) /\ IsFiniteSet(DOMAIN credit)
  BY <1>0, SourcesFinite, FS_Subset
<1>4. OnlyOn(p, Packs, PacksOf(u)) /\ \A q \in Packs : p[q] \in Nat
  <2>1. PacksOf(u) \subseteq Packs
    BY DEF PacksOf
  <2>2. OnlyOn(p, Packs, PacksOf(u))
    BY <2>1, TakenOnlyOn DEF PacksHeld
  <2>3. p \in [Packs -> 0..c]
    BY DEF Migration!Takes, PacksHeld
  <2> QED  BY <2>2, <2>3
<1>5. PICK m : m = Migration!SumFunction(p)
  OBVIOUS
<1>6. m \in Int /\ m <= c
  <2>1. Migration!SumFunction(p) <= c
    BY DEF Migration!Takes
  <2> QED  BY <1>3, <1>4, <1>5, <2>1, OnlyOnSum
<1>7. OnlyOn(k, DOMAIN credit, SourcesOf(u) \cap DOMAIN credit)
  <2>1. /\ DOMAIN Migration!Spendable(u) = DOMAIN credit
        /\ \A s \in DOMAIN credit \ (SourcesOf(u) \cap DOMAIN credit) : Migration!Spendable(u)[s] = 0
    BY <1>0 DEF Migration!Spendable, SourcesOf
  <2>2. SourcesOf(u) \cap DOMAIN credit \subseteq DOMAIN credit /\ c - m \in Int
    BY <1>6
  <2>3. k \in Migration!Takes(Migration!Spendable(u), c - m)
    BY <1>5
  <2> QED  BY <2>1, <2>2, <2>3, TakenOnlyOn
<1>8. PICK n : n = Migration!SumFunction(k)
  OBVIOUS
<1>9. n \in Int /\ n <= c - m
  <2>1. Migration!SumFunction(k) <= c - Migration!SumFunction(p)
    BY DEF Migration!Takes
  <2> QED  BY <1>3, <1>5, <1>7, <1>8, <2>1, OnlyOnSum
<1>10. PICK b : b = c - Migration!SumFunction(p) - Migration!SumFunction(k)
  OBVIOUS
<1>11. b \in Nat /\ b + m + n = c
  BY <1>5, <1>6, <1>8, <1>9, <1>10
<1>12. PICK o : o = Over(p, left)
  OBVIOUS
<1>13. OnlyOn(o, Packs, PacksOf(u))
  <2>1. \A q \in Packs : pack[q].left \in Int /\ left[q] \in Int
    BY <1>0 DEF RowsTyped, TrafficPackRow, PacksHeld
  <2>2. o \in [Packs -> Int]
    BY <1>12, <2>1 DEF Over
  <2>3. \A q \in Packs \ PacksOf(u) : o[q] = 0
    BY <1>4, <1>12 DEF Over, OnlyOn
  <2> QED  BY <1>4, <2>2, <2>3 DEF OnlyOn
<1>14. PICK i : i = Migration!SumFunction(o)
  OBVIOUS
<1>15. i \in Int
  BY <1>3, <1>13, <1>14, OnlyOnSum
<1>16. PICK z : z = IF b > 0 THEN held - balance[u] ELSE 0
  OBVIOUS
<1>17. PICK x, t : x = b - z /\ t = [q \in Packs |-> p[q] - o[q]]
  OBVIOUS
<1>18. balance \in [Payers -> Int] /\ z \in Int /\ x \in Int /\ u \in Payers
  BY <1>0, <1>11, <1>16, <1>17 DEF RowsTyped
<1>19. /\ pack' = [q \in Packs |->
                    [left |-> pack[q].left + o[q] - p[q],
                     status |-> IF p[q] > 0 /\ p[q] = left[q] THEN "depleted" ELSE pack[q].status]]
       /\ credit' = [s \in DOMAIN credit |-> [credit[s] EXCEPT !.left = @ - k[s]]]
       /\ balance' = IF b > 0 THEN [balance EXCEPT ![u] = held - b] ELSE balance
       /\ flow' = [flow EXCEPT ![u] = @ - c]
       /\ surplus' = [surplus EXCEPT ![u] = @ + (i + z)]
       /\ owed' = IF ~ stored THEN owed
                  ELSE [s \in AllSources |-> IF s = u THEN b ELSE IF s \in Packs THEN p[s] ELSE 0]
  BY <1>2, <1>10, <1>12, <1>14, <1>16, SourceOwners, Zenon DEF SpendWith
<1>20. OnlyOn(t, Packs, PacksOf(u)) /\ t \in [Packs -> Int] /\ k \in [DOMAIN credit -> Int]
  <2>1. t \in [Packs -> Int]
    BY <1>4, <1>13, <1>17 DEF OnlyOn
  <2>2. \A q \in Packs \ PacksOf(u) : t[q] = 0
    BY <1>4, <1>13, <1>17 DEF OnlyOn
  <2> QED  BY <1>4, <1>7, <2>1, <2>2 DEF OnlyOn
<1>21. Migration!SumFunction(t) \in Int /\ Migration!SumFunction(t) = m - i
  <2>1. PICK P : P = PacksOf(u)
    OBVIOUS
  <2>2. IsFiniteSet(P) /\ P \subseteq Packs
    BY <1>3, <1>4, <2>1, FS_Subset DEF OnlyOn
  <2>3. \A q \in P : o[q] \in Int /\ t[q] \in Int /\ p[q] = o[q] + t[q]
    BY <1>4, <1>13, <1>17, <1>20, <2>2 DEF OnlyOn
  <2>4. SumFunctionOnSet(p, P) = SumFunctionOnSet(o, P) + SumFunctionOnSet(t, P)
    BY <2>2, <2>3, SumPlus
  <2>5. /\ Migration!SumFunction(t) \in Int /\ Migration!SumFunction(t) = SumFunctionOnSet(t, P)
        /\ Migration!SumFunction(p) = SumFunctionOnSet(p, P)
        /\ Migration!SumFunction(o) = SumFunctionOnSet(o, P)
    BY <1>3, <1>4, <1>13, <1>20, <2>1, OnlyOnSum
  <2> QED  BY <1>5, <1>6, <1>14, <1>15, <2>4, <2>5
<1>22. DebitedRows(u, balance, pack, credit, balance', pack', credit', x, t, k)
  <2>1. balance' = [balance EXCEPT ![u] = @ - x]
    <3>1. balance[u] \in Int
      BY <1>18
    <3>2. CASE b > 0
      <4>1. held - b = balance[u] - x
        BY <1>11, <1>16, <1>17, <3>1, <3>2
      <4> QED  BY <1>19, <3>2, <4>1
    <3>3. CASE ~ (b > 0)
      <4>1. b = 0 /\ z = 0
        BY <1>11, <1>16, <3>3
      <4>2. balance[u] - x = balance[u]
        BY <1>17, <3>1, <4>1
      <4>3. balance = [balance EXCEPT ![u] = balance[u]]
        BY <1>18
      <4> QED  BY <1>19, <3>3, <4>2, <4>3
    <3> QED  BY <3>2, <3>3
  <2>2. PICK emptied : emptied = {q \in Packs : p[q] > 0 /\ p[q] = left[q]}
    OBVIOUS
  <2>3. ASSUME NEW q \in Packs
        PROVE  pack'[q] = [left |-> pack[q].left - t[q],
                           status |-> IF q \in emptied THEN "depleted" ELSE pack[q].status]
    <3>1. pack[q].left + o[q] - p[q] = pack[q].left - t[q]
      <4>1. pack[q].left \in Int /\ o[q] \in Int /\ p[q] \in Int
        BY <1>0, <1>4, <1>13 DEF RowsTyped, TrafficPackRow, OnlyOn
      <4> QED  BY <1>17, <4>1
    <3> QED  BY <1>19, <2>2, <3>1
  <2>4. pack' = [q \in Packs |-> pack'[q]]
    BY <1>19
  <2> QED  BY <1>0, <1>18, <1>19, <1>20, <2>1, <2>3, <2>4, DebitRows
<1>23. /\ RowsTyped(balance', pack', credit') /\ DOMAIN credit' = DOMAIN credit
       /\ (\A w \in Payers : balance[w] = balance'[w] + IF w = u THEN x ELSE 0)
       /\ (\A q \in Packs : pack[q].left = pack'[q].left + t[q])
       /\ \A s \in DOMAIN credit : /\ credit[s].left = credit'[s].left + k[s]
                                  /\ credit'[s].original = credit[s].original
  BY <1>22, Zenon DEF DebitedRows
<1>24. GivesUp(u, balance, pack, credit, balance', pack', credit', x, t, k)
  BY <1>0, <1>7, <1>18, <1>20, <1>23 DEF GivesUp
<1>25. flow \in [Payers -> Int] /\ surplus \in [Payers -> Int] /\ owed \in [AllSources -> Nat]
  BY <1>0 DEF Accounts
<1>26. /\ flow' \in [Payers -> Int] /\ surplus' \in [Payers -> Int]
       /\ \A w \in Payers : /\ flow'[w] - flow[w] = IF w = u THEN - c ELSE 0
                            /\ surplus'[w] - surplus[w] = IF w = u THEN i + z ELSE 0
  BY <1>15, <1>18, <1>19, <1>25
<1>27. owed' \in [AllSources -> Nat]
  BY <1>4, <1>11, <1>19, <1>25
<1>28. Accounts'
  BY <1>0, <1>26, <1>27 DEF Accounts
<1>29. OwedToOne'
  <2>1. CASE ~ stored
    <3>1. owed' = owed
      BY <1>19, <2>1
    <3> QED  BY <1>0, <3>1 DEF OwedToOne, Migration!UserOf
  <2>2. CASE stored
    <3>1. \A s \in AllSources : owed'[s] # 0 => s = u \/ (s \in Packs /\ p[s] # 0)
      BY <1>19, <2>2
    <3>2. \A s \in Packs : p[s] # 0 => Owner[s] = u
      BY <1>4 DEF OnlyOn, PacksOf
    <3>3. \A s \in AllSources : owed'[s] # 0 => Migration!UserOf(s) = u
      BY <3>1, <3>2, SourceOwners, SourcesFinite
    <3> QED  BY <2>2, <3>3 DEF OwedToOne, Migration!UserOf
  <2> QED  BY <2>1, <2>2
<1>30. ASSUME NEW w \in Payers
       PROVE  HeldIn(balance', pack', credit', w) =
                HeldIn(balance, pack, credit, w) + (flow'[w] - flow[w]) + (surplus'[w] - surplus[w])
  <2>1. PICK h, ha, y : /\ h = HeldIn(balance, pack, credit, w)
                       /\ ha = HeldIn(balance', pack', credit', w)
                       /\ y = x + Migration!SumFunction(t) + Migration!SumFunction(k)
    OBVIOUS
  <2>2. h = ha + IF w = u THEN y ELSE 0
    <3>1. LosesValue(u, balance, pack, credit, balance', pack', credit', w, y)
      BY <1>24, <2>1, GivesLoses
    <3> QED  BY <2>1, <3>1 DEF LosesValue
  <2>3. ha \in Int
    <3>1. InParts(balance', pack', credit', w)
      BY <1>23, HeldParts
    <3>2. PICK f, g \in Int : HeldIn(balance', pack', credit', w) = balance'[w] + f + g
      BY <3>1, Zenon DEF InParts
    <3>3. balance'[w] \in Int
      BY <1>23 DEF RowsTyped
    <3> QED  BY <2>1, <3>2, <3>3
  <2>4. y = c - (i + z) /\ i + z \in Int
    BY <1>8, <1>9, <1>11, <1>15, <1>17, <1>18, <1>21, <1>6, <2>1
  <2>5. /\ flow'[w] - flow[w] = IF w = u THEN - c ELSE 0
        /\ surplus'[w] - surplus[w] = IF w = u THEN i + z ELSE 0
    BY <1>26
  <2>6. CASE w = u
    BY <2>1, <2>2, <2>3, <2>4, <2>5, <2>6
  <2>7. CASE w # u
    BY <2>1, <2>2, <2>3, <2>5, <2>7
  <2> QED  BY <2>6, <2>7
<1> QED  BY <1>23, <1>28, <1>29, <1>30, ApplicationStep

(* The usage flush. *)
LEMMA DebitStep ==
  ASSUME MigrationInv, NEW u \in Payers, Migration!Debit(u)
  PROVE  MigrationInv'
<1>1. PICK c \in Amounts : Migration!Spend(u, c, balance[u], Migration!Usable(u), FALSE)
  BY Zenon DEF Migration!Debit
<1>2. UNCHANGED <<recharge, video, holder, run>> /\ holder = None
  BY DEF Migration!Debit, Migration!Changes, Migration!Unlocked
<1>3. c \in Int /\ balance[u] \in Int /\ VideoRow(video)
  BY InvParts, SourceOwners DEF RowsTyped, Accounts
<1>4. VideoRow(video')
  BY <1>2, <1>3
<1> QED  BY <1>1, <1>2, <1>3, <1>4, UsableHeld, SpendStep

(* Nothing is held when no request is under way. *)
LEMMA NoVideoRow == VideoRow(Migration!NoVideo) /\ Migration!NoVideo.pc = "idle"
BY DEF VideoRow, Migration!NoVideo

(* A video request loads its user, *)
LEMMA LoadUserStep ==
  ASSUME MigrationInv, NEW u \in Payers, Migration!LoadUser(u)
  PROVE  MigrationInv'
<1>0. Accounts /\ OwedToOne /\ balance[u] \in Int
  BY InvParts DEF RowsTyped
<1>1. PICK c \in Amounts :
        video' = [Migration!NoVideo EXCEPT !.pc = "loaded", !.user = u, !.cents = c, !.balance = balance[u]]
  BY Zenon DEF Migration!LoadUser
<1>2. UNCHANGED <<balance, pack, credit, recharge, owed, flow, surplus, holder, run>>
  BY DEF Migration!LoadUser, Migration!Changes, Migration!rows
<1>3. VideoRow(video') /\ video'.pc = "loaded"
  <2>1. video' = [pc |-> "loaded", user |-> u, cents |-> c, balance |-> balance[u],
                  left |-> [q \in Packs |-> 0]]
    BY <1>1 DEF Migration!NoVideo
  <2>2. c \in Int
    BY SourceOwners
  <2> QED  BY <1>0, <2>1, <2>2 DEF VideoRow
<1>4. Accounts'
  BY <1>0, <1>2, <1>3 DEF Accounts
<1>5. OwedToOne'
  BY <1>0, <1>2, <1>3 DEF OwedToOne, Migration!UserOf
<1> QED  BY <1>2, <1>4, <1>5, AccountsStep

(* looks its job up, *)
LEMMA QueryVideoStep ==
  ASSUME MigrationInv, NEW u \in Payers, Migration!QueryVideo(u)
  PROVE  MigrationInv'
<1>0. Accounts /\ OwedToOne /\ balance[u] \in Int
  BY InvParts DEF RowsTyped
<1>1. video' = [Migration!NoVideo EXCEPT !.pc = "querying", !.user = u, !.balance = balance[u]]
  BY DEF Migration!QueryVideo
<1>2. UNCHANGED <<balance, pack, credit, recharge, owed, flow, surplus, holder, run>>
  BY DEF Migration!QueryVideo, Migration!Changes, Migration!rows
<1>3. VideoRow(video') /\ video'.user = u
  <2>1. video' = [pc |-> "querying", user |-> u, cents |-> 0, balance |-> balance[u],
                  left |-> [q \in Packs |-> 0]]
    BY <1>1 DEF Migration!NoVideo
  <2> QED  BY <1>0, <2>1 DEF VideoRow
<1>4. PICK s \in AllSources : owed[s] > 0 /\ Migration!UserOf(s) = u
  BY SourceOwners DEF Migration!QueryVideo
<1>5. owed[s] # 0
  BY <1>4
<1>6. \A r \in AllSources : owed[r] # 0 => Migration!UserOf(r) = u
  BY <1>0, <1>4, <1>5 DEF OwedToOne
<1>7. Accounts'
  BY <1>0, <1>2, <1>3 DEF Accounts
<1>8. OwedToOne'
  BY <1>0, <1>2, <1>3, <1>6 DEF OwedToOne, Migration!UserOf
<1> QED  BY <1>2, <1>7, <1>8, AccountsStep

(* The refund of a video job: the balance that it was computed from, and   *)
(* not the row's, is in what is written.                                   *)
LEMMA RefundStep ==
  ASSUME MigrationInv, Migration!Refund
  PROVE  MigrationInv'
<1>0. RowsTyped(balance, pack, credit) /\ Accounts /\ OwedToOne
  BY InvParts
<1>1. /\ owed \in [AllSources -> Nat] /\ flow \in [Payers -> Int] /\ surplus \in [Payers -> Int]
      /\ balance \in [Payers -> Int] /\ pack \in [Packs -> TrafficPackRow] /\ DOMAIN credit \subseteq AllSources
  BY <1>0 DEF Accounts, RowsTyped
<1>2. PICK u, held : u = video.user /\ held = video.balance
  OBVIOUS
<1>3. /\ video.pc = "querying" /\ u \in Payers /\ held \in Int
      /\ \A r \in AllSources \ SourcesOf(u) : owed[r] = 0
  <2>1. video.pc = "querying"
    BY DEF Migration!Refund
  <2>2. u \in Payers /\ held \in Int
    BY <1>0, <1>2, <2>1 DEF Accounts, VideoRow
  <2> QED  BY <1>0, <1>2, <2>1, <2>2 DEF OwedToOne, SourcesOf
<1>4. PICK t, k : t = [q \in Packs |-> owed[q]] /\ k = [r \in DOMAIN credit |-> 0]
  OBVIOUS
<1>5. PICK y, z : /\ y = Migration!SumFunction(owed)
                  /\ z = IF owed[u] > 0 THEN held - balance[u] ELSE 0
  OBVIOUS
<1>6. PICK x : x = owed[u] + z
  OBVIOUS
<1>7. x \in Int /\ z \in Int /\ owed[u] \in Nat /\ u \in AllSources /\ u \notin Packs
  BY <1>1, <1>3, <1>5, <1>6, SourcesFinite DEF AllSources
<1>8. /\ balance' = IF owed[u] > 0 THEN [balance EXCEPT ![u] = held + owed[u]] ELSE balance
      /\ pack' = [q \in Packs |->
                   [left |-> pack[q].left + owed[q],
                    status |-> IF pack[q].status = "depleted" /\ owed[q] > 0 THEN "active"
                               ELSE pack[q].status]]
      /\ flow' = [flow EXCEPT ![u] = @ + y]
      /\ surplus' = IF owed[u] > 0 THEN [surplus EXCEPT ![u] = @ + held - balance[u]] ELSE surplus
      /\ owed' = [r \in AllSources |-> 0]
  BY <1>2, <1>5, SourceOwners, Zenon DEF Migration!Refund
<1>9. /\ UNCHANGED <<credit, recharge, holder, run>> /\ holder = None
      /\ video' = Migration!NoVideo
  BY DEF Migration!Refund, Migration!Unlocked
<1>10. OnlyOn(t, Packs, PacksOf(u)) /\ OnlyOn(k, DOMAIN credit, SourcesOf(u) \cap DOMAIN credit)
  <2>1. t \in [Packs -> Int] /\ k \in [DOMAIN credit -> Int]
    BY <1>1, <1>4 DEF AllSources
  <2>2. ASSUME NEW q \in Packs \ PacksOf(u) PROVE t[q] = 0
    <3>1. q \in AllSources \ SourcesOf(u)
      BY SourceOwners DEF PacksOf, SourcesOf, AllSources
    <3> QED  BY <1>3, <1>4, <3>1
  <2>3. \A r \in DOMAIN credit : k[r] = 0
    BY <1>4
  <2>4. PacksOf(u) \subseteq Packs
    BY DEF PacksOf
  <2> QED  BY <2>1, <2>2, <2>3, <2>4 DEF OnlyOn
<1>11. ASSUME NEW q \in Packs PROVE pack'[q] \in TrafficPackRow /\ pack'[q].left = pack[q].left + t[q]
  <2>1. /\ pack[q].left \in Int /\ owed[q] \in Int
        /\ pack[q].status \in {"active", "depleted", "disabled", "migrated"}
    BY <1>1 DEF TrafficPackRow, AllSources
  <2>2. PICK l, st : /\ l = pack[q].left + owed[q]
                     /\ st = IF pack[q].status = "depleted" /\ owed[q] > 0 THEN "active" ELSE pack[q].status
    OBVIOUS
  <2>3. pack'[q] = [left |-> l, status |-> st]
    BY <1>8, <2>2
  <2>4. l \in Int /\ st \in {"active", "depleted", "disabled", "migrated"}
    BY <2>1, <2>2
  <2> QED  BY <1>4, <2>2, <2>3, <2>4 DEF TrafficPackRow
<1>12. /\ balance' \in [Payers -> Int]
       /\ \A w \in Payers : balance'[w] = balance[w] + IF w = u THEN x ELSE 0
  <2>1. CASE owed[u] > 0
    BY <1>1, <1>3, <1>5, <1>6, <1>7, <1>8, <2>1
  <2>2. CASE ~ (owed[u] > 0)
    <3>1. x = 0 /\ balance' = balance
      BY <1>5, <1>6, <1>7, <1>8, <2>2
    <3> QED  BY <1>1, <3>1
  <2> QED  BY <2>1, <2>2
<1>13. RowsTyped(balance', pack', credit')
  <2>1. pack' \in [Packs -> TrafficPackRow]
    BY <1>8, <1>11
  <2> QED  BY <1>0, <1>9, <1>12, <2>1 DEF RowsTyped
<1>14. GivesUp(u, balance', pack', credit', balance, pack, credit, x, t, k)
  <2>1. \A r \in DOMAIN credit : credit'[r].left = credit[r].left + k[r]
    BY <1>0, <1>4, <1>9 DEF RowsTyped, CreditRow
  <2> QED  BY <1>0, <1>7, <1>9, <1>10, <1>11, <1>12, <1>13, <2>1 DEF GivesUp
<1>15. y \in Int /\ y + z = x + Migration!SumFunction(t) + Migration!SumFunction(k)
  <2>1. OnlyOn(owed, AllSources, SourcesOf(u))
    BY <1>1, <1>3 DEF OnlyOn, SourcesOf
  <2>2. y \in Int /\ y = SumFunctionOnSet(owed, SourcesOf(u))
    BY <1>5, <2>1, SourcesFinite, OnlyOnSum
  <2>3. PICK P : P = PacksOf(u)
    OBVIOUS
  <2>4. IsFiniteSet(P) /\ SourcesOf(u) = P \cup {u} /\ u \notin P /\ P \subseteq Packs
    BY <1>3, <2>3, SourceSets
  <2>5. \A r \in P \cup {u} : owed[r] \in Int
    BY <1>1, <1>7, <2>4 DEF AllSources
  <2>6. SumFunctionOnSet(owed, P \cup {u}) = owed[u] + SumFunctionOnSet(owed, P)
    BY <2>4, <2>5, SumAdd
  <2>7. SumFunctionOnSet(owed, P) = SumFunctionOnSet(t, P)
    <3>1. \A r \in P : owed[r] \in Int /\ owed[r] = t[r]
      BY <1>4, <2>4, <2>5
    <3> QED  BY <2>4, <3>1, SumSame
  <2>8. Migration!SumFunction(t) \in Int /\ Migration!SumFunction(t) = SumFunctionOnSet(t, P)
    BY <1>10, <2>3, SourcesFinite, OnlyOnSum
  <2>9. Migration!SumFunction(k) = 0
    <3>1. IsFiniteSet(DOMAIN credit)
      BY <1>1, SourcesFinite, FS_Subset
    <3>2. Migration!SumFunction(k) = SumFunctionOnSet(k, SourcesOf(u) \cap DOMAIN credit)
      BY <1>10, <3>1, OnlyOnSum
    <3>3. IsFiniteSet(SourcesOf(u) \cap DOMAIN credit) /\ \A r \in SourcesOf(u) \cap DOMAIN credit : k[r] = 0
      BY <1>4, <3>1, FS_Subset
    <3> QED  BY <3>2, <3>3, SumZero
  <2> QED  BY <1>5, <1>6, <1>7, <2>2, <2>4, <2>6, <2>7, <2>8, <2>9
<1>16. /\ flow' \in [Payers -> Int] /\ surplus' \in [Payers -> Int]
       /\ \A w \in Payers : /\ flow'[w] - flow[w] = IF w = u THEN y ELSE 0
                            /\ surplus'[w] - surplus[w] = IF w = u THEN z ELSE 0
  <2>1. flow' \in [Payers -> Int] /\ \A w \in Payers : flow'[w] - flow[w] = IF w = u THEN y ELSE 0
    BY <1>1, <1>3, <1>8, <1>15
  <2>2. surplus' = [surplus EXCEPT ![u] = @ + z]
    <3>1. surplus[u] \in Int /\ balance[u] \in Int /\ held \in Int
      BY <1>1, <1>3
    <3>2. CASE owed[u] > 0
      <4>1. surplus[u] + held - balance[u] = surplus[u] + z
        BY <1>5, <3>1, <3>2
      <4> QED  BY <1>8, <3>2, <4>1
    <3>3. CASE ~ (owed[u] > 0)
      <4>1. surplus[u] + z = surplus[u]
        BY <1>5, <3>1, <3>3
      <4>2. surplus = [surplus EXCEPT ![u] = surplus[u]]
        BY <1>1
      <4> QED  BY <1>8, <3>3, <4>1, <4>2
    <3> QED  BY <3>2, <3>3
  <2> QED  BY <1>1, <1>3, <1>7, <2>1, <2>2
<1>17. Accounts'
  <2>1. owed' \in [AllSources -> Nat]
    BY <1>8
  <2> QED  BY <1>0, <1>9, <1>16, <2>1, NoVideoRow DEF Accounts
<1>18. OwedToOne'
  BY <1>8, <1>9, NoVideoRow DEF OwedToOne, Migration!UserOf
<1>19. ASSUME NEW w \in Payers
       PROVE  HeldIn(balance', pack', credit', w) =
                HeldIn(balance, pack, credit, w) + (flow'[w] - flow[w]) + (surplus'[w] - surplus[w])
  <2>1. PICK h, ha, v : /\ h = HeldIn(balance, pack, credit, w)
                       /\ ha = HeldIn(balance', pack', credit', w)
                       /\ v = x + Migration!SumFunction(t) + Migration!SumFunction(k)
    OBVIOUS
  <2>2. ha = h + IF w = u THEN v ELSE 0
    <3>1. LosesValue(u, balance', pack', credit', balance, pack, credit, w, v)
      BY <1>3, <1>14, <2>1, GivesLoses
    <3> QED  BY <2>1, <3>1 DEF LosesValue
  <2>3. h \in Int /\ v = y + z
    BY <1>15, <2>1, InvParts
  <2>4. /\ surplus'[w] - surplus[w] = IF w = u THEN z ELSE 0
        /\ flow'[w] - flow[w] = IF w = u THEN y ELSE 0
    BY <1>16
  <2> QED  BY <1>7, <1>15, <2>1, <2>2, <2>3, <2>4
<1> QED  BY <1>9, <1>13, <1>17, <1>18, <1>19, ApplicationStep

(* and goes on: asks, charges, refunds, or ends. *)
LEMMA VideoStep ==
  ASSUME MigrationInv, Migration!VideoJob
  PROVE  MigrationInv'
<1>0. Accounts /\ OwedToOne /\ VideoRow(video)
  BY InvParts DEF Accounts
<1>1. CASE Migration!AskVideo
  <2>1. /\ UNCHANGED <<balance, pack, credit, recharge, owed, flow, surplus, holder, run>>
        /\ video.pc = "loaded"
        /\ video' = [video EXCEPT !.pc = "asking", !.left = Migration!Usable(video.user)]
    BY <1>1 DEF Migration!AskVideo, Migration!rows
  <2>2. video.user \in Payers
    BY <1>0, <2>1 DEF VideoRow
  <2>3. Migration!Usable(video.user) \in [Packs -> Int]
    BY <2>2, UsableHeld
  <2>4. VideoRow(video') /\ video'.pc = "asking"
    BY <1>0, <2>1, <2>2, <2>3 DEF VideoRow
  <2>5. Accounts'
    BY <1>0, <2>1, <2>4 DEF Accounts
  <2>6. OwedToOne'
    BY <1>0, <2>1, <2>4 DEF OwedToOne, Migration!UserOf
  <2> QED  BY <2>1, <2>5, <2>6, AccountsStep
<1>2. CASE Migration!ChargeVideo
  <2>1. PICK u, left : u = video.user /\ left = Migration!Seen(video.user)
    OBVIOUS
  <2>2. PICK stored \in BOOLEAN : Migration!Spend(u, video.cents, video.balance, left, stored)
    BY <1>2, <2>1, Zenon DEF Migration!ChargeVideo
  <2>3. /\ UNCHANGED <<recharge, holder, run>> /\ holder = None
        /\ video.pc = "asking" /\ video' = Migration!NoVideo
    BY <1>2 DEF Migration!ChargeVideo, Migration!Unlocked
  <2>4. u \in Payers /\ video.cents \in Int /\ video.balance \in Int /\ \A q \in Packs : video.left[q] \in Int
    BY <1>0, <2>1, <2>3 DEF VideoRow
  <2>5. PacksHeld(u, left)
    <3>1. PacksHeld(u, Migration!Usable(u))
      BY <2>4, UsableHeld
    <3>2. left = [q \in Packs |-> IF Migration!Usable(u)[q] > 0 /\ video.left[q] > 0 THEN video.left[q]
                                 ELSE Migration!Usable(u)[q]]
      BY <2>1 DEF Migration!Seen
    <3> QED  BY <2>4, <3>1, <3>2 DEF PacksHeld
  <2> QED  BY <2>2, <2>3, <2>4, <2>5, NoVideoRow, SpendStep
<1>3. CASE Migration!Refund
  BY <1>3, RefundStep
<1>4. CASE Migration!EndVideo
  <2>1. /\ UNCHANGED <<balance, pack, credit, recharge, owed, flow, surplus, holder, run>>
        /\ video' = Migration!NoVideo
    BY <1>4 DEF Migration!EndVideo, Migration!rows
  <2>2. Accounts'
    BY <1>0, <2>1, NoVideoRow DEF Accounts
  <2>3. OwedToOne'
    BY <1>0, <2>1, NoVideoRow DEF OwedToOne, Migration!UserOf
  <2> QED  BY <2>1, <2>2, <2>3, AccountsStep
<1> QED  BY <1>1, <1>2, <1>3, <1>4 DEF Migration!VideoJob

(* The invariant holds at the start. *)
LEMMA MigrationStarts == Migration!Init => MigrationInv
<1> SUFFICES ASSUME Migration!Init PROVE MigrationInv
  OBVIOUS
<1>1. PICK o \in Openings :
        /\ balance = o.balance
        /\ pack = [q \in Packs |-> [left |-> o.left[q],
                                    status |-> IF o.left[q] > 0 THEN "active" ELSE "depleted"]]
        /\ flow = [u \in Payers |-> o.balance[u]
                     + Migration!SumFunctionOnSet(o.left, {q \in Packs : Owner[q] = u})]
  BY Zenon DEF Migration!Init
<1>2. o.balance \in [Payers -> Int] /\ o.left \in [Packs -> Nat]
  BY MigrationAssumed DEF Migration!MigrationAssumption
<1>3. /\ credit = [s \in {} |-> None] /\ holder = None
      /\ run = [m \in Runs |-> Migration!Fresh]
      /\ recharge = [user |-> None, read |-> 0]
      /\ video = Migration!NoVideo
      /\ owed = [s \in AllSources |-> 0]
      /\ surplus = [u \in Payers |-> 0]
  BY SourceOwners DEF Migration!Init
<1>4. RowsTyped(balance, pack, credit)
  <2>1. pack \in [Packs -> TrafficPackRow]
    BY <1>1, <1>2 DEF TrafficPackRow
  <2> QED  BY <1>1, <1>2, <1>3, <2>1 DEF RowsTyped
<1>5. OwedToOne
  BY <1>3 DEF OwedToOne, Migration!NoVideo
<1>6. RunsKnow
  <2>1. /\ Migration!Fresh.phase = "plan" /\ Migration!Fresh.wrote = FALSE
    BY DEF Migration!Fresh
  <2>2. \A m \in Runs : /\ LocksHold(Migration!Fresh, m, holder, balance, pack, credit)
                        /\ StaysWritten(Migration!Fresh, credit)
    BY <2>1 DEF LocksHold, StaysWritten
  <2> QED  BY <1>3, <2>2, FreshRow DEF RunsKnow
<1>7. ASSUME NEW u \in Payers
      PROVE  flow[u] \in Int /\ HeldIn(balance, pack, credit, u) = flow[u] + surplus[u]
  <2>1. PICK x, y \in Int : /\ x = SumFunctionOnSet(LeftsOf(pack), PacksOf(u))
                           /\ y = SumFunctionOnSet(CreditLefts(credit), SourcesOf(u) \cap DOMAIN credit)
                           /\ HeldIn(balance, pack, credit, u) = balance[u] + x + y
    <3>1. InParts(balance, pack, credit, u)
      BY <1>4, HeldParts
    <3> QED  BY <3>1 DEF InParts
  <2>2. y = 0
    <3>1. SourcesOf(u) \cap DOMAIN credit = {}
      BY <1>3
    <3> QED  BY <2>1, <3>1, FS_EmptySet, SumStep
  <2>3. flow[u] = balance[u] + x
    <3>1. LeftsOf(pack) = o.left
      <4>1. \A q \in Packs : pack[q].left = o.left[q]
        BY <1>1
      <4> QED  BY <1>2, <4>1 DEF LeftsOf
    <3>2. flow[u] = o.balance[u] + Migration!SumFunctionOnSet(o.left, PacksOf(u))
      BY <1>1 DEF PacksOf
    <3>3. Migration!SumFunctionOnSet(o.left, PacksOf(u)) = x
      BY <2>1, <3>1, MigrationSums, Zenon
    <3> QED  BY <1>1, <3>2, <3>3
  <2>4. balance[u] \in Int /\ surplus[u] = 0
    BY <1>1, <1>2, <1>3
  <2> QED  BY <2>1, <2>2, <2>3, <2>4
<1>8. Accounts
  <2>1. flow \in [Payers -> Int]
    BY <1>1, <1>7, Zenon
  <2> QED  BY <1>3, <2>1, NoVideoRow DEF Accounts
<1>9. Migration!ValueConserved
  BY <1>7, ConservedIs
<1> QED  BY <1>4, <1>5, <1>6, <1>8, <1>9, RowsOf DEF MigrationInv

(* Every step keeps it. *)
LEMMA MigrationSteps == MigrationInv /\ [Migration!Next]_(Migration!vars) => MigrationInv'
<1> SUFFICES ASSUME MigrationInv, [Migration!Next]_(Migration!vars) PROVE MigrationInv'
  OBVIOUS
<1>1. ASSUME NEW m \in Runs, Migration!Start(m) \/ Migration!Migrate(m) PROVE MigrationInv'
  BY <1>1, StartStep, ReadUsersStep, ReadPacksStep, ReadCreditsStep, FailStep, CommitStep, CommitRaisesStep
     DEF Migration!Migrate
<1>2. ASSUME Migration!Application PROVE MigrationInv'
  BY <1>2, DebitStep, LoadUserStep, QueryVideoStep, VideoStep, ReadForRechargeStep,
     WriteRechargeStep, SetStatusStep DEF Migration!Application
<1>3. CASE UNCHANGED <<balance, pack, credit, recharge, video, owed, flow, surplus, holder, run>>
  <2>1. RowsTyped(balance', pack', credit') /\ RowsTyped(balance, pack, credit)
    BY <1>3, InvParts
  <2>2. Accounts'
    BY <1>3, InvParts DEF Accounts
  <2>3. OwedToOne'
    BY <1>3, InvParts DEF OwedToOne, Migration!UserOf
  <2>4. RunsKnow'
    BY <1>3 DEF MigrationInv, RunsKnow
  <2>5. Migration!ValueConserved'
    <3>1. \A u \in Payers : HeldIn(balance, pack, credit, u) = flow[u] + surplus[u]
      BY ConservedIs DEF MigrationInv
    <3>2. \A u \in Payers : HeldIn(balance', pack', credit', u) = flow'[u] + surplus'[u]
      BY <1>3, <3>1
    <3> QED  BY <3>2, ConservedIs
  <2> QED  BY <2>1, <2>2, <2>3, <2>4, <2>5, RowsOf DEF MigrationInv
<1>4. CASE Migration!Tick
  BY <1>3, <1>4 DEF Migration!Tick, Migration!rows, Migration!app
<1>5. CASE UNCHANGED Migration!vars
  BY <1>3, <1>5 DEF Migration!vars
<1> QED  BY <1>1, <1>2, <1>4, <1>5 DEF Migration!Next

(* It implies what the run checks, *)
LEMMA SoundFollows == MigrationInv => Migration!MigrationSound
<1> SUFFICES ASSUME MigrationInv PROVE Migration!MigrationSound
  OBVIOUS
<1>1. Migration!ValueConserved
  BY DEF MigrationInv
<1>2. ASSUME NEW m \in Runs, run[m].wrote
      PROVE  /\ run[m].plan.items = run[m].first.items
             /\ Migration!Cardinality(DOMAIN run[m].plan.items) <= MaxPlanned
             /\ \A s \in DOMAIN run[m].plan.items :
                  s \in DOMAIN credit /\ credit[s].original = run[m].first.items[s]
  <2>1. RunRow(run[m]) /\ StaysWritten(run[m], credit)
    BY RunOf
  <2>2. run[m].plan = run[m].first /\ WithinPlanLimit(run[m].first)
    BY <1>2, <2>1 DEF RunRow
  <2>3. HasOriginals(run[m].plan.items, credit)
    BY <1>2, <2>1 DEF StaysWritten
  <2> QED  BY <2>2, <2>3 DEF WithinPlanLimit, HasOriginals
<1>3. Migration!MovesWhatWasPlanned
  BY <1>2 DEF Migration!MovesWhatWasPlanned
<1>4. ASSUME NEW m \in Runs
      PROVE  /\ run[m].wrote => run[m].mode \in {"none", "apply", "apply_indeterminate"}
             /\ run[m].mode = "apply" => run[m].wrote
  <2>1. RunRow(run[m])
    BY RunOf
  <2> QED  BY <2>1 DEF RunRow
<1>5. Migration!ReportTruthful
  BY <1>4 DEF Migration!ReportTruthful
<1> QED  BY <1>1, <1>3, <1>5 DEF Migration!MigrationSound

(* and it always holds. *)
LEMMA MigrationInvariant == Migration!Spec => []MigrationInv
BY MigrationStarts, MigrationSteps, PTL DEF Migration!Spec

-----------------------------------------------------------------------------
(* The properties of the instance.                                         *)

(* OwnersBelong (stations.py: reviews, creations and registrations that    *)
(* check, and commit later): whoever owns a station belongs to it, and     *)
(* whoever was approved owns one.                                          *)
THEOREM OwnersBelongAlways == PartsSpec => []OwnersBelong
<1>1. MembershipInv => OwnersBelong
  BY DEF MembershipInv
<1> QED  BY <1>1, PartsFollow, MembershipInvariant, PTL

(* CoversCostWhenValidated (stations.py: the pricebook): an alias is sold  *)
(* at cost or above, as long as its prices were validated against the      *)
(* model and the cost that it has.                                         *)
THEOREM PricesCoverCost == PartsSpec => []CoversCostWhenValidated
<1>1. CatalogInv => CoversCostWhenValidated
  BY DEF CatalogInv, CoversCostWhenValidated
<1> QED  BY <1>1, PartsFollow, CatalogInvariant, PTL

(* BatchesPayTheirEntries (stations.py: payout batches): a batch that no   *)
(* overlapping creation marked pays what its entries earned, and they are  *)
(* paid exactly when it is.                                                *)
THEOREM BatchesPayAlways == PartsSpec => []BatchesPayTheirEntries
<1>1. PayoutInv => BatchesPayTheirEntries
  BY DEF PayoutInv, BatchesPayTheirEntries
<1> QED  BY <1>1, PartsFollow, PayoutInvariant, PTL

(* ConversationsStay (channel_router.py:290-305): a cooldown, or its end,  *)
(* moves only the conversations of its own channel.                        *)
THEOREM CooldownsMoveTheirOwn == PartsSpec => ConversationsStay
BY PartsFollow, ConversationsStick, PTL DEF ConversationsStay

(* TriesAllOnce (proxy.py: the fallback helpers): a request goes to no     *)
(* channel twice, and gives up its channels only after the last that its   *)
(* worker could try.                                                       *)
THEOREM RequestsTryAllOnce == PartsSpec => TriesAllOnce
BY PartsFollow, WalksTryAllOnce, PTL DEF TriesAllOnce

(* WalletBalances (billing.py, credit_wallet.py, video_jobs.py): every     *)
(* cent of a batch is left in it, spent by a flush or held by a job that   *)
(* was not refunded, and a job is refunded its price, once, if it failed;  *)
(* whatever debits, flushes and refunds run at the same time.              *)
THEOREM WalletBalancesAlways == PartsSpec => []WalletBalances
<1>1. WalletInv => WalletBalances
  BY DEF WalletInv, WalletBalances, Wallet!WalletBalances
<1> QED  BY <1>1, PartsFollow, WalletInvariant, PTL

(* SourcesInOrder (billing.py: the waterfall, and the refund of a job      *)
(* charged in an earlier period): a step that takes from a source leaves   *)
(* nothing in the earlier ones, and a refund spares the usage of a period  *)
(* that is not the one it was charged in, whatever a session had loaded.   *)
THEOREM SourcesStayInOrder == PartsSpec => SourcesInOrder
BY PartsFollow, WalletsInOrder, PTL DEF SourcesInOrder

(* MigrationSound (scripts/migrate_legacy_credits.py): whatever the        *)
(* application does between the plan and the locks, whenever a run fails   *)
(* and however many there are, what users hold is what came in less what   *)
(* was spent, a run moves what its first plan said, to the cent and within *)
(* its limit, and the mode it reports is true of what it wrote.            *)
THEOREM MigrationStaysSound == PartsSpec => []MigrationSound
<1>1. MigrationInv => MigrationSound
  BY SoundFollows DEF MigrationSound
<1> QED  BY <1>1, PartsFollow, MigrationInvariant, PTL
=============================================================================
