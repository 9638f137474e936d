----------------------------- MODULE SumTheorems -----------------------------
(***************************************************************************)
(* Sums over finite sets, as SumFunctionOnSet of the community modules     *)
(* computes them: what the proofs about totals of the model need.  The     *)
(* recursion behind them is unfolded by well-founded induction, in the     *)
(* form that a set of counterexamples has a smallest member; for numbers   *)
(* too, which other proofs use.                                            *)
(***************************************************************************)
EXTENDS FiniteSetTheorems, SequenceTheorems, Functions, Integers, TLAPS

Chosen(s) == CHOOSE x \in s : TRUE

(* The equation that defines the fold on the subsets of S. *)
Unfolds(g, f, S) == g = [s \in SUBSET S |-> IF s = {} THEN 0 ELSE f[Chosen(s)] + g[s \ {Chosen(s)}]]

LEMMA ChosenIsMember == \A s : s # {} => Chosen(s) \in s
  BY DEF Chosen

LEMMA SumIsUnfolding == \A f, S : SumFunctionOnSet(f, S) = (CHOOSE g : Unfolds(g, f, S))[S]
  BY DEF SumFunctionOnSet, FoldFunctionOnSet, MapThenFoldSet, Unfolds, Chosen

(* Induction over the subsets of a finite set: among any that fail there is one    *)
(* whose proper subsets do not.                                                    *)
LEMMA SmallestCounterexample ==
  ASSUME NEW S, IsFiniteSet(S), NEW Bad, Bad \subseteq SUBSET S, Bad # {}
  PROVE  \E T \in Bad : \A U \in SUBSET T : U # T => U \notin Bad
<1>1. IsWellFoundedOn(StrictSubsetOrdering(S), SUBSET S)
  BY FS_StrictSubsetOrderingWellFounded, FS_FiniteSubsetsOfFinite
<1>2. PICK T \in Bad : \A U \in Bad : ~(<<U, T>> \in StrictSubsetOrdering(S))
  BY <1>1, WFMin
<1>3. ASSUME NEW U \in SUBSET T, U # T, U \in Bad  PROVE FALSE
  <2>1. <<U, T>> \in (SUBSET S) \X (SUBSET S)
    BY <1>3
  <2>2. <<U, T>> \in StrictSubsetOrdering(S)
    BY <1>3, <2>1 DEF StrictSubsetOrdering
  <2>3. QED
    BY <1>2, <1>3, <2>2
<1>4. QED
  BY <1>2, <1>3

(* Induction over the numbers: among any of them there is a least one.             *)
LessPairs == {pair \in Nat \X Nat : pair[1] < pair[2]}

LEMMA LessPairsWellFounded == IsWellFoundedOn(LessPairs, Nat)
  BY NatLessThanWellFounded DEF OpToRel, LessPairs

LEMMA LeastElement ==
  ASSUME NEW S, S \subseteq Nat, S # {}
  PROVE  \E x \in S : \A y \in S : x <= y
<1>1. PICK x \in S : \A y \in S : <<y, x>> \notin LessPairs
  BY LessPairsWellFounded, WFMin
<1>2. ASSUME NEW y \in S  PROVE x <= y
  <2>1. <<y, x>> \in Nat \X Nat
    OBVIOUS
  <2>2. ~(<<y, x>>[1] < <<y, x>>[2])
    BY <1>1, <2>1, Zenon DEF LessPairs
  <2>3. QED
    BY <2>2
<1>3. QED
  BY <1>2

------------------------------------------------------------------------------
(* The fold is well defined. *)

LEMMA UnfoldingOfSubset ==
  ASSUME NEW S, NEW T \in SUBSET S, NEW f, NEW g, Unfolds(g, f, S),
         NEW h, h = [s \in SUBSET T |-> g[s]]
  PROVE  Unfolds(h, f, T)
<1>1. ASSUME NEW s \in SUBSET T
      PROVE  h[s] = IF s = {} THEN 0 ELSE f[Chosen(s)] + h[s \ {Chosen(s)}]
  <2>1. s \in SUBSET S /\ s \ {Chosen(s)} \in SUBSET T
    OBVIOUS
  <2>2. g[s] = IF s = {} THEN 0 ELSE f[Chosen(s)] + g[s \ {Chosen(s)}]
    BY <2>1 DEF Unfolds
  <2>3. QED
    BY <2>1, <2>2
<1>2. h = [s \in SUBSET T |-> IF s = {} THEN 0 ELSE f[Chosen(s)] + h[s \ {Chosen(s)}]]
  BY <1>1
<1>3. QED
  BY <1>2 DEF Unfolds

LEMMA UnfoldingUnique ==
  ASSUME NEW S, IsFiniteSet(S), NEW f, NEW g, NEW h, Unfolds(g, f, S), Unfolds(h, f, S)
  PROVE  g = h
<1> DEFINE Bad == {s \in SUBSET S : g[s] # h[s]}
<1>1. Bad = {}
  <2>1. SUFFICES ASSUME Bad # {}  PROVE FALSE
    OBVIOUS
  <2>0. Bad \subseteq SUBSET S
    OBVIOUS
  <2>2. PICK T \in Bad : \A U \in SUBSET T : U # T => U \notin Bad
    <3> HIDE DEF Bad
    <3>1. QED
      BY <2>0, <2>1, SmallestCounterexample
  <2>3. T # {}
    BY DEF Unfolds
  <2>4. Chosen(T) \in T
    BY <2>3, ChosenIsMember
  <2>5. g[T \ {Chosen(T)}] = h[T \ {Chosen(T)}]
    BY <2>2, <2>4
  <2>6. QED
    BY <2>3, <2>5 DEF Unfolds
<1>2. g = [s \in SUBSET S |-> g[s]] /\ h = [s \in SUBSET S |-> h[s]]
  BY DEF Unfolds
<1>3. QED
  BY <1>1, <1>2

LEMMA UnfoldingExists ==
  ASSUME NEW S, IsFiniteSet(S), NEW f  PROVE \E g : Unfolds(g, f, S)
<1> DEFINE Bad == {s \in SUBSET S : ~\E g : Unfolds(g, f, s)}
<1>1. SUFFICES ASSUME Bad # {}  PROVE FALSE
  OBVIOUS
<1>0. Bad \subseteq SUBSET S
  OBVIOUS
<1>2. PICK T \in Bad : \A U \in SUBSET T : U # T => U \notin Bad
  <2> HIDE DEF Bad
  <2>1. QED
    BY <1>0, <1>1, SmallestCounterexample
<1> DEFINE Of(U) == CHOOSE g : Unfolds(g, f, U)
           value == [U \in SUBSET T |->
                        IF U # T THEN Of(U)[U]
                        ELSE IF T = {} THEN 0
                        ELSE f[Chosen(T)] + Of(T \ {Chosen(T)})[T \ {Chosen(T)}]]
<1> HIDE DEF Of
<1>3. ASSUME NEW U \in SUBSET T, U # T  PROVE Unfolds(Of(U), f, U)
  BY <1>2, <1>3 DEF Of
<1>4. ASSUME NEW U \in SUBSET T, U # T, NEW V \in SUBSET U  PROVE Of(V)[V] = Of(U)[V]
  <2>1. V \in SUBSET T /\ V # T
    BY <1>4
  <2>2. IsFiniteSet(V)
    BY <2>1, FS_Subset
  <2>3. Unfolds(Of(V), f, V) /\ Unfolds(Of(U), f, U)
    BY <1>3, <1>4, <2>1
  <2> DEFINE h == [s \in SUBSET V |-> Of(U)[s]]
  <2>4. Unfolds(h, f, V)
    BY <2>3, UnfoldingOfSubset
  <2>5. Of(V) = h
    BY <2>2, <2>3, <2>4, UnfoldingUnique
  <2>6. QED
    BY <2>5
<1>5. ASSUME NEW U \in SUBSET T
      PROVE  value[U] = IF U = {} THEN 0 ELSE f[Chosen(U)] + value[U \ {Chosen(U)}]
  <2>1. CASE U = {} /\ U # T
    BY <1>3, <2>1 DEF Unfolds
  <2>2. CASE U # {} /\ U # T
    <3>1. U \ {Chosen(U)} \in SUBSET U /\ U \ {Chosen(U)} \in SUBSET T /\ U \ {Chosen(U)} # T
      BY <2>2
    <3>2. Of(U)[U] = f[Chosen(U)] + Of(U)[U \ {Chosen(U)}]
      BY <1>3, <2>2, <3>1 DEF Unfolds
    <3>3. Of(U)[U \ {Chosen(U)}] = value[U \ {Chosen(U)}]
      BY <1>4, <2>2, <3>1
    <3>4. QED
      BY <2>2, <3>2, <3>3
  <2>3. CASE U = T
    <3>1. T # {} => T \ {Chosen(T)} # T /\ T \ {Chosen(T)} \in SUBSET T
      BY ChosenIsMember
    <3>2. QED
      BY <2>3, <3>1
  <2>4. QED
    BY <2>1, <2>2, <2>3
<1>6. value = [s \in SUBSET T |-> IF s = {} THEN 0 ELSE f[Chosen(s)] + value[s \ {Chosen(s)}]]
  BY <1>5
<1>7. Unfolds(value, f, T)
  BY <1>6 DEF Unfolds
<1>8. QED
  BY <1>7

LEMMA SumUnfolds ==
  ASSUME NEW S, IsFiniteSet(S), NEW f
  PROVE  SumFunctionOnSet(f, S) =
             IF S = {} THEN 0 ELSE f[Chosen(S)] + SumFunctionOnSet(f, S \ {Chosen(S)})
<1> DEFINE g == CHOOSE g : Unfolds(g, f, S)
           T == S \ {Chosen(S)}
           h == CHOOSE h : Unfolds(h, f, T)
<1>1. IsFiniteSet(T)
  BY FS_RemoveElement
<1>2. Unfolds(g, f, S) /\ Unfolds(h, f, T)
  BY <1>1, UnfoldingExists
<1>3. h = [s \in SUBSET T |-> g[s]]
  <2> DEFINE r == [s \in SUBSET T |-> g[s]]
  <2>1. Unfolds(r, f, T)
    BY <1>2, UnfoldingOfSubset
  <2>2. QED
    BY <1>1, <1>2, <2>1, UnfoldingUnique
<1>4. SumFunctionOnSet(f, S) = g[S] /\ SumFunctionOnSet(f, T) = h[T]
  BY SumIsUnfolding
<1> HIDE DEF g, h
<1>5. g[S] = IF S = {} THEN 0 ELSE f[Chosen(S)] + g[T]
  BY <1>2 DEF Unfolds
<1>6. g[T] = h[T]
  BY <1>3
<1>7. QED
  BY <1>4, <1>5, <1>6
------------------------------------------------------------------------------
(* Sums of integers: any member can be taken out first. *)

LEMMA SumEmpty == \A f : SumFunctionOnSet(f, {}) = 0
<1>1. IsFiniteSet({})
  BY FS_EmptySet
<1>2. QED
  BY <1>1, SumUnfolds

LEMMA SumType ==
  ASSUME NEW S, IsFiniteSet(S), NEW f, \A x \in S : f[x] \in Int
  PROVE  SumFunctionOnSet(f, S) \in Int
<1> DEFINE Bad == {T \in SUBSET S : SumFunctionOnSet(f, T) \notin Int}
<1>1. SUFFICES ASSUME Bad # {}  PROVE FALSE
  BY DEF Bad
<1>2. Bad \subseteq SUBSET S
  OBVIOUS
<1>3. PICK T \in Bad : \A U \in SUBSET T : U # T => U \notin Bad
  <2> HIDE DEF Bad
  <2>1. QED
    BY <1>1, <1>2, SmallestCounterexample
<1>4. IsFiniteSet(T)
  BY FS_Subset
<1>5. T # {}
  BY SumEmpty
<1>6. Chosen(T) \in T /\ T \ {Chosen(T)} \in SUBSET T /\ T \ {Chosen(T)} # T
  BY <1>5, ChosenIsMember
<1>7. SumFunctionOnSet(f, T \ {Chosen(T)}) \in Int
  BY <1>3, <1>6
<1>8. SumFunctionOnSet(f, T) = f[Chosen(T)] + SumFunctionOnSet(f, T \ {Chosen(T)})
  BY <1>4, <1>5, SumUnfolds
<1>9. SumFunctionOnSet(f, T) \in Int
  BY <1>6, <1>7, <1>8
<1>10. QED
  BY <1>9

LEMMA SumTakesOut ==
  ASSUME NEW S, IsFiniteSet(S), NEW f, \A x \in S : f[x] \in Int, NEW x \in S
  PROVE  SumFunctionOnSet(f, S) = f[x] + SumFunctionOnSet(f, S \ {x})
<1> DEFINE Bad == {T \in SUBSET S : \E y \in T :
                      SumFunctionOnSet(f, T) # f[y] + SumFunctionOnSet(f, T \ {y})}
<1>1. SUFFICES ASSUME Bad # {}  PROVE FALSE
  BY DEF Bad
<1>2. Bad \subseteq SUBSET S
  OBVIOUS
<1>3. PICK T \in Bad : \A U \in SUBSET T : U # T => U \notin Bad
  <2> HIDE DEF Bad
  <2>1. QED
    BY <1>1, <1>2, SmallestCounterexample
<1>4. PICK y \in T : SumFunctionOnSet(f, T) # f[y] + SumFunctionOnSet(f, T \ {y})
  BY <1>3
<1> DEFINE c == Chosen(T)
           R == T \ {c}
           Q == R \ {y}
<1>5. c \in T
  BY ChosenIsMember
<1> HIDE DEF c
<1>6. IsFiniteSet(T) /\ IsFiniteSet(R) /\ IsFiniteSet(Q) /\ IsFiniteSet(T \ {y})
  BY FS_Subset
<1>7. SumFunctionOnSet(f, T) = f[c] + SumFunctionOnSet(f, R)
  BY <1>5, <1>6, SumUnfolds DEF c
<1>8. y # c
  BY <1>4, <1>7
<1>9. SumFunctionOnSet(f, R) = f[y] + SumFunctionOnSet(f, Q)
  BY <1>3, <1>5, <1>8
<1>10. SumFunctionOnSet(f, T \ {y}) = f[c] + SumFunctionOnSet(f, Q)
  <2>1. (T \ {y}) \ {c} = Q
    OBVIOUS
  <2>2. T \ {y} \in SUBSET T /\ T \ {y} # T /\ c \in T \ {y}
    BY <1>5, <1>8
  <2>3. T \ {y} \notin Bad
    BY <1>3, <2>2
  <2>4. QED
    BY <2>1, <2>2, <2>3
<1>11. SumFunctionOnSet(f, Q) \in Int /\ f[c] \in Int /\ f[y] \in Int
  BY <1>5, <1>6, SumType
<1>12. QED
  BY <1>4, <1>7, <1>9, <1>10, <1>11

LEMMA SumAdds ==
  ASSUME NEW S, IsFiniteSet(S), NEW x, x \notin S, NEW f, \A y \in S \cup {x} : f[y] \in Int
  PROVE  SumFunctionOnSet(f, S \cup {x}) = SumFunctionOnSet(f, S) + f[x]
<1>1. IsFiniteSet(S \cup {x}) /\ (S \cup {x}) \ {x} = S
  BY FS_AddElement
<1>2. SumFunctionOnSet(f, S \cup {x}) = f[x] + SumFunctionOnSet(f, S)
  BY <1>1, SumTakesOut
<1>3. SumFunctionOnSet(f, S) \in Int
  BY SumType
<1>4. QED
  BY <1>2, <1>3

(* Only the values on the set count. *)
LEMMA SumSame ==
  ASSUME NEW S, IsFiniteSet(S), NEW f, NEW g, \A x \in S : f[x] = g[x]
  PROVE  SumFunctionOnSet(f, S) = SumFunctionOnSet(g, S)
<1> DEFINE Bad == {T \in SUBSET S : SumFunctionOnSet(f, T) # SumFunctionOnSet(g, T)}
<1>1. SUFFICES ASSUME Bad # {}  PROVE FALSE
  BY DEF Bad
<1>2. Bad \subseteq SUBSET S
  OBVIOUS
<1>3. PICK T \in Bad : \A U \in SUBSET T : U # T => U \notin Bad
  <2> HIDE DEF Bad
  <2>1. QED
    BY <1>1, <1>2, SmallestCounterexample
<1>4. IsFiniteSet(T)
  BY FS_Subset
<1>5. T # {}
  BY SumEmpty
<1>6. Chosen(T) \in T /\ T \ {Chosen(T)} \in SUBSET T /\ T \ {Chosen(T)} # T
  BY <1>5, ChosenIsMember
<1>7. SumFunctionOnSet(f, T \ {Chosen(T)}) = SumFunctionOnSet(g, T \ {Chosen(T)})
  BY <1>3, <1>6
<1>8. /\ SumFunctionOnSet(f, T) = f[Chosen(T)] + SumFunctionOnSet(f, T \ {Chosen(T)})
      /\ SumFunctionOnSet(g, T) = g[Chosen(T)] + SumFunctionOnSet(g, T \ {Chosen(T)})
  BY <1>4, <1>5, SumUnfolds
<1>9. QED
  BY <1>6, <1>7, <1>8

(* The sum changes as one value does. *)
LEMMA SumChanges ==
  ASSUME NEW S, IsFiniteSet(S), NEW x \in S, NEW f, NEW g,
         \A y \in S : f[y] \in Int, g[x] \in Int, \A y \in S \ {x} : g[y] = f[y]
  PROVE  SumFunctionOnSet(g, S) = (SumFunctionOnSet(f, S) - f[x]) + g[x]
<1>1. IsFiniteSet(S \ {x})
  BY FS_RemoveElement
<1>2. SumFunctionOnSet(g, S \ {x}) = SumFunctionOnSet(f, S \ {x})
  BY <1>1, SumSame
<1>3. /\ SumFunctionOnSet(g, S) = g[x] + SumFunctionOnSet(g, S \ {x})
      /\ SumFunctionOnSet(f, S) = f[x] + SumFunctionOnSet(f, S \ {x})
  BY SumTakesOut
<1>4. SumFunctionOnSet(f, S \ {x}) \in Int
  BY <1>1, SumType
<1>5. QED
  BY <1>2, <1>3, <1>4

(* Sums compare as their terms do. *)
LEMMA SumBelow ==
  ASSUME NEW S, IsFiniteSet(S), NEW f, NEW g,
         \A x \in S : f[x] \in Int /\ g[x] \in Int /\ f[x] <= g[x]
  PROVE  SumFunctionOnSet(f, S) <= SumFunctionOnSet(g, S)
<1> DEFINE Bad == {T \in SUBSET S : ~(SumFunctionOnSet(f, T) <= SumFunctionOnSet(g, T))}
<1>1. SUFFICES ASSUME Bad # {}  PROVE FALSE
  BY DEF Bad
<1>2. Bad \subseteq SUBSET S
  OBVIOUS
<1>3. PICK T \in Bad : \A U \in SUBSET T : U # T => U \notin Bad
  <2> HIDE DEF Bad
  <2>1. QED
    BY <1>1, <1>2, SmallestCounterexample
<1>4. IsFiniteSet(T) /\ IsFiniteSet(T \ {Chosen(T)})
  BY FS_Subset
<1>5. T # {}
  BY SumEmpty
<1>6. Chosen(T) \in T /\ T \ {Chosen(T)} \in SUBSET T /\ T \ {Chosen(T)} # T
  BY <1>5, ChosenIsMember
<1>7. SumFunctionOnSet(f, T \ {Chosen(T)}) <= SumFunctionOnSet(g, T \ {Chosen(T)})
  BY <1>3, <1>6
<1>8. /\ SumFunctionOnSet(f, T) = f[Chosen(T)] + SumFunctionOnSet(f, T \ {Chosen(T)})
      /\ SumFunctionOnSet(g, T) = g[Chosen(T)] + SumFunctionOnSet(g, T \ {Chosen(T)})
  BY <1>4, <1>5, SumUnfolds
<1>9. /\ SumFunctionOnSet(f, T \ {Chosen(T)}) \in Int /\ SumFunctionOnSet(g, T \ {Chosen(T)}) \in Int
      /\ f[Chosen(T)] \in Int /\ g[Chosen(T)] \in Int
  BY <1>4, <1>6, SumType
<1>10. QED
  BY <1>3, <1>7, <1>8, <1>9, <1>6

(* Sums of natural numbers grow with the set. *)
LEMMA SumGrows ==
  ASSUME NEW T, IsFiniteSet(T), NEW S \in SUBSET T, NEW f, \A x \in T : f[x] \in Nat
  PROVE  SumFunctionOnSet(f, S) <= SumFunctionOnSet(f, T)
<1> DEFINE Bad == {U \in SUBSET T : S \subseteq U /\ ~(SumFunctionOnSet(f, S) <= SumFunctionOnSet(f, U))}
<1>1. SUFFICES ASSUME Bad # {}  PROVE FALSE
  BY DEF Bad
<1>2. Bad \subseteq SUBSET T
  OBVIOUS
<1>3. PICK U \in Bad : \A V \in SUBSET U : V # U => V \notin Bad
  <2> HIDE DEF Bad
  <2>1. QED
    BY <1>1, <1>2, SmallestCounterexample
<1>4. IsFiniteSet(S) /\ IsFiniteSet(U)
  BY <1>3, FS_Subset
<1>5. SumFunctionOnSet(f, S) \in Int
  BY <1>4, SumType
<1>6. U # S
  BY <1>3, <1>5
<1>7. PICK x \in U : x \notin S
  BY <1>3, <1>6
<1>8. IsFiniteSet(U \ {x}) /\ \A y \in U : f[y] \in Int
  BY <1>3, <1>4, FS_RemoveElement
<1>9. SumFunctionOnSet(f, U) = f[x] + SumFunctionOnSet(f, U \ {x}) /\ SumFunctionOnSet(f, U \ {x}) \in Int
  BY <1>4, <1>7, <1>8, SumTakesOut, SumType
<1>10. SumFunctionOnSet(f, S) <= SumFunctionOnSet(f, U \ {x})
  BY <1>3, <1>7
<1>11. f[x] \in Nat
  BY <1>3, <1>7
<1>12. QED
  BY <1>3, <1>5, <1>9, <1>10, <1>11

(* A sum of equal terms is a product. *)
LEMMA SumConstant ==
  ASSUME NEW S, IsFiniteSet(S), NEW c \in Int, NEW f, \A x \in S : f[x] = c
  PROVE  SumFunctionOnSet(f, S) = Cardinality(S) * c
<1> DEFINE Bad == {T \in SUBSET S : SumFunctionOnSet(f, T) # Cardinality(T) * c}
<1>1. SUFFICES ASSUME Bad # {}  PROVE FALSE
  BY DEF Bad
<1>2. Bad \subseteq SUBSET S
  OBVIOUS
<1>3. PICK T \in Bad : \A U \in SUBSET T : U # T => U \notin Bad
  <2> HIDE DEF Bad
  <2>1. QED
    BY <1>1, <1>2, SmallestCounterexample
<1> DEFINE R == T \ {Chosen(T)}
<1>4. IsFiniteSet(T) /\ IsFiniteSet(R)
  BY FS_Subset
<1>5. T # {}
  BY SumEmpty, FS_EmptySet
<1>6. Chosen(T) \in T /\ R \in SUBSET T /\ R # T
  BY <1>5, ChosenIsMember
<1>7. SumFunctionOnSet(f, R) = Cardinality(R) * c
  BY <1>3, <1>6
<1>8. SumFunctionOnSet(f, T) = c + SumFunctionOnSet(f, R)
  BY <1>4, <1>5, <1>6, SumUnfolds
<1>9. Cardinality(R) = Cardinality(T) - 1 /\ Cardinality(T) \in Nat
  BY <1>4, <1>6, FS_RemoveElement, FS_CardinalityType
<1> HIDE DEF R
<1>10. \A n \in Int : c + (n - 1) * c = n * c
  OBVIOUS
<1>11. QED
  BY <1>3, <1>7, <1>8, <1>9, <1>10

(* The sum of a sequence grows by what is appended. *)
LEMMA SumAppend ==
  ASSUME NEW s \in Seq(Int), NEW n \in Int
  PROVE  SumFunction(Append(s, n)) = SumFunction(s) + n
<1> DEFINE t == Append(s, n)
<1>1. /\ t \in Seq(Int) /\ Len(t) = Len(s) + 1 /\ t[Len(s) + 1] = n
      /\ \A i \in 1..Len(s) : t[i] = s[i]
  BY AppendProperties
<1>2. Len(s) \in Nat /\ DOMAIN s = 1..Len(s) /\ DOMAIN t = 1..Len(s) \cup {Len(s) + 1}
  BY <1>1, LenProperties
<1>3. IsFiniteSet(1..Len(s)) /\ Len(s) + 1 \notin 1..Len(s)
  BY <1>2, FS_Interval
<1> HIDE DEF t
<1>5. SumFunctionOnSet(t, DOMAIN t) = SumFunctionOnSet(t, 1..Len(s)) + t[Len(s) + 1]
  <2> DEFINE D == 1..Len(s)
             k == Len(s) + 1
  <2>1. \A i \in D \cup {k} : t[i] \in Int
    BY <1>1, <1>2
  <2>2. IsFiniteSet(D) /\ k \notin D /\ DOMAIN t = D \cup {k}
    BY <1>2, <1>3
  <2> HIDE DEF D, k
  <2>3. SumFunctionOnSet(t, DOMAIN t) = SumFunctionOnSet(t, D) + t[k]
    BY <2>1, <2>2, SumAdds
  <2>4. QED
    BY <2>3 DEF D, k
<1>6. SumFunctionOnSet(t, 1..Len(s)) = SumFunctionOnSet(s, 1..Len(s))
  BY <1>1, <1>3, SumSame
<1>7. QED
  BY <1>1, <1>2, <1>5, <1>6 DEF SumFunction, t

(* Terms that are zero can be left out. *)
LEMMA SumDropsZeros ==
  ASSUME NEW S, IsFiniteSet(S), NEW T \in SUBSET S, NEW f,
         \A x \in T : f[x] \in Int, \A x \in S \ T : f[x] = 0
  PROVE  SumFunctionOnSet(f, S) = SumFunctionOnSet(f, T)
<1> DEFINE Bad == {U \in SUBSET S : SumFunctionOnSet(f, U) # SumFunctionOnSet(f, U \cap T)}
<1>1. SUFFICES ASSUME Bad # {}  PROVE FALSE
  <2>1. S \cap T = T
    OBVIOUS
  <2>2. QED
    BY <2>1
<1>2. Bad \subseteq SUBSET S
  OBVIOUS
<1>3. PICK U \in Bad : \A V \in SUBSET U : V # U => V \notin Bad
  <2> HIDE DEF Bad
  <2>1. QED
    BY <1>1, <1>2, SmallestCounterexample
<1>4. U # {}
  <2>1. {} \cap T = {}
    OBVIOUS
  <2>2. QED
    BY <1>3, <2>1
<1>5. PICK x \in U : TRUE
  BY <1>4
<1> DEFINE V == U \ {x}
<1>6. SumFunctionOnSet(f, V) = SumFunctionOnSet(f, V \cap T)
  BY <1>3, <1>5
<1>7. /\ IsFiniteSet(U) /\ IsFiniteSet(U \cap T) /\ IsFiniteSet(V)
      /\ \A y \in U : f[y] \in Int
  BY <1>3, FS_Subset
<1>8. SumFunctionOnSet(f, U) = f[x] + SumFunctionOnSet(f, V) /\ SumFunctionOnSet(f, V) \in Int
  BY <1>5, <1>7, SumTakesOut, SumType
<1>9. SumFunctionOnSet(f, U) = SumFunctionOnSet(f, U \cap T)
  <2>1. CASE x \in T
    <3>1. x \in U \cap T /\ (U \cap T) \ {x} = V \cap T
      BY <1>5, <2>1
    <3>2. SumFunctionOnSet(f, U \cap T) = f[x] + SumFunctionOnSet(f, (U \cap T) \ {x})
      BY <1>7, <3>1, SumTakesOut
    <3>3. QED
      BY <1>6, <1>8, <3>1, <3>2
  <2>2. CASE x \notin T
    <3>1. U \cap T = V \cap T /\ f[x] = 0
      BY <1>3, <1>5, <2>2
    <3>2. SumFunctionOnSet(f, U) = SumFunctionOnSet(f, V)
      <4> HIDE DEF V
      <4>1. QED
        BY <1>8, <3>1
    <3>3. QED
      BY <1>6, <3>1, <3>2, Zenon
  <2>3. QED
    BY <2>1, <2>2
<1>10. QED
  BY <1>3, <1>9

(* The sum of a function, and of one that differs from it in one place. *)
LEMMA SumFunctionType ==
  ASSUME NEW f, IsFiniteSet(DOMAIN f), \A x \in DOMAIN f : f[x] \in Int
  PROVE  SumFunction(f) \in Int
  BY SumType DEF SumFunction

LEMMA SumFunctionExtends ==
  ASSUME NEW f, NEW g, NEW x, IsFiniteSet(DOMAIN f), x \notin DOMAIN f,
         DOMAIN g = DOMAIN f \cup {x}, g[x] \in Int,
         \A y \in DOMAIN f : f[y] \in Int /\ g[y] = f[y]
  PROVE  SumFunction(g) = SumFunction(f) + g[x]
<1>1. SumFunctionOnSet(g, DOMAIN f \cup {x}) = SumFunctionOnSet(g, DOMAIN f) + g[x]
  BY SumAdds
<1>2. SumFunctionOnSet(g, DOMAIN f) = SumFunctionOnSet(f, DOMAIN f)
  BY SumSame
<1>3. QED
  BY <1>1, <1>2 DEF SumFunction

LEMMA SumFunctionChanges ==
  ASSUME NEW f, NEW g, NEW x \in DOMAIN f, IsFiniteSet(DOMAIN f), DOMAIN g = DOMAIN f,
         \A y \in DOMAIN f : f[y] \in Int, g[x] \in Int, \A y \in DOMAIN f \ {x} : g[y] = f[y]
  PROVE  SumFunction(g) = (SumFunction(f) - f[x]) + g[x]
  BY SumChanges DEF SumFunction

(* The triples over finite sets. *)
LEMMA TriplesFinite ==
  ASSUME NEW A, NEW B, NEW C, IsFiniteSet(A), IsFiniteSet(B), IsFiniteSet(C)
  PROVE  IsFiniteSet(A \X B \X C)
<1> DEFINE P == (A \X B) \X C
           f == [p \in P |-> <<p[1][1], p[1][2], p[2]>>]
<1>1. IsFiniteSet(P)
  BY FS_Product
<1>2. f \in [P -> A \X B \X C]
  OBVIOUS
<1>3. ASSUME NEW t \in A \X B \X C  PROVE \E p \in P : f[p] = t
  <2>1. <<<<t[1], t[2]>>, t[3]>> \in P /\ f[<<<<t[1], t[2]>>, t[3]>>] = t
    OBVIOUS
  <2>2. QED
    BY <2>1
<1>4. f \in Surjection(P, A \X B \X C)
  <2> HIDE DEF f, P
  <2>1. QED
    BY <1>2, <1>3 DEF Surjection
<1>5. QED
  BY <1>1, <1>4, FS_Surjection
=============================================================================
