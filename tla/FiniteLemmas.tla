---------------------------- MODULE FiniteLemmas ----------------------------
(***************************************************************************)
(* What the largest and the smallest of a finite set of integers are, what *)
(* the sum of a function over a finite set is, and how it changes when the *)
(* function or the set does.  The fold that defines the sum is recursive   *)
(* over the subsets of the set; instead of an induction, each proof takes  *)
(* a smallest set on which a statement fails.                              *)
(***************************************************************************)
EXTENDS Integers, FiniteSets, FiniteSetsExt, FiniteSetTheorems, WellFoundedInduction, TLAPS

(* A family of finite sets has a member that no other one is a part of.    *)
LEMMA SmallestSet ==
  ASSUME NEW F, F # {}, \A T \in F : IsFiniteSet(T)
  PROVE  \E T \in F : \A U \in F : U \subseteq T => U = T
<1>1. F \subseteq FiniteSubsetsOf(UNION F)
  BY DEF FiniteSubsetsOf
<1>2. \E T \in F : \A U \in F : ~(<<U, T>> \in StrictSubsetOrdering(UNION F))
  BY <1>1, FS_StrictSubsetOrderingWellFounded, WFMin, Zenon
<1>3. PICK T \in F : \A U \in F : ~(<<U, T>> \in StrictSubsetOrdering(UNION F))
  BY <1>2, Zenon
<1>4. ASSUME NEW U \in F, U \subseteq T, U # T PROVE FALSE
  <2>1. <<U, T>> \in StrictSubsetOrdering(UNION F)
    BY <1>1, <1>4, <1>3 DEF StrictSubsetOrdering, FiniteSubsetsOf
  <2> QED
    BY <2>1, <1>3
<1> QED
  BY <1>3, <1>4

(* The image of a finite set under a function is finite.                   *)
LEMMA ImageFinite ==
  ASSUME NEW f, NEW S, IsFiniteSet(S)
  PROVE  IsFiniteSet({f[x] : x \in S})
<1> DEFINE Image(T) == {f[x] : x \in T}
           F == {T \in SUBSET S : ~IsFiniteSet(Image(T))}
<1> SUFFICES ASSUME F # {} PROVE FALSE
  OBVIOUS
<1>1. \A T \in F : IsFiniteSet(T)
  BY FS_Subset
<1>2. PICK T \in F : \A U \in F : U \subseteq T => U = T
  <2> HIDE DEF F
  <2> QED BY <1>1, SmallestSet
<1>3. T # {}
  <2>1. Image({}) = {}
    OBVIOUS
  <2> QED BY <1>2, <2>1, FS_EmptySet
<1>4. PICK x \in T : TRUE
  BY <1>3
<1>5. IsFiniteSet(Image(T \ {x}))
  <2>1. T \ {x} \in SUBSET S /\ T \ {x} \subseteq T /\ T \ {x} # T
    BY <1>2, <1>4
  <2>2. T \ {x} \notin F
    BY <1>2, <2>1
  <2> QED
    BY <2>1, <2>2
<1>6. Image(T) = Image(T \ {x}) \cup {f[x]}
  BY <1>4
<1> HIDE DEF Image
<1>7. IsFiniteSet(Image(T \ {x}) \cup {f[x]})
  BY <1>5, FS_AddElement
<1> QED
  BY <1>2, <1>6, <1>7

-----------------------------------------------------------------------------
(* The largest and the smallest.                                           *)

(* A finite set of integers has a largest element.                         *)
LEMMA LargestExists ==
  ASSUME NEW S, IsFiniteSet(S), S # {}, \A x \in S : x \in Int
  PROVE  \E x \in S : \A y \in S : x >= y
<1> DEFINE F == {T \in SUBSET S : T # {} /\ ~ \E x \in T : \A y \in T : x >= y}
<1> SUFFICES ASSUME F # {} PROVE FALSE
  OBVIOUS
<1>1. \A T \in F : IsFiniteSet(T)
  BY FS_Subset
<1>2. PICK T \in F : \A U \in F : U \subseteq T => U = T
  <2> HIDE DEF F
  <2> QED BY <1>1, SmallestSet
<1>3. PICK x \in T : TRUE
  OBVIOUS
<1>4. T \ {x} # {}
  <2>1. x >= x /\ ~ \A y \in T : x >= y
    BY <1>2, <1>3
  <2> QED
    BY <2>1
<1>5. PICK y \in T \ {x} : \A z \in T \ {x} : y >= z
  <2>1. T \ {x} \in SUBSET S /\ T \ {x} \subseteq T /\ T \ {x} # T
    BY <1>2, <1>3
  <2>2. T \ {x} \notin F
    BY <1>2, <2>1
  <2> QED
    BY <1>4, <2>1, <2>2
<1>6. (\A z \in T : x >= z) \/ (\A z \in T : y >= z)
  BY <1>3, <1>5
<1> QED
  BY <1>2, <1>3, <1>5, <1>6

(* Max is that element.                                                    *)
LEMMA MaxIs ==
  ASSUME NEW S, IsFiniteSet(S), S # {}, \A x \in S : x \in Int
  PROVE  Max(S) \in S /\ \A x \in S : x <= Max(S)
<1>1. Max(S) \in S /\ \A x \in S : Max(S) >= x
  BY LargestExists DEF Max
<1> QED
  BY <1>1

(* A finite set of integers has a smallest element.                        *)
LEMMA SmallestExists ==
  ASSUME NEW S, IsFiniteSet(S), S # {}, \A x \in S : x \in Int
  PROVE  \E x \in S : \A y \in S : x <= y
<1> DEFINE F == {T \in SUBSET S : T # {} /\ ~ \E x \in T : \A y \in T : x <= y}
<1> SUFFICES ASSUME F # {} PROVE FALSE
  OBVIOUS
<1>1. \A T \in F : IsFiniteSet(T)
  BY FS_Subset
<1>2. PICK T \in F : \A U \in F : U \subseteq T => U = T
  <2> HIDE DEF F
  <2> QED BY <1>1, SmallestSet
<1>3. PICK x \in T : TRUE
  OBVIOUS
<1>4. T \ {x} # {}
  <2>1. x <= x /\ ~ \A y \in T : x <= y
    BY <1>2, <1>3
  <2> QED
    BY <2>1
<1>5. PICK y \in T \ {x} : \A z \in T \ {x} : y <= z
  <2>1. T \ {x} \in SUBSET S /\ T \ {x} \subseteq T /\ T \ {x} # T
    BY <1>2, <1>3
  <2>2. T \ {x} \notin F
    BY <1>2, <2>1
  <2> QED
    BY <1>4, <2>1, <2>2
<1>6. (\A z \in T : x <= z) \/ (\A z \in T : y <= z)
  BY <1>3, <1>5
<1> QED
  BY <1>2, <1>3, <1>5, <1>6

(* Min is that element.                                                    *)
LEMMA MinIs ==
  ASSUME NEW S, IsFiniteSet(S), S # {}, \A x \in S : x \in Int
  PROVE  Min(S) \in S /\ \A x \in S : Min(S) <= x
BY SmallestExists DEF Min

-----------------------------------------------------------------------------
(* Sums.                                                                   *)

Pick(S) == CHOOSE x \in S : TRUE

(* What is picked is an element.                                           *)
LEMMA PickOne == ASSUME NEW S, S # {} PROVE Pick(S) \in S
BY DEF Pick

(* g is what the definition of the sum over T refers to.                   *)
IsSums(f, T, g) ==
    g = [s \in SUBSET T |-> IF s = {} THEN 0 ELSE f[Pick(s)] + g[s \ {Pick(s)}]]

Sums(f, T) == CHOOSE g : IsSums(f, T, g)

(* The sum is defined by recursion over what is picked.                    *)
LEMMA SumIsSums ==
  ASSUME NEW f, NEW T
  PROVE  SumFunctionOnSet(f, T) = Sums(f, T)[T]
BY DEF SumFunctionOnSet, FoldFunctionOnSet, MapThenFoldSet, Sums, IsSums, Pick

(* Where two such functions are both defined, they agree.                  *)
LEMMA SumsAgree ==
  ASSUME NEW f, NEW T, NEW U, IsFiniteSet(T), NEW g, NEW h,
         IsSums(f, T, g), IsSums(f, U, h)
  PROVE  \A s \in SUBSET (T \cap U) : g[s] = h[s]
<1> DEFINE F == {s \in SUBSET (T \cap U) : g[s] # h[s]}
<1> SUFFICES ASSUME F # {} PROVE FALSE
  OBVIOUS
<1>1. \A s \in F : IsFiniteSet(s)
  BY FS_Subset
<1>2. PICK s \in F : \A u \in F : u \subseteq s => u = s
  <2> HIDE DEF F
  <2> QED BY <1>1, SmallestSet
<1>3. s # {}
  BY DEF IsSums
<1>4. Pick(s) \in s
  BY <1>3, PickOne
<1>5. s \ {Pick(s)} \in SUBSET (T \cap U) /\ s \ {Pick(s)} \notin F
  BY <1>2, <1>4
<1>6. g[s \ {Pick(s)}] = h[s \ {Pick(s)}]
  BY <1>5
<1>7. g[s] = f[Pick(s)] + g[s \ {Pick(s)}] /\ h[s] = f[Pick(s)] + h[s \ {Pick(s)}]
  BY <1>2, <1>3 DEF IsSums
<1> QED
  BY <1>2, <1>6, <1>7

(* There is one for every finite set.                                      *)
LEMMA SumsExist ==
  ASSUME NEW f, NEW T, IsFiniteSet(T)
  PROVE  IsSums(f, T, Sums(f, T))
<1> DEFINE F == {U \in SUBSET T : ~ \E g : IsSums(f, U, g)}
<1>1. F = {}
  <2> SUFFICES ASSUME F # {} PROVE FALSE
    OBVIOUS
  <2>1. \A U \in F : IsFiniteSet(U)
    BY FS_Subset
  <2>2. PICK U \in F : \A V \in F : V \subseteq U => V = U
    <3> HIDE DEF F
    <3> QED BY <2>1, SmallestSet
  <2> DEFINE g == [s \in SUBSET U |->
                     IF s = {} THEN 0
                     ELSE f[Pick(s)] + Sums(f, s \ {Pick(s)})[s \ {Pick(s)}]]
  <2>3. ASSUME NEW V \in SUBSET U, V # U
        PROVE  IsSums(f, V, Sums(f, V))
    <3>1. \E h : IsSums(f, V, h)
      BY <2>2, <2>3
    <3> QED
      BY <3>1 DEF Sums
  <2>4. ASSUME NEW s \in SUBSET U, s # {}
        PROVE  g[s \ {Pick(s)}] = Sums(f, s \ {Pick(s)})[s \ {Pick(s)}]
    <3> DEFINE V == s \ {Pick(s)}
    <3>1. V \in SUBSET U /\ V # U
      BY <2>4, PickOne
    <3>2. IsSums(f, V, Sums(f, V))
      BY <3>1, <2>3
    <3>3. CASE V = {}
      <4>1. g[V] = 0
        BY <3>3
      <4>2. Sums(f, V)[V] = 0
        BY <3>2, <3>3 DEF IsSums
      <4> QED BY <4>1, <4>2
    <3>4. CASE V # {}
      <4> DEFINE W == V \ {Pick(V)}
      <4>1. W \in SUBSET V /\ W # U
        BY <3>1, <3>4, PickOne
      <4>2. IsSums(f, W, Sums(f, W))
        BY <3>1, <4>1, <2>3
      <4>3. IsFiniteSet(V)
        BY <3>1, FS_Subset
      <4>4. Sums(f, V)[W] = Sums(f, W)[W]
        <5> HIDE DEF V, W, g
        <5>1. W \in SUBSET (V \cap W)
          BY <4>1
        <5> QED BY <3>2, <4>2, <4>3, <5>1, SumsAgree
      <4>5. Sums(f, V)[V] = f[Pick(V)] + Sums(f, V)[W]
        <5> HIDE DEF V, g
        <5> QED BY <3>2, <3>4 DEF IsSums
      <4>6. g[V] = f[Pick(V)] + Sums(f, W)[W]
        <5> HIDE DEF V
        <5> QED BY <3>1, <3>4
      <4> QED BY <4>4, <4>5, <4>6
    <3> QED BY <3>3, <3>4
  <2>5. IsSums(f, U, g)
    <3>1. g = [s \in SUBSET U |-> IF s = {} THEN 0 ELSE f[Pick(s)] + g[s \ {Pick(s)}]]
      BY <2>4
    <3> QED BY <3>1 DEF IsSums
  <2> QED
    BY <2>2, <2>5
<1>2. \E g : IsSums(f, T, g)
  BY <1>1
<1> QED
  BY <1>2 DEF Sums

-----------------------------------------------------------------------------
(* The sum of nothing.                                                     *)
LEMMA SumEmpty ==
  ASSUME NEW f
  PROVE  SumFunctionOnSet(f, {}) = 0
<1>1. IsSums(f, {}, Sums(f, {}))
  BY SumsExist, FS_EmptySet
<1>2. Sums(f, {})[{}] = 0
  BY <1>1 DEF IsSums
<1> QED
  BY <1>2, SumIsSums

(* The sum is that of a picked element and the others.                     *)
LEMMA SumPicked ==
  ASSUME NEW f, NEW S, IsFiniteSet(S), S # {}
  PROVE  SumFunctionOnSet(f, S) = f[Pick(S)] + SumFunctionOnSet(f, S \ {Pick(S)})
<1> DEFINE R == S \ {Pick(S)}
<1>1. R \in SUBSET (S \cap R) /\ IsFiniteSet(R)
  BY FS_Subset
<1>2. IsSums(f, S, Sums(f, S)) /\ IsSums(f, R, Sums(f, R))
  BY <1>1, SumsExist
<1>3. Sums(f, S)[R] = Sums(f, R)[R]
  <2> HIDE DEF R
  <2> QED BY <1>1, <1>2, SumsAgree
<1>4. Sums(f, S)[S] = f[Pick(S)] + Sums(f, S)[R]
  BY <1>2 DEF IsSums
<1> QED
  BY <1>3, <1>4, SumIsSums

(* A sum of integers is one.                                               *)
LEMMA SumType ==
  ASSUME NEW f, NEW S, IsFiniteSet(S), \A x \in S : f[x] \in Int
  PROVE  SumFunctionOnSet(f, S) \in Int
<1> DEFINE F == {T \in SUBSET S : SumFunctionOnSet(f, T) \notin Int}
<1> SUFFICES ASSUME F # {} PROVE FALSE
  OBVIOUS
<1>1. \A T \in F : IsFiniteSet(T)
  BY FS_Subset
<1>2. PICK T \in F : \A U \in F : U \subseteq T => U = T
  <2> HIDE DEF F
  <2> QED BY <1>1, SmallestSet
<1>3. T # {}
  BY SumEmpty
<1>4. Pick(T) \in T
  BY <1>3, PickOne
<1>5. SumFunctionOnSet(f, T \ {Pick(T)}) \in Int
  BY <1>2, <1>4
<1>6. SumFunctionOnSet(f, T) = f[Pick(T)] + SumFunctionOnSet(f, T \ {Pick(T)})
  BY <1>1, <1>3, SumPicked
<1> QED
  BY <1>2, <1>4, <1>5, <1>6

(* Functions that agree on a set have the same sum over it.                *)
LEMMA SumSame ==
  ASSUME NEW f, NEW g, NEW S, IsFiniteSet(S), \A x \in S : f[x] = g[x]
  PROVE  SumFunctionOnSet(f, S) = SumFunctionOnSet(g, S)
<1> DEFINE F == {T \in SUBSET S : SumFunctionOnSet(f, T) # SumFunctionOnSet(g, T)}
<1> SUFFICES ASSUME F # {} PROVE FALSE
  OBVIOUS
<1>1. \A T \in F : IsFiniteSet(T)
  BY FS_Subset
<1>2. PICK T \in F : \A U \in F : U \subseteq T => U = T
  <2> HIDE DEF F
  <2> QED BY <1>1, SmallestSet
<1>3. T # {}
  BY SumEmpty
<1>4. Pick(T) \in T
  BY <1>3, PickOne
<1>5. SumFunctionOnSet(f, T \ {Pick(T)}) = SumFunctionOnSet(g, T \ {Pick(T)})
  BY <1>2, <1>4
<1>6. /\ SumFunctionOnSet(f, T) = f[Pick(T)] + SumFunctionOnSet(f, T \ {Pick(T)})
      /\ SumFunctionOnSet(g, T) = g[Pick(T)] + SumFunctionOnSet(g, T \ {Pick(T)})
  BY <1>1, <1>3, SumPicked
<1>7. f[Pick(T)] = g[Pick(T)]
  BY <1>4
<1> QED
  BY <1>2, <1>5, <1>6, <1>7

(* Any element may be taken out first.                                     *)
LEMMA SumRemove ==
  ASSUME NEW f, NEW S, IsFiniteSet(S), \A x \in S : f[x] \in Int, NEW e \in S
  PROVE  SumFunctionOnSet(f, S) = f[e] + SumFunctionOnSet(f, S \ {e})
<1> DEFINE F == {T \in SUBSET S : \E x \in T : SumFunctionOnSet(f, T) # f[x] + SumFunctionOnSet(f, T \ {x})}
<1> SUFFICES ASSUME F # {} PROVE FALSE
  OBVIOUS
<1>1. \A T \in SUBSET S : IsFiniteSet(T)
  BY FS_Subset
<1>2. PICK T \in F : \A U \in F : U \subseteq T => U = T
  <2>1. \A T \in F : IsFiniteSet(T)
    BY <1>1
  <2> HIDE DEF F
  <2> QED BY <2>1, SmallestSet
<1>3. PICK x \in T : SumFunctionOnSet(f, T) # f[x] + SumFunctionOnSet(f, T \ {x})
  OBVIOUS
<1> DEFINE c == Pick(T)
<1>4. c \in T /\ SumFunctionOnSet(f, T) = f[c] + SumFunctionOnSet(f, T \ {c})
  BY <1>1, <1>3, SumPicked, PickOne
<1>5. x # c
  BY <1>3, <1>4
<1>6. T \ {c} \notin F /\ T \ {x} \notin F /\ T \ {c} \in SUBSET S /\ T \ {x} \in SUBSET S
  BY <1>2, <1>4, <1>3
<1>7. /\ SumFunctionOnSet(f, T \ {c}) = f[x] + SumFunctionOnSet(f, (T \ {c}) \ {x})
      /\ SumFunctionOnSet(f, T \ {x}) = f[c] + SumFunctionOnSet(f, (T \ {x}) \ {c})
  BY <1>4, <1>5, <1>6
<1> DEFINE rest == SumFunctionOnSet(f, T \ {x, c})
<1>8. /\ SumFunctionOnSet(f, T \ {c}) = f[x] + rest
      /\ SumFunctionOnSet(f, T \ {x}) = f[c] + rest
  <2>1. (T \ {c}) \ {x} = T \ {x, c} /\ (T \ {x}) \ {c} = T \ {x, c}
    OBVIOUS
  <2> QED
    BY <1>7, <2>1
<1>9. rest \in Int /\ f[x] \in Int /\ f[c] \in Int
  <2>1. IsFiniteSet(T \ {x, c}) /\ \A y \in T \ {x, c} : f[y] \in Int
    BY <1>1
  <2> QED
    BY <2>1, <1>4, SumType
<1>10. SumFunctionOnSet(f, T) # f[x] + SumFunctionOnSet(f, T \ {x})
  BY <1>3
<1>11. SumFunctionOnSet(f, T) = f[c] + SumFunctionOnSet(f, T \ {c})
  BY <1>4
<1> HIDE DEF c, F, rest
<1> QED
  BY <1>8, <1>9, <1>10, <1>11

(* One element more.                                                       *)
LEMMA SumAdd ==
  ASSUME NEW f, NEW S, IsFiniteSet(S), NEW e, e \notin S, \A x \in S \cup {e} : f[x] \in Int
  PROVE  SumFunctionOnSet(f, S \cup {e}) = f[e] + SumFunctionOnSet(f, S)
<1>1. IsFiniteSet(S \cup {e}) /\ (S \cup {e}) \ {e} = S
  BY FS_AddElement
<1> QED
  BY <1>1, SumRemove

(* Functions that differ at one element.                                   *)
LEMMA SumUpdate ==
  ASSUME NEW f, NEW g, NEW S, IsFiniteSet(S), NEW e \in S,
         \A x \in S : f[x] \in Int /\ g[x] \in Int,
         \A x \in S \ {e} : f[x] = g[x]
  PROVE  SumFunctionOnSet(g, S) = SumFunctionOnSet(f, S) - f[e] + g[e]
<1>1. IsFiniteSet(S \ {e})
  BY FS_RemoveElement
<1>2. SumFunctionOnSet(f, S \ {e}) = SumFunctionOnSet(g, S \ {e})
  BY <1>1, SumSame
<1>3. SumFunctionOnSet(f, S \ {e}) \in Int
  BY <1>1, SumType
<1>4. SumFunctionOnSet(f, S) = f[e] + SumFunctionOnSet(f, S \ {e})
  BY SumRemove
<1>5. SumFunctionOnSet(g, S) = g[e] + SumFunctionOnSet(g, S \ {e})
  BY SumRemove
<1> QED
  BY <1>2, <1>3, <1>4, <1>5

(* A sum of larger numbers is larger.                                      *)
LEMMA SumMonotone ==
  ASSUME NEW f, NEW g, NEW S, IsFiniteSet(S),
         \A x \in S : f[x] \in Int /\ g[x] \in Int /\ f[x] <= g[x]
  PROVE  SumFunctionOnSet(f, S) <= SumFunctionOnSet(g, S)
<1> DEFINE F == {T \in SUBSET S : ~(SumFunctionOnSet(f, T) <= SumFunctionOnSet(g, T))}
<1> SUFFICES ASSUME F # {} PROVE FALSE
  OBVIOUS
<1>1. \A T \in F : IsFiniteSet(T)
  BY FS_Subset
<1>2. PICK T \in F : \A U \in F : U \subseteq T => U = T
  <2> HIDE DEF F
  <2> QED BY <1>1, SmallestSet
<1>3. T # {}
  BY SumEmpty
<1> DEFINE R == T \ {Pick(T)}
<1>4. Pick(T) \in T
  BY <1>3, PickOne
<1>5. SumFunctionOnSet(f, R) <= SumFunctionOnSet(g, R)
  BY <1>2, <1>4
<1>6. /\ SumFunctionOnSet(f, T) = f[Pick(T)] + SumFunctionOnSet(f, R)
      /\ SumFunctionOnSet(g, T) = g[Pick(T)] + SumFunctionOnSet(g, R)
  BY <1>1, <1>3, SumPicked
<1>7. SumFunctionOnSet(f, R) \in Int /\ SumFunctionOnSet(g, R) \in Int
  <2>1. IsFiniteSet(R) /\ \A x \in R : f[x] \in Int /\ g[x] \in Int
    BY FS_Subset
  <2> HIDE DEF R
  <2> QED BY <2>1, SumType
<1>8. f[Pick(T)] \in Int /\ g[Pick(T)] \in Int /\ f[Pick(T)] <= g[Pick(T)]
  BY <1>4
<1>9. ~(SumFunctionOnSet(f, T) <= SumFunctionOnSet(g, T))
  BY <1>2
<1> HIDE DEF R, F
<1> QED
  BY <1>5, <1>6, <1>7, <1>8, <1>9

(* A sum of natural numbers is one.                                        *)
LEMMA SumNat ==
  ASSUME NEW f, NEW S, IsFiniteSet(S), \A x \in S : f[x] \in Nat
  PROVE  SumFunctionOnSet(f, S) \in Nat
<1> DEFINE F == {T \in SUBSET S : SumFunctionOnSet(f, T) \notin Nat}
<1> SUFFICES ASSUME F # {} PROVE FALSE
  OBVIOUS
<1>1. \A T \in F : IsFiniteSet(T)
  BY FS_Subset
<1>2. PICK T \in F : \A U \in F : U \subseteq T => U = T
  <2> HIDE DEF F
  <2> QED BY <1>1, SmallestSet
<1>3. T # {}
  BY SumEmpty
<1>4. Pick(T) \in T
  BY <1>3, PickOne
<1>5. SumFunctionOnSet(f, T \ {Pick(T)}) \in Nat
  BY <1>2, <1>4
<1>6. SumFunctionOnSet(f, T) = f[Pick(T)] + SumFunctionOnSet(f, T \ {Pick(T)})
  BY <1>1, <1>3, SumPicked
<1> QED
  BY <1>2, <1>4, <1>5, <1>6

(* The sum over two sets that share nothing.                               *)
LEMMA SumUnion ==
  ASSUME NEW f, NEW S, NEW T, IsFiniteSet(S), IsFiniteSet(T), S \cap T = {},
         \A x \in S \cup T : f[x] \in Int
  PROVE  SumFunctionOnSet(f, S \cup T) = SumFunctionOnSet(f, S) + SumFunctionOnSet(f, T)
<1> DEFINE F == {U \in SUBSET T : SumFunctionOnSet(f, S \cup U) # SumFunctionOnSet(f, S) + SumFunctionOnSet(f, U)}
<1> SUFFICES ASSUME F # {} PROVE FALSE
  OBVIOUS
<1>1. \A U \in SUBSET T : IsFiniteSet(U)
  BY FS_Subset
<1>2. PICK U \in F : \A V \in F : V \subseteq U => V = U
  <2>1. \A U \in F : IsFiniteSet(U)
    BY <1>1
  <2> HIDE DEF F
  <2> QED BY <2>1, SmallestSet
<1>3. SumFunctionOnSet(f, S) \in Int
  BY SumType
<1>4. U # {}
  <2> SUFFICES ASSUME U = {} PROVE FALSE
    OBVIOUS
  <2>1. S \cup U = S
    OBVIOUS
  <2> QED
    BY <2>1, <1>3, SumEmpty
<1>5. PICK e \in U : TRUE
  BY <1>4
<1> DEFINE R == U \ {e}
<1>6. SumFunctionOnSet(f, S \cup R) = SumFunctionOnSet(f, S) + SumFunctionOnSet(f, R)
  BY <1>2, <1>5
<1>7. R \in SUBSET T /\ e \notin R /\ e \notin S \cup R /\ R \cup {e} = U /\ (S \cup R) \cup {e} = S \cup U
  BY <1>2, <1>5
<1>8. IsFiniteSet(R) /\ IsFiniteSet(S \cup R)
  BY <1>1, <1>7, FS_Union
<1>9. f[e] \in Int /\ \A x \in S \cup U : f[x] \in Int
  BY <1>2, <1>5
<1>10. SumFunctionOnSet(f, U) = f[e] + SumFunctionOnSet(f, R)
  <2> HIDE DEF R
  <2>1. \A x \in R \cup {e} : f[x] \in Int
    BY <1>7, <1>9
  <2>2. SumFunctionOnSet(f, R \cup {e}) = f[e] + SumFunctionOnSet(f, R)
    BY <1>7, <1>8, <2>1, SumAdd
  <2> QED BY <2>2, <1>7
<1>11. SumFunctionOnSet(f, S \cup U) = f[e] + SumFunctionOnSet(f, S \cup R)
  <2> HIDE DEF R
  <2>1. \A x \in (S \cup R) \cup {e} : f[x] \in Int
    BY <1>7, <1>9
  <2>2. SumFunctionOnSet(f, (S \cup R) \cup {e}) = f[e] + SumFunctionOnSet(f, S \cup R)
    BY <1>7, <1>8, <2>1, SumAdd
  <2> QED BY <2>2, <1>7
<1>12. SumFunctionOnSet(f, R) \in Int
  <2> HIDE DEF R
  <2> QED BY <1>7, <1>8, SumType
<1>13. SumFunctionOnSet(f, S \cup U) # SumFunctionOnSet(f, S) + SumFunctionOnSet(f, U)
  BY <1>2
<1> HIDE DEF R, F
<1> QED
  BY <1>3, <1>6, <1>9, <1>10, <1>11, <1>12, <1>13

(* Elements that count nothing may be left out.                            *)
LEMMA SumZero ==
  ASSUME NEW f, NEW S, IsFiniteSet(S), \A x \in S : f[x] = 0
  PROVE  SumFunctionOnSet(f, S) = 0
<1> DEFINE F == {T \in SUBSET S : SumFunctionOnSet(f, T) # 0}
<1> SUFFICES ASSUME F # {} PROVE FALSE
  OBVIOUS
<1>1. \A T \in F : IsFiniteSet(T)
  BY FS_Subset
<1>2. PICK T \in F : \A U \in F : U \subseteq T => U = T
  <2> HIDE DEF F
  <2> QED BY <1>1, SmallestSet
<1>3. T # {} /\ Pick(T) \in T
  BY SumEmpty, PickOne
<1>4. SumFunctionOnSet(f, T \ {Pick(T)}) = 0
  BY <1>2, <1>3
<1>5. SumFunctionOnSet(f, T) = f[Pick(T)] + SumFunctionOnSet(f, T \ {Pick(T)})
  BY <1>1, <1>3, SumPicked
<1> QED
  BY <1>2, <1>3, <1>4, <1>5

(* A sum over a set is the sum over the part where something counts.       *)
LEMMA SumRestrict ==
  ASSUME NEW f, NEW S, NEW T \in SUBSET S, IsFiniteSet(S),
         \A x \in S : f[x] \in Int, \A x \in S \ T : f[x] = 0
  PROVE  SumFunctionOnSet(f, S) = SumFunctionOnSet(f, T)
<1>1. /\ IsFiniteSet(S \ T) /\ IsFiniteSet(T)
      /\ (S \ T) \cap T = {} /\ T \cap (S \ T) = {} /\ T \cup (S \ T) = S
  BY FS_Subset
<1>2. SumFunctionOnSet(f, S \ T) = 0
  BY <1>1, SumZero
<1>3. SumFunctionOnSet(f, T) \in Int
  BY <1>1, SumType
<1>4. SumFunctionOnSet(f, S) = SumFunctionOnSet(f, T) + SumFunctionOnSet(f, S \ T)
  <2> DEFINE R == S \ T
  <2>1. SumFunctionOnSet(f, T \cup R) = SumFunctionOnSet(f, T) + SumFunctionOnSet(f, R)
    <3>1. \A x \in T \cup R : f[x] \in Int
      OBVIOUS
    <3> HIDE DEF R
    <3> QED BY <1>1, <3>1, SumUnion DEF R
  <2>2. T \cup R = S
    BY <1>1
  <2> QED
    BY <2>1, <2>2, Zenon
<1> QED
  BY <1>1, <1>2, <1>3, <1>4

(* The sum of sums.                                                        *)
LEMMA SumPlus ==
  ASSUME NEW f, NEW g, NEW h, NEW S, IsFiniteSet(S),
         \A x \in S : f[x] \in Int /\ g[x] \in Int /\ h[x] = f[x] + g[x]
  PROVE  SumFunctionOnSet(h, S) = SumFunctionOnSet(f, S) + SumFunctionOnSet(g, S)
<1> DEFINE F == {T \in SUBSET S : SumFunctionOnSet(h, T)
                                    # SumFunctionOnSet(f, T) + SumFunctionOnSet(g, T)}
<1> SUFFICES ASSUME F # {} PROVE FALSE
  OBVIOUS
<1>1. \A T \in F : IsFiniteSet(T)
  BY FS_Subset
<1>2. PICK T \in F : \A U \in F : U \subseteq T => U = T
  <2> HIDE DEF F
  <2> QED BY <1>1, SmallestSet
<1>3. T # {}
  <2>1. /\ SumFunctionOnSet(f, {}) = 0 /\ SumFunctionOnSet(g, {}) = 0
        /\ SumFunctionOnSet(h, {}) = 0
    BY SumEmpty
  <2>2. SumFunctionOnSet(h, {}) = SumFunctionOnSet(f, {}) + SumFunctionOnSet(g, {})
    BY <2>1
  <2>3. SumFunctionOnSet(h, T) # SumFunctionOnSet(f, T) + SumFunctionOnSet(g, T)
    BY <1>2
  <2> HIDE DEF F
  <2> QED
    BY <2>2, <2>3
<1> DEFINE R == T \ {Pick(T)}
<1>4. Pick(T) \in T
  BY <1>3, PickOne
<1>5. SumFunctionOnSet(h, R) = SumFunctionOnSet(f, R) + SumFunctionOnSet(g, R)
  BY <1>2, <1>4
<1>6. /\ SumFunctionOnSet(f, T) = f[Pick(T)] + SumFunctionOnSet(f, R)
      /\ SumFunctionOnSet(g, T) = g[Pick(T)] + SumFunctionOnSet(g, R)
      /\ SumFunctionOnSet(h, T) = h[Pick(T)] + SumFunctionOnSet(h, R)
  BY <1>1, <1>3, SumPicked
<1>7. SumFunctionOnSet(f, R) \in Int /\ SumFunctionOnSet(g, R) \in Int
  <2>1. IsFiniteSet(R) /\ \A x \in R : f[x] \in Int /\ g[x] \in Int
    BY FS_Subset
  <2> HIDE DEF R
  <2> QED BY <2>1, SumType
<1>8. f[Pick(T)] \in Int /\ g[Pick(T)] \in Int /\ h[Pick(T)] = f[Pick(T)] + g[Pick(T)]
  BY <1>4
<1>9. SumFunctionOnSet(h, T) # SumFunctionOnSet(f, T) + SumFunctionOnSet(g, T)
  BY <1>2
<1> HIDE DEF R, F
<1> QED
  BY <1>5, <1>6, <1>7, <1>8, <1>9

(* The sum of multiples.                                                   *)
LEMMA SumScale ==
  ASSUME NEW c \in Int, NEW f, NEW h, NEW S, IsFiniteSet(S),
         \A x \in S : f[x] \in Int /\ h[x] = c * f[x]
  PROVE  SumFunctionOnSet(h, S) = c * SumFunctionOnSet(f, S)
<1> DEFINE F == {T \in SUBSET S : SumFunctionOnSet(h, T) # c * SumFunctionOnSet(f, T)}
<1> SUFFICES ASSUME F # {} PROVE FALSE
  OBVIOUS
<1>1. \A T \in F : IsFiniteSet(T)
  BY FS_Subset
<1>2. PICK T \in F : \A U \in F : U \subseteq T => U = T
  <2> HIDE DEF F
  <2> QED BY <1>1, SmallestSet
<1>3. T # {}
  <2>1. SumFunctionOnSet(f, {}) = 0 /\ SumFunctionOnSet(h, {}) = 0 /\ c * 0 = 0
    BY SumEmpty
  <2> QED
    BY <1>2, <2>1
<1> DEFINE R == T \ {Pick(T)}
<1>4. Pick(T) \in T
  BY <1>3, PickOne
<1>5. SumFunctionOnSet(h, R) = c * SumFunctionOnSet(f, R)
  BY <1>2, <1>4
<1>6. /\ SumFunctionOnSet(f, T) = f[Pick(T)] + SumFunctionOnSet(f, R)
      /\ SumFunctionOnSet(h, T) = h[Pick(T)] + SumFunctionOnSet(h, R)
  BY <1>1, <1>3, SumPicked
<1>7. SumFunctionOnSet(f, R) \in Int
  <2>1. IsFiniteSet(R) /\ \A x \in R : f[x] \in Int
    BY FS_Subset
  <2> HIDE DEF R
  <2> QED BY <2>1, SumType
<1>8. f[Pick(T)] \in Int /\ h[Pick(T)] = c * f[Pick(T)]
  BY <1>4
<1>9. SumFunctionOnSet(h, T) # c * SumFunctionOnSet(f, T)
  BY <1>2
<1>10. \A a, b \in Int : c * (a + b) = c * a + c * b
  OBVIOUS
<1>11. c * (f[Pick(T)] + SumFunctionOnSet(f, R))
         = c * f[Pick(T)] + c * SumFunctionOnSet(f, R)
  BY <1>7, <1>8, <1>10
<1> HIDE DEF R, F
<1> QED
  BY <1>5, <1>6, <1>8, <1>9, <1>11
=============================================================================
