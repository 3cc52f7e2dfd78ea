-------------------------------- MODULE SumLemmas --------------------------------
(***************************************************************************)
(* Facts about the sums the limits of the policy engine and of the spend   *)
(* ledger are stated with.  SumFunctionOnSet is a recursion over the       *)
(* subsets of its set; what it computes is shown by taking a smallest      *)
(* counterexample, which a finite set always has.                          *)
(***************************************************************************)
EXTENDS Integers, FiniteSets, Functions, FiniteSetTheorems, TLAPS

\* A non-empty family of subsets of a finite set has a smallest member.
LEMMA SmallestMember ==
  ASSUME NEW D, IsFiniteSet(D), NEW T, T \subseteq SUBSET D, T # {}
  PROVE  \E S \in T : \A U \in T : U \subseteq S => U = S
<1>1. IsWellFoundedOn(StrictSubsetOrdering(D), FiniteSubsetsOf(D))
  BY FS_StrictSubsetOrderingWellFounded
<1>2. FiniteSubsetsOf(D) = SUBSET D
  BY FS_FiniteSubsetsOfFinite
<1>3. PICK S \in T : \A U \in T : <<U, S>> \notin StrictSubsetOrdering(D)
  BY <1>1, <1>2, WFMin
<1>4. \A U \in T : U \subseteq S => U = S
  BY <1>3 DEF StrictSubsetOrdering
<1>5. QED
  BY <1>4

Pick(s) == CHOOSE x \in s : TRUE

\* g is the recursion that sums f over the subsets of S.
Sums(g, f, S) ==
  g = [s \in SUBSET S |-> IF s = {} THEN 0 ELSE f[Pick(s)] + g[s \ {Pick(s)}]]

LEMMA SumIsChosen ==
  ASSUME NEW f, NEW S
  PROVE  SumFunctionOnSet(f, S) = (CHOOSE g : Sums(g, f, S))[S]
BY DEF SumFunctionOnSet, FoldFunctionOnSet, MapThenFoldSet, Sums, Pick

LEMMA PickIn ==
  ASSUME NEW s, s # {}
  PROVE  Pick(s) \in s
BY DEF Pick

\* Two such recursions agree on what both sum.
LEMMA SumsAgree ==
  ASSUME NEW D, IsFiniteSet(D), NEW f, NEW S \in SUBSET D, NEW U \in SUBSET S,
         NEW g, NEW h, Sums(g, f, S), Sums(h, f, U)
  PROVE  g[U] = h[U]
<1> DEFINE Differ == {s \in SUBSET U : g[s] # h[s]}
<1>1. SUFFICES ASSUME Differ # {} PROVE FALSE
  OBVIOUS
<1>2. PICK s \in Differ : \A u \in Differ : u \subseteq s => u = s
  <2>1. Differ \subseteq SUBSET D
    OBVIOUS
  <2> HIDE DEF Differ
  <2>2. QED
    BY <1>1, <2>1, SmallestMember
<1>3. /\ g[s] = IF s = {} THEN 0 ELSE f[Pick(s)] + g[s \ {Pick(s)}]
      /\ h[s] = IF s = {} THEN 0 ELSE f[Pick(s)] + h[s \ {Pick(s)}]
  BY DEF Sums
<1>4. s # {}
  BY <1>3
<1>5. g[s \ {Pick(s)}] = h[s \ {Pick(s)}]
  BY <1>2, <1>4, PickIn
<1>6. QED
  BY <1>3, <1>4, <1>5

\* The recursion exists over every finite set, so CHOOSE finds it.
LEMMA SumsExist ==
  ASSUME NEW D, IsFiniteSet(D), NEW f, NEW S \in SUBSET D
  PROVE  \E g : Sums(g, f, S)
<1> DEFINE Bad == {s \in SUBSET D : ~ \E g : Sums(g, f, s)}
<1>1. SUFFICES ASSUME Bad # {} PROVE FALSE
  OBVIOUS
<1>2. PICK B \in Bad : \A u \in Bad : u \subseteq B => u = B
  <2>1. Bad \subseteq SUBSET D
    OBVIOUS
  <2> HIDE DEF Bad
  <2>2. QED
    BY <1>1, <2>1, SmallestMember
<1> DEFINE Of(s) == (CHOOSE g : Sums(g, f, s))[s]
           G == [s \in SUBSET B |-> IF s = {} THEN 0 ELSE f[Pick(s)] + Of(s \ {Pick(s)})]
<1>3. ASSUME NEW s \in SUBSET B, s # B
      PROVE  Of(s) = IF s = {} THEN 0 ELSE f[Pick(s)] + Of(s \ {Pick(s)})
  <2>1. s \in SUBSET D /\ s \notin Bad
    BY <1>2, <1>3
  <2>2. PICK g : g = (CHOOSE h : Sums(h, f, s)) /\ Sums(g, f, s)
    BY <2>1
  <2>3. Of(s) = g[s] /\ g[s] = IF s = {} THEN 0 ELSE f[Pick(s)] + g[s \ {Pick(s)}]
    BY <2>2 DEF Sums
  <2>4. CASE s = {}
    BY <2>3, <2>4
  <2>5. CASE s # {}
    <3> DEFINE u == s \ {Pick(s)}
    <3>1. u \in SUBSET s /\ u \subseteq B /\ u # B
      BY <1>3
    <3>2. u \in SUBSET D /\ u \notin Bad
      BY <1>2, <3>1
    <3>3. PICK h : h = (CHOOSE j : Sums(j, f, u)) /\ Sums(h, f, u)
      BY <3>2
    <3>4. g[u] = h[u]
      BY <2>1, <2>2, <3>1, <3>3, SumsAgree
    <3>5. Of(u) = h[u]
      BY <3>3
    <3>6. QED
      BY <2>3, <2>5, <3>4, <3>5
  <2>6. QED
    BY <2>4, <2>5
<1>4. \A s \in SUBSET B : s # {} => G[s \ {Pick(s)}] = Of(s \ {Pick(s)})
  <2>1. SUFFICES ASSUME NEW s \in SUBSET B, s # {}
                 PROVE  G[s \ {Pick(s)}] = Of(s \ {Pick(s)})
    OBVIOUS
  <2>2. s \ {Pick(s)} \in SUBSET B /\ s \ {Pick(s)} # B
    BY <2>1, PickIn
  <2>3. QED
    BY <1>3, <2>2
<1>5. G = [s \in SUBSET B |-> IF s = {} THEN 0 ELSE f[Pick(s)] + G[s \ {Pick(s)}]]
  <2> DEFINE H == [s \in SUBSET B |-> IF s = {} THEN 0 ELSE f[Pick(s)] + G[s \ {Pick(s)}]]
  <2>1. \A s \in SUBSET B : G[s] = H[s]
    <3>1. SUFFICES ASSUME NEW s \in SUBSET B PROVE G[s] = H[s]
      OBVIOUS
    <3>2. /\ G[s] = IF s = {} THEN 0 ELSE f[Pick(s)] + Of(s \ {Pick(s)})
          /\ H[s] = IF s = {} THEN 0 ELSE f[Pick(s)] + G[s \ {Pick(s)}]
      OBVIOUS
    <3> HIDE DEF G, H, Of
    <3>3. QED
      BY <1>4, <3>2
  <2>2. DOMAIN G = SUBSET B /\ DOMAIN H = SUBSET B
    OBVIOUS
  <2>3. QED
    BY <2>1, <2>2
<1>6. Sums(G, f, B)
  BY <1>5 DEF Sums
<1>7. QED
  BY <1>2, <1>6

\* What the sum is: nothing for the empty set, and one element more otherwise.
LEMMA SumUnfolds ==
  ASSUME NEW D, IsFiniteSet(D), NEW f, NEW S \in SUBSET D
  PROVE  SumFunctionOnSet(f, S) =
           IF S = {} THEN 0 ELSE f[Pick(S)] + SumFunctionOnSet(f, S \ {Pick(S)})
<1>1. PICK g : g = (CHOOSE h : Sums(h, f, S)) /\ Sums(g, f, S)
  BY SumsExist
<1>2. SumFunctionOnSet(f, S) = g[S]
  BY <1>1, SumIsChosen
<1>3. g[S] = IF S = {} THEN 0 ELSE f[Pick(S)] + g[S \ {Pick(S)}]
  BY <1>1 DEF Sums
<1> DEFINE U == S \ {Pick(S)}
<1>4. PICK h : h = (CHOOSE j : Sums(j, f, U)) /\ Sums(h, f, U)
  BY SumsExist
<1>5. SumFunctionOnSet(f, U) = h[U]
  BY <1>4, SumIsChosen
<1>6. g[U] = h[U]
  BY <1>1, <1>4, SumsAgree
<1>7. QED
  BY <1>2, <1>3, <1>5, <1>6

LEMMA SumOfNothing ==
  ASSUME NEW f
  PROVE  SumFunctionOnSet(f, {}) = 0
BY SumUnfolds, FS_EmptySet

LEMMA SumType ==
  ASSUME NEW D, IsFiniteSet(D), NEW f, NEW S \in SUBSET D, \A x \in S : f[x] \in Nat
  PROVE  SumFunctionOnSet(f, S) \in Nat
<1> DEFINE Bad == {s \in SUBSET S : SumFunctionOnSet(f, s) \notin Nat}
<1>1. SUFFICES ASSUME Bad # {} PROVE FALSE
  OBVIOUS
<1>2. PICK B \in Bad : \A u \in Bad : u \subseteq B => u = B
  <2>1. Bad \subseteq SUBSET D
    OBVIOUS
  <2> HIDE DEF Bad
  <2>2. QED
    BY <1>1, <2>1, SmallestMember
<1>3. B # {}
  BY SumOfNothing
<1>4. Pick(B) \in B
  BY <1>3, PickIn
<1>5. SumFunctionOnSet(f, B \ {Pick(B)}) \in Nat
  BY <1>2, <1>4
<1>6. SumFunctionOnSet(f, B) = f[Pick(B)] + SumFunctionOnSet(f, B \ {Pick(B)})
  BY <1>3, SumUnfolds
<1>7. QED
  BY <1>4, <1>5, <1>6

\* The order of the recursion does not matter: any element may be taken out.
LEMMA SumTakesOut ==
  ASSUME NEW D, IsFiniteSet(D), NEW f, NEW S \in SUBSET D, \A x \in S : f[x] \in Nat,
         NEW a \in S
  PROVE  SumFunctionOnSet(f, S) = f[a] + SumFunctionOnSet(f, S \ {a})
<1> DEFINE Bad == {s \in SUBSET S : \E x \in s :
                     SumFunctionOnSet(f, s) # f[x] + SumFunctionOnSet(f, s \ {x})}
<1>1. SUFFICES ASSUME Bad # {} PROVE FALSE
  OBVIOUS
<1>2. PICK B \in Bad : \A u \in Bad : u \subseteq B => u = B
  <2>1. Bad \subseteq SUBSET D
    OBVIOUS
  <2> HIDE DEF Bad
  <2>2. QED
    BY <1>1, <2>1, SmallestMember
<1>3. PICK x \in B : SumFunctionOnSet(f, B) # f[x] + SumFunctionOnSet(f, B \ {x})
  OBVIOUS
<1> DEFINE p == Pick(B)
<1>4. p \in B
  BY PickIn
<1>5. SumFunctionOnSet(f, B) = f[p] + SumFunctionOnSet(f, B \ {p})
  BY SumUnfolds
<1>6. p # x
  BY <1>3, <1>5
<1>7. \A q \in B : \A y \in B \ {q} :
        SumFunctionOnSet(f, B \ {q}) = f[y] + SumFunctionOnSet(f, (B \ {q}) \ {y})
  <2>1. SUFFICES ASSUME NEW q \in B, NEW y \in B \ {q}
                 PROVE  SumFunctionOnSet(f, B \ {q})
                          = f[y] + SumFunctionOnSet(f, (B \ {q}) \ {y})
    OBVIOUS
  <2>2. B \ {q} \subseteq B /\ B \ {q} # B /\ y \in B \ {q} /\ B \ {q} \in SUBSET S
    OBVIOUS
  <2>3. B \ {q} \notin Bad
    <3> HIDE DEF Bad
    <3>1. QED
      BY <1>2, <2>2
  <2>4. QED
    BY <2>2, <2>3
<1>8. /\ SumFunctionOnSet(f, B \ {p}) = f[x] + SumFunctionOnSet(f, (B \ {p}) \ {x})
      /\ SumFunctionOnSet(f, B \ {x}) = f[p] + SumFunctionOnSet(f, (B \ {x}) \ {p})
  <2> HIDE DEF p
  <2>1. QED
    BY <1>4, <1>6, <1>7
<1>9. (B \ {p}) \ {x} = (B \ {x}) \ {p}
  OBVIOUS
<1>10. SumFunctionOnSet(f, (B \ {p}) \ {x}) \in Nat
  BY SumType
<1>11. f[p] \in Nat /\ f[x] \in Nat
  BY <1>4
<1>12. QED
  BY <1>3, <1>5, <1>7, <1>8, <1>9, <1>10, <1>11

LEMMA SumAdds ==
  ASSUME NEW D, IsFiniteSet(D), NEW f, NEW S \in SUBSET D, NEW a \in D \ S,
         \A x \in S \cup {a} : f[x] \in Nat
  PROVE  SumFunctionOnSet(f, S \cup {a}) = f[a] + SumFunctionOnSet(f, S)
<1>1. (S \cup {a}) \ {a} = S
  OBVIOUS
<1>2. QED
  BY <1>1, SumTakesOut

\* A part sums to no more than the whole.
LEMMA SumGrows ==
  ASSUME NEW D, IsFiniteSet(D), NEW f, NEW S \in SUBSET D, \A x \in S : f[x] \in Nat,
         NEW U \in SUBSET S
  PROVE  SumFunctionOnSet(f, U) <= SumFunctionOnSet(f, S)
<1> DEFINE Bad == {s \in SUBSET S : \E u \in SUBSET s :
                     ~(SumFunctionOnSet(f, u) <= SumFunctionOnSet(f, s))}
<1>1. SUFFICES ASSUME Bad # {} PROVE FALSE
  OBVIOUS
<1>2. PICK B \in Bad : \A u \in Bad : u \subseteq B => u = B
  <2>1. Bad \subseteq SUBSET D
    OBVIOUS
  <2> HIDE DEF Bad
  <2>2. QED
    BY <1>1, <2>1, SmallestMember
<1>3. PICK u \in SUBSET B : ~(SumFunctionOnSet(f, u) <= SumFunctionOnSet(f, B))
  OBVIOUS
<1>4. SumFunctionOnSet(f, u) \in Nat /\ SumFunctionOnSet(f, B) \in Nat
  BY SumType
<1>5. PICK x \in B : x \notin u
  BY <1>3, <1>4
<1>6. SumFunctionOnSet(f, u) <= SumFunctionOnSet(f, B \ {x})
  BY <1>2, <1>5
<1>7. SumFunctionOnSet(f, B) = f[x] + SumFunctionOnSet(f, B \ {x})
  BY SumTakesOut
<1>8. SumFunctionOnSet(f, B \ {x}) \in Nat /\ f[x] \in Nat
  BY SumType
<1>9. QED
  BY <1>3, <1>4, <1>6, <1>7, <1>8

\* Smaller addends sum to no more; equal ones to the same.
LEMMA SumOfLess ==
  ASSUME NEW D, IsFiniteSet(D), NEW f, NEW g, NEW S \in SUBSET D,
         \A x \in S : f[x] \in Nat /\ g[x] \in Nat /\ f[x] <= g[x]
  PROVE  SumFunctionOnSet(f, S) <= SumFunctionOnSet(g, S)
<1> DEFINE Bad == {s \in SUBSET S : ~(SumFunctionOnSet(f, s) <= SumFunctionOnSet(g, s))}
<1>1. SUFFICES ASSUME Bad # {} PROVE FALSE
  OBVIOUS
<1>2. PICK B \in Bad : \A u \in Bad : u \subseteq B => u = B
  <2>1. Bad \subseteq SUBSET D
    OBVIOUS
  <2> HIDE DEF Bad
  <2>2. QED
    BY <1>1, <2>1, SmallestMember
<1>3. B # {}
  BY SumOfNothing
<1>4. PICK x \in B : TRUE
  BY <1>3
<1>5. SumFunctionOnSet(f, B \ {x}) <= SumFunctionOnSet(g, B \ {x})
  BY <1>2
<1>6. /\ SumFunctionOnSet(f, B) = f[x] + SumFunctionOnSet(f, B \ {x})
      /\ SumFunctionOnSet(g, B) = g[x] + SumFunctionOnSet(g, B \ {x})
  BY SumTakesOut
<1>7. /\ SumFunctionOnSet(f, B \ {x}) \in Nat
      /\ SumFunctionOnSet(g, B \ {x}) \in Nat
  BY SumType
<1>8. f[x] \in Nat /\ g[x] \in Nat /\ f[x] <= g[x]
  OBVIOUS
<1>9. QED
  BY <1>2, <1>5, <1>6, <1>7, <1>8

LEMMA SumOfSame ==
  ASSUME NEW D, IsFiniteSet(D), NEW f, NEW g, NEW S \in SUBSET D,
         \A x \in S : f[x] \in Nat /\ f[x] = g[x]
  PROVE  SumFunctionOnSet(f, S) = SumFunctionOnSet(g, S)
<1>1. /\ SumFunctionOnSet(f, S) <= SumFunctionOnSet(g, S)
      /\ SumFunctionOnSet(g, S) <= SumFunctionOnSet(f, S)
  BY SumOfLess
<1>2. SumFunctionOnSet(f, S) \in Nat /\ SumFunctionOnSet(g, S) \in Nat
  BY SumType
<1>3. QED
  BY <1>1, <1>2

\* A sum may be taken in two parts.
LEMMA SumSplits ==
  ASSUME NEW D, IsFiniteSet(D), NEW f, NEW S \in SUBSET D, \A x \in S : f[x] \in Nat,
         NEW A \in SUBSET S
  PROVE  SumFunctionOnSet(f, S) = SumFunctionOnSet(f, A) + SumFunctionOnSet(f, S \ A)
<1> DEFINE Bad == {s \in SUBSET S :
                     SumFunctionOnSet(f, s) # SumFunctionOnSet(f, s \cap A)
                                                + SumFunctionOnSet(f, s \ A)}
<1>1. SUFFICES ASSUME Bad # {} PROVE FALSE
  <2>1. S \cap A = A
    OBVIOUS
  <2>2. QED
    BY <2>1
<1>2. PICK B \in Bad : \A u \in Bad : u \subseteq B => u = B
  <2>1. Bad \subseteq SUBSET D
    OBVIOUS
  <2> HIDE DEF Bad
  <2>2. QED
    BY <1>1, <2>1, SmallestMember
<1> DEFINE Both(s) == SumFunctionOnSet(f, s \cap A) + SumFunctionOnSet(f, s \ A)
<1>a. B \in SUBSET S /\ SumFunctionOnSet(f, B) # Both(B)
  OBVIOUS
<1>b. \A s \in SUBSET S : s \subseteq B /\ s # B => SumFunctionOnSet(f, s) = Both(s)
  BY <1>2
<1> HIDE DEF Bad
<1>3. B # {}
  <2>1. SUFFICES ASSUME B = {} PROVE FALSE
    OBVIOUS
  <2>2. B \cap A = {} /\ B \ A = {}
    BY <2>1
  <2>3. SumFunctionOnSet(f, B) = 0 /\ Both(B) = 0 + 0
    BY <2>1, <2>2, SumOfNothing
  <2>4. QED
    BY <1>a, <2>3
<1>4. PICK x \in B : TRUE
  BY <1>3
<1>5. SumFunctionOnSet(f, B \ {x}) = SumFunctionOnSet(f, (B \ {x}) \cap A)
                                        + SumFunctionOnSet(f, (B \ {x}) \ A)
  <2>1. B \ {x} \in SUBSET S /\ B \ {x} # B
    BY <1>a
  <2>2. QED
    BY <1>b, <2>1
<1>6. SumFunctionOnSet(f, B) = f[x] + SumFunctionOnSet(f, B \ {x})
  BY <1>a, SumTakesOut
<1>7. /\ SumFunctionOnSet(f, (B \ {x}) \cap A) \in Nat
      /\ SumFunctionOnSet(f, (B \ {x}) \ A) \in Nat
      /\ f[x] \in Nat
  <2>1. (B \ {x}) \cap A \in SUBSET S /\ (B \ {x}) \ A \in SUBSET S /\ x \in S
    BY <1>a
  <2>2. QED
    BY <2>1, SumType
<1>8. CASE x \in A
  <2>1. (B \cap A) \ {x} = (B \ {x}) \cap A /\ (B \ {x}) \ A = B \ A
    BY <1>8
  <2>2. SumFunctionOnSet(f, B \cap A) = f[x] + SumFunctionOnSet(f, (B \cap A) \ {x})
    BY <1>8, <1>a, SumTakesOut
  <2>3. /\ SumFunctionOnSet(f, B \cap A) = f[x] + SumFunctionOnSet(f, (B \ {x}) \cap A)
        /\ SumFunctionOnSet(f, B \ A) = SumFunctionOnSet(f, (B \ {x}) \ A)
    BY <2>1, <2>2
  <2>4. QED
    BY <1>a, <1>5, <1>6, <1>7, <2>3
<1>9. CASE x \notin A
  <2>1. (B \ A) \ {x} = (B \ {x}) \ A /\ (B \ {x}) \cap A = B \cap A
    BY <1>9
  <2>2. SumFunctionOnSet(f, B \ A) = f[x] + SumFunctionOnSet(f, (B \ A) \ {x})
    BY <1>9, <1>a, SumTakesOut
  <2>3. QED
    BY <1>a, <1>5, <1>6, <1>7, <2>1, <2>2
<1>10. QED
  BY <1>8, <1>9

\* A function sums to what it sums to on its domain, as a part of a larger one.
LEMMA SumIsOnDomain ==
  ASSUME NEW D, IsFiniteSet(D), NEW S \in SUBSET D, NEW g, \A x \in S : g[x] \in Nat
  PROVE  SumFunction([x \in S |-> g[x]]) = SumFunctionOnSet(g, S)
<1> DEFINE h == [x \in S |-> g[x]]
<1>1. DOMAIN h = S /\ \A x \in S : h[x] = g[x]
  OBVIOUS
<1>2. SumFunction(h) = SumFunctionOnSet(h, S)
  BY <1>1 DEF SumFunction
<1> HIDE DEF h
<1>3. SumFunctionOnSet(h, S) = SumFunctionOnSet(g, S)
  BY <1>1, SumOfSame
<1>4. QED
  BY <1>2, <1>3 DEF h

LEMMA SumOfZeros ==
  ASSUME NEW D, IsFiniteSet(D), NEW f, NEW S \in SUBSET D, \A x \in S : f[x] = 0
  PROVE  SumFunctionOnSet(f, S) = 0
<1> DEFINE Bad == {s \in SUBSET S : SumFunctionOnSet(f, s) # 0}
<1>1. SUFFICES ASSUME Bad # {} PROVE FALSE
  OBVIOUS
<1>2. PICK B \in Bad : \A u \in Bad : u \subseteq B => u = B
  <2>1. Bad \subseteq SUBSET D
    OBVIOUS
  <2> HIDE DEF Bad
  <2>2. QED
    BY <1>1, <2>1, SmallestMember
<1>3. B # {}
  BY SumOfNothing
<1>4. Pick(B) \in B
  BY <1>3, PickIn
<1>5. SumFunctionOnSet(f, B \ {Pick(B)}) = 0
  BY <1>2, <1>4
<1>6. SumFunctionOnSet(f, B) = f[Pick(B)] + SumFunctionOnSet(f, B \ {Pick(B)})
  BY <1>3, SumUnfolds
<1>7. QED
  BY <1>4, <1>5, <1>6

\* What is zero may be left out.
LEMMA SumOfSupport ==
  ASSUME NEW D, IsFiniteSet(D), NEW f, NEW S \in SUBSET D, \A x \in S : f[x] \in Nat,
         NEW A \in SUBSET S, \A x \in S \ A : f[x] = 0
  PROVE  SumFunctionOnSet(f, S) = SumFunctionOnSet(f, A)
<1>1. SumFunctionOnSet(f, S) = SumFunctionOnSet(f, A) + SumFunctionOnSet(f, S \ A)
  BY SumSplits
<1>2. SumFunctionOnSet(f, S \ A) = 0
  BY SumOfZeros
<1>3. SumFunctionOnSet(f, A) \in Nat
  BY SumType
<1>4. QED
  BY <1>1, <1>2, <1>3
=============================================================================
