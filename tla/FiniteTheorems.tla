-------------------------- MODULE FiniteTheorems --------------------------
(***************************************************************************)
(* SumFunctionOnSet of the community modules is a fold, defined by a       *)
(* recursive function over the subsets of its set.  What a fold computes   *)
(* would be shown by induction; here it is shown first-order: of the       *)
(* subsets where it goes wrong there is a smallest (Smallest), and taking  *)
(* one element out of that one leaves a smaller one.  The rest is about    *)
(* finite sets: their greatest element, the places of their elements in an *)
(* order, and powers of two.                                               *)
(***************************************************************************)
EXTENDS Integers, FiniteSets, Functions, FiniteSetTheorems, TLAPS

(* The element the fold takes next, and the function it recurses on. *)
AnyOf(s) == CHOOSE x \in s : TRUE
Sums(g, f, T) ==
  g = [s \in SUBSET T |-> IF s = {} THEN 0 ELSE f[AnyOf(s)] + g[s \ {AnyOf(s)}]]

(* A sum is the value, at the whole set, of the function its fold recurses on. *)
LEMMA TotalIs ==
  ASSUME NEW f, NEW S
  PROVE  SumFunctionOnSet(f, S) = (CHOOSE g : Sums(g, f, S))[S]
BY DEF SumFunctionOnSet, FoldFunctionOnSet, MapThenFoldSet, Sums, AnyOf

(* Among subsets of a finite set that go wrong, one has no smaller one that does. *)
LEMMA Smallest ==
  ASSUME NEW S, IsFiniteSet(S), NEW bad, bad \subseteq SUBSET S, bad # {}
  PROVE  \E s \in bad : IsFiniteSet(s) /\ \A t \in bad : t \subseteq s => t = s
<1>1. IsWellFoundedOn(StrictSubsetOrdering(S), FiniteSubsetsOf(S))
  BY FS_StrictSubsetOrderingWellFounded
<1>2. bad \subseteq FiniteSubsetsOf(S)
  BY FS_FiniteSubsetsOfFinite
<1>3. PICK s \in bad : \A t \in bad : ~(<<t, s>> \in StrictSubsetOrdering(S))
  BY <1>1, <1>2, WFMin
<1>4. \A t \in bad : t \subseteq s => t = s
  BY <1>3 DEF StrictSubsetOrdering
<1>5. QED
  BY <1>2, <1>4, FS_Subset

(* The element the fold takes next is there. *)
LEMMA AnyOfIs == ASSUME NEW s, s # {} PROVE AnyOf(s) \in s
BY DEF AnyOf

(* What the recursive function is at the empty set, and at any other. *)
LEMMA SumsAt ==
  ASSUME NEW f, NEW T, NEW g, Sums(g, f, T), NEW s \in SUBSET T
  PROVE  g[s] = IF s = {} THEN 0 ELSE f[AnyOf(s)] + g[s \ {AnyOf(s)}]
<1> DEFINE step(u) == IF u = {} THEN 0 ELSE f[AnyOf(u)] + g[u \ {AnyOf(u)}]
<1>1. g = [u \in SUBSET T |-> step(u)]
  BY DEF Sums
<1> HIDE DEF step
<1>2. g[s] = step(s)
  BY <1>1
<1>3. QED
  BY <1>2 DEF step

(* Two functions with the recursion are the same on the sets both are defined on. *)
LEMMA SumsAgree ==
  ASSUME NEW f, NEW S, IsFiniteSet(S), NEW T \in SUBSET S, NEW U \in SUBSET S,
         NEW g, Sums(g, f, T), NEW h, Sums(h, f, U), NEW s \in SUBSET (T \cap U)
  PROVE  g[s] = h[s]
<1> DEFINE bad == { u \in SUBSET (T \cap U) : g[u] # h[u] }
<1>1. SUFFICES ASSUME bad # {} PROVE FALSE
  OBVIOUS
<1>2. bad \subseteq SUBSET S
  OBVIOUS
<1> HIDE DEF bad
<1>3. PICK u \in bad : \A t \in bad : t \subseteq u => t = u
  BY <1>1, <1>2, Smallest
<1>4. u \in SUBSET T /\ u \in SUBSET U /\ g[u] # h[u]
  BY DEF bad
<1>5. u # {}
  <2>1. {} \in SUBSET T /\ {} \in SUBSET U
    OBVIOUS
  <2>2. g[{}] = 0 /\ h[{}] = 0
    BY <2>1, SumsAt
  <2>3. QED
    BY <1>4, <2>2
<1>6. AnyOf(u) \in u
  BY <1>5, AnyOfIs
<1> DEFINE v == u \ {AnyOf(u)}
<1>7. g[v] = h[v]
  <2>1. v \subseteq u /\ v # u /\ v \in SUBSET (T \cap U)
    BY <1>4, <1>6
  <2>2. v \notin bad
    BY <1>3, <2>1
  <2>3. QED
    BY <2>1, <2>2 DEF bad
<1>8. g[u] = f[AnyOf(u)] + g[v] /\ h[u] = f[AnyOf(u)] + h[v]
  BY <1>4, <1>5, SumsAt
<1>9. QED
  BY <1>4, <1>7, <1>8

(* The recursion has a solution on every finite set. *)
LEMMA SumsExist ==
  ASSUME NEW f, NEW S, IsFiniteSet(S)
  PROVE  \E g : Sums(g, f, S)
<1> DEFINE bad == { T \in SUBSET S : ~\E g : Sums(g, f, T) }
<1>1. SUFFICES ASSUME bad # {} PROVE FALSE
  OBVIOUS
<1>2. bad \subseteq SUBSET S
  OBVIOUS
<1> HIDE DEF bad
<1>3. PICK T \in bad : \A U \in bad : U \subseteq T => U = T
  BY <1>1, <1>2, Smallest
<1> DEFINE G(U) == CHOOSE g : Sums(g, f, U)
           rest(s) == s \ {AnyOf(s)}
           g == [s \in SUBSET T |-> IF s = {} THEN 0 ELSE f[AnyOf(s)] + G(rest(s))[rest(s)]]
<1>4. ASSUME NEW U \in SUBSET T, U # T PROVE Sums(G(U), f, U)
  <2>1. U \notin bad
    BY <1>3, <1>4
  <2>2. \E h : Sums(h, f, U)
    BY <1>2, <1>3, <2>1 DEF bad
  <2>3. QED
    BY <2>2
<1> HIDE DEF G
<1>5. ASSUME NEW U \in SUBSET T, U # T PROVE g[U] = G(U)[U]
  <2>1. Sums(G(U), f, U)
    BY <1>4, <1>5
  <2>2. CASE U = {}
    BY <2>1, <2>2, SumsAt
  <2>3. CASE U # {}
    <3> DEFINE r == rest(U)
    <3>1. AnyOf(U) \in U /\ r \in SUBSET U /\ r # T /\ r \in SUBSET T
      BY <2>3, <1>5, AnyOfIs
    <3>2. g[U] = f[AnyOf(U)] + G(r)[r]
      BY <2>3
    <3>3. G(U)[U] = f[AnyOf(U)] + G(U)[r]
      BY <2>1, <2>3, SumsAt
    <3>4. Sums(G(r), f, r)
      BY <1>4, <3>1
    <3> HIDE DEF r, g
    <3>5. G(r)[r] = G(U)[r]
      <4>1. U \in SUBSET S /\ r \in SUBSET S /\ r \in SUBSET (r \cap U)
        BY <1>2, <3>1
      <4>2. QED
        BY <2>1, <3>4, <4>1, SumsAgree
    <3>6. QED
      BY <3>2, <3>3, <3>5
  <2>4. QED
    BY <2>2, <2>3
<1>6. Sums(g, f, T)
  <2>1. ASSUME NEW s \in SUBSET T, s # {} PROVE G(rest(s))[rest(s)] = g[rest(s)]
    <3>1. rest(s) \in SUBSET T /\ rest(s) # T
      BY <2>1, AnyOfIs
    <3>2. QED
      BY <1>5, <3>1
  <2>2. g = [s \in SUBSET T |-> IF s = {} THEN 0 ELSE f[AnyOf(s)] + g[rest(s)]]
    <3> DEFINE old(s) == IF s = {} THEN 0 ELSE f[AnyOf(s)] + G(rest(s))[rest(s)]
               new(s) == IF s = {} THEN 0 ELSE f[AnyOf(s)] + g[rest(s)]
    <3>1. \A s \in SUBSET T : old(s) = new(s)
      BY <2>1
    <3>2. g = [s \in SUBSET T |-> old(s)]
      OBVIOUS
    <3> HIDE DEF old, g
    <3>3. \A s \in SUBSET T : new(s) = old(s)
      BY <3>1
    <3> HIDE DEF new
    <3>4. g = [s \in SUBSET T |-> new(s)]
      BY <3>2, <3>3
    <3>5. QED
      BY <3>4 DEF new
  <2>3. QED
    BY <2>2 DEF Sums
<1>7. QED
  BY <1>6 DEF bad

(* the function that Total reads *)
SumOf(f, S) == CHOOSE g : Sums(g, f, S)

(* The sum over a subset is the value there of any function with the recursion. *)
LEMMA TotalAt ==
  ASSUME NEW f, NEW S, IsFiniteSet(S)
  PROVE  SumFunctionOnSet(f, S) = SumOf(f, S)[S] /\ Sums(SumOf(f, S), f, S)
BY TotalIs, SumsExist DEF SumOf

(* The function a sum reads also holds the sums over the subsets. *)
LEMMA TotalOfSame ==
  ASSUME NEW S, IsFiniteSet(S), NEW f, NEW T \in SUBSET S
  PROVE  SumOf(f, S)[T] = SumFunctionOnSet(f, T)
<1>1. IsFiniteSet(T)
  BY FS_Subset
<1>2. Sums(SumOf(f, S), f, S) /\ Sums(SumOf(f, T), f, T) /\ SumFunctionOnSet(f, T) = SumOf(f, T)[T]
  BY <1>1, TotalAt
<1>3. T \in SUBSET (S \cap T) /\ S \in SUBSET S
  OBVIOUS
<1> HIDE DEF SumOf
<1>4. QED
  BY <1>2, <1>3, SumsAgree

(* The sum over no element. *)
LEMMA TotalOfNone == ASSUME NEW f PROVE SumFunctionOnSet(f, {}) = 0
<1>1. IsFiniteSet({})
  BY FS_EmptySet
<1>2. QED
  BY <1>1, TotalAt, SumsAt

(* One step of the fold. *)
LEMMA TotalStep ==
  ASSUME NEW f, NEW S, IsFiniteSet(S), S # {}
  PROVE  SumFunctionOnSet(f, S) = f[AnyOf(S)] + SumFunctionOnSet(f, S \ {AnyOf(S)})
<1>1. S \in SUBSET S /\ S \ {AnyOf(S)} \in SUBSET S
  OBVIOUS
<1>2. SumFunctionOnSet(f, S) = SumOf(f, S)[S] /\ Sums(SumOf(f, S), f, S)
  BY TotalAt
<1>3. SumOf(f, S)[S \ {AnyOf(S)}] = SumFunctionOnSet(f, S \ {AnyOf(S)})
  BY <1>1, TotalOfSame
<1>4. QED
  BY <1>1, <1>2, <1>3, SumsAt

(* A sum is of the kind of its terms. *)
LEMMA TotalIn ==
  ASSUME NEW S, IsFiniteSet(S), NEW R, 0 \in R, \A a, b \in R : a + b \in R,
         NEW f, \A x \in S : f[x] \in R
  PROVE  SumFunctionOnSet(f, S) \in R
<1> DEFINE bad == { s \in SUBSET S : SumFunctionOnSet(f, s) \notin R }
<1>1. SUFFICES ASSUME bad # {} PROVE FALSE
  OBVIOUS
<1>2. bad \subseteq SUBSET S
  OBVIOUS
<1> HIDE DEF bad
<1>3. PICK s \in bad : IsFiniteSet(s) /\ \A t \in bad : t \subseteq s => t = s
  BY <1>1, <1>2, Smallest
<1>4. s \in SUBSET S /\ SumFunctionOnSet(f, s) \notin R
  BY DEF bad
<1>5. s # {}
  BY <1>4, TotalOfNone
<1> DEFINE x == AnyOf(s)   r == s \ {x}
<1>6. x \in s /\ r \in SUBSET S /\ r # s
  BY <1>4, <1>5, AnyOfIs
<1>7. SumFunctionOnSet(f, r) \in R
  <2>1. r \notin bad
    BY <1>3, <1>6
  <2>2. QED
    BY <1>6, <2>1 DEF bad
<1>8. SumFunctionOnSet(f, s) = f[x] + SumFunctionOnSet(f, r)
  BY <1>3, <1>5, TotalStep
<1> HIDE DEF r
<1>9. f[x] \in R
  BY <1>4, <1>6
<1>10. QED
  BY <1>4, <1>7, <1>8, <1>9

(* Sums of integers, and of natural numbers. *)
LEMMA TotalIsInt ==
  ASSUME NEW S, IsFiniteSet(S), NEW f, \A x \in S : f[x] \in Int
  PROVE  SumFunctionOnSet(f, S) \in Int
<1>1. 0 \in Int /\ \A a, b \in Int : a + b \in Int
  OBVIOUS
<1>2. QED
  BY <1>1, TotalIn

LEMMA TotalIsNat ==
  ASSUME NEW S, IsFiniteSet(S), NEW f, \A x \in S : f[x] \in Nat
  PROVE  SumFunctionOnSet(f, S) \in Nat
<1>1. 0 \in Nat /\ \A a, b \in Nat : a + b \in Nat
  OBVIOUS
<1>2. QED
  BY <1>1, TotalIn

(* The order does not matter: any one element can be taken out first. *)
LEMMA TotalWithout ==
  ASSUME NEW S, IsFiniteSet(S), NEW f, \A x \in S : f[x] \in Int, NEW e \in S
  PROVE  SumFunctionOnSet(f, S) = f[e] + SumFunctionOnSet(f, S \ {e})
<1> DEFINE bad == { s \in SUBSET S : \E x \in s : SumFunctionOnSet(f, s) # f[x] + SumFunctionOnSet(f, s \ {x}) }
<1>1. SUFFICES ASSUME bad # {} PROVE FALSE
  OBVIOUS
<1>2. bad \subseteq SUBSET S
  OBVIOUS
<1> HIDE DEF bad
<1>3. PICK s \in bad : IsFiniteSet(s) /\ \A t \in bad : t \subseteq s => t = s
  BY <1>1, <1>2, Smallest
<1>4. s \in SUBSET S
  BY DEF bad
<1>5. PICK x \in s : SumFunctionOnSet(f, s) # f[x] + SumFunctionOnSet(f, s \ {x})
  BY DEF bad
<1> DEFINE y == AnyOf(s)
<1>6. y \in s /\ SumFunctionOnSet(f, s) = f[y] + SumFunctionOnSet(f, s \ {y})
  BY <1>3, <1>5, AnyOfIs, TotalStep
<1> HIDE DEF y
<1>7. x # y
  BY <1>5, <1>6
<1>8. ASSUME NEW a \in s, NEW b \in s \ {a} PROVE SumFunctionOnSet(f, s \ {a}) = f[b] + SumFunctionOnSet(f, s \ {a, b})
  <2>1. s \ {a} \subseteq s /\ s \ {a} # s /\ s \ {a} \in SUBSET S /\ (s \ {a}) \ {b} = s \ {a, b}
    BY <1>4
  <2>2. s \ {a} \notin bad
    BY <1>3, <2>1
  <2>3. QED
    BY <2>1, <2>2 DEF bad
<1>9. /\ SumFunctionOnSet(f, s \ {y}) = f[x] + SumFunctionOnSet(f, s \ {y, x})
      /\ SumFunctionOnSet(f, s \ {x}) = f[y] + SumFunctionOnSet(f, s \ {x, y})
  BY <1>6, <1>7, <1>8
<1>10. SumFunctionOnSet(f, s \ {x, y}) \in Int
  <2>1. IsFiniteSet(s \ {x, y}) /\ s \ {x, y} \subseteq S
    BY <1>3, <1>4, FS_Subset
  <2>2. QED
    BY <2>1, TotalIsInt
<1>11. s \ {y, x} = s \ {x, y}
  OBVIOUS
<1>12. f[x] \in Int /\ f[y] \in Int
  BY <1>4, <1>6
<1> DEFINE t == SumFunctionOnSet(f, s \ {x, y})
<1>13. /\ SumFunctionOnSet(f, s \ {y}) = f[x] + t /\ SumFunctionOnSet(f, s \ {x}) = f[y] + t /\ t \in Int
  BY <1>9, <1>10, <1>11
<1> HIDE DEF t
<1>14. QED
  BY <1>5, <1>6, <1>12, <1>13

(* Functions that agree on a set have the same sum over it. *)
LEMMA TotalOfAgreeing ==
  ASSUME NEW S, IsFiniteSet(S), NEW f, NEW g, \A x \in S : g[x] = f[x]
  PROVE  SumFunctionOnSet(g, S) = SumFunctionOnSet(f, S)
<1> DEFINE bad == { s \in SUBSET S : SumFunctionOnSet(g, s) # SumFunctionOnSet(f, s) }
<1>1. SUFFICES ASSUME bad # {} PROVE FALSE
  OBVIOUS
<1>2. bad \subseteq SUBSET S
  OBVIOUS
<1> HIDE DEF bad
<1>3. PICK s \in bad : IsFiniteSet(s) /\ \A t \in bad : t \subseteq s => t = s
  BY <1>1, <1>2, Smallest
<1>4. s \in SUBSET S /\ SumFunctionOnSet(g, s) # SumFunctionOnSet(f, s)
  BY DEF bad
<1>5. s # {}
  BY <1>4, TotalOfNone
<1> DEFINE x == AnyOf(s)   r == s \ {x}
<1>6. x \in s /\ r \in SUBSET S /\ r # s
  BY <1>4, <1>5, AnyOfIs
<1>7. SumFunctionOnSet(g, r) = SumFunctionOnSet(f, r)
  <2>1. r \notin bad
    BY <1>3, <1>6
  <2>2. QED
    BY <1>6, <2>1 DEF bad
<1>8. SumFunctionOnSet(f, s) = f[x] + SumFunctionOnSet(f, r) /\ SumFunctionOnSet(g, s) = g[x] + SumFunctionOnSet(g, r)
  BY <1>3, <1>5, TotalStep
<1> HIDE DEF r
<1>9. QED
  BY <1>4, <1>6, <1>7, <1>8

(* The sum of nothing but zeros. *)
LEMMA TotalOfZeros ==
  ASSUME NEW S, IsFiniteSet(S), NEW f, \A x \in S : f[x] = 0
  PROVE  SumFunctionOnSet(f, S) = 0
<1>1. 0 \in {0} /\ \A a, b \in {0} : a + b \in {0}
  OBVIOUS
<1>2. \A x \in S : f[x] \in {0}
  OBVIOUS
<1>3. SumFunctionOnSet(f, S) \in {0}
  BY <1>1, <1>2, TotalIn
<1>4. QED
  BY <1>3

(* The sum after one of the terms has changed. *)
LEMMA TotalBumped ==
  ASSUME NEW S, IsFiniteSet(S), NEW f, NEW g, NEW e \in S, \A x \in S : f[x] \in Int,
         \A x \in S : g[x] = IF x = e THEN f[x] + 1 ELSE f[x]
  PROVE  SumFunctionOnSet(g, S) = SumFunctionOnSet(f, S) + 1
<1>1. IsFiniteSet(S \ {e}) /\ \A x \in S \ {e} : g[x] = f[x] /\ f[x] \in Int
  BY FS_Subset
<1>2. SumFunctionOnSet(g, S \ {e}) = SumFunctionOnSet(f, S \ {e}) /\ SumFunctionOnSet(f, S \ {e}) \in Int
  BY <1>1, TotalOfAgreeing, TotalIsInt
<1>3. \A x \in S : g[x] \in Int
  OBVIOUS
<1>4. SumFunctionOnSet(f, S) = f[e] + SumFunctionOnSet(f, S \ {e}) /\ SumFunctionOnSet(g, S) = g[e] + SumFunctionOnSet(g, S \ {e})
  BY <1>3, TotalWithout
<1>5. QED
  BY <1>2, <1>4

(* The sum of sums. *)
LEMMA TotalSum ==
  ASSUME NEW S, IsFiniteSet(S), NEW f, NEW g, NEW h,
         \A x \in S : f[x] \in Int /\ g[x] \in Int /\ h[x] = f[x] + g[x]
  PROVE  SumFunctionOnSet(h, S) = SumFunctionOnSet(f, S) + SumFunctionOnSet(g, S)
<1> DEFINE bad == { s \in SUBSET S : SumFunctionOnSet(h, s) # SumFunctionOnSet(f, s) + SumFunctionOnSet(g, s) }
<1>1. SUFFICES ASSUME bad # {} PROVE FALSE
  OBVIOUS
<1>2. bad \subseteq SUBSET S
  OBVIOUS
<1> HIDE DEF bad
<1>3. PICK s \in bad : IsFiniteSet(s) /\ \A t \in bad : t \subseteq s => t = s
  BY <1>1, <1>2, Smallest
<1>4. s \in SUBSET S /\ SumFunctionOnSet(h, s) # SumFunctionOnSet(f, s) + SumFunctionOnSet(g, s)
  BY DEF bad
<1>5. s # {}
  BY <1>4, TotalOfNone
<1> DEFINE x == AnyOf(s)   r == s \ {x}
<1>6. x \in s /\ r \in SUBSET S /\ r # s
  BY <1>4, <1>5, AnyOfIs
<1>7. SumFunctionOnSet(h, r) = SumFunctionOnSet(f, r) + SumFunctionOnSet(g, r)
  <2>1. r \notin bad
    BY <1>3, <1>6
  <2>2. QED
    BY <1>6, <2>1 DEF bad
<1>8. /\ SumFunctionOnSet(f, s) = f[x] + SumFunctionOnSet(f, r)
      /\ SumFunctionOnSet(g, s) = g[x] + SumFunctionOnSet(g, r)
      /\ SumFunctionOnSet(h, s) = h[x] + SumFunctionOnSet(h, r)
  BY <1>3, <1>5, TotalStep
<1>9. SumFunctionOnSet(f, r) \in Int /\ SumFunctionOnSet(g, r) \in Int
  <2>1. IsFiniteSet(r) /\ \A y \in r : f[y] \in Int /\ g[y] \in Int
    BY <1>3, <1>6, FS_Subset
  <2> HIDE DEF r
  <2>2. QED
    BY <2>1, TotalIsInt
<1>10. f[x] \in Int /\ g[x] \in Int /\ h[x] = f[x] + g[x]
  BY <1>4, <1>6
<1> HIDE DEF r, x
<1>11. QED
  BY <1>4, <1>7, <1>8, <1>9, <1>10

(* Bounds on each term bound the sum; a constant term is the case low = high. *)
LEMMA TotalBetween ==
  ASSUME NEW S, IsFiniteSet(S), NEW f, NEW low \in Int, NEW high \in Int,
         \A x \in S : f[x] \in Int /\ low <= f[x] /\ f[x] <= high
  PROVE  /\ low * Cardinality(S) <= SumFunctionOnSet(f, S)
         /\ SumFunctionOnSet(f, S) <= high * Cardinality(S)
<1> DEFINE within(s) == /\ low * Cardinality(s) <= SumFunctionOnSet(f, s)
                        /\ SumFunctionOnSet(f, s) <= high * Cardinality(s)
           bad == { s \in SUBSET S : ~within(s) }
<1>1. SUFFICES ASSUME bad # {} PROVE FALSE
  OBVIOUS
<1>2. bad \subseteq SUBSET S
  OBVIOUS
<1> HIDE DEF bad
<1>3. PICK s \in bad : IsFiniteSet(s) /\ \A t \in bad : t \subseteq s => t = s
  BY <1>1, <1>2, Smallest
<1>4. s \in SUBSET S /\ ~within(s)
  BY DEF bad
<1>5. s # {}
  <2>1. SumFunctionOnSet(f, {}) = 0 /\ Cardinality({}) = 0
    BY TotalOfNone, FS_EmptySet
  <2>2. QED
    BY <1>4, <2>1
<1> DEFINE x == AnyOf(s)   r == s \ {x}
<1>6. x \in s /\ r \in SUBSET S /\ r # s
  BY <1>4, <1>5, AnyOfIs
<1>7. within(r)
  <2>1. r \notin bad
    BY <1>3, <1>6
  <2>2. QED
    BY <1>6, <2>1 DEF bad
<1>8. SumFunctionOnSet(f, s) = f[x] + SumFunctionOnSet(f, r)
  BY <1>3, <1>5, TotalStep
<1>9. Cardinality(r) = Cardinality(s) - 1 /\ Cardinality(s) \in Nat
  BY <1>3, <1>6, FS_RemoveElement, FS_CardinalityType
<1>10. SumFunctionOnSet(f, r) \in Int
  <2>1. IsFiniteSet(r) /\ \A y \in r : f[y] \in Int
    BY <1>3, <1>6, FS_Subset
  <2> HIDE DEF r
  <2>2. QED
    BY <2>1, TotalIsInt
<1>11. f[x] \in Int /\ low <= f[x] /\ f[x] <= high
  BY <1>4, <1>6
<1> HIDE DEF r, x
<1>12. \A c \in Int : c * (Cardinality(s) - 1) = c * Cardinality(s) - c /\ c * Cardinality(s) \in Int
  BY <1>9
<1>13. /\ low * Cardinality(s) - low <= SumFunctionOnSet(f, r)
       /\ SumFunctionOnSet(f, r) <= high * Cardinality(s) - high
  BY <1>7, <1>9, <1>12
<1>14. within(s)
  BY <1>8, <1>10, <1>11, <1>12, <1>13
<1>15. QED
  BY <1>4, <1>14

(* The pairs of a relation, counted row by row. *)
RowOf(W, T, i) == { j \in T : <<i, j>> \in W }
PairsOf(W, S, T) == (S \X T) \cap W

LEMMA PairsCounted ==
  ASSUME NEW S, IsFiniteSet(S), NEW T, IsFiniteSet(T), NEW W, NEW f,
         \A i \in S : f[i] = Cardinality(RowOf(W, T, i))
  PROVE  SumFunctionOnSet(f, S) = Cardinality(PairsOf(W, S, T))
<1> DEFINE pairs(s) == (s \X T) \cap W
           row(i) == RowOf(W, T, i)
           bad == { s \in SUBSET S : SumFunctionOnSet(f, s) # Cardinality(pairs(s)) }
<1>1. SUFFICES ASSUME bad # {} PROVE FALSE
  BY DEF PairsOf
<1>2. bad \subseteq SUBSET S
  OBVIOUS
<1> HIDE DEF bad
<1>3. PICK s \in bad : IsFiniteSet(s) /\ \A t \in bad : t \subseteq s => t = s
  BY <1>1, <1>2, Smallest
<1>4. s \in SUBSET S /\ SumFunctionOnSet(f, s) # Cardinality(pairs(s))
  BY DEF bad
<1>5. s # {}
  <2>1. pairs({}) = {}
    OBVIOUS
  <2>2. SumFunctionOnSet(f, {}) = 0 /\ Cardinality({}) = 0
    BY TotalOfNone, FS_EmptySet
  <2>3. QED
    BY <1>4, <2>1, <2>2
<1> DEFINE x == AnyOf(s)   r == s \ {x}
<1>6. x \in s /\ r \in SUBSET S /\ r # s
  BY <1>4, <1>5, AnyOfIs
<1>7. SumFunctionOnSet(f, r) = Cardinality(pairs(r))
  <2>1. r \notin bad
    BY <1>3, <1>6
  <2>2. QED
    BY <1>6, <2>1 DEF bad
<1>8. SumFunctionOnSet(f, s) = f[x] + SumFunctionOnSet(f, r)
  BY <1>3, <1>5, TotalStep
<1>9. f[x] = Cardinality(row(x)) /\ IsFiniteSet(row(x))
  <2>1. x \in S /\ row(x) \in SUBSET T
    BY <1>4, <1>6 DEF RowOf
  <2>2. IsFiniteSet(row(x))
    BY <2>1, FS_Subset
  <2>3. QED
    BY <2>1, <2>2
<1> DEFINE own == { <<x, j>> : j \in row(x) }
           g == [j \in row(x) |-> <<x, j>>]
<1>10. IsFiniteSet(own) /\ Cardinality(own) = Cardinality(row(x))
  <2> HIDE DEF x
  <2>1. g \in [row(x) -> own] /\ (\A j, k \in row(x) : g[j] = g[k] => j = k) /\ \A p \in own : \E j \in row(x) : g[j] = p
    OBVIOUS
  <2>2. g \in Bijection(row(x), own)
    BY <2>1 DEF Bijection, Injection, Surjection, IsInjective
  <2> HIDE DEF g, own, row
  <2>3. QED
    BY <1>9, <2>2, FS_Bijection DEF ExistsBijection
<1>11. IsFiniteSet(pairs(r))
  <2>1. IsFiniteSet(r \X T)
    BY <1>3, FS_Subset, FS_Product, r \subseteq s
  <2>2. pairs(r) \in SUBSET (r \X T)
    OBVIOUS
  <2> HIDE DEF pairs, r
  <2>3. QED
    BY <2>1, <2>2, FS_Subset
<1>12. pairs(s) = pairs(r) \cup own /\ pairs(r) \cap own = {}
  <2>1. ASSUME NEW p \in pairs(s) PROVE p \in pairs(r) \cup own
    <3>1. p = <<p[1], p[2]>> /\ p[1] \in s /\ p[2] \in T /\ p \in W
      BY <2>1
    <3>2. CASE p[1] = x
      <4>1. p[2] \in row(x)
        BY <3>1, <3>2 DEF RowOf
      <4>2. QED
        BY <3>1, <3>2, <4>1
    <3>3. CASE p[1] # x
      <4>1. p[1] \in r
        BY <3>1, <3>3
      <4>2. QED
        BY <3>1, <4>1
    <3>4. QED
      BY <3>2, <3>3
  <2>2. own \subseteq pairs(s) /\ pairs(r) \subseteq pairs(s)
    BY <1>6 DEF RowOf
  <2>3. \A p \in own : p[1] = x
    <3> HIDE DEF x, row
    <3>1. QED
      OBVIOUS
  <2>4. \A p \in pairs(r) : p[1] # x
    OBVIOUS
  <2>5. QED
    BY <2>1, <2>2, <2>3, <2>4
<1> HIDE DEF pairs, own, row, r, x
<1>13. Cardinality(pairs(s)) = Cardinality(pairs(r)) + Cardinality(own)
  <2>1. Cardinality(pairs(r) \cup own) = Cardinality(pairs(r)) + Cardinality(own) - Cardinality(pairs(r) \cap own)
    BY <1>10, <1>11, FS_Union
  <2>2. Cardinality(pairs(r)) \in Nat /\ Cardinality(own) \in Nat
    BY <1>10, <1>11, FS_CardinalityType
  <2>3. Cardinality(pairs(r) \cap own) = 0
    BY <1>12, FS_EmptySet
  <2>4. Cardinality(pairs(s)) = Cardinality(pairs(r) \cup own)
    BY <1>12
  <2>5. QED
    BY <2>1, <2>2, <2>3, <2>4
<1>14. Cardinality(pairs(r)) \in Nat /\ Cardinality(own) \in Nat
  BY <1>10, <1>11, FS_CardinalityType
<1>15. QED
  BY <1>4, <1>7, <1>8, <1>9, <1>10, <1>13, <1>14

(* A sum over two parts of a set. *)
LEMMA TotalOfParts ==
  ASSUME NEW S, IsFiniteSet(S), NEW f, \A x \in S : f[x] \in Int, NEW H \in SUBSET S
  PROVE  SumFunctionOnSet(f, S) = SumFunctionOnSet(f, H) + SumFunctionOnSet(f, S \ H)
<1> DEFINE bad == { s \in SUBSET S :
                      SumFunctionOnSet(f, s) # SumFunctionOnSet(f, s \cap H) + SumFunctionOnSet(f, s \ H) }
<1>1. SUFFICES ASSUME bad # {} PROVE FALSE
  <2>1. S \cap H = H /\ (S \notin bad => SumFunctionOnSet(f, S) = SumFunctionOnSet(f, S \cap H) + SumFunctionOnSet(f, S \ H))
    OBVIOUS
  <2>2. QED
    BY <2>1
<1>2. bad \subseteq SUBSET S
  OBVIOUS
<1> HIDE DEF bad
<1>3. PICK s \in bad : IsFiniteSet(s) /\ \A t \in bad : t \subseteq s => t = s
  BY <1>1, <1>2, Smallest
<1>4. s \in SUBSET S /\ SumFunctionOnSet(f, s) # SumFunctionOnSet(f, s \cap H) + SumFunctionOnSet(f, s \ H)
  BY DEF bad
<1>5. s # {}
  <2>1. {} \cap H = {} /\ {} \ H = {}
    OBVIOUS
  <2>2. SumFunctionOnSet(f, {}) = 0 /\ SumFunctionOnSet(f, {} \cap H) = 0 /\ SumFunctionOnSet(f, {} \ H) = 0
    BY <2>1, TotalOfNone
  <2>3. SUFFICES ASSUME s = {} PROVE FALSE
    OBVIOUS
  <2>4. SumFunctionOnSet(f, {}) # SumFunctionOnSet(f, {} \cap H) + SumFunctionOnSet(f, {} \ H)
    BY <1>4, <2>3
  <2>5. QED
    BY <2>2, <2>4
<1> DEFINE x == AnyOf(s)   r == s \ {x}
<1>6. x \in s /\ r \in SUBSET S /\ r # s
  BY <1>4, <1>5, AnyOfIs
<1>7. SumFunctionOnSet(f, r) = SumFunctionOnSet(f, r \cap H) + SumFunctionOnSet(f, r \ H)
  <2>1. r \notin bad
    BY <1>3, <1>6
  <2>2. QED
    BY <1>6, <2>1 DEF bad
<1>8. SumFunctionOnSet(f, s) = f[x] + SumFunctionOnSet(f, r)
  BY <1>3, <1>5, TotalStep
<1>9. /\ IsFiniteSet(s \cap H) /\ IsFiniteSet(s \ H)
      /\ IsFiniteSet(r \cap H) /\ IsFiniteSet(r \ H)
  <2>1. s \cap H \in SUBSET s /\ s \ H \in SUBSET s /\ r \cap H \in SUBSET s /\ r \ H \in SUBSET s
    OBVIOUS
  <2>2. QED
    BY <1>3, <2>1, FS_Subset
<1>10. /\ \A y \in s \cap H : f[y] \in Int
       /\ \A y \in s \ H : f[y] \in Int
       /\ \A y \in r \cap H : f[y] \in Int
       /\ \A y \in r \ H : f[y] \in Int
       /\ f[x] \in Int
  BY <1>4, <1>6
<1>11. SumFunctionOnSet(f, r \cap H) \in Int /\ SumFunctionOnSet(f, r \ H) \in Int
  <2> HIDE DEF r
  <2>1. QED
    BY <1>9, <1>10, TotalIsInt
<1>12. CASE x \in H
  <2>1. (s \cap H) \ {x} = r \cap H /\ s \ H = r \ H /\ x \in s \cap H
    BY <1>6, <1>12
  <2>2. SumFunctionOnSet(f, s \cap H) = f[x] + SumFunctionOnSet(f, (s \cap H) \ {x})
    <3> HIDE DEF x, r
    <3>1. QED
      BY <1>9, <1>10, <2>1, TotalWithout
  <2> HIDE DEF x, r
  <2>3. SumFunctionOnSet(f, s \cap H) = f[x] + SumFunctionOnSet(f, r \cap H)
        /\ SumFunctionOnSet(f, s \ H) = SumFunctionOnSet(f, r \ H)
    BY <2>1, <2>2
  <2>4. QED
    BY <1>4, <1>7, <1>8, <1>10, <1>11, <2>3
<1>13. CASE x \notin H
  <2>1. (s \ H) \ {x} = r \ H /\ s \cap H = r \cap H /\ x \in s \ H
    BY <1>6, <1>13
  <2>2. SumFunctionOnSet(f, s \ H) = f[x] + SumFunctionOnSet(f, (s \ H) \ {x})
    <3> HIDE DEF x, r
    <3>1. QED
      BY <1>9, <1>10, <2>1, TotalWithout
  <2> HIDE DEF x, r
  <2>3. SumFunctionOnSet(f, s \ H) = f[x] + SumFunctionOnSet(f, r \ H)
        /\ SumFunctionOnSet(f, s \cap H) = SumFunctionOnSet(f, r \cap H)
    BY <2>1, <2>2
  <2>4. QED
    BY <1>4, <1>7, <1>8, <1>10, <1>11, <2>3
<1>14. QED
  BY <1>12, <1>13

(* The elements of some classes, counted class by class. *)
ClassesOf(key, D, K) == { i \in D : key[i] \in K }

LEMMA ClassesCounted ==
  ASSUME NEW D, IsFiniteSet(D), NEW key, NEW K, IsFiniteSet(K), NEW f,
         \A k \in K : f[k] = Cardinality(ClassesOf(key, D, {k}))
  PROVE  SumFunctionOnSet(f, K) = Cardinality(ClassesOf(key, D, K))
<1> DEFINE in(s) == ClassesOf(key, D, s)
           bad == { s \in SUBSET K : SumFunctionOnSet(f, s) # Cardinality(in(s)) }
<1>1. SUFFICES ASSUME bad # {} PROVE FALSE
  OBVIOUS
<1>2. bad \subseteq SUBSET K
  OBVIOUS
<1> HIDE DEF bad
<1>3. PICK s \in bad : IsFiniteSet(s) /\ \A t \in bad : t \subseteq s => t = s
  BY <1>1, <1>2, Smallest
<1>4. s \in SUBSET K /\ SumFunctionOnSet(f, s) # Cardinality(in(s))
  BY DEF bad
<1>5. s # {}
  <2>1. in({}) = {}
    BY DEF ClassesOf
  <2>2. SumFunctionOnSet(f, {}) = 0 /\ Cardinality({}) = 0
    BY TotalOfNone, FS_EmptySet
  <2>3. QED
    BY <1>4, <2>1, <2>2
<1> DEFINE x == AnyOf(s)   r == s \ {x}
<1>6. x \in s /\ r \in SUBSET K /\ r # s
  BY <1>4, <1>5, AnyOfIs
<1>7. SumFunctionOnSet(f, r) = Cardinality(in(r))
  <2>1. r \notin bad
    BY <1>3, <1>6
  <2>2. QED
    BY <1>6, <2>1 DEF bad
<1>8. SumFunctionOnSet(f, s) = f[x] + SumFunctionOnSet(f, r) /\ f[x] = Cardinality(in({x}))
  BY <1>3, <1>4, <1>5, <1>6, TotalStep
<1>9. in(s) = in(r) \cup in({x}) /\ in(r) \cap in({x}) = {}
  BY <1>6 DEF ClassesOf
<1>10. IsFiniteSet(in(r)) /\ IsFiniteSet(in({x}))
  <2>1. in(r) \in SUBSET D /\ in({x}) \in SUBSET D
    BY DEF ClassesOf
  <2> HIDE DEF in
  <2>2. QED
    BY <2>1, FS_Subset
<1> HIDE DEF in, r, x
<1>11. Cardinality(in(r) \cup in({x})) = Cardinality(in(r)) + Cardinality(in({x})) - Cardinality(in(r) \cap in({x}))
  BY <1>10, FS_Union
<1>12. Cardinality(in(r)) \in Nat /\ Cardinality(in({x})) \in Nat /\ Cardinality(in(r) \cap in({x})) = 0
  BY <1>9, <1>10, FS_CardinalityType, FS_EmptySet
<1>13. Cardinality(in(s)) = Cardinality(in(r) \cup in({x}))
  BY <1>9
<1>14. QED
  BY <1>4, <1>7, <1>8, <1>11, <1>12, <1>13

(* A finite set of integers has a greatest one. *)
LEMMA HasGreatest ==
  ASSUME NEW S, IsFiniteSet(S), S # {}, \A x \in S : x \in Int
  PROVE  \E x \in S : \A y \in S : y <= x
<1> DEFINE bad == { T \in SUBSET S : T # {} /\ ~\E x \in T : \A y \in T : y <= x }
<1>1. SUFFICES ASSUME bad # {} PROVE FALSE
  <2>1. S \notin bad => \E x \in S : \A y \in S : y <= x
    OBVIOUS
  <2>2. QED
    BY <2>1
<1>2. bad \subseteq SUBSET S
  OBVIOUS
<1> HIDE DEF bad
<1>3. PICK T \in bad : IsFiniteSet(T) /\ \A U \in bad : U \subseteq T => U = T
  BY <1>1, <1>2, Smallest
<1>4. T \subseteq Int /\ T # {} /\ ~\E x \in T : \A y \in T : y <= x
  BY <1>2 DEF bad
<1>5. PICK x \in T : TRUE
  BY <1>4
<1> DEFINE U == T \ {x}
<1>6. U # {}
  BY <1>4, <1>5
<1>7. PICK z \in U : \A y \in U : y <= z
  <2>1. U \notin bad /\ U \subseteq S
    BY <1>2, <1>3, <1>5
  <2>2. QED
    BY <1>6, <2>1 DEF bad
<1>8. \E m \in T : \A y \in T : y <= m
  <2>1. CASE x <= z
    <3>1. \A y \in T : y <= z
      BY <1>7, <2>1
    <3>2. QED
      BY <1>7, <3>1
  <2>2. CASE ~(x <= z)
    <3>1. \A y \in T : y <= x
      BY <1>4, <1>7, <2>2
    <3>2. QED
      BY <1>5, <3>1
  <2>3. QED
    BY <2>1, <2>2
<1>9. QED
  BY <1>4, <1>8

(* In a strict total order the places of the elements are 1, 2, ... *)
PlaceAmong(S, R, i) == Cardinality({ j \in S : <<j, i>> \in R }) + 1
StrictOrder(S, R) ==
  /\ \A i \in S : <<i, i>> \notin R
  /\ \A i, j, k \in S : <<i, j>> \in R /\ <<j, k>> \in R => <<i, k>> \in R
  /\ \A i, j \in S : i = j \/ <<i, j>> \in R \/ <<j, i>> \in R

(* Of two elements the smaller one has the smaller place. *)
LEMMA PlacesDiffer ==
  ASSUME NEW S, IsFiniteSet(S), NEW R, StrictOrder(S, R), NEW i \in S, NEW j \in S, <<i, j>> \in R
  PROVE  PlaceAmong(S, R, i) < PlaceAmong(S, R, j)
<1> DEFINE below(k) == { x \in S : <<x, k>> \in R }
<1>1. below(i) \subseteq below(j) /\ i \in below(j) /\ i \notin below(i)
  BY DEF StrictOrder
<1>2. IsFiniteSet(below(i)) /\ IsFiniteSet(below(j))
  <2>1. below(i) \in SUBSET S /\ below(j) \in SUBSET S
    OBVIOUS
  <2> HIDE DEF below
  <2>2. QED
    BY <2>1, FS_Subset
<1> HIDE DEF below
<1>3. Cardinality(below(i)) <= Cardinality(below(j)) /\ Cardinality(below(i)) # Cardinality(below(j))
  BY <1>1, <1>2, FS_Subset
<1>4. Cardinality(below(i)) \in Nat /\ Cardinality(below(j)) \in Nat
  BY <1>2, FS_CardinalityType
<1>5. QED
  BY <1>3, <1>4 DEF PlaceAmong, below

(* The places of n elements are the numbers 1 to n, each once. *)
LEMMA PlacesFill ==
  ASSUME NEW S, IsFiniteSet(S), NEW R, StrictOrder(S, R)
  PROVE  /\ \A i \in S : PlaceAmong(S, R, i) \in 1..Cardinality(S)
         /\ \A i, j \in S : PlaceAmong(S, R, i) = PlaceAmong(S, R, j) => i = j
         /\ \A k \in 1..Cardinality(S) : \E i \in S : PlaceAmong(S, R, i) = k
<1> DEFINE n == Cardinality(S)
           f == [i \in S |-> PlaceAmong(S, R, i)]
<1>1. n \in Nat
  BY FS_CardinalityType
<1>2. ASSUME NEW i \in S PROVE PlaceAmong(S, R, i) \in 1..n
  <2> DEFINE below == { x \in S : <<x, i>> \in R }
  <2>1. below \in SUBSET S /\ i \notin below
    BY DEF StrictOrder
  <2> HIDE DEF below
  <2>2. IsFiniteSet(below) /\ Cardinality(below) <= n /\ (n = Cardinality(below) => S = below)
    BY <2>1, FS_Subset
  <2>3. Cardinality(below) \in Nat
    BY <2>2, FS_CardinalityType
  <2>4. Cardinality(below) # n
    BY <1>2, <2>1, <2>2
  <2>5. QED
    BY <1>1, <2>2, <2>3, <2>4 DEF PlaceAmong, below
<1>3. ASSUME NEW i \in S, NEW j \in S, PlaceAmong(S, R, i) = PlaceAmong(S, R, j) PROVE i = j
  <2>1. PlaceAmong(S, R, i) \in Int
    BY <1>2
  <2>2. ~(PlaceAmong(S, R, i) < PlaceAmong(S, R, j)) /\ ~(PlaceAmong(S, R, j) < PlaceAmong(S, R, i))
    BY <1>3, <2>1
  <2>3. <<i, j>> \notin R /\ <<j, i>> \notin R
    BY <2>2, PlacesDiffer
  <2>4. QED
    BY <2>3 DEF StrictOrder
<1>4. f \in Injection(S, 1..n)
  BY <1>2, <1>3 DEF Injection, IsInjective
<1>5. IsFiniteSet(1..n) /\ Cardinality(1..n) = n
  BY <1>1, FS_Interval
<1>6. f \in Surjection(S, 1..n)
  <2> HIDE DEF f
  <2>1. QED
    BY <1>4, <1>5, FS_Injection
<1>7. QED
  BY <1>2, <1>3, <1>6 DEF Surjection

---------------------------------------------------------------------------
(* Powers of two are numbers of subsets, so what is known of those is known of them.      *)

(* A set with one element more has twice as many subsets. *)
LEMMA TwiceTheSubsets ==
  ASSUME NEW S, IsFiniteSet(S), NEW x, x \notin S
  PROVE  Cardinality(SUBSET (S \cup {x})) = 2 * Cardinality(SUBSET S)
<1> DEFINE A == SUBSET S
           B == { T \cup {x} : T \in A }
           f == [T \in A |-> T \cup {x}]
<1>1. IsFiniteSet(A) /\ Cardinality(A) \in Nat
  BY FS_SUBSET, FS_CardinalityType
<1>2. f \in Bijection(A, B)
  <2>1. ASSUME NEW T \in A, NEW U \in A, f[T] = f[U] PROVE T = U
    BY <2>1
  <2>2. f \in [A -> B] /\ \A V \in B : \E T \in A : f[T] = V
    OBVIOUS
  <2>3. QED
    BY <2>1, <2>2 DEF Bijection, Injection, Surjection, IsInjective
<1>3. IsFiniteSet(B) /\ Cardinality(B) = Cardinality(A)
  BY <1>1, <1>2, FS_Bijection DEF ExistsBijection
<1>4. A \cap B = {}
  OBVIOUS
<1>5. SUBSET (S \cup {x}) = A \cup B
  <2>1. ASSUME NEW V \in SUBSET (S \cup {x}) PROVE V \in A \cup B
    <3>1. CASE x \in V
      <4>1. V \ {x} \in A /\ V = (V \ {x}) \cup {x}
        BY <3>1
      <4>2. QED
        BY <4>1
    <3>2. CASE x \notin V
      BY <3>2
    <3>3. QED
      BY <3>1, <3>2
  <2>2. QED
    BY <2>1
<1>6. Cardinality(A \cap B) = 0
  BY <1>4, FS_EmptySet
<1> HIDE DEF A, B
<1>7. Cardinality(A \cup B) = Cardinality(A) + Cardinality(B) - Cardinality(A \cap B)
  BY <1>1, <1>3, FS_Union
<1>8. Cardinality(SUBSET S) = Cardinality(A)
  BY DEF A
<1>9. Cardinality(A \cup B) = 2 * Cardinality(A)
  BY <1>1, <1>3, <1>6, <1>7
<1>10. QED
  BY <1>5, <1>8, <1>9

(* The powers of two, as numbers of subsets. *)
LEMMA PowerOfTwo ==
  ASSUME NEW n \in Nat
  PROVE  2 ^ n = Cardinality(SUBSET (1..n)) /\ IsFiniteSet(SUBSET (1..n)) /\ 2 ^ n \in Nat
<1>1. IsFiniteSet(1..n) /\ Cardinality(1..n) = n
  BY FS_Interval
<1>2. QED
  BY <1>1, FS_SUBSET, FS_CardinalityType

(* The next power of two is twice this one. *)
LEMMA PowersDouble ==
  ASSUME NEW n \in Nat
  PROVE  2 ^ (n + 1) = 2 * 2 ^ n
<1>1. 1..(n + 1) = (1..n) \cup {n + 1} /\ n + 1 \notin 1..n
  OBVIOUS
<1>2. IsFiniteSet(1..n)
  BY FS_Interval
<1>3. Cardinality(SUBSET (1..(n + 1))) = 2 * Cardinality(SUBSET (1..n))
  BY <1>1, <1>2, TwiceTheSubsets
<1>4. 2 ^ (n + 1) = Cardinality(SUBSET (1..(n + 1)))
  BY PowerOfTwo, n + 1 \in Nat
<1>5. 2 ^ n = Cardinality(SUBSET (1..n))
  BY PowerOfTwo
<1>6. QED
  BY <1>3, <1>4, <1>5

(* They are positive and grow. *)
LEMMA PowersGrow ==
  ASSUME NEW m \in Nat, NEW n \in Nat, m <= n
  PROVE  1 <= 2 ^ m /\ 2 ^ m <= 2 ^ n
<1>1. SUBSET (1..m) \in SUBSET (SUBSET (1..n)) /\ {{}} \in SUBSET (SUBSET (1..m))
  OBVIOUS
<1>2. Cardinality(SUBSET (1..m)) <= Cardinality(SUBSET (1..n))
  BY <1>1, PowerOfTwo, FS_Subset
<1>3. Cardinality({{}}) <= Cardinality(SUBSET (1..m)) /\ Cardinality({{}}) = 1
  BY <1>1, PowerOfTwo, FS_Subset, FS_Singleton
<1>4. 2 ^ m = Cardinality(SUBSET (1..m)) /\ 2 ^ n = Cardinality(SUBSET (1..n))
  BY PowerOfTwo
<1>5. QED
  BY <1>2, <1>3, <1>4
=============================================================================
