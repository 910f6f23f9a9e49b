--------------------------- MODULE RawVectorProofs ---------------------------
(***************************************************************************)
(* What push_back, erase and pop_back do to a RawVector of any capacity    *)
(* when the finish they loaded is still the vector's.                      *)
(***************************************************************************)
EXTENDS RawVector, Integers, FiniteSetTheorems, WellFoundedInduction, TLAPS

(* A finite set of numbers that is not empty has a least member: the       *)
(* initial segments of the set are well-founded under strict inclusion.    *)
LEMMA LeastMember ==
  ASSUME NEW S, S \subseteq Nat, IsFiniteSet(S), S # {}
  PROVE  \E k \in S : \A i \in S : k <= i
<1> DEFINE Below(k) == {i \in S : i <= k}
<1> DEFINE Segments == {Below(k) : k \in S}
<1> DEFINE R == {ss \in (SUBSET S) \X (SUBSET S) :
                   ss[1] \subseteq ss[2] /\ ss[1] # ss[2]}
<1>1. IsWellFoundedOn(R, SUBSET S)
  <2>1. R = StrictSubsetOrdering(S)
    BY DEF StrictSubsetOrdering
  <2>2. IsFiniteSet(S)
    OBVIOUS
  <2>3. QED
    <3> HIDE DEF R
    <3>1. QED
      BY <2>1, <2>2, FS_StrictSubsetOrderingWellFounded, FS_FiniteSubsetsOfFinite
<1>2. Segments \subseteq SUBSET S /\ Segments # {}
  OBVIOUS
<1>3. PICK x \in Segments : \A y \in Segments : ~(<<y, x>> \in R)
  <2> HIDE DEF R, Segments
  <2>1. QED
    BY <1>1, <1>2, WFMin
<1>4. PICK k \in S : x = Below(k)
  BY <1>3
<1>5. ASSUME NEW i \in S, i < k
      PROVE  FALSE
  <2>1. i \in Nat /\ k \in Nat /\ \A j \in S : j \in Nat
    OBVIOUS
  <2>2. /\ \A j \in S : j <= i => j <= k
        /\ k \in Below(k) /\ k \notin Below(i)
    BY <1>5, <2>1
  <2>3. Below(i) \subseteq Below(k) /\ Below(i) # Below(k)
    BY <2>2
  <2>4. <<Below(i), x>> \in R
    BY <2>3, <1>4
  <2>5. Below(i) \in Segments
    OBVIOUS
  <2>6. QED
    <3> HIDE DEF R, Segments, Below
    <3>1. QED
      BY <2>4, <2>5, <1>3
<1>6. QED
  BY <1>5

(* A set of slots that is not empty has a first one.                       *)
LEMMA LeastSlot ==
  ASSUME NEW cap \in Nat, NEW S \in SUBSET (1..cap), S # {}
  PROVE  \E k \in S : \A i \in S : k <= i
<1>1. S \subseteq Nat
  OBVIOUS
<1>2. IsFiniteSet(1..cap)
  BY FS_Interval
<1>3. IsFiniteSet(S)
  BY <1>2, FS_Subset
<1>4. QED
  BY <1>1, <1>3, LeastMember

(* push_back of a new element adds it to what the vector holds.            *)
LEMMA PushExact ==
  ASSUME NEW cap \in Nat, NEW X, NEW v \in [at : [1..cap -> X], fin : Nat],
         NEW S, HoldsExactly(v, S), v.fin < cap, NEW x, x \notin S
  PROVE  HoldsExactly(PutAt(v, v.fin, x), S \cup {x})
<1> DEFINE w == PutAt(v, v.fin, x)
<1>1. /\ w.fin = v.fin + 1 /\ DOMAIN w.at = 1..cap /\ DOMAIN v.at = 1..cap
      /\ v.fin \in Nat /\ v.fin + 1 \in 1..cap
      /\ \A i \in 1..cap : w.at[i] = IF i = v.fin + 1 THEN x ELSE v.at[i]
  BY DEF PutAt
<1>2. /\ \A i \in 1..cap : i <= v.fin => v.at[i] \in S
      /\ \A e \in S : \E i \in 1..cap : i <= v.fin /\ v.at[i] = e
      /\ \A i, j \in 1..cap :
           i <= v.fin /\ j <= v.fin /\ v.at[i] = v.at[j] => i = j
  BY <1>1 DEF HoldsExactly, Elements
<1> HIDE DEF w
<1>3. \A i \in 1..cap : i <= w.fin => i <= v.fin \/ i = v.fin + 1
  BY <1>1
<1>4. Elements(w) = S \cup {x}
  <2>1. \A i \in 1..cap : i <= w.fin => w.at[i] \in S \cup {x}
    BY <1>1, <1>2, <1>3
  <2>2. \A e \in S : \E i \in 1..cap : i <= w.fin /\ w.at[i] = e
    BY <1>1, <1>2
  <2>3. \E i \in 1..cap : i <= w.fin /\ w.at[i] = x
    BY <1>1
  <2>4. QED
    BY <1>1, <2>1, <2>2, <2>3 DEF Elements
<1>5. ASSUME NEW i \in 1..cap, NEW j \in 1..cap, i <= w.fin, j <= w.fin,
             w.at[i] = w.at[j]
      PROVE  i = j
  BY <1>1, <1>2, <1>3, <1>5
<1>6. QED
  BY <1>1, <1>4, <1>5 DEF HoldsExactly, w

(* erase of slot k takes its element out of what the vector holds.         *)
LEMMA CutExact ==
  ASSUME NEW cap \in Nat, NEW X, NEW v \in [at : [1..cap -> X], fin : Nat],
         NEW S, HoldsExactly(v, S), v.fin <= cap, NEW k \in 1..v.fin
  PROVE  HoldsExactly(CutAt(v, k, v.fin), S \ {v.at[k]})
<1> DEFINE w == CutAt(v, k, v.fin)
<1>1. /\ w.fin = v.fin - 1 /\ DOMAIN w.at = 1..cap /\ DOMAIN v.at = 1..cap
      /\ v.fin \in Nat /\ k \in 1..cap /\ k <= v.fin
      /\ \A i \in 1..cap : w.at[i] = IF k <= i /\ i < v.fin THEN v.at[i + 1]
                                     ELSE v.at[i]
  BY DEF CutAt
<1>2. /\ \A i \in 1..cap : i <= v.fin => v.at[i] \in S
      /\ \A e \in S : \E i \in 1..cap : i <= v.fin /\ v.at[i] = e
      /\ \A i, j \in 1..cap :
           i <= v.fin /\ j <= v.fin /\ v.at[i] = v.at[j] => i = j
  BY <1>1 DEF HoldsExactly, Elements
<1>0. v.fin <= cap
  OBVIOUS
<1> HIDE DEF w
<1> DEFINE From(i) == IF k <= i THEN i + 1 ELSE i
<1>3. ASSUME NEW i \in 1..cap, i <= w.fin
      PROVE  /\ From(i) \in 1..cap /\ From(i) <= v.fin /\ From(i) # k
             /\ w.at[i] = v.at[From(i)]
  BY <1>0, <1>1, <1>3
<1>4. ASSUME NEW j \in 1..cap, j <= v.fin, j # k
      PROVE  \E i \in 1..cap : i <= w.fin /\ w.at[i] = v.at[j]
  <2>1. CASE j < k
    BY <1>1, <1>4, <2>1
  <2>2. CASE j > k
    <3>1. j - 1 \in 1..cap /\ j - 1 <= w.fin /\ k <= j - 1 /\ j - 1 < v.fin
          /\ j - 1 + 1 = j
      BY <1>1, <1>4, <2>2
    <3>2. QED
      BY <1>1, <3>1
  <2>3. QED
    BY <1>1, <1>4, <2>1, <2>2
<1>5. Elements(w) = S \ {v.at[k]}
  <2>1. \A i \in 1..cap : i <= w.fin => w.at[i] \in S \ {v.at[k]}
    BY <1>1, <1>2, <1>3
  <2>2. \A e \in S \ {v.at[k]} : \E i \in 1..cap : i <= w.fin /\ w.at[i] = e
    BY <1>2, <1>4
  <2>3. Elements(w) = {w.at[i] : i \in {j \in 1..cap : j <= w.fin}}
    BY <1>1 DEF Elements
  <2>4. Elements(w) \subseteq S \ {v.at[k]}
    BY <2>1, <2>3
  <2>5. S \ {v.at[k]} \subseteq Elements(w)
    BY <2>2, <2>3
  <2>6. QED
    BY <2>4, <2>5, Zenon
<1>6. ASSUME NEW i \in 1..cap, NEW j \in 1..cap, i <= w.fin, j <= w.fin,
             w.at[i] = w.at[j]
      PROVE  i = j
  <2>1. From(i) = From(j)
    BY <1>2, <1>3, <1>6
  <2>2. QED
    BY <1>1, <2>1
<1>7. QED
  BY <1>1, <1>5, <1>6 DEF HoldsExactly, w

(* pop_back takes the last element out of what the vector holds.           *)
LEMMA PopExact ==
  ASSUME NEW cap \in Nat, NEW X, NEW v \in [at : [1..cap -> X], fin : Nat],
         NEW S, HoldsExactly(v, S), v.fin \in 1..cap
  PROVE  HoldsExactly([v EXCEPT !.fin = v.fin - 1], S \ {v.at[v.fin]})
<1> DEFINE w == [v EXCEPT !.fin = v.fin - 1]
<1>1. /\ w.fin = v.fin - 1 /\ w.at = v.at /\ DOMAIN v.at = 1..cap
      /\ v.fin \in Nat
  OBVIOUS
<1>2. /\ \A i \in 1..cap : i <= v.fin => v.at[i] \in S
      /\ \A e \in S : \E i \in 1..cap : i <= v.fin /\ v.at[i] = e
      /\ \A i, j \in 1..cap :
           i <= v.fin /\ j <= v.fin /\ v.at[i] = v.at[j] => i = j
  BY <1>1 DEF HoldsExactly, Elements
<1>3. v.fin \in 1..cap /\ \A i \in 1..cap : i <= v.fin - 1 <=> i <= v.fin /\ i # v.fin
  BY <1>1
<1> HIDE DEF w
<1>4. Elements(w) = S \ {v.at[v.fin]}
  <2>1. \A i \in 1..cap : i <= w.fin => w.at[i] \in S \ {v.at[v.fin]}
    BY <1>1, <1>2, <1>3
  <2>2. \A e \in S \ {v.at[v.fin]} :
          \E i \in 1..cap : i <= w.fin /\ w.at[i] = e
    BY <1>1, <1>2, <1>3
  <2>3. QED
    BY <1>1, <2>1, <2>2 DEF Elements
<1>5. QED
  BY <1>1, <1>2, <1>3, <1>4 DEF HoldsExactly, w

(* erase keeps the slots of the vector in their type when finish is one    *)
(* the array has room for.                                                 *)
LEMMA CutType ==
  ASSUME NEW cap \in Nat, NEW X, NEW v \in [at : [1..cap -> X], fin : Nat],
         NEW k \in Nat, NEW f \in 1..cap
  PROVE  CutAt(v, k, f) \in [at : [1..cap -> X], fin : Nat]
<1>1. \A i \in 1..cap :
        (IF k <= i /\ i < f THEN v.at[i + 1] ELSE v.at[i]) \in X
  OBVIOUS
<1>2. f - 1 \in Nat /\ DOMAIN v.at = 1..cap
  OBVIOUS
<1>3. QED
  BY <1>1, <1>2 DEF CutAt

(* push_back keeps the slots of the vector in their type.                  *)
LEMMA PutType ==
  ASSUME NEW cap \in Nat, NEW X, NEW v \in [at : [1..cap -> X], fin : Nat],
         NEW x \in X, NEW f \in Nat
  PROVE  PutAt(v, f, x) \in [at : [1..cap -> X], fin : Nat]
<1> DEFINE a == [v.at EXCEPT ![f + 1] = x]
<1>1. a \in [1..cap -> X] /\ f + 1 \in Nat
  <2>1. a = [i \in 1..cap |-> IF i = f + 1 THEN x ELSE v.at[i]]
    OBVIOUS
  <2>2. \A i \in 1..cap : v.at[i] \in X
    OBVIOUS
  <2> HIDE DEF a
  <2>3. QED
    BY <2>1, <2>2
<1>2. PutAt(v, f, x) = [at |-> a, fin |-> f + 1]
  BY DEF PutAt
<1> HIDE DEF a
<1>3. QED
  BY <1>1, <1>2
=============================================================================
