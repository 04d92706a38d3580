------------------------- MODULE MtpEvidenceProofs --------------------------
(***************************************************************************)
(* What the proofs about the diagnostics need of their common operators:   *)
(* the least and the greatest element, what the comparison of two traces   *)
(* says of them, what is picked out of a sequence, and how many tokens the *)
(* first steps of speculation emit.                                        *)
(***************************************************************************)
EXTENDS MtpEvidence, SequenceTheorems, FiniteSetTheorems, WellFoundedInduction, TLAPS

\* A set of numbers has a least element, and Min finds it.
LEMMA MinIn ==
  ASSUME NEW S \in SUBSET Nat, S # {}
  PROVE  Min(S) \in S /\ \A y \in S : Min(S) <= y
<1>1. IsWellFoundedOn(OpToRel(<, Nat), Nat) BY NatLessThanWellFounded
<1>2. \A x, y \in Nat : (<<y, x>> \in OpToRel(<, Nat)) <=> (y < x) BY DEF OpToRel
<1>3. PICK R : IsWellFoundedOn(R, Nat) /\ \A x, y \in Nat : (<<y, x>> \in R) <=> (y < x)
  BY <1>1, <1>2, Zenon
<1>4. PICK x \in S : \A y \in S : ~ (<<y, x>> \in R) BY <1>3, WFMin
<1>5. \A y \in S : x <= y
  <2> SUFFICES ASSUME NEW y \in S PROVE x <= y OBVIOUS
  <2>1. x \in Nat /\ y \in Nat OBVIOUS
  <2>2. ~(y < x) BY <1>3, <1>4, <2>1
  <2> QED BY <2>1, <2>2
<1> QED BY <1>5 DEF Min

\* A set of numbers with a bound has a greatest element, and Max finds it.
LEMMA MaxIn ==
  ASSUME NEW n \in Nat, NEW S \in SUBSET (1..n), S # {}
  PROVE  Max(S) \in S /\ \A y \in S : Max(S) >= y
<1> DEFINE T == {n - y : y \in S}
<1>1. T \in SUBSET Nat /\ T # {} OBVIOUS
<1>2. Min(T) \in T /\ \A z \in T : Min(T) <= z BY <1>1, MinIn
<1>3. PICK x \in S : Min(T) = n - x BY <1>2
<1>4. \A y \in S : x >= y
  <2> SUFFICES ASSUME NEW y \in S PROVE x >= y OBVIOUS
  <2>1. n - y \in T OBVIOUS
  <2>2. n - x <= n - y BY <1>2, <1>3, <2>1
  <2> QED BY <2>2
<1> QED BY <1>4 DEF Max

\* An element that no other exceeds is the one Max finds.
LEMMA MaxIs ==
  ASSUME NEW S \in SUBSET Nat, NEW x \in S, \A y \in S : x >= y
  PROVE  Max(S) = x
<1>1. \A z \in S : (\A y \in S : z >= y) => z = x OBVIOUS
<1> QED BY <1>1 DEF Max

\* Two traces of the same tokens, whatever was kept beside their ids.
SameIds(left, right) ==
  Len(left) = Len(right) /\ \A i \in 1..Len(left) : left[i].id = right[i].id

\* first_token_divergence finds nothing only in traces of the same tokens.
LEMMA NoDivergence ==
  ASSUME NEW left, NEW right, Len(left) \in Nat, Len(right) \in Nat,
         first_token_divergence(left, right) = NoValue
  PROVE  SameIds(left, right)
<1> DEFINE differ == {i \in Common(left, right) : left[i].id # right[i].id}
<1>1. Min({Len(left), Len(right)}) \in {Len(left), Len(right)} BY MinIn
<1>2. Min({Len(left), Len(right)}) \in Nat BY <1>1
<1>3. differ \in SUBSET Nat /\ 0 \notin differ BY <1>2 DEF Common
<1>4. differ = {}
  <2> SUFFICES ASSUME differ # {} PROVE FALSE OBVIOUS
  <2>1. Min(differ) - 1 = NoValue BY DEF first_token_divergence
  <2> HIDE DEF differ
  <2>2. Min(differ) \in differ BY <1>3, MinIn
  <2>3. Min(differ) \in Nat /\ Min(differ) # 0 BY <1>3, <2>2
  <2> QED BY <2>1, <2>3 DEF NoValue
<1>5. Len(left) = Len(right)
  <2> SUFFICES ASSUME Len(left) # Len(right) PROVE FALSE OBVIOUS
  <2>1. Min({Len(left), Len(right)}) = NoValue BY <1>4 DEF first_token_divergence
  <2> QED BY <1>2, <2>1 DEF NoValue
<1>6. Common(left, right) = 1..Len(left)
  <2>1. Min({Len(left), Len(right)}) = Len(left) BY <1>1, <1>5
  <2> QED BY <2>1 DEF Common
<1> QED BY <1>4, <1>5, <1>6 DEF SameIds

\* In traces of the same tokens first_token_divergence finds nothing.
LEMMA SameNoDivergence ==
  ASSUME NEW left, NEW right, Len(left) \in Nat, SameIds(left, right)
  PROVE  first_token_divergence(left, right) = NoValue
<1>1. Min({Len(left), Len(right)}) = Len(left)
  <2>1. Len(left) = Len(right) BY DEF SameIds
  <2>2. Min({Len(left), Len(right)}) \in {Len(left), Len(right)} BY <2>1, MinIn
  <2> QED BY <2>1, <2>2
<1>2. Common(left, right) = 1..Len(left) BY <1>1 DEF Common
<1>3. {i \in Common(left, right) : left[i].id # right[i].id} = {} BY <1>2 DEF SameIds
<1> QED BY <1>3 DEF first_token_divergence, SameIds

\* What the comparison finds depends on the ids only, and is a position or NoValue.
LEMMA SameDivergence ==
  ASSUME NEW left, NEW right, NEW left2, NEW right2, Len(left) \in Nat, Len(right) \in Nat,
         SameIds(left, left2), SameIds(right, right2)
  PROVE  /\ first_token_divergence(left, right) = first_token_divergence(left2, right2)
         /\ first_token_divergence(left, right) \in Int
<1> DEFINE differ(l, r) == {i \in Common(l, r) : l[i].id # r[i].id}
           shorter == Min({Len(left), Len(right)})
<1>1. Len(left2) = Len(left) /\ Len(right2) = Len(right) BY DEF SameIds
<1>2. shorter \in Nat /\ shorter <= Len(left) /\ shorter <= Len(right)
  BY MinIn
<1>3. Common(left, right) = 1..shorter /\ Common(left2, right2) = 1..shorter
  BY <1>1 DEF Common
<1>4. \A i \in 1..shorter : left[i].id = left2[i].id /\ right[i].id = right2[i].id
  BY <1>2 DEF SameIds
<1>5. differ(left, right) = differ(left2, right2) BY <1>3, <1>4
<1>6. differ(left, right) \in SUBSET Nat BY <1>2, <1>3
<1>7. \A l, r : first_token_divergence(l, r) =
        IF differ(l, r) # {} THEN Min(differ(l, r)) - 1
        ELSE IF Len(l) # Len(r) THEN Min({Len(l), Len(r)})
        ELSE NoValue
  BY DEF first_token_divergence
<1> DEFINE d == differ(left, right)
<1>8. d # {} => Min(d) \in Nat
  <2> HIDE DEF d
  <2>1. d \in SUBSET Nat BY <1>6 DEF d
  <2> QED BY <2>1, MinIn
<1> HIDE DEF differ
<1>9. first_token_divergence(left, right) \in Int
  BY <1>2, <1>7, <1>8 DEF NoValue
<1>10. first_token_divergence(left, right) = first_token_divergence(left2, right2)
  BY <1>1, <1>5, <1>7
<1> QED BY <1>9, <1>10

-----------------------------------------------------------------------------
\* A function on the first n numbers is a sequence of n elements.
LEMMA IsList ==
  ASSUME NEW f, NEW n \in Nat, f = [i \in 1..n |-> f[i]]
  PROVE  Len(f) = n /\ DOMAIN f = 1..n /\ f \in Seq({f[i] : i \in 1..n})
<1> DEFINE S == {f[i] : i \in 1..n}
<1>1. \A i \in 1..n : f[i] \in S OBVIOUS
<1> HIDE DEF S
<1>2. [i \in 1..n |-> f[i]] \in Seq(S) BY <1>1, IsASeq
<1>3. f \in Seq(S) /\ DOMAIN f = 1..n BY <1>2
<1>4. Len(f) = n BY <1>3, LenProperties
<1> QED BY <1>3, <1>4 DEF S

\* A list that is its elements.
Listed(s) == Len(s) \in Nat /\ s = [i \in 1..Len(s) |-> s[i]]

\* A list is indexed from one to its length.
LEMMA ListedDomain == ASSUME NEW s, Listed(s) PROVE DOMAIN s = 1..Len(s)
BY DEF Listed

\* Two lists of the same length and elements are the same.
LEMMA ListedEqual ==
  ASSUME NEW s, NEW t, Listed(s), Listed(t), Len(s) = Len(t),
         \A i \in 1..Len(s) : s[i] = t[i]
  PROVE  s = t
BY DEF Listed

\* What is picked from neighbouring places is a stretch of the sequence.
LEMMA PickedStretch ==
  ASSUME NEW s, NEW places, NEW a \in Nat, NEW b \in Nat, NEW n \in Nat, b + 1 = a + n,
         places = a..b
  PROVE  /\ Listed(Picked(s, places)) /\ Len(Picked(s, places)) = n
         /\ \A k \in 1..n : Picked(s, places)[k] = s[a + k - 1]
<1>1. \A i \in Int : a <= i + 1 => Cardinality(a..i) = i - a + 1
  <2> SUFFICES ASSUME NEW i \in Int, a <= i + 1 PROVE Cardinality(a..i) = i - a + 1 OBVIOUS
  <2> QED BY FS_Interval
<1>2. Cardinality(a..b) = n BY <1>1
<1> DEFINE upto(i) == Cardinality({j \in a..b : j <= i})
           place(k) == CHOOSE i \in a..b : upto(i) = k
<1>3. \A i \in a..b : upto(i) = i - a + 1
  <2> SUFFICES ASSUME NEW i \in a..b PROVE upto(i) = i - a + 1 OBVIOUS
  <2>1. {j \in a..b : j <= i} = a..i OBVIOUS
  <2>2. upto(i) = Cardinality(a..i) BY <2>1
  <2> QED BY <1>1, <2>2
<1> HIDE DEF upto
<1>4. ASSUME NEW k \in 1..n PROVE place(k) = a + k - 1
  <2>1. a + k - 1 \in a..b OBVIOUS
  <2>2. \A i \in a..b : upto(i) = k <=> i = a + k - 1 BY <1>3
  <2> QED BY <2>1, <2>2
<1>5. Picked(s, a..b) = [k \in 1..Cardinality(a..b) |-> s[place(k)]] BY DEF Picked, upto
<1> HIDE DEF place
<1>6. Picked(s, a..b) = [k \in 1..n |-> s[place(k)]] BY <1>2, <1>5
<1>7. Picked(s, a..b) = [k \in 1..n |-> Picked(s, a..b)[k]] BY <1>6
<1>8. Len(Picked(s, a..b)) = n BY <1>7, IsList
<1> QED BY <1>4, <1>6, <1>7, <1>8 DEF Listed

\* Nothing is picked from no places.
LEMMA PickedNone == ASSUME NEW s PROVE Picked(s, {}) = <<>>
BY FS_EmptySet DEF Picked

\* The first k steps emit a number of tokens, which depends on nothing else.
LEMMA OutputsOfSteps ==
  ASSUME NEW counts, NEW counts2, NEW k \in Int, NEW m \in Nat,
         \A i \in 1..k : counts[i] \in 0..m /\ counts2[i] = counts[i]
  PROVE  Outputs(counts, k) \in Nat /\ Outputs(counts2, k) = Outputs(counts, k)
<1> DEFINE tokens(c) == UNION {{i} \X (0..c[i]) : i \in 1..k}
<1>1. tokens(counts) \subseteq (1..k) \X (0..m) OBVIOUS
<1>2. IsFiniteSet((1..k) \X (0..m))
  <2>1. IsFiniteSet(1..k) /\ IsFiniteSet(0..m) BY FS_Interval
  <2> QED BY <2>1, FS_Product
<1>3. Cardinality(tokens(counts)) \in Nat BY <1>1, <1>2, FS_Subset, FS_CardinalityType
<1>4. {{i} \X (0..counts2[i]) : i \in 1..k} = {{i} \X (0..counts[i]) : i \in 1..k}
  OBVIOUS
<1> QED BY <1>3, <1>4 DEF Outputs
=============================================================================
