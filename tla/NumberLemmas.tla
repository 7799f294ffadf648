---------------------------- MODULE NumberLemmas ----------------------------
(***************************************************************************)
(* Facts about numbers the proofs of Fragment and WrongSeq need: division  *)
(* and remainder for any divisor, and induction in the form of sets.       *)
(***************************************************************************)
EXTENDS Integers, WellFoundedInduction, TLAPS

\* Quotient and remainder.
LEMMA DivMod ==
  ASSUME NEW a \in Int, NEW m \in Nat \ {0}
  PROVE  a \div m \in Int /\ a % m \in 0 .. m - 1 /\ a = m * (a \div m) + (a % m)
OBVIOUS

\* They are the only ones.
LEMMA ModUnique ==
  ASSUME NEW a \in Int, NEW m \in Nat \ {0}, NEW q \in Int, NEW r \in 0 .. m - 1,
         a = m * q + r
  PROVE  a % m = r
OBVIOUS

\* The number of pieces of size z that d bytes make.
LEMMA PiecesNeeded ==
  ASSUME NEW d \in Nat \ {0}, NEW z \in Nat \ {0}
  PROVE  LET n == (d + z - 1) \div z
         IN  n \in Nat \ {0} /\ (n - 1) * z < d /\ d <= n * z
<1> DEFINE n == (d + z - 1) \div z
<1>1. n \in Int /\ n * z <= d + z - 1 /\ d + z - 1 < (n + 1) * z
  OBVIOUS
<1> HIDE DEF n
<1>2. n \in Nat \ {0} /\ (n - 1) * z < d /\ d <= n * z
  BY <1>1
<1>3. QED
  BY <1>2 DEF n

\* Multiplication is monotonic.
LEMMA ProductMonotonic ==
  ASSUME NEW i \in Nat, NEW n \in Nat, NEW z \in Nat, i <= n
  PROVE  i * z \in Nat /\ i * z <= n * z
OBVIOUS

\* Every nonempty set of naturals has a least element.
LEMMA LeastNumber ==
  ASSUME NEW T \in SUBSET Nat, T # {}
  PROVE  \E x \in T : \A y \in T : x <= y
<1> DEFINE R == {p \in Nat \X Nat : p[1] < p[2]}
<1>1. OpToRel(<, Nat) = R
  BY DEF OpToRel
<1>2. IsWellFoundedOn(R, Nat)
  BY <1>1, NatLessThanWellFounded
<1>3. \A x, y \in Nat : y < x => <<y, x>> \in R
  OBVIOUS
<1> HIDE DEF R
<1>4. PICK x \in T : \A y \in T : ~(<<y, x>> \in R)
  BY <1>2, WFMin
<1>5. ASSUME NEW y \in T PROVE x <= y
  <2>1. <<y, x>> \notin R
    BY <1>4
  <2>2. x \in Nat /\ y \in Nat
    OBVIOUS
  <2>3. ~(y < x)
    BY <1>3, <2>1, <2>2
  <2>4. QED
    BY <2>2, <2>3
<1>6. QED
  BY <1>5

\* A set that holds 0 and every successor up to m of its members holds 0 .. m.
LEMMA InductionUpTo ==
  ASSUME NEW m \in Nat, NEW S, 0 \in S, \A n \in 0 .. m - 1 : n \in S => n + 1 \in S
  PROVE  0 .. m \subseteq S
<1> SUFFICES ASSUME NEW k \in 0 .. m, k \notin S PROVE FALSE
  OBVIOUS
<1> DEFINE T == {n \in 0 .. m : n \notin S}
<1>1. T \in SUBSET Nat /\ T # {}
  OBVIOUS
<1> HIDE DEF T
<1>2. PICK x \in T : \A y \in T : x <= y
  BY <1>1, LeastNumber
<1>3. x \in 0 .. m /\ x \notin S /\ x # 0
  BY DEF T
<1>4. x - 1 \in 0 .. m - 1 /\ x - 1 \notin T
  BY <1>2, <1>3, <1>1
<1>5. x - 1 \in S /\ (x - 1) + 1 = x
  BY <1>3, <1>4 DEF T
<1>6. QED
  BY <1>3, <1>4, <1>5
=============================================================================
