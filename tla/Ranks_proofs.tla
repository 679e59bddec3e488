------------------------------ MODULE Ranks_proofs ------------------------------
(***************************************************************************)
(* Finite sets of numbers: they have a least and a greatest element, and the *)
(* first n of them are n unless there are fewer.  Rows in the order of a     *)
(* sequence or of a code, taken LIMIT by LIMIT, are such sets.              *)
(***************************************************************************)
EXTENDS Naturals, FiniteSets, FiniteSetTheorems, WellFoundedInduction, TLAPS

Below(S, x) == {y \in S : y < x}
FirstOf(S, n) == {x \in S : Cardinality(Below(S, x)) < n}

THEOREM LeastExists ==
  ASSUME NEW S, S \subseteq Nat, S # {}
  PROVE  \E x \in S : \A y \in S : x <= y
  <1>1. IsWellFoundedOn(OpToRel(<, Nat), Nat)
    BY NatLessThanWellFounded
  <1>2. PICK x \in S : \A y \in S : <<y, x>> \notin OpToRel(<, Nat)
    BY <1>1, WFMin, Zenon
  <1>3. \A y \in S : ~ (y < x)
    BY <1>2 DEF OpToRel
  <1>4. QED
    BY <1>3

\* The one of which the fewest are greater.
THEOREM GreatestExists ==
  ASSUME NEW S, S \subseteq Nat, S # {}, IsFiniteSet(S)
  PROVE  \E x \in S : \A y \in S : y <= x
  <1> DEFINE Above(x) == {y \in S : x < y}
             Counts == {Cardinality(Above(x)) : x \in S}
  <1>1. \A x \in S : IsFiniteSet(Above(x)) /\ Cardinality(Above(x)) \in Nat
    BY FS_Subset, FS_CardinalityType
  <1>2. Counts \subseteq Nat /\ Counts # {}
    BY <1>1
  <1>3. PICK c \in Counts : \A d \in Counts : c <= d
    <2> HIDE DEF Counts
    <2> QED
      BY <1>2, LeastExists
  <1>4. PICK x \in S : c = Cardinality(Above(x))
    BY <1>3
  <1>5. ASSUME NEW y \in S, x < y PROVE FALSE
    <2>1. Above(y) \subseteq Above(x) \ {y}
      <3> SUFFICES ASSUME NEW z \in S, y < z PROVE x < z /\ z # y
        OBVIOUS
      <3> QED
        BY <1>5
    <2>2. y \in Above(x)
      BY <1>5
    <2> HIDE DEF Above
    <2>3. /\ IsFiniteSet(Above(x) \ {y})
          /\ Cardinality(Above(x) \ {y}) = Cardinality(Above(x)) - 1
      BY <2>2, <1>1, FS_RemoveElement
    <2>4. Cardinality(Above(y)) <= Cardinality(Above(x)) - 1
      BY <2>1, <2>3, FS_Subset
    <2>5. Cardinality(Above(x)) <= Cardinality(Above(y))
      BY <1>3, <1>4
    <2>6. QED
      BY <2>4, <2>5, <1>1
  <1>6. QED
    BY <1>5

\* Below an element there are fewer than below a greater one.
THEOREM RankGrows ==
  ASSUME NEW S, S \subseteq Nat, IsFiniteSet(S), NEW x \in Nat
  PROVE  /\ IsFiniteSet(Below(S, x)) /\ Cardinality(Below(S, x)) \in Nat
         /\ \A y \in Nat : y <= x => /\ Cardinality(Below(S, y)) <= Cardinality(Below(S, x))
                                     /\ y \in S /\ y # x
                                        => Cardinality(Below(S, y)) < Cardinality(Below(S, x))
  <1>1. \A y \in Nat : IsFiniteSet(Below(S, y)) /\ Cardinality(Below(S, y)) \in Nat
    BY FS_Subset, FS_CardinalityType DEF Below
  <1>2. ASSUME NEW y \in Nat, y <= x
        PROVE  Cardinality(Below(S, y)) <= Cardinality(Below(S, x))
    <2>1. Below(S, y) \subseteq Below(S, x)
      <3> SUFFICES ASSUME NEW z \in S, z < y PROVE z < x
        BY DEF Below
      <3> QED
        BY <1>2
    <2>2. QED
      BY <2>1, <1>1, FS_Subset
  <1>3. ASSUME NEW y \in S, y <= x, y # x
        PROVE  Cardinality(Below(S, y)) < Cardinality(Below(S, x))
    <2>1. Below(S, y) \cup {y} \subseteq Below(S, x) /\ y \notin Below(S, y)
      <3>1. y \in Nat /\ y < x
        BY <1>3
      <3>2. ASSUME NEW z \in S, z < y PROVE z < x
        BY <3>1, <3>2
      <3>3. y \notin Below(S, y) /\ y \in Below(S, x)
        BY <3>1 DEF Below
      <3>4. Below(S, y) \subseteq Below(S, x)
        BY <3>2 DEF Below
      <3>5. QED
        BY <3>3, <3>4
    <2>2. /\ IsFiniteSet(Below(S, y) \cup {y})
          /\ Cardinality(Below(S, y) \cup {y}) = Cardinality(Below(S, y)) + 1
      BY <2>1, <1>1, FS_AddElement
    <2>3. Cardinality(Below(S, y)) + 1 <= Cardinality(Below(S, x))
      BY <2>1, <2>2, <1>1, FS_Subset
    <2>4. QED
      BY <2>3, <1>1
  <1>4. QED
    BY <1>1, <1>2, <1>3

THEOREM FirstOfCount ==
  ASSUME NEW S, S \subseteq Nat, IsFiniteSet(S), NEW n \in Nat
  PROVE  /\ IsFiniteSet(FirstOf(S, n)) /\ Cardinality(FirstOf(S, n)) \in Nat
         /\ Cardinality(FirstOf(S, n)) <= n
         /\ FirstOf(S, n) # S => Cardinality(FirstOf(S, n)) = n
         /\ \A x \in FirstOf(S, n), y \in S : y <= x => y \in FirstOf(S, n)
  <1> DEFINE F == FirstOf(S, n)
  <1>1. F \subseteq S /\ IsFiniteSet(F) /\ Cardinality(F) \in Nat
    BY FS_Subset, FS_CardinalityType DEF FirstOf
  <1>2. ASSUME NEW x \in F, NEW y \in S, y <= x PROVE y \in F
    <2>1. x \in Nat /\ y \in Nat /\ Cardinality(Below(S, x)) < n
      BY <1>1, <1>2 DEF FirstOf
    <2>2. /\ Cardinality(Below(S, x)) \in Nat /\ Cardinality(Below(S, y)) \in Nat
          /\ Cardinality(Below(S, y)) <= Cardinality(Below(S, x))
      BY <2>1, <1>2, RankGrows
    <2>3. QED
      BY <2>1, <2>2 DEF FirstOf
  <1>3. Cardinality(F) <= n
    <2>1. CASE F = {}
      BY <2>1, FS_EmptySet
    <2>2. CASE F # {}
      <3>1. PICK m \in F : \A y \in F : y <= m
        BY <1>1, <2>2, GreatestExists
      <3>2. F \subseteq Below(S, m) \cup {m}
        <4> SUFFICES ASSUME NEW y \in F, y # m PROVE y \in S /\ y < m
          BY DEF Below
        <4>1. y \in Nat /\ m \in Nat
          BY <1>1
        <4>2. QED
          BY <1>1, <3>1, <4>1
      <3>3. Cardinality(Below(S, m)) < n /\ IsFiniteSet(Below(S, m)) /\ Cardinality(Below(S, m)) \in Nat
        BY <3>1, <1>1, RankGrows DEF FirstOf
      <3>4. /\ IsFiniteSet(Below(S, m) \cup {m})
            /\ Cardinality(Below(S, m) \cup {m}) <= Cardinality(Below(S, m)) + 1
        BY <3>3, FS_AddElement
      <3>5. Cardinality(F) <= Cardinality(Below(S, m) \cup {m})
        BY <3>2, <3>4, FS_Subset
      <3>6. Cardinality(Below(S, m) \cup {m}) \in Nat
        BY <3>4, FS_CardinalityType
      <3>7. QED
        BY <1>1, <3>3, <3>4, <3>5, <3>6
    <2>3. QED
      BY <2>1, <2>2
  <1>4. ASSUME F # S PROVE Cardinality(F) = n
    <2>1. PICK z \in S \ F : \A y \in S \ F : z <= y
      BY <1>1, <1>4, LeastExists
    <2>2. Below(S, z) \subseteq F
      <3> SUFFICES ASSUME NEW y \in S, y < z, y \notin F PROVE FALSE
        BY DEF Below
      <3>1. y \in Nat /\ z \in Nat /\ z <= y
        BY <2>1
      <3>2. QED
        BY <3>1
    <2>3. Cardinality(Below(S, z)) <= Cardinality(F)
      BY <1>1, <2>2, FS_Subset
    <2>4. Cardinality(Below(S, z)) >= n /\ Cardinality(Below(S, z)) \in Nat
      <3>1. Cardinality(Below(S, z)) \in Nat
        BY <2>1, RankGrows
      <3>2. QED
        BY <3>1, <2>1 DEF FirstOf
    <2>5. QED
      BY <1>1, <1>3, <2>3, <2>4
  <1>5. QED
    BY <1>1, <1>2, <1>3, <1>4
=============================================================================
