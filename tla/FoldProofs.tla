------------------------------ MODULE FoldProofs ------------------------------
(***************************************************************************)
(* Induction along a sequence, and what FoldLeft computes.                  *)
(*                                                                         *)
(* FoldLeft is a function on the subsets of the positions, so before it can *)
(* be unfolded there must be such a function: FoldExists has one for every  *)
(* step that stays within a set.  A module that folds an operator of its    *)
(* own concludes from it that the fold is the last of a chain of values     *)
(* which begins with the base and goes on by one step for each position.    *)
(***************************************************************************)
EXTENDS SequencesExt, WellFoundedInduction, TLAPS

\* What holds at 0 and from each number below n to the next holds up to n.
LEMMA UpTo ==
    ASSUME NEW n \in Nat, NEW S, 0 \in S, \A k \in 0 .. n - 1 : k \in S => k + 1 \in S
    PROVE  \A k \in 0 .. n : k \in S
<1> DEFINE T == {k \in 0 .. n : k \notin S}
           Below == {ss \in Nat \X Nat : ss[1] < ss[2]}
<1>1. SUFFICES T = {} OBVIOUS
<1>2. SUFFICES ASSUME T # {} PROVE FALSE OBVIOUS
<1>3. T \subseteq Nat OBVIOUS
<1>4. IsWellFoundedOn(Below, Nat) BY NatLessThanWellFounded, Zenon DEF OpToRel
<1>5. PICK k \in T : \A l \in T : ~(l < k)
  <2> HIDE DEF Below, T
  <2>1. PICK k \in T : \A l \in T : ~(<<l, k>> \in Below) BY <1>2, <1>3, <1>4, WFMin
  <2> USE DEF Below
  <2>2. \A l \in T : ~(l < k) BY <1>3, <2>1
  <2> QED BY <2>2
<1>6. k # 0 /\ k \in 0 .. n OBVIOUS
<1>7. k - 1 \in 0 .. n - 1 /\ k - 1 < k BY <1>6
<1>8. k - 1 \in S BY <1>5, <1>7
<1>9. (k - 1) + 1 \in S BY <1>7, <1>8
<1> QED BY <1>6, <1>9

-----------------------------------------------------------------------------
(* The greatest of the positions that are left.                             *)

LEMMA MaxIs ==
    ASSUME NEW m \in Nat, NEW s \in SUBSET (1 .. m), m \in s
    PROVE  Max(s) = m
<1>1. \A y \in s : m >= y OBVIOUS
<1>2. \E x \in s : \A y \in s : x >= y BY <1>1
<1>3. Max(s) \in s /\ Max(s) >= m BY <1>2, Zenon DEF Max
<1>4. Max(s) \in 1 .. m BY <1>3
<1> QED BY <1>3, <1>4

LEMMA MaxIn ==
    ASSUME NEW n \in Nat, NEW s \in SUBSET (1 .. n), s # {}
    PROVE  Max(s) \in s
<1> DEFINE S == {m \in Nat : \A u \in SUBSET (1 .. m) : u # {} => Max(u) \in u}
<1>1. 0 \in S
  <2>1. \A u \in SUBSET (1 .. 0) : u = {} OBVIOUS
  <2> QED BY <2>1
<1>2. ASSUME NEW m \in 0 .. n - 1, m \in S PROVE m + 1 \in S
  <2>1. ASSUME NEW u \in SUBSET (1 .. m + 1), u # {} PROVE Max(u) \in u
    <3>1. CASE m + 1 \in u
      <4>1. m + 1 \in Nat OBVIOUS
      <4> QED BY <3>1, <4>1, MaxIs
    <3>2. CASE m + 1 \notin u
      <4>1. u \in SUBSET (1 .. m) BY <3>2
      <4> QED BY <1>2, <2>1, <4>1
    <3> QED BY <3>1, <3>2
  <2> QED BY <2>1
<1> HIDE DEF S
<1>3. n \in S BY <1>1, <1>2, UpTo
<1> QED BY <1>3 DEF S

LEMMA MaxOfInterval ==
    ASSUME NEW k \in Nat \ {0}
    PROVE  1 .. k # {} /\ Max(1 .. k) = k /\ (1 .. k) \ {k} = 1 .. (k - 1)
<1>1. k \in 1 .. k OBVIOUS
<1>2. Max(1 .. k) = k BY <1>1, MaxIs
<1> QED BY <1>1, <1>2

-----------------------------------------------------------------------------
(* The function FoldLeft is defined by.                                     *)

Unfolds(it, R, b, n, G) ==
    /\ it \in [SUBSET (1 .. n) -> R]
    /\ \A s \in SUBSET (1 .. n) :
           it[s] = IF s = {} THEN b ELSE G[<<it[s \ {Max(s)}], Max(s)>>]

LEMMA FoldExists ==
    ASSUME NEW R, NEW b \in R, NEW n \in Nat, NEW G \in [R \X (1 .. n) -> R]
    PROVE  \E it : Unfolds(it, R, b, n, G)
<1> DEFINE Is(it, m) ==
              \A s \in SUBSET (1 .. m) :
                  it[s] = IF s = {} THEN b ELSE G[<<it[s \ {Max(s)}], Max(s)>>]
           S == {m \in 0 .. n : \E it \in [SUBSET (1 .. m) -> R] : Is(it, m)}
<1>1. 0 \in S
  <2> DEFINE it == [s \in SUBSET (1 .. 0) |-> b]
  <2>1. it \in [SUBSET (1 .. 0) -> R] OBVIOUS
  <2>2. \A s \in SUBSET (1 .. 0) : s = {} OBVIOUS
  <2>3. Is(it, 0) BY <2>2
  <2>4. 0 \in 0 .. n OBVIOUS
  <2> HIDE DEF it, Is
  <2> QED BY <2>1, <2>3, <2>4
<1>2. ASSUME NEW m \in 0 .. n - 1, m \in S PROVE m + 1 \in S
  <2>1. PICK it \in [SUBSET (1 .. m) -> R] : Is(it, m) BY <1>2, Zenon
  <2> DEFINE last(s) == G[<<it[s \ {m + 1}], m + 1>>]
             more == [s \in SUBSET (1 .. m + 1) |-> IF m + 1 \in s THEN last(s) ELSE it[s]]
  <2>2. \A s \in SUBSET (1 .. m + 1) : s \ {m + 1} \in SUBSET (1 .. m) OBVIOUS
  <2>3. \A s \in SUBSET (1 .. m + 1) : m + 1 \notin s => s \in SUBSET (1 .. m) OBVIOUS
  <2>4. m + 1 \in 1 .. n /\ m + 1 \in Nat OBVIOUS
  <2>5. \A s \in SUBSET (1 .. m + 1) : last(s) \in R
    <3> TAKE s \in SUBSET (1 .. m + 1)
    <3>1. it[s \ {m + 1}] \in R BY <2>2
    <3> QED BY <2>4, <3>1
  <2> HIDE DEF last
  <2>6. more \in [SUBSET (1 .. m + 1) -> R] BY <2>3, <2>5
  <2>7. ASSUME NEW s \in SUBSET (1 .. m + 1)
        PROVE  more[s] = IF s = {} THEN b ELSE G[<<more[s \ {Max(s)}], Max(s)>>]
    <3>1. CASE m + 1 \in s
      <4>1. Max(s) = m + 1 BY <2>4, <3>1, MaxIs
      <4>2. more[s \ {m + 1}] = it[s \ {m + 1}] BY <2>2
      <4>3. more[s] = last(s) /\ s # {} BY <3>1
      <4> QED BY <4>1, <4>2, <4>3 DEF last
    <3>2. CASE m + 1 \notin s
      <4>1. s \in SUBSET (1 .. m) BY <2>3, <3>2
      <4>2. s \ {Max(s)} \in SUBSET (1 .. m + 1) /\ m + 1 \notin s \ {Max(s)} BY <3>2
      <4>3. more[s] = it[s] BY <3>2
      <4>4. more[s \ {Max(s)}] = it[s \ {Max(s)}] BY <4>2
      <4>5. it[s] = IF s = {} THEN b ELSE G[<<it[s \ {Max(s)}], Max(s)>>] BY <2>1, <4>1
      <4> QED BY <4>3, <4>4, <4>5
    <3> QED BY <3>1, <3>2
  <2> HIDE DEF more
  <2>8. Is(more, m + 1) BY <2>7
  <2>9. m + 1 \in 0 .. n OBVIOUS
  <2> HIDE DEF Is
  <2> QED BY <2>6, <2>8, <2>9
<1> HIDE DEF S
<1>3. n \in S BY <1>1, <1>2, UpTo
<1>4. PICK it \in [SUBSET (1 .. n) -> R] : Is(it, n) BY <1>3 DEF S
<1>5. Unfolds(it, R, b, n, G) BY <1>4 DEF Unfolds
<1> QED BY <1>5

\* A function that is unfolded in the same way as long as it stays within R, and the
\* chain of its values.
Follows(it, R, b, n, G) ==
    /\ it[{}] = b
    /\ \A s \in SUBSET (1 .. n) :
           s # {} /\ it[s \ {Max(s)}] \in R => it[s] = G[<<it[s \ {Max(s)}], Max(s)>>]

IsChain(g, R, b, n, G, e) ==
    /\ g \in [0 .. n -> R] /\ g[0] = b /\ g[n] = e
    /\ \A k \in 1 .. n : g[k] = G[<<g[k - 1], k>>]

LEMMA FoldChain ==
    ASSUME NEW R, NEW b \in R, NEW n \in Nat, NEW G \in [R \X (1 .. n) -> R],
           NEW it, Follows(it, R, b, n, G)
    PROVE  \E g : IsChain(g, R, b, n, G, it[1 .. n])
<1> DEFINE S == {k \in 0 .. n : it[1 .. k] \in R}
<1>1. 1 .. 0 = {} /\ 0 \in 0 .. n /\ n \in 0 .. n OBVIOUS
<1>2. ASSUME NEW k \in 0 .. n - 1, it[1 .. k] \in R
      PROVE  it[1 .. (k + 1)] = G[<<it[1 .. k], k + 1>>] /\ it[1 .. (k + 1)] \in R
  <2>1. k + 1 \in Nat \ {0} /\ (k + 1) - 1 = k /\ k + 1 \in 1 .. n
        /\ 1 .. (k + 1) \in SUBSET (1 .. n)
    OBVIOUS
  <2> DEFINE s == 1 .. (k + 1)
  <2>2. s # {} /\ Max(s) = k + 1 /\ s \ {k + 1} = 1 .. k BY <2>1, MaxOfInterval
  <2>3. s \in SUBSET (1 .. n) BY <2>1
  <2> HIDE DEF s
  <2>4. it[s] = G[<<it[1 .. k], k + 1>>] BY <1>2, <2>2, <2>3 DEF Follows
  <2>5. G[<<it[1 .. k], k + 1>>] \in R BY <1>2, <2>1
  <2> QED BY <2>4, <2>5 DEF s
<1>3. \A k \in 0 .. n : k \in S
  <2>1. 0 \in S BY <1>1 DEF Follows
  <2>2. ASSUME NEW k \in 0 .. n - 1, k \in S PROVE k + 1 \in S
    <3>1. k + 1 \in 0 .. n OBVIOUS
    <3> QED BY <1>2, <2>2, <3>1
  <2> HIDE DEF S
  <2> QED BY <2>1, <2>2, UpTo
<1> DEFINE g == [k \in 0 .. n |-> it[1 .. k]]
<1>4. g \in [0 .. n -> R] BY <1>3
<1>5. ASSUME NEW k \in 1 .. n PROVE g[k] = G[<<g[k - 1], k>>]
  <2>1. k - 1 \in 0 .. n - 1 /\ (k - 1) + 1 = k /\ k - 1 \in 0 .. n /\ k \in 0 .. n OBVIOUS
  <2>2. it[1 .. (k - 1)] \in R BY <1>3, <2>1
  <2>3. it[1 .. ((k - 1) + 1)] = G[<<it[1 .. (k - 1)], (k - 1) + 1>>] BY <1>2, <2>1, <2>2
  <2> QED BY <2>1, <2>3
<1>6. g[0] = b /\ g[n] = it[1 .. n] BY <1>1 DEF Follows
<1>7. IsChain(g, R, b, n, G, it[1 .. n]) BY <1>4, <1>5, <1>6 DEF IsChain
<1> QED BY <1>7
=============================================================================
